---------------------------- MODULE MessageQueue ----------------------------
(***************************************************************************)
(* One message queue (others/queue.c) used by preemptible threads and by   *)
(* the kernel thread.  A thread's call is a sequence of steps, one for     *)
(* each group of statements that the queue's users can tell apart, and any *)
(* other thread may run between two of them.  The kernel thread receives   *)
(* with BASEPRI raised (thread_manage.c, init_func), so its receive is one *)
(* step.  Pointers count messages from queue_start; queue_end is Capacity. *)
(*                                                                         *)
(* Statements that only an overlapping call could tell apart share a step. *)
(*                                                                         *)
(* overlapped is a history variable: it becomes TRUE when a call gets past *)
(* its test of state while another call holds the queue, or after the      *)
(* count that it tested before state has become 0.  Nothing reads it, and  *)
(* nothing is claimed of the queue once it is TRUE.                        *)
(***************************************************************************)
EXTENDS Naturals, Sequences

CONSTANTS Threads,    \* preemptible threads that call the queue
          Kernel,     \* the kernel thread, which receives masked
          Messages,
          NoMessage,  \* a slot or a destination that was never written
          Capacity,
          NULL,
          UIntMax     \* the largest unsigned int

ASSUME CapacityAssumption == Capacity \in Nat \ {0}
ASSUME UIntMaxAssumption == UIntMax \in Nat /\ Capacity <= UIntMax
ASSUME NullAssumption == NULL \notin Nat
ASSUME KernelAssumption == Kernel \notin Threads

VARIABLES state,              \* READY, or BUSYING while a call is in the queue
          enqueued_number,
          available_storage,
          read_ptr,           \* NULL while nothing is enqueued
          write_ptr,
          buffer,             \* the storage between queue_start and queue_end
          dest,               \* where each receiver's message is copied
          para,               \* the message each thread is sending
          pc,
          overlapped

counts == <<enqueued_number, available_storage>>
ring == <<enqueued_number, available_storage, read_ptr, write_ptr, buffer>>
vars == <<state, ring, dest, para, pc, overlapped>>

Slots == 0 .. Capacity - 1
Receivers == Threads \cup {Kernel}

\* The program counters of a call that is past its test of state.
Claiming == {"send_claim", "receive_claim", "cleanup_claim"}
Working == {"send_copy", "send_count", "send_move", "receive_copy",
            "receive_count", "receive_move", "cleanup_reset", "release"}
Locations == {"idle", "send_state", "receive_state"} \cup Claiming \cup Working

Holds(t) == pc[t] \in Claiming \cup Working

Init == /\ state = "READY"
        /\ enqueued_number = 0
        /\ available_storage = Capacity
        /\ read_ptr = NULL
        /\ write_ptr = 0
        /\ buffer = [i \in Slots |-> NoMessage]
        /\ dest = [r \in Receivers |-> NoMessage]
        /\ para = [t \in Threads |-> NoMessage]
        /\ pc = [t \in Threads |-> "idle"]
        /\ overlapped = FALSE

Transition(t, from, to) == pc[t] = from /\ pc' = [pc EXCEPT ![t] = to]

\* Unsigned arithmetic, and the wrap of a pointer that reaches queue_end.
Succ(n) == IF n = UIntMax THEN 0 ELSE n + 1
Pred(n) == IF n = 0 THEN UIntMax ELSE n - 1
Wrap(p) == IF p = Capacity THEN 0 ELSE p

\* The test of state in the guard of a call: the call goes on, or returns an
\* error.  stale says that the count tested before has become 0 meanwhile.
TestState(t, from, to, stale) ==
  /\ Transition(t, from, IF state = "READY" THEN to ELSE "idle")
  /\ overlapped' = \/ overlapped
                   \/ /\ state = "READY"
                      /\ stale \/ \E u \in Threads \ {t} : Holds(u)
  /\ UNCHANGED <<state, ring, dest, para>>

Claim(t, from, to) == /\ Transition(t, from, to)
                      /\ state' = "BUSYING"
                      /\ UNCHANGED <<ring, dest, para, overlapped>>

Release(t) == /\ Transition(t, "release", "idle")
              /\ state' = "READY"
              /\ UNCHANGED <<ring, dest, para, overlapped>>

-----------------------------------------------------------------------------
\* os_queue_send.  With no storage left, or a state other than READY, the call
\* returns 0xFFFFFF00 and changes nothing.

SendTestStorage(t, m) == /\ available_storage # 0
                         /\ Transition(t, "idle", "send_state")
                         /\ para' = [para EXCEPT ![t] = m]
                         /\ UNCHANGED <<state, ring, dest, overlapped>>

SendTestState(t) ==
  TestState(t, "send_state", "send_claim", available_storage = 0)

SendClaim(t) == Claim(t, "send_claim", "send_copy")

SendCopy(t) ==
  /\ Transition(t, "send_copy", "send_count")
  /\ buffer' = [i \in Slots |-> IF i = write_ptr THEN para[t] ELSE buffer[i]]
  /\ read_ptr' = IF enqueued_number = 0 THEN write_ptr ELSE read_ptr
  /\ UNCHANGED <<state, counts, write_ptr, dest, para, overlapped>>

SendCount(t) == /\ Transition(t, "send_count", "send_move")
                /\ enqueued_number' = Succ(enqueued_number)
                /\ available_storage' = Pred(available_storage)
                /\ UNCHANGED <<state, read_ptr, write_ptr, buffer, dest, para,
                               overlapped>>

MoveWrite(t, p) == /\ Transition(t, "send_move", "release")
                   /\ write_ptr' = p
                   /\ UNCHANGED <<state, counts, read_ptr, buffer, dest, para,
                                  overlapped>>

SendMoveUnwrapped(t) == MoveWrite(t, write_ptr + 1)  \* a mutant of SendMove

SendMove(t) == MoveWrite(t, Wrap(write_ptr + 1))

-----------------------------------------------------------------------------
\* os_queue_receive.  With nothing enqueued, or a state other than READY, the
\* call returns 0xFFFFFF00 and changes nothing.

ReceiveTestNumber(t) == /\ enqueued_number # 0
                        /\ Transition(t, "idle", "receive_state")
                        /\ UNCHANGED <<state, ring, dest, para, overlapped>>

ReceiveTestState(t) ==
  TestState(t, "receive_state", "receive_claim", enqueued_number = 0)

ReceiveClaim(t) == Claim(t, "receive_claim", "receive_copy")

\* What memcpy finds at read_ptr: outside the storage it can be anything.
Fetched == IF read_ptr \in Slots THEN {buffer[read_ptr]}
           ELSE Messages \cup {NoMessage}

\* read_ptr after the message it points at has been counted out, when n stay.
NextRead(n) == IF n = 0 \/ read_ptr = NULL THEN NULL ELSE Wrap(read_ptr + 1)

ReceiveCopy(t) == /\ Transition(t, "receive_copy", "receive_count")
                  /\ \E m \in Fetched : dest' = [dest EXCEPT ![t] = m]
                  /\ UNCHANGED <<state, ring, para, overlapped>>

ReceiveCount(t) == /\ Transition(t, "receive_count", "receive_move")
                   /\ enqueued_number' = Pred(enqueued_number)
                   /\ available_storage' = Succ(available_storage)
                   /\ UNCHANGED <<state, read_ptr, write_ptr, buffer, dest,
                                  para, overlapped>>

ReceiveMove(t) == /\ Transition(t, "receive_move", "release")
                  /\ read_ptr' = NextRead(enqueued_number)
                  /\ UNCHANGED <<state, counts, write_ptr, buffer, dest, para,
                                 overlapped>>

\* The kernel thread's receive, with every switch of threads masked.  It takes
\* the queue from under a thread that tested state and has not claimed yet.
ReceiveMasked(guard) ==
  /\ guard
  /\ \E m \in Fetched : dest' = [dest EXCEPT ![Kernel] = m]
  /\ enqueued_number' = enqueued_number - 1
  /\ available_storage' = Succ(available_storage)
  /\ read_ptr' = NextRead(enqueued_number - 1)
  /\ overlapped' = \/ overlapped
                   \/ /\ enqueued_number = 1
                      /\ \E t \in Threads : pc[t] = "receive_claim"
  /\ UNCHANGED <<state, write_ptr, buffer, para, pc>>

MaskedReceiveOfNothing == ReceiveMasked(state = "READY")   \* two mutants of
MaskedReceiveWhileBusy == ReceiveMasked(enqueued_number # 0) \* MaskedReceive

MaskedReceive == ReceiveMasked(enqueued_number # 0 /\ state = "READY")

-----------------------------------------------------------------------------
\* queue_cleanup: empty the queue, if it is READY.

CleanupTestState(t) == TestState(t, "idle", "cleanup_claim", FALSE)

CleanupClaim(t) == Claim(t, "cleanup_claim", "cleanup_reset")

CleanupReset(t) == /\ Transition(t, "cleanup_reset", "release")
                   /\ available_storage' = Capacity
                   /\ enqueued_number' = 0
                   /\ write_ptr' = 0
                   /\ read_ptr' = NULL
                   /\ UNCHANGED <<state, buffer, dest, para, overlapped>>

-----------------------------------------------------------------------------
Send(t) == \/ \E m \in Messages : SendTestStorage(t, m)
           \/ SendTestState(t)
           \/ SendClaim(t)
           \/ SendCopy(t)
           \/ SendCount(t)
           \/ SendMove(t)

Receive(t) == \/ ReceiveTestNumber(t)
              \/ ReceiveTestState(t)
              \/ ReceiveClaim(t)
              \/ ReceiveCopy(t)
              \/ ReceiveCount(t)
              \/ ReceiveMove(t)

Cleanup(t) == \/ CleanupTestState(t)
              \/ CleanupClaim(t)
              \/ CleanupReset(t)

Next == \/ MaskedReceive
        \/ \E t \in Threads : Send(t) \/ Receive(t) \/ Cleanup(t) \/ Release(t)

Spec == Init /\ [][Next]_vars

-----------------------------------------------------------------------------
\* Every variable keeps its type: the counts are unsigned integers, and the
\* pointers are NULL or count messages from queue_start.
TypeOK == /\ state \in {"READY", "BUSYING"}
          /\ enqueued_number \in 0 .. UIntMax
          /\ available_storage \in 0 .. UIntMax
          /\ read_ptr \in Nat \cup {NULL}
          /\ write_ptr \in Nat
          /\ buffer \in [Slots -> Messages \cup {NoMessage}]
          /\ dest \in [Receivers -> Messages \cup {NoMessage}]
          /\ para \in [Threads -> Messages \cup {NoMessage}]
          /\ pc \in [Threads -> Locations]
          /\ overlapped \in BOOLEAN

\* w is where the message after the n messages that begin at r goes.
Follows(r, n, w) == /\ r \in Slots
                    /\ w \in Slots
                    /\ w = r + n \/ w = r + n - Capacity

\* The ring between calls: the two counts add up to the capacity, read_ptr is
\* NULL exactly when nothing is enqueued, and the write pointer is one message
\* behind the last of the enqueued ones.
AtRest ==
  /\ enqueued_number + available_storage = Capacity
  /\ write_ptr \in Slots
  /\ IF enqueued_number = 0 THEN read_ptr = NULL
     ELSE Follows(read_ptr, enqueued_number, write_ptr)

\* What the call of t may rely on at each of its steps, and leaves behind.
Phase(t) ==
  CASE pc[t] \in {"send_claim", "send_copy"} ->
         AtRest /\ available_storage # 0
    [] pc[t] = "send_count" ->
         /\ enqueued_number + available_storage = Capacity
         /\ available_storage # 0
         /\ Follows(read_ptr, enqueued_number, write_ptr)
    [] pc[t] = "send_move" ->
         /\ enqueued_number + available_storage = Capacity
         /\ enqueued_number # 0
         /\ Follows(read_ptr, enqueued_number - 1, write_ptr)
    [] pc[t] \in {"receive_claim", "receive_copy", "receive_count"} ->
         AtRest /\ enqueued_number # 0
    [] pc[t] = "receive_move" ->
         /\ enqueued_number + available_storage = Capacity
         /\ available_storage # 0
         /\ Follows(read_ptr, enqueued_number + 1, write_ptr)
    [] OTHER -> AtRest

\* As long as no two calls have been past their tests of state together: one
\* call at most is in the queue, state is BUSYING exactly while it works, its
\* guard still holds when it claims the queue even though the kernel thread
\* may have received in between, and between calls the ring is AtRest.
RingSound ==
  ~overlapped =>
    /\ \A t, u \in Threads : Holds(t) /\ Holds(u) => t = u
    /\ state = "BUSYING" <=> \E t \in Threads : pc[t] \in Working
    /\ \A t \in Threads : Holds(t) => Phase(t)
    /\ (\A t \in Threads : ~Holds(t)) => AtRest

-----------------------------------------------------------------------------
\* The queue as a sequence: a message enters when a send counts it in, and
\* leaves when a receive has copied it out.
At(loc) == \E t \in Threads : pc[t] = loc
First == IF At("receive_count") \/ At("receive_move")
         THEN Wrap(read_ptr + 1) ELSE read_ptr
Stored == IF At("receive_count") THEN enqueued_number - 1 ELSE enqueued_number
Contents ==
  [i \in 1 .. Stored |->
     buffer[IF First + i - 1 < Capacity THEN First + i - 1
            ELSE First + i - 1 - Capacity]]

Accepted == IF overlapped THEN <<>> ELSE Contents

Fifo == INSTANCE BoundedFifo WITH fifo <- Accepted, broken <- overlapped

\* The ring with its pointers, counts and BUSYING flag is a bounded FIFO: no
\* message accepted by os_queue_send is lost, duplicated, reordered or handed
\* to two receivers, until two calls overlap.
IsFifo == Fifo!Spec
=============================================================================
