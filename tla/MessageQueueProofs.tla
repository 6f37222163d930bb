------------------------- MODULE MessageQueueProofs -------------------------
(***************************************************************************)
(* Proofs about MessageQueue, for every set of threads, every capacity and *)
(* every message: type correctness, and, as long as no two calls overlap,  *)
(* the soundness of the ring and that it is a FIFO.                        *)
(***************************************************************************)
EXTENDS MessageQueue, SequenceTheorems, TLAPS

\* A queue that os_queue_create has just made is well typed.
LEMMA InitType == Init => TypeOK
<1> SUFFICES ASSUME Init PROVE TypeOK
    OBVIOUS
<1>1. /\ enqueued_number \in 0 .. UIntMax
      /\ available_storage \in 0 .. UIntMax
      /\ read_ptr \in Nat \cup {NULL}
      /\ write_ptr \in Nat
  BY CapacityAssumption, UIntMaxAssumption DEF Init
<1>2. /\ state \in {"READY", "BUSYING"}
      /\ buffer \in [Slots -> Messages \cup {NoMessage}]
      /\ dest \in [Receivers -> Messages \cup {NoMessage}]
      /\ para \in [Threads -> Messages \cup {NoMessage}]
      /\ pc \in [Threads -> Locations]
      /\ overlapped \in BOOLEAN
  BY DEF Init, Locations
<1> QED
  BY <1>1, <1>2 DEF TypeOK

\* Every statement of a call keeps the types, overlapping calls included:
\* the counts wrap like unsigned integers.
LEMMA NextType == TypeOK /\ [Next]_vars => TypeOK'
<1> SUFFICES ASSUME TypeOK, [Next]_vars PROVE TypeOK'
    OBVIOUS
<1> USE CapacityAssumption, UIntMaxAssumption
<1>1. CASE UNCHANGED vars
  BY <1>1 DEF TypeOK, vars, ring
<1>2. CASE MaskedReceive
  BY <1>2
  DEF MaskedReceive, ReceiveMasked, TypeOK, Fetched, NextRead, Wrap, Succ,
      Slots, Receivers
<1>3. ASSUME NEW t \in Threads, Send(t) PROVE TypeOK'
  <2>1. ASSUME NEW m \in Messages, SendTestStorage(t, m) PROVE TypeOK'
    BY <2>1 DEF SendTestStorage, Transition, TypeOK, ring, Locations
  <2>2. CASE SendTestState(t)
    BY <2>2 DEF SendTestState, TestState, Transition, TypeOK, ring, Locations,
                Claiming
  <2>3. CASE SendClaim(t)
    BY <2>3 DEF SendClaim, Claim, Transition, TypeOK, ring, Locations, Working
  <2>4. CASE SendCopy(t)
    BY <2>4 DEF SendCopy, Transition, TypeOK, counts, Locations, Working, Slots
  <2>5. CASE SendCount(t)
    BY <2>5 DEF SendCount, Transition, TypeOK, Succ, Pred, Locations, Working
  <2>6. CASE SendMove(t)
    BY <2>6
    DEF SendMove, MoveWrite, Transition, TypeOK, counts, Wrap, Locations,
        Working
  <2> QED
    BY <1>3, <2>1, <2>2, <2>3, <2>4, <2>5, <2>6 DEF Send
<1>4. ASSUME NEW t \in Threads, Receive(t) PROVE TypeOK'
  <2>1. CASE ReceiveTestNumber(t)
    BY <2>1 DEF ReceiveTestNumber, Transition, TypeOK, ring, Locations
  <2>2. CASE ReceiveTestState(t)
    BY <2>2 DEF ReceiveTestState, TestState, Transition, TypeOK, ring,
                Locations, Claiming
  <2>3. CASE ReceiveClaim(t)
    BY <2>3 DEF ReceiveClaim, Claim, Transition, TypeOK, ring, Locations,
                Working
  <2>4. CASE ReceiveCopy(t)
    BY <2>4 DEF ReceiveCopy, Fetched, Transition, TypeOK, ring, Locations,
                Working, Receivers
  <2>5. CASE ReceiveCount(t)
    BY <2>5 DEF ReceiveCount, Transition, TypeOK, Succ, Pred, Locations,
                Working
  <2>6. CASE ReceiveMove(t)
    BY <2>6 DEF ReceiveMove, Transition, TypeOK, counts, NextRead, Wrap,
                Locations, Working
  <2> QED
    BY <1>4, <2>1, <2>2, <2>3, <2>4, <2>5, <2>6 DEF Receive
<1>5. ASSUME NEW t \in Threads, Cleanup(t) PROVE TypeOK'
  <2>1. CASE CleanupTestState(t)
    BY <2>1 DEF CleanupTestState, TestState, Transition, TypeOK, ring,
                Locations, Claiming
  <2>2. CASE CleanupClaim(t)
    BY <2>2 DEF CleanupClaim, Claim, Transition, TypeOK, ring, Locations,
                Working
  <2>3. CASE CleanupReset(t)
    BY <2>3 DEF CleanupReset, Transition, TypeOK, Locations, Working
  <2> QED
    BY <1>5, <2>1, <2>2, <2>3 DEF Cleanup
<1>6. ASSUME NEW t \in Threads, Release(t) PROVE TypeOK'
  BY <1>6 DEF Release, Transition, TypeOK, ring, Locations
<1> QED
  BY <1>1, <1>2, <1>3, <1>4, <1>5, <1>6 DEF Next

\* Type correctness of the queue (others/queue.c), overlapped calls included.
THEOREM TypeCorrect == Spec => []TypeOK
<1>1. Init => TypeOK
  BY InitType
<1>2. TypeOK /\ [Next]_vars => TypeOK'
  BY NextType
<1> QED
  BY <1>1, <1>2, PTL DEF Spec

-----------------------------------------------------------------------------
\* The inductive invariant is RingSound with the types.  Its four parts:
Exclusive == \A t, u \in Threads : Holds(t) /\ Holds(u) => t = u
BusyWhileWorking == state = "BUSYING" <=> \E t \in Threads : pc[t] \in Working
Phases == \A t \in Threads : Holds(t) => Phase(t)
Rested == (\A t \in Threads : ~Holds(t)) => AtRest

Sound == Exclusive /\ BusyWhileWorking /\ Phases /\ Rested

\* Sound is RingSound without its condition, cut into named parts.
LEMMA SoundIsRingSound == RingSound <=> (~overlapped => Sound)
  BY DEF RingSound, Sound, Exclusive, BusyWhileWorking, Phases, Rested

\* An empty queue that nobody uses is sound.
LEMMA InitSound == Init => RingSound
  BY CapacityAssumption
  DEF Init, RingSound, Holds, Claiming, Working, AtRest, Slots

\* A step of t that stays in one call keeps the ring sound if it keeps the
\* phase of t: nobody else holds the queue.
LEMMA HolderStep ==
  ASSUME TypeOK, Sound, NEW t \in Threads, NEW to \in Claiming \cup Working,
         Holds(t), pc' = [pc EXCEPT ![t] = to],
         Phase(t)', state' = IF to \in Working THEN "BUSYING" ELSE "READY"
  PROVE  Sound'
<1>1. /\ pc'[t] = to
      /\ \A u \in Threads \ {t} : pc'[u] = pc[u] /\ ~Holds(u)
  BY DEF TypeOK, Sound, Exclusive
<1>2. \A u \in Threads : Holds(u)' => u = t
  BY <1>1 DEF Holds
<1>3. Exclusive' /\ Phases' /\ Rested'
  BY <1>1, <1>2 DEF Exclusive, Phases, Rested, Holds
<1>4. BusyWhileWorking'
  BY <1>1 DEF BusyWhileWorking, Holds
<1> QED
  BY <1>3, <1>4 DEF Sound

\* A thread gets past its test of state only while nobody holds the queue.
LEMMA EnterStep ==
  ASSUME TypeOK, Sound, NEW t \in Threads, NEW to \in Claiming,
         state = "READY", UNCHANGED <<state, ring>>,
         \A u \in Threads \ {t} : ~Holds(u), ~Holds(t),
         pc' = [pc EXCEPT ![t] = to],
         AtRest => Phase(t)'
  PROVE  Sound'
<1>1. /\ pc'[t] = to
      /\ \A u \in Threads \ {t} : pc'[u] = pc[u] /\ ~Holds(u)
  BY DEF TypeOK
<1>2. \A u \in Threads : Holds(u)' => u = t
  BY <1>1 DEF Holds
<1>3. AtRest
  BY DEF Sound, Rested
<1>4. Exclusive' /\ Phases' /\ Rested'
  BY <1>1, <1>2, <1>3 DEF Exclusive, Phases, Rested, Holds
<1>5. BusyWhileWorking'
  BY <1>1 DEF BusyWhileWorking, Holds, Claiming, Working
<1> QED
  BY <1>4, <1>5 DEF Sound

\* A step of a thread outside the queue that keeps it outside.
LEMMA OutsideStep ==
  ASSUME TypeOK, Sound, NEW t \in Threads,
         NEW to \in Locations \ (Claiming \cup Working),
         UNCHANGED <<state, ring>>, ~Holds(t),
         pc' = [pc EXCEPT ![t] = to]
  PROVE  Sound'
<1>1. /\ pc'[t] = to /\ ~Holds(t)'
      /\ \A u \in Threads \ {t} : pc'[u] = pc[u]
  BY DEF TypeOK, Holds
<1>2. \A u \in Threads : Holds(u)' <=> Holds(u)
  BY <1>1 DEF Holds
<1>3. AtRest' <=> AtRest
  BY DEF AtRest, ring, Follows
<1>4. \A u \in Threads \ {t} : Phase(u)' <=> Phase(u)
  BY <1>1, <1>3 DEF Phase, ring, Follows
<1>5. Exclusive' /\ Phases' /\ Rested'
  BY <1>1, <1>2, <1>3, <1>4 DEF Sound, Exclusive, Phases, Rested
<1>6. BusyWhileWorking'
  BY <1>1 DEF Sound, BusyWhileWorking, Holds, ring
<1> QED
  BY <1>5, <1>6 DEF Sound

\* A test of state: a refused call leaves, an accepted one enters.
LEMMA TestStep ==
  ASSUME TypeOK, Sound, NEW t \in Threads, NEW from, NEW to \in Claiming,
         NEW stale, TestState(t, from, to, stale), ~overlapped',
         from \notin Claiming \cup Working,
         AtRest /\ ~stale /\ UNCHANGED ring /\ pc'[t] = to => Phase(t)'
  PROVE  Sound'
<1>0. ~Holds(t)
  BY DEF TestState, Transition, Holds
<1>1. CASE state = "READY"
  <2>1. ~stale /\ \A u \in Threads \ {t} : ~Holds(u)
    BY <1>1 DEF TestState
  <2>2. pc' = [pc EXCEPT ![t] = to] /\ pc'[t] = to
    BY <1>1 DEF TestState, Transition, TypeOK
  <2>3. UNCHANGED <<state, ring>> /\ UNCHANGED ring
    BY DEF TestState
  <2> QED
    BY <1>0, <1>1, <2>1, <2>2, <2>3, EnterStep
<1>2. CASE state # "READY"
  BY <1>0, <1>2, OutsideStep DEF TestState, Transition, Locations, Claiming,
     Working
<1> QED
  BY <1>1, <1>2

\* Every statement of os_queue_send keeps the ring sound: the counts and the
\* write pointer pass from one phase to the next.
LEMMA SendSound ==
  ASSUME TypeOK, Sound, NEW t \in Threads, Send(t), ~overlapped'
  PROVE  Sound'
<1> USE CapacityAssumption, UIntMaxAssumption
<1>1. ASSUME NEW m \in Messages, SendTestStorage(t, m) PROVE Sound'
  BY <1>1, OutsideStep
  DEF SendTestStorage, Transition, Holds, Locations, Claiming, Working
<1>2. CASE SendTestState(t)
  <2>1. AtRest /\ ~(available_storage = 0) /\ UNCHANGED ring
          /\ pc'[t] = "send_claim" => Phase(t)'
    BY DEF Phase, AtRest, Follows, ring
  <2> QED
    BY <1>2, <2>1, TestStep DEF SendTestState, Claiming, Working
<1>3. CASE SendClaim(t)
  <2>1. Holds(t) /\ Phase(t) /\ pc'[t] = "send_copy"
    BY <1>3 DEF SendClaim, Claim, Transition, Holds, Claiming, Sound, Phases,
                TypeOK
  <2>2. Phase(t)'
    BY <1>3, <2>1 DEF SendClaim, Claim, Transition, Phase, AtRest, Follows,
                      ring
  <2> QED
    BY <1>3, <2>1, <2>2, HolderStep
    DEF SendClaim, Claim, Transition, Working
<1>4. CASE SendCopy(t)
  <2>1. Holds(t) /\ Phase(t) /\ pc'[t] = "send_count"
    BY <1>4 DEF SendCopy, Transition, Holds, Working, Sound, Phases, TypeOK
  <2>2. Phase(t)'
    BY <1>4, <2>1 DEF SendCopy, Transition, Phase, AtRest, Follows, counts,
                      Slots, TypeOK
  <2>3. state' = "BUSYING"
    BY <1>4 DEF SendCopy, Transition, Working, Sound, BusyWhileWorking
  <2> QED
    BY <1>4, <2>1, <2>2, <2>3, HolderStep DEF SendCopy, Transition, Working
<1>5. CASE SendCount(t)
  <2>1. Holds(t) /\ Phase(t) /\ pc'[t] = "send_move"
    BY <1>5 DEF SendCount, Transition, Holds, Working, Sound, Phases, TypeOK
  <2>2. Phase(t)'
    BY <1>5, <2>1 DEF SendCount, Transition, Phase, Follows, Succ, Pred,
                      Slots, TypeOK
  <2>3. state' = "BUSYING"
    BY <1>5 DEF SendCount, Transition, Working, Sound, BusyWhileWorking
  <2> QED
    BY <1>5, <2>1, <2>2, <2>3, HolderStep DEF SendCount, Transition, Working
<1>6. CASE SendMove(t)
  <2>1. Holds(t) /\ Phase(t) /\ pc'[t] = "release"
    BY <1>6
    DEF SendMove, MoveWrite, Transition, Holds, Working, Sound, Phases, TypeOK
  <2>2. Phase(t)'
    BY SMTT(30), <1>6, <2>1
    DEF SendMove, MoveWrite, Transition, Phase, AtRest, Follows, Wrap, counts,
        Slots, TypeOK
  <2>3. state' = "BUSYING"
    BY <1>6
    DEF SendMove, MoveWrite, Transition, Working, Sound, BusyWhileWorking
  <2> QED
    BY <1>6, <2>1, <2>2, <2>3, HolderStep
    DEF SendMove, MoveWrite, Transition, Working
<1> QED
  BY <1>1, <1>2, <1>3, <1>4, <1>5, <1>6 DEF Send

\* Every statement of os_queue_receive keeps the ring sound.
LEMMA ReceiveSound ==
  ASSUME TypeOK, Sound, NEW t \in Threads, Receive(t), ~overlapped'
  PROVE  Sound'
<1> USE CapacityAssumption, UIntMaxAssumption, NullAssumption
<1>1. CASE ReceiveTestNumber(t)
  BY <1>1, OutsideStep
  DEF ReceiveTestNumber, Transition, Holds, Locations, Claiming, Working
<1>2. CASE ReceiveTestState(t)
  <2>1. AtRest /\ ~(enqueued_number = 0) /\ UNCHANGED ring
          /\ pc'[t] = "receive_claim" => Phase(t)'
    BY DEF Phase, AtRest, Follows, ring
  <2> QED
    BY <1>2, <2>1, TestStep DEF ReceiveTestState, Claiming, Working
<1>3. CASE ReceiveClaim(t)
  <2>1. Holds(t) /\ Phase(t) /\ pc'[t] = "receive_copy"
    BY <1>3 DEF ReceiveClaim, Claim, Transition, Holds, Claiming, Sound,
                Phases, TypeOK
  <2>2. Phase(t)'
    BY <1>3, <2>1 DEF ReceiveClaim, Claim, Transition, Phase, AtRest, Follows,
                      ring
  <2> QED
    BY <1>3, <2>1, <2>2, HolderStep
    DEF ReceiveClaim, Claim, Transition, Working
<1>4. CASE ReceiveCopy(t)
  <2>1. Holds(t) /\ Phase(t) /\ pc'[t] = "receive_count"
    BY <1>4 DEF ReceiveCopy, Transition, Holds, Working, Sound, Phases, TypeOK
  <2>2. Phase(t)'
    BY <1>4, <2>1 DEF ReceiveCopy, Transition, Phase, AtRest, Follows, ring
  <2>3. state' = "BUSYING"
    BY <1>4 DEF ReceiveCopy, Transition, Working, Sound, BusyWhileWorking
  <2> QED
    BY <1>4, <2>1, <2>2, <2>3, HolderStep DEF ReceiveCopy, Transition, Working
<1>5. CASE ReceiveCount(t)
  <2>1. Holds(t) /\ Phase(t) /\ pc'[t] = "receive_move"
    BY <1>5 DEF ReceiveCount, Transition, Holds, Working, Sound, Phases, TypeOK
  <2>2. Phase(t)'
    BY <1>5, <2>1 DEF ReceiveCount, Transition, Phase, AtRest, Follows, Succ,
                      Pred, Slots, TypeOK
  <2>3. state' = "BUSYING"
    BY <1>5 DEF ReceiveCount, Transition, Working, Sound, BusyWhileWorking
  <2> QED
    BY <1>5, <2>1, <2>2, <2>3, HolderStep
    DEF ReceiveCount, Transition, Working
<1>6. CASE ReceiveMove(t)
  <2>1. Holds(t) /\ Phase(t) /\ pc'[t] = "release"
    BY <1>6 DEF ReceiveMove, Transition, Holds, Working, Sound, Phases, TypeOK
  <2>2. Phase(t)'
    <3>1. /\ enqueued_number + available_storage = Capacity
          /\ Follows(read_ptr, enqueued_number + 1, write_ptr)
      BY <1>6, <2>1 DEF ReceiveMove, Transition, Phase
    <3>2. /\ UNCHANGED counts /\ UNCHANGED write_ptr
          /\ read_ptr' = NextRead(enqueued_number)
      BY <1>6 DEF ReceiveMove
    <3>3. read_ptr # NULL
      BY <3>1 DEF Follows, Slots
    <3>4. AtRest'
      BY <3>1, <3>2, <3>3 DEF AtRest, NextRead, Follows, Wrap, counts, Slots,
                              TypeOK
    <3> QED
      BY <2>1, <3>4 DEF Phase
  <2>3. state' = "BUSYING"
    BY <1>6 DEF ReceiveMove, Transition, Working, Sound, BusyWhileWorking
  <2> QED
    BY <1>6, <2>1, <2>2, <2>3, HolderStep DEF ReceiveMove, Transition, Working
<1> QED
  BY <1>1, <1>2, <1>3, <1>4, <1>5, <1>6 DEF Receive

\* Every statement of queue_cleanup keeps the ring sound.
LEMMA CleanupSound ==
  ASSUME TypeOK, Sound, NEW t \in Threads, Cleanup(t), ~overlapped'
  PROVE  Sound'
<1> USE CapacityAssumption
<1>1. CASE CleanupTestState(t)
  <2>1. AtRest /\ ~FALSE /\ UNCHANGED ring /\ pc'[t] = "cleanup_claim"
          => Phase(t)'
    BY DEF Phase, AtRest, Follows, ring
  <2> QED
    BY <1>1, <2>1, TestStep DEF CleanupTestState, Claiming, Working
<1>2. CASE CleanupClaim(t)
  <2>1. Holds(t) /\ Phase(t) /\ pc'[t] = "cleanup_reset"
    BY <1>2 DEF CleanupClaim, Claim, Transition, Holds, Claiming, Sound,
                Phases, TypeOK
  <2>2. Phase(t)'
    BY <1>2, <2>1 DEF CleanupClaim, Claim, Transition, Phase, AtRest, Follows,
                      ring
  <2> QED
    BY <1>2, <2>1, <2>2, HolderStep
    DEF CleanupClaim, Claim, Transition, Working
<1>3. CASE CleanupReset(t)
  <2>1. Holds(t) /\ pc'[t] = "release"
    BY <1>3 DEF CleanupReset, Transition, Holds, Working, TypeOK
  <2>2. Phase(t)'
    BY <1>3, <2>1 DEF CleanupReset, Transition, Phase, AtRest, Slots
  <2>3. state' = "BUSYING"
    BY <1>3 DEF CleanupReset, Transition, Working, Sound, BusyWhileWorking
  <2> QED
    BY <1>3, <2>1, <2>2, <2>3, HolderStep
    DEF CleanupReset, Transition, Working
<1> QED
  BY <1>1, <1>2, <1>3 DEF Cleanup

\* The last statement of a call leaves the ring at rest and READY.
LEMMA ReleaseSound ==
  ASSUME TypeOK, Sound, NEW t \in Threads, Release(t)
  PROVE  Sound'
<1>1. /\ pc'[t] = "idle" /\ ~Holds(t)'
      /\ \A u \in Threads \ {t} : pc'[u] = pc[u] /\ ~Holds(u)
      /\ Holds(t) /\ Phase(t) /\ pc[t] = "release"
  BY DEF Release, Transition, Sound, Exclusive, Phases, Holds, Claiming,
         Working, TypeOK
<1>2. \A u \in Threads : ~Holds(u)'
  BY <1>1 DEF Holds
<1>3. AtRest'
  BY <1>1 DEF Phase, AtRest, Follows, Release, ring
<1>4. BusyWhileWorking'
  BY <1>2 DEF BusyWhileWorking, Holds, Release
<1> QED
  BY <1>2, <1>3, <1>4 DEF Sound, Exclusive, Phases, Rested

\* The kernel thread's receive finds either nobody in the queue, or a thread
\* that has tested state but not claimed yet: its guard survives the receive.
LEMMA MaskedSound ==
  ASSUME TypeOK, Sound, MaskedReceive, ~overlapped'
  PROVE  Sound'
<1> USE CapacityAssumption, UIntMaxAssumption, NullAssumption
<1>1. UNCHANGED pc /\ UNCHANGED state
  BY DEF MaskedReceive, ReceiveMasked
<1>2. Exclusive' /\ BusyWhileWorking'
  BY <1>1 DEF Sound, Exclusive, BusyWhileWorking, Holds
<1>3. AtRest => AtRest' /\ available_storage' # 0
  BY SMTT(30) DEF MaskedReceive, ReceiveMasked, AtRest, Follows, NextRead, Wrap, Succ,
         Slots, TypeOK
<1>4. ASSUME NEW t \in Threads, Holds(t) PROVE Phase(t)'
  <2>1. pc[t] \in Claiming /\ Phase(t)
    BY <1>4
    DEF Sound, BusyWhileWorking, Phases, MaskedReceive, ReceiveMasked, Holds
  <2>2. AtRest
    BY <2>1 DEF Phase, Claiming
  <2>3. pc[t] = "receive_claim" => enqueued_number' # 0
    BY <2>1 DEF MaskedReceive, ReceiveMasked, TypeOK
  <2> QED
    BY <1>1, <1>3, <2>1, <2>2, <2>3 DEF Phase, Claiming
<1>5. Phases' /\ Rested'
  BY <1>1, <1>3, <1>4 DEF Sound, Phases, Rested, Holds
<1> QED
  BY <1>2, <1>5 DEF Sound

\* What two overlapping calls have done to the queue is never undone.
LEMMA NeverMends == [Next]_vars /\ overlapped => overlapped'
  BY DEF Next, vars, MaskedReceive, ReceiveMasked, Send, SendTestStorage,
         SendTestState, SendClaim, SendCopy, SendCount, SendMove, MoveWrite,
         Receive, ReceiveTestNumber, ReceiveTestState, ReceiveClaim,
         ReceiveCopy, ReceiveCount, ReceiveMove, Cleanup, CleanupTestState,
         CleanupClaim, CleanupReset, Release, TestState, Claim

\* RingSound is inductive once the types are known.
LEMMA NextSound == TypeOK /\ RingSound /\ [Next]_vars => RingSound'
<1> SUFFICES ASSUME TypeOK, RingSound, [Next]_vars, ~overlapped' PROVE Sound'
    BY SoundIsRingSound
    DEF RingSound, Sound, Exclusive, BusyWhileWorking, Phases, Rested
<1>1. ~overlapped
  BY NeverMends
<1>2. Sound
  BY <1>1, SoundIsRingSound
<1>3. CASE UNCHANGED vars
  BY <1>2, <1>3 DEF vars, ring, Sound, Exclusive, BusyWhileWorking, Phases,
     Rested, Holds, Phase, AtRest, Follows
<1> QED
  BY <1>2, <1>3, MaskedSound, SendSound, ReceiveSound, CleanupSound,
     ReleaseSound DEF Next

\* Until two calls of others/queue.c overlap past their READY tests, calls
\* exclude each other, state says whether one is working, every call finds
\* the ring as its guard left it, and the ring's counts and pointers agree.
THEOREM RingAlwaysSound == Spec => []RingSound
<1>1. Init => TypeOK /\ RingSound
  BY InitType, InitSound
<1>2. TypeOK /\ RingSound /\ [Next]_vars => (TypeOK /\ RingSound)'
  BY NextType, NextSound
<1> QED
  BY <1>1, <1>2, PTL DEF Spec

-----------------------------------------------------------------------------
(***************************************************************************)
(* MessageQueue implements BoundedFifo: the messages that the ring holds   *)
(* behave as a bounded sequence, until two calls overlap.                  *)
(*                                                                         *)
(* The abstract sequence is read from the ring (Contents).  Which steps of *)
(* a call change it is a matter of the phase the call is in: the counting  *)
(* step of a send appends, the copying step of a receive takes, the reset  *)
(* of a cleanup clears, and every other step leaves it alone, though it    *)
(* changes the counts, the pointers and the storage it is read from.       *)
(***************************************************************************)

\* The slot i messages behind slot r, and the n messages from slot r on.
Slot(r, i) == IF r + i < Capacity THEN r + i ELSE r + i - Capacity
View(buf, r, n) == [i \in 1 .. n |-> buf[Slot(r, i - 1)]]

LEMMA SlotType ==
  ASSUME NEW r \in Slots, NEW i \in 0 .. Capacity
  PROVE  Slot(r, i) \in Slots
  BY CapacityAssumption DEF Slots, Slot

\* The slots of a ring that is not full are all different.
LEMMA SlotsDiffer ==
  ASSUME NEW r \in Slots, NEW i \in 0 .. Capacity - 1,
         NEW j \in 0 .. Capacity - 1, i # j
  PROVE  Slot(r, i) # Slot(r, j)
  BY CapacityAssumption DEF Slots, Slot

LEMMA ViewType ==
  ASSUME NEW S, NEW buf \in [Slots -> S], NEW r \in Slots,
         NEW n \in 0 .. Capacity
  PROVE  View(buf, r, n) \in Seq(S) /\ Len(View(buf, r, n)) = n
<1>1. n \in Nat
  BY CapacityAssumption
<1>2. ASSUME NEW i \in 1 .. n PROVE buf[Slot(r, i - 1)] \in S
  <2>1. i - 1 \in 0 .. Capacity
    BY CapacityAssumption
  <2> QED
    BY <2>1, SlotType
<1>3. View(buf, r, n) \in [1 .. n -> S]
  BY <1>2 DEF View
<1> QED
  BY <1>1, <1>3

\* Nothing is in an empty ring, wherever its pointers are.
LEMMA ViewEmpty ==
  ASSUME NEW buf, NEW r
  PROVE  View(buf, r, 0) = <<>>
  BY DEF View

\* One message more is one message at the end.
LEMMA ViewAppend ==
  ASSUME NEW S, NEW buf \in [Slots -> S], NEW r \in Slots,
         NEW n \in 0 .. Capacity - 1
  PROVE  View(buf, r, n + 1) = Append(View(buf, r, n), buf[Slot(r, n)])
<1>0. n \in Nat /\ n + 1 \in 0 .. Capacity /\ n \in 0 .. Capacity
  BY CapacityAssumption
<1>1. /\ View(buf, r, n) \in Seq(S) /\ Len(View(buf, r, n)) = n
      /\ View(buf, r, n + 1) \in Seq(S) /\ Len(View(buf, r, n + 1)) = n + 1
  BY <1>0, ViewType
<1>2. buf[Slot(r, n)] \in S
  BY <1>0, SlotType
<1> SUFFICES ASSUME NEW s, s = Append(View(buf, r, n), buf[Slot(r, n)])
             PROVE  View(buf, r, n + 1) = s
  OBVIOUS
<1>3. s \in Seq(S) /\ Len(s) = n + 1
  BY <1>1, <1>2
<1>4. ASSUME NEW i \in 1 .. n + 1 PROVE View(buf, r, n + 1)[i] = s[i]
  <2>1. CASE i = n + 1
    <3>1. s[i] = buf[Slot(r, n)]
      BY <1>0, <1>1, <1>2, <2>1
    <3>2. View(buf, r, n + 1)[i] = buf[Slot(r, i - 1)] /\ i - 1 = n
      BY <1>0, <2>1 DEF View
    <3> QED
      BY <3>1, <3>2
  <2>2. CASE i \in 1 .. n
    <3>1. s[i] = View(buf, r, n)[i]
      BY <1>0, <1>1, <1>2, <2>2
    <3> QED
      BY <2>2, <3>1 DEF View
  <2>3. i = n + 1 \/ i \in 1 .. n
    BY <1>0
  <2> QED
    BY <2>1, <2>2, <2>3
<1> QED
  BY <1>1, <1>3, <1>4, SeqEqual

\* One message less is the ring from the next slot on.
LEMMA ViewTail ==
  ASSUME NEW S, NEW buf \in [Slots -> S], NEW r \in Slots,
         NEW n \in 1 .. Capacity
  PROVE  /\ View(buf, r, n) # <<>>
         /\ Head(View(buf, r, n)) = buf[r]
         /\ Tail(View(buf, r, n)) = View(buf, Wrap(r + 1), n - 1)
<1>0. /\ n \in Nat \ {0} /\ n \in 0 .. Capacity /\ n - 1 \in 0 .. Capacity
      /\ Wrap(r + 1) \in Slots
  BY CapacityAssumption DEF Wrap, Slots
<1> DEFINE s == View(buf, r, n)
           u == View(buf, Wrap(r + 1), n - 1)
<1>1. /\ s \in Seq(S) /\ Len(s) = n
      /\ u \in Seq(S) /\ Len(u) = n - 1
  BY <1>0, ViewType
<1>2. s # <<>> /\ Tail(s) \in Seq(S) /\ Len(Tail(s)) = n - 1
  BY <1>0, <1>1, HeadTailProperties
<1>3. Head(s) = buf[r]
  <2>1. Head(s) = s[1]
    BY <1>0, <1>1
  <2>2. s[1] = buf[Slot(r, 1 - 1)]
    BY <1>0 DEF View
  <2>3. Slot(r, 1 - 1) = r
    BY CapacityAssumption DEF Slots, Slot
  <2> QED
    BY <2>1, <2>2, <2>3
<1>4. ASSUME NEW i \in 1 .. n - 1 PROVE Tail(s)[i] = u[i]
  <2>1. Tail(s)[i] = s[i + 1]
    BY <1>0, <1>1, <1>2, HeadTailProperties
  <2>2. i + 1 \in 1 .. n
    BY <1>0
  <2>3. s[i + 1] = buf[Slot(r, i)]
    BY <2>2 DEF View
  <2>4. u[i] = buf[Slot(Wrap(r + 1), i - 1)]
    BY DEF View
  <2>5. Slot(r, i) = Slot(Wrap(r + 1), i - 1)
    BY <1>0, CapacityAssumption DEF Slots, Slot, Wrap
  <2> QED
    BY <2>1, <2>3, <2>4, <2>5
<1> HIDE DEF s, u
<1>5. Tail(s) = u
  BY <1>0, <1>1, <1>2, <1>4, SeqEqual
<1> QED
  BY <1>2, <1>3, <1>5 DEF s, u

\* A message written behind the last one does not disturb those before it.
LEMMA ViewWrite ==
  ASSUME NEW buf, NEW buf2, NEW r \in Slots, NEW n \in 0 .. Capacity - 1,
         \A i \in Slots \ {Slot(r, n)} : buf2[i] = buf[i]
  PROVE  View(buf2, r, n) = View(buf, r, n)
<1>1. ASSUME NEW i \in 1 .. n
      PROVE  buf2[Slot(r, i - 1)] = buf[Slot(r, i - 1)]
  <2>1. /\ i - 1 \in 0 .. Capacity - 1 /\ i - 1 # n
        /\ i - 1 \in 0 .. Capacity
    BY CapacityAssumption
  <2> QED
    BY <2>1, SlotType, SlotsDiffer
<1> QED
  BY <1>1 DEF View

-----------------------------------------------------------------------------
\* Contents in terms of a view of the storage.
LEMMA ContentsEmpty == Stored = 0 => Contents = <<>>
  BY DEF Contents

LEMMA ContentsView ==
  ASSUME First \in Slots, Stored \in Nat
  PROVE  Contents = View(buffer, First, Stored)
<1>1. ASSUME NEW i \in 1 .. Stored
      PROVE  buffer[IF First + i - 1 < Capacity THEN First + i - 1
                    ELSE First + i - 1 - Capacity]
             = buffer[Slot(First, i - 1)]
  BY CapacityAssumption DEF Slots, Slot
<1> QED
  BY <1>1 DEF Contents, View

LEMMA ContentsViewPrimed ==
  ASSUME First' \in Slots, Stored' \in Nat
  PROVE  Contents' = View(buffer', First', Stored')
<1>1. ASSUME NEW i \in 1 .. Stored'
      PROVE  buffer'[IF First' + i - 1 < Capacity THEN First' + i - 1
                     ELSE First' + i - 1 - Capacity]
             = buffer'[Slot(First', i - 1)]
  BY CapacityAssumption DEF Slots, Slot
<1> QED
  BY <1>1 DEF Contents, View

\* While the call of t is in the queue it alone decides what First and Stored
\* make of the pointer and the count.
LEMMA HolderReads ==
  ASSUME Sound, NEW t \in Threads, Holds(t)
  PROVE  /\ First = IF pc[t] \in {"receive_count", "receive_move"}
                      THEN Wrap(read_ptr + 1) ELSE read_ptr
         /\ Stored = IF pc[t] = "receive_count" THEN enqueued_number - 1
                     ELSE enqueued_number
<1>1. \A u \in Threads : Holds(u) => u = t
  BY DEF Sound, Exclusive
<1>2. At("receive_count") <=> pc[t] = "receive_count"
  BY <1>1 DEF At, Holds, Working
<1>3. At("receive_move") <=> pc[t] = "receive_move"
  BY <1>1 DEF At, Holds, Working
<1> QED
  BY <1>2, <1>3 DEF First, Stored

\* The same after a step that leaves t in the queue.
LEMMA HolderReadsPrimed ==
  ASSUME Sound', NEW t \in Threads, Holds(t)'
  PROVE  /\ First' = IF pc'[t] \in {"receive_count", "receive_move"}
                       THEN Wrap(read_ptr' + 1) ELSE read_ptr'
         /\ Stored' = IF pc'[t] = "receive_count" THEN enqueued_number' - 1
                      ELSE enqueued_number'
<1>1. \A u \in Threads : Holds(u)' => u = t
  BY DEF Sound, Exclusive
<1>2. At("receive_count")' <=> pc'[t] = "receive_count"
  BY <1>1 DEF At, Holds, Working
<1>3. At("receive_move")' <=> pc'[t] = "receive_move"
  BY <1>1 DEF At, Holds, Working
<1> QED
  BY <1>2, <1>3 DEF First, Stored, Wrap

\* A step that neither touches what Contents reads nor enters or leaves the
\* second half of a receive keeps Contents.
LEMMA ContentsKept ==
  ASSUME TypeOK, NEW t \in Threads, NEW to,
         pc' = [pc EXCEPT ![t] = to],
         pc[t] \notin {"receive_count", "receive_move"},
         to \notin {"receive_count", "receive_move"},
         UNCHANGED <<enqueued_number, read_ptr, buffer>>
  PROVE  Contents' = Contents
<1>1. /\ pc'[t] = to
      /\ \A u \in Threads \ {t} : pc'[u] = pc[u]
  BY DEF TypeOK
<1>2. At("receive_count")' <=> At("receive_count")
  BY <1>1 DEF At
<1>3. At("receive_move")' <=> At("receive_move")
  BY <1>1 DEF At
<1>4. First' = First /\ Stored' = Stored
  BY <1>2, <1>3 DEF First, Stored, Wrap
<1> QED
  BY <1>4 DEF Contents

-----------------------------------------------------------------------------
\* What the sequence is made of.  A send has its message in para from its
\* first test on, and in the slot at write_ptr once it has copied it.
BeforeCopy == {"send_state", "send_claim", "send_copy"}

ParaSent == \A t \in Threads : pc[t] \in BeforeCopy => para[t] \in Messages
Copied == ~overlapped => \A t \in Threads :
            pc[t] = "send_count" => buffer[write_ptr] \in Messages

\* Only SendTestStorage takes a thread into a send, and it stores a message.
LEMMA NextParaSent == TypeOK /\ ParaSent /\ [Next]_vars => ParaSent'
<1> SUFFICES ASSUME TypeOK, ParaSent, [Next]_vars PROVE ParaSent'
  OBVIOUS
<1> USE DEF BeforeCopy
<1>1. CASE UNCHANGED vars
  BY <1>1 DEF vars, ParaSent
<1>2. CASE MaskedReceive
  BY <1>2 DEF MaskedReceive, ReceiveMasked, ParaSent
<1>3. ASSUME NEW t \in Threads, Send(t) PROVE ParaSent'
  <2>1. ASSUME NEW m \in Messages, SendTestStorage(t, m) PROVE ParaSent'
    BY <2>1 DEF SendTestStorage, Transition, TypeOK, ParaSent
  <2>2. CASE SendTestState(t)
    BY <2>2 DEF SendTestState, TestState, Transition, TypeOK, ParaSent
  <2>3. CASE SendClaim(t)
    BY <2>3 DEF SendClaim, Claim, Transition, TypeOK, ParaSent
  <2>4. CASE SendCopy(t) \/ SendCount(t) \/ SendMove(t)
    BY <2>4 DEF SendCopy, SendCount, SendMove, MoveWrite, Transition, TypeOK,
                ParaSent
  <2> QED
    BY <1>3, <2>1, <2>2, <2>3, <2>4 DEF Send
<1>4. ASSUME NEW t \in Threads, Receive(t) \/ Cleanup(t) \/ Release(t)
      PROVE  ParaSent'
  <2>1. PICK to \in Locations \ BeforeCopy : pc' = [pc EXCEPT ![t] = to]
    BY <1>4
    DEF Receive, ReceiveTestNumber, ReceiveTestState, ReceiveClaim,
        ReceiveCopy, ReceiveCount, ReceiveMove, Cleanup, CleanupTestState,
        CleanupClaim, CleanupReset, Release, TestState, Claim, Transition,
        Locations, Claiming, Working
  <2>2. UNCHANGED para
    BY <1>4
    DEF Receive, ReceiveTestNumber, ReceiveTestState, ReceiveClaim,
        ReceiveCopy, ReceiveCount, ReceiveMove, Cleanup, CleanupTestState,
        CleanupClaim, CleanupReset, Release, TestState, Claim
  <2> QED
    BY <2>1, <2>2 DEF TypeOK, ParaSent
<1> QED
  BY <1>1, <1>2, <1>3, <1>4 DEF Next

\* Between the copy and the count nobody else moves write_ptr or writes into
\* the storage: the sender holds the queue.
LEMMA NextCopied ==
  TypeOK /\ RingSound /\ ParaSent /\ Copied /\ [Next]_vars => Copied'
<1> SUFFICES ASSUME TypeOK, RingSound, ParaSent, Copied, [Next]_vars,
                    ~overlapped', NEW u \in Threads, pc'[u] = "send_count"
             PROVE  buffer'[write_ptr'] \in Messages
  BY DEF Copied
<1>1. ~overlapped /\ Sound
  BY NeverMends, SoundIsRingSound
<1>2. CASE SendCopy(u)
  <2>1. /\ pc[u] = "send_copy" /\ Holds(u) /\ para[u] \in Messages
        /\ buffer' = [i \in Slots |-> IF i = write_ptr THEN para[u]
                                      ELSE buffer[i]]
        /\ write_ptr' = write_ptr
    BY <1>2 DEF SendCopy, Transition, Holds, Working, ParaSent, BeforeCopy
  <2>2. Phase(u)
    BY <1>1, <2>1 DEF Sound, Phases
  <2>3. write_ptr \in Slots
    BY <2>1, <2>2 DEF Phase, AtRest
  <2> QED
    BY <2>1, <2>3
<1>3. CASE ~SendCopy(u)
  <2>1. pc[u] = "send_count" /\ ~(\E t \in Threads : SendCopy(t))
    <3>1. pc[u] = "send_count"
      BY <1>3
      DEF Next, vars, MaskedReceive, ReceiveMasked, Send, SendTestStorage,
          SendTestState, SendClaim, SendCopy, SendCount, SendMove, MoveWrite,
          Receive, ReceiveTestNumber, ReceiveTestState, ReceiveClaim,
          ReceiveCopy, ReceiveCount, ReceiveMove, Cleanup, CleanupTestState,
          CleanupClaim, CleanupReset, Release, TestState, Claim, Transition,
          TypeOK
    <3>2. ASSUME NEW t \in Threads, SendCopy(t) PROVE FALSE
      BY <1>1, <1>3, <3>1, <3>2
      DEF SendCopy, Transition, Sound, Exclusive, Holds, Working
    <3> QED
      BY <3>1, <3>2
  <2>2. Holds(u)
    BY <2>1 DEF Holds, Working
  <2>3. \A t \in Threads \ {u} : ~Holds(t)
    BY <1>1, <2>2 DEF Sound, Exclusive
  <2>4. ASSUME NEW t \in Threads, SendMove(t) \/ CleanupReset(t) PROVE FALSE
    BY <2>1, <2>3, <2>4
    DEF SendMove, MoveWrite, CleanupReset, Transition, Holds, Working
  <2>5. UNCHANGED <<buffer, write_ptr>>
    BY <2>1, <2>4
    DEF Next, vars, ring, MaskedReceive, ReceiveMasked, Send, SendTestStorage,
        SendTestState, SendClaim, SendCount, Receive, ReceiveTestNumber,
        ReceiveTestState, ReceiveClaim, ReceiveCopy, ReceiveCount,
        ReceiveMove, Cleanup, CleanupTestState, CleanupClaim, Release,
        TestState, Claim
  <2> QED
    BY <1>1, <2>1, <2>5 DEF Copied
<1> QED
  BY <1>2, <1>3

\* Nobody is in a send at first.
LEMMA InitSent == Init => ParaSent /\ Copied
  BY DEF Init, ParaSent, Copied, BeforeCopy

-----------------------------------------------------------------------------
\* What each step does to the sequence, as long as no calls overlap.

\* A step that keeps Contents and dest is a stutter of BoundedFifo.
LEMMA Stutters ==
  ASSUME TypeOK, TypeOK', ~overlapped, ~overlapped', Contents' = Contents,
         UNCHANGED dest
  PROVE  UNCHANGED Fifo!vars
<1>1. Accepted = Contents /\ Accepted' = Contents'
  BY DEF Accepted
<1>2. UNCHANGED overlapped
  BY DEF TypeOK
<1> QED
  BY <1>1, <1>2 DEF Fifo!vars

\* The counting step of a send accepts its message.
LEMMA SendCountPuts ==
  ASSUME TypeOK, TypeOK', Sound, Sound', Copied, NEW t \in Threads,
         SendCount(t), ~overlapped, ~overlapped'
  PROVE  \E m \in Messages : Fifo!Put(m)
<1> USE CapacityAssumption, UIntMaxAssumption
<1>1. /\ pc[t] = "send_count" /\ pc'[t] = "send_move"
      /\ Holds(t) /\ Holds(t)'
      /\ UNCHANGED <<read_ptr, write_ptr, buffer, dest>>
  BY DEF SendCount, Transition, TypeOK, Holds, Working
<1>2. /\ enqueued_number + available_storage = Capacity
      /\ available_storage # 0
      /\ Follows(read_ptr, enqueued_number, write_ptr)
  BY <1>1 DEF Sound, Phases, Phase
<1>3. /\ enqueued_number \in 0 .. Capacity - 1
      /\ enqueued_number' = enqueued_number + 1
      /\ read_ptr \in Slots /\ write_ptr = Slot(read_ptr, enqueued_number)
  BY <1>2 DEF TypeOK, Follows, Slots, Slot, SendCount, Succ
<1>4. First = read_ptr /\ Stored = enqueued_number
  BY <1>1, HolderReads
<1>5. First' = read_ptr /\ Stored' = enqueued_number + 1
  BY <1>1, <1>3, HolderReadsPrimed
<1>6. /\ Contents = View(buffer, read_ptr, enqueued_number)
      /\ Contents' = View(buffer, read_ptr, enqueued_number + 1)
  BY <1>1, <1>3, <1>4, <1>5, ContentsView, ContentsViewPrimed
<1>7. buffer \in [Slots -> Messages \cup {NoMessage}]
  BY DEF TypeOK
<1>8. Contents' = Append(Contents, buffer[write_ptr])
  BY <1>3, <1>6, <1>7, ViewAppend
<1>9. Len(Contents) < Capacity
  <2>1. enqueued_number \in 0 .. Capacity
    BY <1>3
  <2>2. Len(Contents) = enqueued_number
    BY <1>3, <1>6, <1>7, <2>1, ViewType
  <2> QED
    BY <1>3, <2>2
<1>10. buffer[write_ptr] \in Messages
  BY <1>1 DEF Copied
<1>11. Accepted = Contents /\ Accepted' = Contents'
  BY DEF Accepted
<1>12. UNCHANGED overlapped
  BY DEF TypeOK
<1> QED
  BY <1>1, <1>8, <1>9, <1>10, <1>11, <1>12 DEF Fifo!Put

\* The copying step of a receive, or the kernel thread's whole receive, hands
\* out the oldest message.
LEMMA TakesOldest ==
  ASSUME TypeOK, TypeOK', ~overlapped, ~overlapped', NEW r \in Receivers,
         AtRest, enqueued_number # 0,
         \E m \in Fetched : dest' = [dest EXCEPT ![r] = m],
         First = read_ptr, Stored = enqueued_number, UNCHANGED buffer,
         Stored' = enqueued_number - 1,
         enqueued_number # 1 => First' = Wrap(read_ptr + 1)
  PROVE  Fifo!Take(r)
<1> USE CapacityAssumption, UIntMaxAssumption
<1>1. /\ read_ptr \in Slots
      /\ enqueued_number \in 1 .. Capacity /\ enqueued_number \in Nat
      /\ Wrap(read_ptr + 1) \in Slots
  BY DEF TypeOK, AtRest, Follows, Slots, Wrap
<1>2. dest' = [dest EXCEPT ![r] = buffer[read_ptr]]
  BY <1>1 DEF Fetched
<1>3. Contents = View(buffer, read_ptr, enqueued_number)
  BY <1>1, ContentsView
<1>4. Contents' = View(buffer, Wrap(read_ptr + 1), enqueued_number - 1)
  <2>1. CASE enqueued_number = 1
    <3>1. Stored' = 0
      BY <2>1
    <3>2. Contents' = <<>>
      BY <3>1 DEF Contents
    <3> QED
      BY <2>1, <3>2, ViewEmpty
  <2>2. CASE enqueued_number # 1
    <3>1. First' = Wrap(read_ptr + 1) /\ enqueued_number - 1 \in Nat
      BY <1>1, <2>2
    <3> QED
      BY <1>1, <3>1, ContentsViewPrimed
  <2> QED
    BY <2>1, <2>2
<1>5. buffer \in [Slots -> Messages \cup {NoMessage}]
  BY DEF TypeOK
<1>6. /\ Contents # <<>>
      /\ Head(Contents) = buffer[read_ptr] /\ Tail(Contents) = Contents'
  BY <1>1, <1>3, <1>4, <1>5, ViewTail
<1>7. Accepted = Contents /\ Accepted' = Contents'
  BY DEF Accepted
<1>8. UNCHANGED overlapped
  BY DEF TypeOK
<1> QED
  BY <1>2, <1>6, <1>7, <1>8 DEF Fifo!Take

LEMMA ReceiveCopyTakes ==
  ASSUME TypeOK, TypeOK', Sound, Sound', NEW t \in Threads, ReceiveCopy(t),
         ~overlapped, ~overlapped'
  PROVE  Fifo!Take(t)
<1>1. /\ pc[t] = "receive_copy" /\ pc'[t] = "receive_count"
      /\ Holds(t) /\ Holds(t)'
      /\ UNCHANGED <<read_ptr, enqueued_number, buffer>>
  BY DEF ReceiveCopy, Transition, TypeOK, Holds, Working, ring
<1>2. AtRest /\ enqueued_number # 0
  BY <1>1 DEF Sound, Phases, Phase
<1>3. First = read_ptr /\ Stored = enqueued_number
  BY <1>1, HolderReads
<1>4. First' = Wrap(read_ptr + 1) /\ Stored' = enqueued_number - 1
  BY <1>1, HolderReadsPrimed
<1> QED
  BY <1>1, <1>2, <1>3, <1>4, TakesOldest DEF ReceiveCopy, Receivers

LEMMA MaskedTakes ==
  ASSUME TypeOK, TypeOK', Sound, MaskedReceive, ~overlapped, ~overlapped'
  PROVE  Fifo!Take(Kernel)
<1>1. /\ UNCHANGED <<pc, buffer>> /\ enqueued_number # 0
      /\ enqueued_number' = enqueued_number - 1
      /\ read_ptr' = NextRead(enqueued_number - 1)
  BY DEF MaskedReceive, ReceiveMasked
<1>2. \A t \in Threads : pc[t] \notin Working
  BY DEF Sound, BusyWhileWorking, MaskedReceive, ReceiveMasked
<1>3. AtRest
  <2>1. CASE \E t \in Threads : Holds(t)
    <3>1. PICK t \in Threads : Holds(t)
      BY <2>1
    <3>2. Phase(t) /\ pc[t] \in Claiming
      BY <1>2, <3>1 DEF Sound, Phases, Holds
    <3> QED
      BY <3>2 DEF Phase, Claiming
  <2>2. CASE \A t \in Threads : ~Holds(t)
    BY <2>2 DEF Sound, Rested
  <2> QED
    BY <2>1, <2>2
<1>4. First = read_ptr /\ Stored = enqueued_number
  BY <1>2 DEF First, Stored, At, Working
<1>5. First' = read_ptr' /\ Stored' = enqueued_number - 1
  BY <1>1, <1>2 DEF First, Stored, At, Working
<1>6. enqueued_number # 1 => read_ptr' = Wrap(read_ptr + 1)
  BY <1>1, <1>3, NullAssumption, CapacityAssumption
  DEF AtRest, NextRead, Follows, Slots, TypeOK
<1> QED
  BY <1>1, <1>3, <1>4, <1>5, <1>6, TakesOldest
  DEF MaskedReceive, ReceiveMasked, Receivers

\* The copying step of a send writes behind the messages of the sequence.
LEMMA SendCopyKeeps ==
  ASSUME TypeOK, TypeOK', Sound, Sound', NEW t \in Threads, SendCopy(t),
         ~overlapped, ~overlapped'
  PROVE  Contents' = Contents
<1> USE CapacityAssumption
<1>1. /\ pc[t] = "send_copy" /\ pc'[t] = "send_count"
      /\ Holds(t) /\ Holds(t)' /\ UNCHANGED <<enqueued_number>>
      /\ read_ptr' = IF enqueued_number = 0 THEN write_ptr ELSE read_ptr
      /\ buffer' = [i \in Slots |-> IF i = write_ptr THEN para[t]
                                    ELSE buffer[i]]
  BY DEF SendCopy, Transition, TypeOK, Holds, Working, counts
<1>2. AtRest /\ available_storage # 0
  BY <1>1 DEF Sound, Phases, Phase
<1>3. First = read_ptr /\ Stored = enqueued_number
  BY <1>1, HolderReads
<1>4. First' = read_ptr' /\ Stored' = enqueued_number
  BY <1>1, HolderReadsPrimed
<1>5. CASE enqueued_number = 0
  BY <1>3, <1>4, <1>5 DEF Contents
<1>6. CASE enqueued_number # 0
  <2>1. /\ read_ptr \in Slots /\ read_ptr' = read_ptr
        /\ enqueued_number \in 0 .. Capacity - 1 /\ enqueued_number \in Nat
        /\ write_ptr = Slot(read_ptr, enqueued_number)
    BY <1>1, <1>2, <1>6 DEF TypeOK, AtRest, Follows, Slots, Slot
  <2>2. /\ Contents = View(buffer, read_ptr, enqueued_number)
        /\ Contents' = View(buffer', read_ptr, enqueued_number)
    BY <1>3, <1>4, <2>1, ContentsView, ContentsViewPrimed
  <2>3. \A i \in Slots \ {Slot(read_ptr, enqueued_number)} :
          buffer'[i] = buffer[i]
    BY <1>1, <2>1
  <2> QED
    BY <2>1, <2>2, <2>3, ViewWrite
<1> QED
  BY <1>5, <1>6

\* Counting a receive out and moving read_ptr leave the sequence as the copy
\* has left it.
LEMMA ReceiveCountKeeps ==
  ASSUME TypeOK, Sound, Sound', NEW t \in Threads, ReceiveCount(t)
  PROVE  Contents' = Contents
<1>1. /\ pc[t] = "receive_count" /\ pc'[t] = "receive_move"
      /\ Holds(t) /\ Holds(t)' /\ UNCHANGED <<read_ptr, buffer>>
  BY DEF ReceiveCount, Transition, TypeOK, Holds, Working
<1>2. enqueued_number # 0
  BY <1>1 DEF Sound, Phases, Phase
<1>3. enqueued_number' = enqueued_number - 1
  BY <1>2 DEF ReceiveCount, Pred
<1>4. First = Wrap(read_ptr + 1) /\ Stored = enqueued_number - 1
  BY <1>1, HolderReads
<1>5. First' = Wrap(read_ptr + 1) /\ Stored' = enqueued_number - 1
  BY <1>1, <1>3, HolderReadsPrimed
<1> QED
  BY <1>1, <1>4, <1>5 DEF Contents

LEMMA ReceiveMoveKeeps ==
  ASSUME TypeOK, Sound, Sound', NEW t \in Threads, ReceiveMove(t)
  PROVE  Contents' = Contents
<1>1. /\ pc[t] = "receive_move" /\ pc'[t] = "release"
      /\ Holds(t) /\ Holds(t)' /\ UNCHANGED <<enqueued_number, buffer>>
      /\ read_ptr' = NextRead(enqueued_number)
  BY DEF ReceiveMove, Transition, TypeOK, Holds, Working, counts
<1>2. read_ptr # NULL
  BY <1>1, NullAssumption, CapacityAssumption
  DEF Sound, Phases, Phase, Follows, Slots
<1>3. First = Wrap(read_ptr + 1) /\ Stored = enqueued_number
  BY <1>1, HolderReads
<1>4. First' = read_ptr' /\ Stored' = enqueued_number
  BY <1>1, HolderReadsPrimed
<1>5. CASE enqueued_number = 0
  BY <1>3, <1>4, <1>5 DEF Contents
<1>6. CASE enqueued_number # 0
  BY <1>1, <1>2, <1>3, <1>4, <1>6 DEF Contents, NextRead
<1> QED
  BY <1>5, <1>6

-----------------------------------------------------------------------------
\* Every step of a thread outside the second half of a receive, and outside
\* the three steps above that write, count in and reset, keeps the sequence.
QuietSend(t) == \/ \E m \in Messages : SendTestStorage(t, m)
                \/ SendTestState(t) \/ SendClaim(t) \/ SendMove(t)
QuietReceive(t) == ReceiveTestNumber(t) \/ ReceiveTestState(t)
                     \/ ReceiveClaim(t)
QuietCleanup(t) == CleanupTestState(t) \/ CleanupClaim(t)

LEMMA QuietStep ==
  ASSUME TypeOK, NEW t \in Threads,
         QuietSend(t) \/ QuietReceive(t) \/ QuietCleanup(t) \/ Release(t)
  PROVE  Contents' = Contents /\ UNCHANGED dest
<1>1. /\ UNCHANGED <<enqueued_number, read_ptr, buffer>>
      /\ UNCHANGED dest
  BY DEF QuietSend, QuietReceive, QuietCleanup, SendTestStorage,
         SendTestState, SendClaim, SendMove, MoveWrite, ReceiveTestNumber,
         ReceiveTestState, ReceiveClaim, CleanupTestState, CleanupClaim,
         Release, TestState, Claim, ring, counts
<1>2. /\ pc[t] \notin {"receive_count", "receive_move"}
      /\ \E to : /\ pc' = [pc EXCEPT ![t] = to]
                 /\ to \notin {"receive_count", "receive_move"}
  BY DEF QuietSend, QuietReceive, QuietCleanup, SendTestStorage,
         SendTestState, SendClaim, SendMove, MoveWrite, ReceiveTestNumber,
         ReceiveTestState, ReceiveClaim, CleanupTestState, CleanupClaim,
         Release, TestState, Claim, Transition
<1> QED
  BY <1>1, <1>2, ContentsKept

\* The reset of a cleanup clears the sequence.
LEMMA ResetClears ==
  ASSUME TypeOK, TypeOK', Sound, Sound', NEW t \in Threads, CleanupReset(t),
         ~overlapped, ~overlapped'
  PROVE  Fifo!Clear
<1>1. /\ pc'[t] = "release" /\ Holds(t)' /\ enqueued_number' = 0
      /\ UNCHANGED <<dest, overlapped>>
  BY DEF CleanupReset, Transition, TypeOK, Holds, Working
<1>2. Stored' = 0
  BY <1>1, HolderReadsPrimed
<1>3. Contents' = <<>>
  BY <1>2 DEF Contents
<1>4. Accepted' = <<>>
  BY <1>3 DEF Accepted
<1> QED
  BY <1>1, <1>4 DEF Fifo!Clear

\* Every step of the queue is a step of the bounded FIFO, or a stutter.
LEMMA StepIsFifoStep ==
  ASSUME TypeOK, TypeOK', RingSound, RingSound', Copied, [Next]_vars
  PROVE  [Fifo!Next]_(Fifo!vars)
<1>1. CASE overlapped'
  BY <1>1 DEF Fifo!Next
<1>2. CASE ~overlapped'
  <2>1. ~overlapped /\ Sound /\ Sound'
    BY <1>2, NeverMends, SoundIsRingSound
    DEF RingSound, Sound, Exclusive, BusyWhileWorking, Phases, Rested
  <2> USE <1>2, <2>1
  <2>2. CASE UNCHANGED vars
    <3>1. Contents' = Contents /\ UNCHANGED dest
      BY <2>2 DEF vars, ring, Contents, First, Stored, At, Wrap
    <3> QED
      BY <3>1, Stutters
  <2>3. CASE MaskedReceive
    <3>1. Fifo!Take(Kernel)
      BY <2>3, MaskedTakes
    <3> QED
      BY <3>1 DEF Fifo!Next, Receivers
  <2>4. ASSUME NEW t \in Threads,
               Send(t) \/ Receive(t) \/ Cleanup(t) \/ Release(t)
        PROVE  [Fifo!Next]_(Fifo!vars)
    <3>1. CASE QuietSend(t) \/ QuietReceive(t) \/ QuietCleanup(t)
                 \/ Release(t)
      <4>1. Contents' = Contents /\ UNCHANGED dest
        BY <3>1, QuietStep
      <4> QED
        BY <4>1, Stutters
    <3>2. CASE SendCopy(t)
      <4>1. Contents' = Contents /\ UNCHANGED dest
        BY <3>2, SendCopyKeeps DEF SendCopy
      <4> QED
        BY <4>1, Stutters
    <3>3. CASE SendCount(t)
      <4>1. \E m \in Messages : Fifo!Put(m)
        BY <3>3, SendCountPuts
      <4> QED
        BY <4>1 DEF Fifo!Next
    <3>4. CASE ReceiveCopy(t)
      <4>1. Fifo!Take(t)
        BY <3>4, ReceiveCopyTakes
      <4> QED
        BY <4>1 DEF Fifo!Next, Receivers
    <3>5. CASE ReceiveCount(t)
      <4>1. Contents' = Contents /\ UNCHANGED dest
        BY <3>5, ReceiveCountKeeps DEF ReceiveCount
      <4> QED
        BY <4>1, Stutters
    <3>6. CASE ReceiveMove(t)
      <4>1. Contents' = Contents /\ UNCHANGED dest
        BY <3>6, ReceiveMoveKeeps DEF ReceiveMove
      <4> QED
        BY <4>1, Stutters
    <3>7. CASE CleanupReset(t)
      <4>1. Fifo!Clear
        BY <3>7, ResetClears
      <4> QED
        BY <4>1 DEF Fifo!Next
    <3> QED
      BY <2>4, <3>1, <3>2, <3>3, <3>4, <3>5, <3>6, <3>7
      DEF Send, Receive, Cleanup, QuietSend, QuietReceive, QuietCleanup
  <2> QED
    BY <2>2, <2>3, <2>4 DEF Next
<1> QED
  BY <1>1, <1>2

\* An empty ring is an empty FIFO.
LEMMA InitIsFifoInit == Init => Fifo!Init
<1> SUFFICES ASSUME Init PROVE Fifo!Init
  OBVIOUS
<1>1. Stored = 0
  BY DEF Init, Stored, At
<1>2. Accepted = <<>>
  BY <1>1, ContentsEmpty DEF Accepted
<1> QED
  BY <1>2 DEF Init, Fifo!Init

\* The queue of others/queue.c implements the bounded FIFO: until two calls
\* overlap past their READY tests, every message that os_queue_send has
\* counted in is handed out once, in the order of the sends, and no more than
\* the capacity are waiting, whatever the threads and the kernel thread do.
THEOREM QueueIsFifo == Spec => IsFifo
<1>1. Init => ParaSent /\ Copied
  BY InitSent
<1>2. TypeOK /\ RingSound /\ ParaSent /\ Copied /\ [Next]_vars
        => ParaSent' /\ Copied'
  BY NextParaSent, NextCopied
<1>3. TypeOK /\ TypeOK' /\ RingSound /\ RingSound' /\ Copied /\ [Next]_vars
        => [Fifo!Next]_(Fifo!vars)
  BY StepIsFifoStep
<1> QED
  BY <1>1, <1>2, <1>3, InitIsFifoInit, TypeCorrect, RingAlwaysSound, PTL
  DEF Spec, IsFifo, Fifo!Spec
=============================================================================
