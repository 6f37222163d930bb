--------------------------- MODULE SystemCallProofs ---------------------------
(***************************************************************************)
(* SystemCall, for any set of threads, any calls and any capacity of       *)
(* os_queue: type correctness, and what the kernel thread executes.        *)
(*                                                                         *)
(* What holds of the queue holds of os_queue: P instantiates the proofs    *)
(* about MessageQueue, and each step of a system call is a step of the     *)
(* queue or leaves it alone.  On top of that an invariant follows each     *)
(* call from its sender through the ring to the kernel thread.             *)
(***************************************************************************)
EXTENDS SystemCall, TLAPS

P == INSTANCE MessageQueueProofs WITH Messages <- Calls

-----------------------------------------------------------------------------
\* The queue of the model and the queue of the proofs are the same.
LEMMA SameQueue ==
  /\ Q!Init <=> P!Init
  /\ Q!TypeOK <=> P!TypeOK
  /\ Q!Working = P!Working
  /\ Q!MaskedReceive <=> P!MaskedReceive
<1>1. /\ Q!Slots = P!Slots /\ Q!Receivers = P!Receivers
      /\ Q!Claiming = P!Claiming /\ Q!Working = P!Working
  BY DEF Q!Slots, P!Slots, Q!Receivers, P!Receivers, Q!Claiming, P!Claiming,
         Q!Working, P!Working
<1>2. Q!Locations = P!Locations
  BY <1>1 DEF Q!Locations, P!Locations
<1>3. Q!Init <=> P!Init
  BY <1>1 DEF Q!Init, P!Init
<1>4. Q!TypeOK <=> P!TypeOK
  BY <1>1, <1>2 DEF Q!TypeOK, P!TypeOK
<1>5. Q!MaskedReceive <=> P!MaskedReceive
  BY DEF Q!MaskedReceive, P!MaskedReceive, Q!ReceiveMasked, P!ReceiveMasked,
         Q!Fetched, P!Fetched, Q!Slots, P!Slots, Q!NextRead, P!NextRead,
         Q!Wrap, P!Wrap, Q!Succ, P!Succ
<1> QED
  BY <1>1, <1>3, <1>4, <1>5

LEMMA SameSend ==
  ASSUME NEW t
  PROVE  /\ \A m : Q!SendTestStorage(t, m) <=> P!SendTestStorage(t, m)
         /\ Q!SendTestState(t) <=> P!SendTestState(t)
         /\ Q!SendClaim(t) <=> P!SendClaim(t)
         /\ Q!SendCopy(t) <=> P!SendCopy(t)
         /\ Q!SendCount(t) <=> P!SendCount(t)
         /\ Q!SendMove(t) <=> P!SendMove(t)
         /\ Q!Release(t) <=> P!Release(t)
<1> USE DEF Q!Transition, P!Transition, Q!ring, P!ring, Q!counts, P!counts
<1>1. \A m : Q!SendTestStorage(t, m) <=> P!SendTestStorage(t, m)
  BY DEF Q!SendTestStorage, P!SendTestStorage
<1>2. Q!SendTestState(t) <=> P!SendTestState(t)
  BY DEF Q!SendTestState, P!SendTestState, Q!TestState, P!TestState, Q!Holds,
         P!Holds, Q!Claiming, P!Claiming, Q!Working, P!Working
<1>3. Q!SendClaim(t) <=> P!SendClaim(t)
  BY DEF Q!SendClaim, P!SendClaim, Q!Claim, P!Claim
<1>4. Q!SendCopy(t) <=> P!SendCopy(t)
  BY DEF Q!SendCopy, P!SendCopy, Q!Slots, P!Slots
<1>5. Q!SendCount(t) <=> P!SendCount(t)
  BY DEF Q!SendCount, P!SendCount, Q!Succ, P!Succ, Q!Pred, P!Pred
<1>6. Q!SendMove(t) <=> P!SendMove(t)
  BY DEF Q!SendMove, P!SendMove, Q!MoveWrite, P!MoveWrite, Q!Wrap, P!Wrap
<1>7. Q!Release(t) <=> P!Release(t)
  BY DEF Q!Release, P!Release
<1> QED
  BY <1>1, <1>2, <1>3, <1>4, <1>5, <1>6, <1>7

\* The steps of a send, after the first one.
LEMMA ContinueCases ==
  ASSUME NEW t, Sending(t) \/ Q!Release(t)
  PROVE  \/ P!SendTestState(t) \/ P!SendClaim(t) \/ P!SendCopy(t)
         \/ P!SendCount(t) \/ P!SendMove(t) \/ P!Release(t)
  BY SameSend DEF Sending

\* Each step of a system call is a step of os_queue, or leaves it alone.
LEMMA QueueStep == [Next]_vars => [P!Next]_(P!vars)
<1> SUFFICES ASSUME [Next]_vars PROVE [P!Next]_(P!vars)
  OBVIOUS
<1>1. UNCHANGED queueVars => UNCHANGED P!vars
  BY DEF queueVars, P!vars, P!ring
<1>2. CASE UNCHANGED vars
  BY <1>1, <1>2 DEF vars
<1>3. CASE KernelTest
  BY <1>1, <1>3 DEF KernelTest, TestNumber
<1>4. CASE Kernel_init_func
  BY <1>1, <1>4, SameQueue DEF Kernel_init_func, ReceiveRefused, P!Next
<1>5. ASSUME NEW t \in Threads, BeginCall(t) PROVE [P!Next]_(P!vars)
  BY <1>5, SameSend DEF BeginCall, P!Next, P!Send
<1>6. ASSUME NEW t \in Threads, ContinueSend(t) PROVE [P!Next]_(P!vars)
  BY <1>6, ContinueCases DEF ContinueSend, SendAs, P!Next, P!Send
<1>7. ASSUME NEW t \in Threads,
             BeginRefused(t) \/ SwitchToKernel(t) \/ Wake(t)
      PROVE  [P!Next]_(P!vars)
  BY <1>1, <1>7 DEF BeginRefused, SwitchToKernel, Wake
<1> QED
  BY <1>2, <1>3, <1>4, <1>5, <1>6, <1>7 DEF Next

-----------------------------------------------------------------------------
\* Type correctness.
OwnType == /\ step \in [Threads -> {"application", "sending", "switching"}]
           /\ thread \in [Threads -> {"READY", "SLEEPING", "DELETED"}]
           /\ kernel \in {"test", "serve"}
           /\ runs \in [Threads -> 0 .. 2]
           /\ stopped \in {"no", "fault", "undefined"}

LEMMA TypeParts == TypeOK <=> P!TypeOK /\ OwnType
  BY SameQueue DEF TypeOK, OwnType

LEMMA TypePartsPrimed == TypeOK' <=> P!TypeOK' /\ OwnType'
  BY TypeParts, PTL

\* What the kernel thread executes is a call, or nothing was received yet.
LEMMA MessageType ==
  ASSUME P!TypeOK
  PROVE  os_message \in Calls \cup {NoMessage}
  BY DEF P!TypeOK, P!Receivers, os_message

\* Executing a call keeps the types.
LEMMA ExecuteType ==
  ASSUME OwnType, NEW m \in Calls \cup {NoMessage}, Execute(m),
         kernel' \in {"test", "serve"}, UNCHANGED step
  PROVE  OwnType'
<1>1. CASE m = NoMessage
  BY <1>1 DEF Execute, NoEffect, OwnType
<1>2. CASE m # NoMessage
  <2>1. m.from \in Threads /\ m.on \in Threads
    BY <1>2, CallsAssumption
  <2>2. runs' \in [Threads -> 0 .. 2]
    <3>1. runs' = [runs EXCEPT ![m.from] = IF @ = 2 THEN 2 ELSE @ + 1]
      BY <1>2 DEF Execute
    <3> QED
      BY <2>1, <3>1 DEF OwnType
  <2>3. /\ thread' \in [Threads -> {"READY", "SLEEPING", "DELETED"}]
        /\ stopped' \in {"no", "fault", "undefined"}
    <3>1. \/ Delete(m.on) \/ Sleep(m.on) \/ Resume(m.on) \/ Stops("fault")
      BY <1>2 DEF Execute
    <3>2. CASE Delete(m.on)
      BY <2>1, <3>2 DEF Delete, NoEffect, Becomes, Stops, OwnType
    <3>3. CASE Sleep(m.on)
      BY <2>1, <3>3 DEF Sleep, SleepInState, NoEffect, Becomes, Stops, OwnType
    <3>4. CASE Resume(m.on)
      BY <2>1, <3>4 DEF Resume, NoEffect, Becomes, OwnType
    <3>5. CASE Stops("fault")
      BY <3>5 DEF Stops, OwnType
    <3> QED
      BY <3>1, <3>2, <3>3, <3>4, <3>5
  <2> QED
    BY <2>2, <2>3 DEF OwnType
<1> QED
  BY <1>1, <1>2

\* Every step keeps the types.
LEMMA NextType == TypeOK /\ [Next]_vars => TypeOK'
<1> SUFFICES ASSUME TypeOK, [Next]_vars PROVE TypeOK'
  OBVIOUS
<1>1. P!TypeOK /\ OwnType
  BY TypeParts
<1>2. P!TypeOK'
  BY <1>1, QueueStep, P!NextType, QueueAssumption
<1>3. OwnType'
  <2>1. CASE UNCHANGED vars
    BY <1>1, <2>1 DEF vars, OwnType
  <2>2. CASE KernelTest
    BY <1>1, <2>2 DEF KernelTest, TestNumber, OwnType
  <2>3. CASE Kernel_init_func
    <3>1. os_message' \in Calls \cup {NoMessage}
      BY <1>2 DEF P!TypeOK, P!Receivers, os_message
    <3> QED
      BY <1>1, <2>3, <3>1, ExecuteType DEF Kernel_init_func
  <2>4. ASSUME NEW t \in Threads,
               BeginCall(t) \/ BeginRefused(t) \/ ContinueSend(t)
        PROVE  OwnType'
    BY <1>1, <2>4
    DEF BeginCall, BeginRefused, ContinueSend, SendAs, CallStep, OwnType
  <2>5. ASSUME NEW t \in Threads, SwitchToKernel(t) \/ Wake(t)
        PROVE  OwnType'
    BY <1>1, <2>5 DEF SwitchToKernel, Wake, Becomes, OwnType
  <2> QED
    BY <2>1, <2>2, <2>3, <2>4, <2>5 DEF Next
<1> QED
  BY <1>2, <1>3, TypePartsPrimed

LEMMA InitType == Init => TypeOK
  BY SameQueue, P!InitType, QueueAssumption DEF Init, TypeOK

\* Every variable of the system call keeps its type: what the kernel thread
\* executes is always a call of system_call_array or nothing at all.
THEOREM TypeCorrect == Spec => []TypeOK
  BY InitType, NextType, PTL DEF Spec

\* os_queue is sound as long as no two sends overlap.
LEMMA QueueSound == Spec => []P!RingSound
<1>1. Init => P!RingSound
  BY SameQueue, P!InitSound, QueueAssumption DEF Init
<1>2. TypeOK /\ P!RingSound /\ [Next]_vars => P!RingSound'
  BY TypeParts, QueueStep, P!NextSound, QueueAssumption
<1> QED
  BY <1>1, <1>2, TypeCorrect, PTL DEF Spec

-----------------------------------------------------------------------------
\* Where a thread is in os_queue_send follows from where it is in
\* system_call_use, and what it sends is its own call.
Sends == {"send_state", "send_claim", "send_copy", "send_count", "send_move",
          "release"}

Places == \A t \in Threads : /\ pc[t] \in Sends \cup {"idle"}
                             /\ step[t] = "sending" <=> pc[t] \in Sends

OwnCall(t, m) == m \in Calls /\ m.from = t

SendsOwn == \A t \in Threads :
              pc[t] \in P!BeforeCopy => OwnCall(t, para[t])

\* The call of t has been counted in.
Sent(t) == step[t] = "switching" \/ pc[t] \in {"send_move", "release"}

Waits == 0 .. enqueued_number - 1
Waiting(i) == buffer[P!Slot(read_ptr, i)]

\* A call that waits was sent, was not executed yet and is not the one that
\* os_message still holds.
WaitingSound ==
  \A i \in Waits :
    /\ Waiting(i) \in Calls
    /\ Sent(Waiting(i).from)
    /\ runs[Waiting(i).from] = 0
    /\ os_message # NoMessage => os_message.from # Waiting(i).from

WaitingOnce == \A i, j \in Waits :
                 Waiting(i).from = Waiting(j).from => i = j

CopiesOwn == \A t \in Threads :
               pc[t] = "send_count" => OwnCall(t, buffer[write_ptr])

\* The call that os_message holds, and every call that was executed, is over.
MessageSent ==
  os_message # NoMessage => /\ os_message \in Calls
                            /\ step[os_message.from] = "switching"

ExecutedSent == \A t \in Threads : runs[t] > 0 => step[t] = "switching"

\* Nothing but the kernel thread empties os_queue.
ServesOne == kernel = "serve" => enqueued_number # 0

Attributed == /\ WaitingSound /\ WaitingOnce /\ CopiesOwn
              /\ MessageSent /\ ExecutedSent /\ ServesOne

\* The inductive invariant, besides that of the queue.
CallsSound == Places /\ SendsOwn /\ (~overlapped => Attributed)

-----------------------------------------------------------------------------
\* What a step does to one thread's part of a send.
Quiet == UNCHANGED <<buffer, read_ptr, enqueued_number, dest, runs>>

\* A step other than the kernel thread's, by what it does to the queue.
LEMMA ThreadCases ==
  ASSUME TypeOK, Places, [Next]_vars, ~Kernel_init_func
  PROVE  \/ /\ UNCHANGED <<queueVars, runs>>
            /\ kernel' = "serve" => kernel = "serve" \/ enqueued_number # 0
         \/ /\ UNCHANGED <<runs, kernel>>
            /\ \E t \in Threads : \/ \E m \in Calls : /\ OwnCall(t, m)
                                                      /\ P!SendTestStorage(t, m)
                                  \/ P!SendTestState(t) \/ P!SendClaim(t)
                                  \/ P!SendCopy(t) \/ P!SendCount(t)
                                  \/ P!SendMove(t) \/ P!Release(t)
<1>1. CASE UNCHANGED vars
  BY <1>1 DEF vars
<1>2. CASE KernelTest
  BY <1>2 DEF KernelTest, TestNumber
<1>3. ASSUME NEW t \in Threads, BeginCall(t)
      PROVE  /\ UNCHANGED <<runs, kernel>>
             /\ \E m \in Calls : OwnCall(t, m) /\ P!SendTestStorage(t, m)
  BY <1>3, SameSend DEF BeginCall, CallStep, OwnCall
<1>4. ASSUME NEW t \in Threads, ContinueSend(t)
      PROVE  /\ UNCHANGED <<runs, kernel>>
             /\ \/ P!SendTestState(t) \/ P!SendClaim(t) \/ P!SendCopy(t)
                \/ P!SendCount(t) \/ P!SendMove(t) \/ P!Release(t)
  BY <1>4, ContinueCases DEF ContinueSend, SendAs, CallStep
<1>5. ASSUME NEW t \in Threads,
             BeginRefused(t) \/ SwitchToKernel(t) \/ Wake(t)
      PROVE  UNCHANGED <<queueVars, runs, kernel>>
  BY <1>5 DEF BeginRefused, SwitchToKernel, Wake, Becomes, CallStep
<1> QED
  BY <1>1, <1>2, <1>3, <1>4, <1>5 DEF Next

\* Where the steps of a send take the thread.
LEMMA SendStep ==
  ASSUME P!TypeOK, NEW t \in Threads,
         \/ P!SendTestState(t) \/ P!SendClaim(t) \/ P!SendCopy(t)
         \/ P!SendCount(t) \/ P!SendMove(t) \/ P!Release(t)
  PROVE  /\ \A u \in Threads \ {t} : pc'[u] = pc[u]
         /\ pc'[t] \in Sends \cup {"idle"}
         /\ pc[t] = "send_move" => pc'[t] = "release"
         /\ pc[t] = "release" => pc'[t] = "idle"
<1> USE DEF P!Transition, P!TypeOK, Sends
<1>1. CASE P!SendTestState(t)
  BY <1>1 DEF P!SendTestState, P!TestState
<1>2. CASE P!SendClaim(t)
  BY <1>2 DEF P!SendClaim, P!Claim
<1>3. CASE P!SendCopy(t)
  BY <1>3 DEF P!SendCopy
<1>4. CASE P!SendCount(t)
  BY <1>4 DEF P!SendCount
<1>5. CASE P!SendMove(t)
  BY <1>5 DEF P!SendMove, P!MoveWrite
<1>6. CASE P!Release(t)
  BY <1>6 DEF P!Release
<1> QED
  BY <1>1, <1>2, <1>3, <1>4, <1>5, <1>6

\* A thread is inside os_queue_send exactly while step says so.
LEMMA NextPlaces == TypeOK /\ Places /\ [Next]_vars => Places'
<1> SUFFICES ASSUME P!TypeOK, OwnType, Places, [Next]_vars PROVE Places'
  BY TypeParts
<1>1. UNCHANGED <<pc, step>> => Places'
  BY DEF Places
<1>2. CASE UNCHANGED vars \/ KernelTest \/ Kernel_init_func
  <2>1. UNCHANGED <<pc, step>>
    BY <1>2, SameQueue
    DEF vars, queueVars, KernelTest, TestNumber, Kernel_init_func,
        ReceiveRefused, P!MaskedReceive, P!ReceiveMasked
  <2> QED
    BY <1>1, <2>1
<1>3. ASSUME NEW t \in Threads, BeginCall(t) PROVE Places'
  BY <1>3, SameSend
  DEF BeginCall, CallStep, P!SendTestStorage, P!Transition, Places, Sends,
      P!TypeOK, OwnType
<1>4. ASSUME NEW t \in Threads, BeginRefused(t) PROVE Places'
  BY <1>4 DEF BeginRefused, CallStep, queueVars, Places, Sends, OwnType
<1>5. ASSUME NEW t \in Threads, ContinueSend(t) PROVE Places'
  <2>1. /\ pc'[t] \in Sends \cup {"idle"}
        /\ \A u \in Threads \ {t} : pc'[u] = pc[u]
    BY <1>5, ContinueCases, SendStep DEF ContinueSend, SendAs
  <2>2. step' = [step EXCEPT ![t] = IF pc'[t] = "idle" THEN "switching"
                                    ELSE "sending"]
    BY <1>5 DEF ContinueSend, SendAs, CallStep
  <2>3. /\ step'[t] = IF pc'[t] = "idle" THEN "switching" ELSE "sending"
        /\ \A u \in Threads \ {t} : step'[u] = step[u]
    BY <2>2 DEF OwnType
  <2> QED
    BY <2>1, <2>3 DEF Places, Sends
<1>6. ASSUME NEW t \in Threads, SwitchToKernel(t) \/ Wake(t) PROVE Places'
  BY <1>1, <1>6 DEF SwitchToKernel, Wake, queueVars
<1> QED
  BY <1>2, <1>3, <1>4, <1>5, <1>6 DEF Next

\* A call that has been counted in stays so: after the send its sender waits
\* at the SVC for ever.
LEMMA SentStays ==
  ASSUME TypeOK, Places, [Next]_vars, NEW u \in Threads
  PROVE  /\ step[u] = "switching" => step'[u] = "switching"
         /\ Sent(u) => Sent(u)'
<1> USE TypeParts DEF OwnType, P!TypeOK
<1>1. UNCHANGED <<pc, step>> => (Sent(u) => Sent(u)')
  BY DEF Sent
<1>2. CASE UNCHANGED vars \/ KernelTest \/ Kernel_init_func
  <2>1. UNCHANGED <<pc, step>>
    BY <1>2, SameQueue
    DEF vars, queueVars, KernelTest, TestNumber, Kernel_init_func,
        ReceiveRefused, P!MaskedReceive, P!ReceiveMasked
  <2> QED
    BY <1>1, <2>1
<1>3. ASSUME NEW t \in Threads, BeginCall(t) \/ BeginRefused(t)
      PROVE  /\ step[u] = "switching" => step'[u] = "switching"
             /\ Sent(u) => Sent(u)'
  <2>1. /\ step[t] = "application" /\ pc[t] = "idle"
        /\ \A v \in Threads \ {t} : pc'[v] = pc[v] /\ step'[v] = step[v]
    BY <1>3, SameSend
    DEF BeginCall, BeginRefused, CallStep, P!SendTestStorage, P!Transition,
        queueVars, Places, Sends
  <2> QED
    BY <2>1 DEF Sent
<1>4. ASSUME NEW t \in Threads, ContinueSend(t)
      PROVE  /\ step[u] = "switching" => step'[u] = "switching"
             /\ Sent(u) => Sent(u)'
  <2>1. /\ step[t] = "sending"
        /\ \A v \in Threads \ {t} : step'[v] = step[v]
        /\ step'[t] = IF pc'[t] = "idle" THEN "switching" ELSE "sending"
    BY <1>4 DEF ContinueSend, SendAs, CallStep
  <2>2. /\ \A v \in Threads \ {t} : pc'[v] = pc[v]
        /\ pc[t] = "send_move" => pc'[t] = "release"
        /\ pc[t] = "release" => pc'[t] = "idle"
    BY <1>4, ContinueCases, SendStep DEF ContinueSend, SendAs
  <2> QED
    BY <2>1, <2>2 DEF Sent
<1>5. ASSUME NEW t \in Threads, SwitchToKernel(t) \/ Wake(t)
      PROVE  UNCHANGED <<pc, step>>
  BY <1>5 DEF SwitchToKernel, Wake, queueVars
<1> QED
  BY <1>1, <1>2, <1>3, <1>4, <1>5 DEF Next

\* A thread that has begun a send sends its own call.
LEMMA NextSendsOwn == TypeOK /\ Places /\ SendsOwn /\ [Next]_vars => SendsOwn'
<1> SUFFICES ASSUME TypeOK, P!TypeOK, Places, SendsOwn, [Next]_vars,
                    NEW u \in Threads, pc'[u] \in P!BeforeCopy
             PROVE  OwnCall(u, para'[u])
  BY TypeParts DEF SendsOwn, OwnCall
<1> USE DEF P!BeforeCopy, P!TypeOK, P!Transition, SendsOwn
<1>1. CASE UNCHANGED <<pc, para>>
  BY <1>1
<1>2. CASE Kernel_init_func
  BY <1>2, SameQueue
  DEF Kernel_init_func, ReceiveRefused, queueVars, P!MaskedReceive,
      P!ReceiveMasked
<1>3. ASSUME NEW t \in Threads, NEW m \in Calls, OwnCall(t, m),
             P!SendTestStorage(t, m)
      PROVE  OwnCall(u, para'[u])
  BY <1>3 DEF P!SendTestStorage
<1>4. ASSUME NEW t \in Threads,
             \/ P!SendTestState(t) \/ P!SendClaim(t) \/ P!SendCopy(t)
             \/ P!SendCount(t) \/ P!SendMove(t) \/ P!Release(t)
      PROVE  OwnCall(u, para'[u])
  <2>1. UNCHANGED para
    BY <1>4 DEF P!SendTestState, P!TestState, P!SendClaim, P!Claim,
                P!SendCopy, P!SendCount, P!SendMove, P!MoveWrite, P!Release
  <2>2. pc[u] \in P!BeforeCopy
    BY <1>4 DEF P!SendTestState, P!TestState, P!SendClaim, P!Claim,
                P!SendCopy, P!SendCount, P!SendMove, P!MoveWrite, P!Release
  <2> QED
    BY <2>1, <2>2
<1> QED
  BY <1>1, <1>2, <1>3, <1>4, ThreadCases DEF queueVars

\* A message between its copy and its count is the sender's own call: nobody
\* else is past the test of state.
LEMMA NextCopiesOwn ==
  ASSUME TypeOK, P!TypeOK, P!Sound, Places, SendsOwn, CopiesOwn, [Next]_vars
  PROVE  CopiesOwn'
<1> SUFFICES ASSUME NEW u \in Threads, pc'[u] = "send_count"
             PROVE  OwnCall(u, buffer'[write_ptr'])
  BY DEF CopiesOwn, OwnCall
<1> USE DEF P!TypeOK, P!Transition, CopiesOwn
<1>1. CASE UNCHANGED <<pc, buffer, write_ptr>>
  BY <1>1
<1>2. CASE Kernel_init_func
  <2>1. UNCHANGED <<pc, buffer, write_ptr>>
    BY <1>2, SameQueue
    DEF Kernel_init_func, ReceiveRefused, queueVars, P!MaskedReceive,
        P!ReceiveMasked
  <2> QED
    BY <1>1, <2>1
<1>3. CASE P!SendCopy(u)
  <2>1. /\ pc[u] = "send_copy" /\ OwnCall(u, para[u])
        /\ write_ptr' = write_ptr
        /\ buffer' = [i \in P!Slots |-> IF i = write_ptr THEN para[u]
                                        ELSE buffer[i]]
    BY <1>3 DEF P!SendCopy, SendsOwn, P!BeforeCopy
  <2>2. write_ptr \in P!Slots
    BY <2>1 DEF P!Sound, P!Phases, P!Phase, P!AtRest, P!Holds, P!Working
  <2> QED
    BY <2>1, <2>2
<1>4. ASSUME NEW t \in Threads, NEW m \in Calls, P!SendTestStorage(t, m)
      PROVE  OwnCall(u, buffer'[write_ptr'])
  <2>1. pc[u] = "send_count" /\ UNCHANGED <<buffer, write_ptr>>
    BY <1>4 DEF P!SendTestStorage, P!ring
  <2> QED
    BY <2>1
<1>5. ASSUME NEW t \in Threads, ~P!SendCopy(u),
             \/ P!SendTestState(t) \/ P!SendClaim(t) \/ P!SendCopy(t)
             \/ P!SendCount(t) \/ P!SendMove(t) \/ P!Release(t)
      PROVE  OwnCall(u, buffer'[write_ptr'])
  <2>1. pc[u] = "send_count" /\ t # u
    BY <1>5 DEF P!SendTestState, P!TestState, P!SendClaim, P!Claim,
                P!SendCopy, P!SendCount, P!SendMove, P!MoveWrite, P!Release
  <2>2. ~P!Holds(t)
    BY <2>1 DEF P!Sound, P!Exclusive, P!Holds, P!Working
  <2>3. P!SendTestState(t)
    BY <1>5, <2>2
    DEF P!SendClaim, P!Claim, P!SendCopy, P!SendCount, P!SendMove,
        P!MoveWrite, P!Release, P!Holds, P!Working, P!Claiming
  <2> QED
    BY <2>1, <2>3 DEF P!SendTestState, P!TestState, P!ring
<1> QED
  BY <1>1, <1>2, <1>3, <1>4, <1>5, ThreadCases DEF queueVars

\* A step that leaves alone what the kernel thread reads keeps the calls.
LEMMA QuietAttributed ==
  ASSUME TypeOK, Places, Attributed, [Next]_vars, Quiet, CopiesOwn',
         kernel' = "serve" => kernel = "serve" \/ enqueued_number # 0
  PROVE  Attributed'
<1>1. \A u \in Threads : /\ step[u] = "switching" => step'[u] = "switching"
                         /\ Sent(u) => Sent(u)'
  BY SentStays
<1>2. \A m \in Calls : m.from \in Threads
  BY CallsAssumption
<1>3. Waits' = Waits /\ \A i \in Waits : Waiting(i)' = Waiting(i)
  BY DEF Quiet, Waits, Waiting, P!Slot
<1>4. os_message' = os_message
  BY DEF Quiet, os_message
<1>5. WaitingSound'
  BY <1>1, <1>2, <1>3, <1>4 DEF Attributed, WaitingSound, Quiet, Sent
<1>6. WaitingOnce'
  BY <1>3 DEF Attributed, WaitingOnce
<1>7. MessageSent'
  BY <1>1, <1>2, <1>4 DEF Attributed, MessageSent
<1>8. ExecutedSent'
  BY <1>1 DEF Attributed, ExecutedSent, Quiet
<1>9. ServesOne'
  BY DEF Attributed, ServesOne, Quiet
<1> QED
  BY <1>5, <1>6, <1>7, <1>8, <1>9 DEF Attributed

\* The copy of a message goes behind the calls that wait.
LEMMA SendCopyAttributed ==
  ASSUME TypeOK, P!TypeOK, P!Sound, Places, Attributed, CopiesOwn',
         [Next]_vars, NEW t \in Threads, P!SendCopy(t),
         UNCHANGED <<runs, kernel>>
  PROVE  Attributed'
<1>1. \A u \in Threads : /\ step[u] = "switching" => step'[u] = "switching"
                         /\ Sent(u) => Sent(u)'
  BY SentStays
<1>2. \A m \in Calls : m.from \in Threads
  BY CallsAssumption
<1>3. /\ P!AtRest /\ available_storage # 0
      /\ read_ptr' = IF enqueued_number = 0 THEN write_ptr ELSE read_ptr
      /\ buffer' = [i \in P!Slots |-> IF i = write_ptr THEN para[t]
                                      ELSE buffer[i]]
      /\ UNCHANGED <<enqueued_number, dest>>
  BY DEF P!SendCopy, P!counts, P!Transition, P!Sound, P!Phases, P!Phase,
         P!Holds, P!Working
<1>4. Waits' = Waits
  BY <1>3 DEF Waits
<1>5. ASSUME NEW i \in Waits PROVE Waiting(i)' = Waiting(i)
  <2>1. /\ enqueued_number # 0
        /\ i \in 0 .. Capacity - 1 /\ enqueued_number \in 0 .. Capacity - 1
        /\ i # enqueued_number /\ i \in 0 .. Capacity
    BY <1>3, QueueAssumption DEF Waits, P!AtRest, P!TypeOK
  <2>2. /\ read_ptr \in P!Slots /\ read_ptr' = read_ptr
        /\ write_ptr = P!Slot(read_ptr, enqueued_number)
    BY <1>3, <2>1, QueueAssumption DEF P!AtRest, P!Follows, P!Slots, P!Slot
  <2>3. P!Slot(read_ptr, i) \in P!Slots \ {write_ptr}
    BY <2>1, <2>2, P!SlotType, P!SlotsDiffer, QueueAssumption
  <2>4. buffer'[P!Slot(read_ptr, i)] = buffer[P!Slot(read_ptr, i)]
    BY <1>3, <2>3
  <2> QED
    BY <2>2, <2>4 DEF Waiting, P!Slot
<1>6. os_message' = os_message
  BY <1>3 DEF os_message
<1>7. WaitingSound'
  BY <1>1, <1>2, <1>4, <1>5, <1>6 DEF Attributed, WaitingSound, Sent
<1>8. WaitingOnce'
  BY <1>4, <1>5 DEF Attributed, WaitingOnce
<1>9. MessageSent' /\ ExecutedSent'
  BY <1>1, <1>2, <1>6 DEF Attributed, MessageSent, ExecutedSent
<1>10. ServesOne'
  BY <1>3 DEF Attributed, ServesOne
<1> QED
  BY <1>7, <1>8, <1>9, <1>10 DEF Attributed

\* A send counts in a call that is new to the kernel thread.
LEMMA SendCountAttributed ==
  ASSUME TypeOK, P!TypeOK, P!Sound, Places, Attributed, CopiesOwn',
         [Next]_vars, NEW t \in Threads, P!SendCount(t),
         UNCHANGED <<runs, kernel>>
  PROVE  Attributed'
<1>1. \A u \in Threads : /\ step[u] = "switching" => step'[u] = "switching"
                         /\ Sent(u) => Sent(u)'
  BY SentStays
<1>2. \A m \in Calls : m.from \in Threads
  BY CallsAssumption
<1>3. /\ pc[t] = "send_count" /\ pc'[t] = "send_move"
      /\ enqueued_number' = P!Succ(enqueued_number)
      /\ UNCHANGED <<read_ptr, write_ptr, buffer, dest>>
  BY DEF P!SendCount, P!Transition, P!TypeOK
<1>4. /\ enqueued_number + available_storage = Capacity
      /\ available_storage # 0
      /\ P!Follows(read_ptr, enqueued_number, write_ptr)
  BY <1>3 DEF P!Sound, P!Phases, P!Phase, P!Holds, P!Working
<1>5. /\ enqueued_number \in Nat
      /\ enqueued_number' = enqueued_number + 1
      /\ P!Slot(read_ptr, enqueued_number) = write_ptr
  BY <1>3, <1>4, QueueAssumption
  DEF P!Succ, P!TypeOK, P!Follows, P!Slots, P!Slot
<1>6. /\ Waits' = Waits \cup {enqueued_number}
      /\ \A i \in Waits' : Waiting(i)' = Waiting(i)
  BY <1>3, <1>5 DEF Waits, Waiting, P!Slot
<1>7. /\ OwnCall(t, Waiting(enqueued_number))
      /\ step[t] = "sending" /\ ~Sent(t) /\ Sent(t)'
  BY <1>3, <1>5
  DEF Waiting, Attributed, CopiesOwn, Places, Sends, Sent
<1>8. runs[t] = 0 /\ (os_message # NoMessage => os_message.from # t)
  BY <1>7, TypeParts
  DEF Attributed, ExecutedSent, MessageSent, OwnType
<1>9. os_message' = os_message
  BY <1>3 DEF os_message
<1>10. WaitingSound'
  <2> SUFFICES ASSUME NEW i \in Waits'
               PROVE  /\ Waiting(i) \in Calls
                      /\ \/ step'[Waiting(i).from] = "switching"
                         \/ pc'[Waiting(i).from] \in {"send_move", "release"}
                      /\ runs[Waiting(i).from] = 0
                      /\ os_message # NoMessage
                           => os_message.from # Waiting(i).from
    BY <1>3, <1>6, <1>9 DEF WaitingSound, Sent, Waiting, P!Slot
  <2>1. CASE i \in Waits
    BY <1>1, <1>2, <2>1 DEF Attributed, WaitingSound, Sent
  <2>2. CASE i = enqueued_number
    BY <1>7, <1>8, <2>2 DEF OwnCall, Sent
  <2> QED
    BY <1>6, <2>1, <2>2
<1>11. WaitingOnce'
  <2> SUFFICES ASSUME NEW i \in Waits', NEW j \in Waits',
                      Waiting(i).from = Waiting(j).from
               PROVE  i = j
    BY <1>6 DEF WaitingOnce
  <2>1. \A k \in Waits : Waiting(k).from # t
    BY <1>7 DEF Attributed, WaitingSound
  <2>2. Waiting(enqueued_number).from = t
    BY <1>7 DEF OwnCall
  <2> QED
    BY <1>6, <2>1, <2>2 DEF Attributed, WaitingOnce
<1>12. MessageSent' /\ ExecutedSent'
  BY <1>1, <1>2, <1>9 DEF Attributed, MessageSent, ExecutedSent
<1>13. ServesOne'
  BY <1>5 DEF ServesOne
<1> QED
  BY <1>10, <1>11, <1>12, <1>13 DEF Attributed

\* What executing the call m does to the history: nobody's count but that of
\* the sender changes.
LEMMA ExecuteRuns ==
  ASSUME OwnType, NEW m \in Calls \cup {NoMessage}, Execute(m)
  PROVE  \A t \in Threads : (m = NoMessage \/ m.from # t) => runs'[t] = runs[t]
  BY DEF Execute, OwnType

\* What the kernel thread receives is the oldest waiting call, and nobody is
\* at work in the queue.
LEMMA OldestReceived ==
  ASSUME P!TypeOK, P!Sound, P!MaskedReceive
  PROVE  /\ \A t \in Threads : pc[t] \notin P!Working
         /\ P!AtRest /\ read_ptr \in P!Slots
         /\ enqueued_number \in Nat \ {0} /\ 0 \in Waits
         /\ os_message' = Waiting(0)
<1>1. enqueued_number # 0
  BY DEF P!MaskedReceive, P!ReceiveMasked
<1>2. \A t \in Threads : pc[t] \notin P!Working
  BY DEF P!Sound, P!BusyWhileWorking, P!MaskedReceive, P!ReceiveMasked
<1>3. P!AtRest
  <2>1. CASE \E t \in Threads : P!Holds(t)
    <3>1. PICK t \in Threads : P!Holds(t)
      BY <2>1
    <3>2. P!Phase(t) /\ pc[t] \in P!Claiming
      BY <1>2, <3>1 DEF P!Sound, P!Phases, P!Holds
    <3> QED
      BY <3>2 DEF P!Phase, P!Claiming
  <2>2. CASE \A t \in Threads : ~P!Holds(t)
    BY <2>2 DEF P!Sound, P!Rested
  <2> QED
    BY <2>1, <2>2
<1>4. /\ read_ptr \in P!Slots /\ P!Slot(read_ptr, 0) = read_ptr
      /\ enqueued_number \in Nat \ {0} /\ 0 \in Waits
  BY <1>1, <1>3, QueueAssumption
  DEF P!AtRest, P!Follows, P!Slots, P!Slot, P!TypeOK, Waits
<1>5. os_message' = Waiting(0)
  BY <1>4
  DEF P!MaskedReceive, P!ReceiveMasked, P!Fetched, os_message, Waiting,
      P!TypeOK, P!Receivers
<1> QED
  BY <1>2, <1>3, <1>4, <1>5

\* The kernel thread takes the oldest waiting call and executes it.
LEMMA MaskedAttributed ==
  ASSUME TypeOK, P!TypeOK, P!Sound, Places, Attributed, CopiesOwn',
         Kernel_init_func, P!MaskedReceive
  PROVE  Attributed'
<1>1. /\ UNCHANGED <<pc, step, buffer>> /\ enqueued_number # 0
      /\ enqueued_number' = enqueued_number - 1
      /\ read_ptr' = P!NextRead(enqueued_number - 1)
      /\ kernel' = "test" /\ Execute(os_message')
  BY DEF Kernel_init_func, P!MaskedReceive, P!ReceiveMasked
<1>2. \A t \in Threads : pc[t] \notin P!Working
  BY OldestReceived
<1>3. P!AtRest
  BY OldestReceived
<1>4. /\ read_ptr \in P!Slots
      /\ enqueued_number \in Nat \ {0} /\ 0 \in Waits
  BY OldestReceived
<1>5. os_message' = Waiting(0)
  BY OldestReceived
<1> DEFINE m == Waiting(0)
<1>6. /\ m \in Calls /\ m.from \in Threads
      /\ step[m.from] = "switching"
  BY <1>2, <1>4, CallsAssumption
  DEF Attributed, WaitingSound, Sent, P!Working
<1>7. \A t \in Threads : m.from # t => runs'[t] = runs[t]
  BY <1>1, <1>5, <1>6, ExecuteRuns, TypeParts
<1>8. ASSUME NEW i \in Waits'
      PROVE  /\ i + 1 \in Waits /\ i + 1 # 0
             /\ Waiting(i)' = Waiting(i + 1)
  <2>1. i \in Nat /\ i + 1 \in Waits /\ enqueued_number # 1
    BY <1>1, <1>4 DEF Waits
  <2>2. read_ptr' = P!Wrap(read_ptr + 1)
    BY <1>1, <1>4, <2>1, QueueAssumption DEF P!NextRead, P!Slots
  <2>3. P!Slot(P!Wrap(read_ptr + 1), i) = P!Slot(read_ptr, i + 1)
    <3>1. i + 1 < Capacity
      BY <1>3, <1>4, <2>1, QueueAssumption DEF P!AtRest, P!TypeOK, Waits
    <3> QED
      BY <1>4, <2>1, <3>1, QueueAssumption DEF P!Slots, P!Slot, P!Wrap
  <2>4. Waiting(i)' = buffer'[P!Slot(read_ptr', i)]
    BY DEF Waiting, P!Slot
  <2> QED
    BY <1>1, <2>1, <2>2, <2>3, <2>4 DEF Waiting
<1>9. ASSUME NEW i \in Waits'
      PROVE  /\ Waiting(i)' \in Calls
             /\ Sent(Waiting(i)'.from)
             /\ runs'[Waiting(i)'.from] = 0
             /\ m.from # Waiting(i)'.from
  <2>1. /\ Waiting(i + 1) \in Calls /\ Waiting(i + 1).from \in Threads
        /\ Sent(Waiting(i + 1).from) /\ runs[Waiting(i + 1).from] = 0
    BY <1>8, CallsAssumption DEF Attributed, WaitingSound
  <2>2. m.from # Waiting(i + 1).from
    BY <1>4, <1>8 DEF Attributed, WaitingOnce
  <2> QED
    BY <1>7, <1>8, <2>1, <2>2
<1> HIDE DEF m
<1>10. WaitingSound'
  BY <1>1, <1>5, <1>9 DEF WaitingSound, Sent, m
<1>11. WaitingOnce'
  <2> SUFFICES ASSUME NEW i \in Waits', NEW j \in Waits',
                      Waiting(i)'.from = Waiting(j)'.from
               PROVE  i = j
    BY DEF WaitingOnce
  <2>1. i + 1 = j + 1
    BY <1>8 DEF Attributed, WaitingOnce
  <2>2. i \in Nat /\ j \in Nat
    BY <1>1, <1>4 DEF Waits
  <2> QED
    BY <2>1, <2>2
<1>12. MessageSent'
  BY <1>1, <1>5, <1>6 DEF MessageSent, m
<1>13. ExecutedSent'
  BY <1>1, <1>6, <1>7 DEF Attributed, ExecutedSent
<1>14. ServesOne'
  BY <1>1 DEF ServesOne
<1> QED
  BY <1>10, <1>11, <1>12, <1>13, <1>14 DEF Attributed

\* The receive is refused: the kernel thread executes os_message once more.
LEMMA RefusedAttributed ==
  ASSUME TypeOK, P!TypeOK, Places, Attributed, CopiesOwn', Kernel_init_func,
         ReceiveRefused
  PROVE  Attributed'
<1>1. /\ UNCHANGED <<queueVars, step>>
      /\ kernel' = "test" /\ Execute(os_message')
  BY DEF Kernel_init_func, ReceiveRefused
<1>2. /\ UNCHANGED <<pc, enqueued_number>> /\ os_message' = os_message
      /\ Waits' = Waits /\ \A i \in Waits : Waiting(i)' = Waiting(i)
  BY <1>1 DEF queueVars, os_message, Waits, Waiting, P!Slot
<1>3. os_message \in Calls \cup {NoMessage}
  BY MessageType
<1>4. \A t \in Threads :
        (os_message = NoMessage \/ os_message.from # t) => runs'[t] = runs[t]
  BY <1>1, <1>2, <1>3, ExecuteRuns, TypeParts
<1>5. WaitingSound'
  BY <1>1, <1>2, <1>4, CallsAssumption DEF Attributed, WaitingSound, Sent
<1>6. WaitingOnce'
  BY <1>2 DEF Attributed, WaitingOnce
<1>7. MessageSent'
  BY <1>1, <1>2 DEF Attributed, MessageSent
<1>8. ExecutedSent'
  BY <1>1, <1>4 DEF Attributed, ExecutedSent, MessageSent
<1>9. ServesOne'
  BY <1>1 DEF ServesOne
<1> QED
  BY <1>5, <1>6, <1>7, <1>8, <1>9 DEF Attributed

\* Every step follows the calls, as long as no two sends overlap.
LEMMA NextAttributed ==
  ASSUME TypeOK, P!Sound, Places, SendsOwn, Attributed, [Next]_vars
  PROVE  Attributed'
<1>0. P!TypeOK
  BY TypeParts
<1>1. CopiesOwn'
  BY <1>0, NextCopiesOwn DEF Attributed
<1>2. CASE Kernel_init_func
  BY <1>0, <1>1, <1>2, MaskedAttributed, RefusedAttributed, SameQueue
  DEF Kernel_init_func
<1>3. CASE /\ UNCHANGED <<queueVars, runs>>
           /\ kernel' = "serve" => kernel = "serve" \/ enqueued_number # 0
  BY <1>1, <1>3, QuietAttributed DEF Quiet, queueVars
<1>4. ASSUME NEW t \in Threads, UNCHANGED <<runs, kernel>>,
             \/ \E m \in Calls : P!SendTestStorage(t, m)
             \/ P!SendTestState(t) \/ P!SendClaim(t) \/ P!SendMove(t)
             \/ P!Release(t)
      PROVE  Attributed'
  <2>1. Quiet
    BY <1>4
    DEF Quiet, P!SendTestStorage, P!SendTestState, P!TestState, P!SendClaim,
        P!Claim, P!SendMove, P!MoveWrite, P!Release, P!ring, P!counts
  <2> QED
    BY <1>1, <1>4, <2>1, QuietAttributed
<1>5. ASSUME NEW t \in Threads, UNCHANGED <<runs, kernel>>,
             P!SendCopy(t) \/ P!SendCount(t)
      PROVE  Attributed'
  BY <1>0, <1>1, <1>5, SendCopyAttributed, SendCountAttributed
<1> QED
  BY <1>2, <1>3, <1>4, <1>5, ThreadCases

\* Nothing is in os_queue at first and no call was executed.
LEMMA InitCallsSound == Init => CallsSound
<1> SUFFICES ASSUME Init PROVE CallsSound
  OBVIOUS
<1>1. Places /\ SendsOwn
  BY SameQueue DEF Init, P!Init, Places, Sends, SendsOwn, P!BeforeCopy
<1>2. Waits = {} /\ os_message = NoMessage
  BY SameQueue DEF Init, P!Init, P!Receivers, Waits, os_message
<1>3. WaitingSound /\ WaitingOnce /\ MessageSent
  BY <1>2 DEF WaitingSound, WaitingOnce, MessageSent
<1>4. CopiesOwn /\ ExecutedSent /\ ServesOne
  BY SameQueue DEF Init, P!Init, CopiesOwn, ExecutedSent, ServesOne
<1> QED
  BY <1>1, <1>3, <1>4 DEF CallsSound, Attributed

\* The invariant is inductive once the queue is known to be sound.
LEMMA NextCallsSound ==
  TypeOK /\ P!RingSound /\ CallsSound /\ [Next]_vars => CallsSound'
<1> SUFFICES ASSUME TypeOK, P!RingSound, CallsSound, [Next]_vars
             PROVE  CallsSound'
  OBVIOUS
<1>1. Places' /\ SendsOwn'
  BY NextPlaces, NextSendsOwn DEF CallsSound
<1>2. ASSUME ~overlapped' PROVE Attributed'
  <2>1. ~overlapped
    BY <1>2, QueueStep, P!NeverMends, QueueAssumption
  <2>2. P!Sound
    BY <2>1, P!SoundIsRingSound, QueueAssumption
  <2> QED
    BY <2>1, <2>2, NextAttributed DEF CallsSound
<1> QED
  BY <1>1, <1>2 DEF CallsSound

\* Every call is followed from its sender to the kernel thread.
LEMMA CallsAlwaysSound == Spec => []CallsSound
  BY InitCallsSound, NextCallsSound, TypeCorrect, QueueSound, PTL DEF Spec

\* The kernel thread of thread_manage.c never executes a call whose sender is
\* still inside os_queue_send, whatever the calls and however many threads
\* send: half copied messages, and messages counted in but not yet behind the
\* write pointer, are out of its reach as long as no two sends overlap.
THEOREM AlwaysExecutedAfterSent == Spec => []ExecutedAfterSent
<1>1. CallsSound => ExecutedAfterSent
  BY DEF CallsSound, Attributed, ExecutedSent, ExecutedAfterSent
<1> QED
  BY <1>1, CallsAlwaysSound, PTL

\* A call is executed again only by a receive that is refused because another
\* thread is stopped inside os_queue_send: the queue never holds two calls of
\* one thread, nor the call that os_message still holds.
THEOREM OnlyReexecutedWhileSending == Spec => ReexecutedOnlyWhileSending
<1> DEFINE Again == \A t \in Threads :
       runs[t] > 0 /\ ~overlapped /\ Kernel_init_func /\ os_message' = os_message
         /\ os_message # NoMessage /\ os_message.from = t
       => /\ state = "BUSYING"
          /\ \E u \in Threads \ {t} : pc[u] \in Q!Working
<1>1. TypeOK /\ P!RingSound /\ CallsSound /\ [Next]_vars => [Again]_vars
  <2> SUFFICES ASSUME TypeOK, P!RingSound, CallsSound, NEW t \in Threads,
                      runs[t] > 0, ~overlapped, Kernel_init_func,
                      os_message' = os_message, os_message # NoMessage,
                      os_message.from = t
               PROVE  /\ state = "BUSYING"
                      /\ \E u \in Threads \ {t} : pc[u] \in Q!Working
    OBVIOUS
  <2>1. P!TypeOK /\ P!Sound /\ Attributed /\ Places
    BY TypeParts, P!SoundIsRingSound, QueueAssumption DEF CallsSound
  <2>2. step[t] = "switching" /\ pc[t] \notin P!Working
    BY <2>1 DEF Attributed, ExecutedSent, Places, Sends, P!Working
  <2>3. ~P!MaskedReceive
    <3> SUFFICES ASSUME P!MaskedReceive PROVE FALSE
      OBVIOUS
    <3>1. os_message = Waiting(0) /\ 0 \in Waits
      BY <2>1, OldestReceived
    <3> QED
      BY <2>1, <3>1 DEF Attributed, WaitingSound
  <2>4. enqueued_number # 0
    BY <2>1 DEF Attributed, ServesOne, Kernel_init_func
  <2>5. state = "BUSYING"
    BY <2>1, <2>3, <2>4, SameQueue
    DEF Kernel_init_func, ReceiveRefused, P!TypeOK
  <2>6. \E u \in Threads : pc[u] \in P!Working
    BY <2>1, <2>5 DEF P!Sound, P!BusyWhileWorking
  <2> QED
    BY <2>2, <2>5, <2>6, SameQueue
<1> QED
  BY <1>1, TypeCorrect, QueueSound, CallsAlwaysSound, PTL
  DEF Spec, ReexecutedOnlyWhileSending
=============================================================================
