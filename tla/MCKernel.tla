------------------------------ MODULE MCKernel ------------------------------
(***************************************************************************)
(* The safety of the kernel in one run: the modules below look at it from  *)
(* four sides and share no state.  part says which of them a behaviour is  *)
(* about; the others stay as they are initialised:                         *)
(*                                                                         *)
(*   "ring"        ThreadSched: ring and contexts, statement by statement  *)
(*   "slices"      TimeSlice: how long a ready thread waits                *)
(*   "exceptions"  Exceptions: registers, stacks and priorities            *)
(*   "queues"      QueueRegistry: os_queue and two places for more queues  *)
(***************************************************************************)
EXTENDS Naturals, TLC

CONSTANTS Applications, Kernel, NULL,
          MaxTimers,              \* of ThreadSched
          Slices, Wrap,           \* of TimeSlice
          Callers, OsQueue, Places, MaxCreated  \* of QueueRegistry

VARIABLES part,
          next, prev, current, kernel_ptr, state, timer_own, armed, freed,
          saved, cpu, pc, arg, handler, causes, stopped,
          ring, status, slice, left, switch, tick, masked, waited,
          active, pending, basepri, running, regs, psp, top, pushed, pushes,
          calling, started, halted, nested,
          first, forward, back, marks, call, places, made, overlap, only,
          held, created

R == INSTANCE ThreadSched
S == INSTANCE TimeSlice
X == INSTANCE Exceptions WITH current <- running, saved <- top,
       stopped <- halted
Q == INSTANCE QueueRegistry WITH Threads <- Callers, next <- forward,
       prev <- back, state <- marks

ASSUME RingAssumption == /\ R!KernelAssumption /\ R!MaxTimersAssumption
                         /\ R!NullAssumption
ASSUME OtherAssumption == /\ S!SliceAssumption /\ X!ExceptionsAssumption
                          /\ Q!RegistryAssumption

ringVars == <<next, prev, current, kernel_ptr, state, timer_own, armed, freed,
              saved, cpu, pc, arg, handler, causes, stopped>>
sliceVars == <<ring, status, slice, left, switch, tick, masked, waited>>
exceptionVars == <<active, pending, basepri, running, regs, psp, top, pushed,
                   pushes, calling, started, halted, nested>>
queueVars == <<first, forward, back, marks, call, places, made, overlap, only,
               held, created>>
vars == <<part, ringVars, sliceVars, exceptionVars, queueVars>>

Init == /\ part \in {"ring", "slices", "exceptions", "queues"}
        /\ R!Init
        /\ S!Init
        /\ X!Init
        /\ pushes => part = "exceptions"
        /\ Q!Init

Next ==
  /\ UNCHANGED part
  /\ \/ /\ part = "ring" /\ R!Next
        /\ UNCHANGED <<sliceVars, exceptionVars, queueVars>>
     \/ /\ part = "slices" /\ S!Next
        /\ UNCHANGED <<ringVars, exceptionVars, queueVars>>
     \/ /\ part = "exceptions" /\ X!Next
        /\ UNCHANGED <<ringVars, sliceVars, queueVars>>
     \/ /\ part = "queues" /\ Q!Next
        /\ UNCHANGED <<ringVars, sliceVars, exceptionVars>>

Spec == Init /\ [][Next]_vars

\* What follows damage to the ring is of no interest.
UntilHarmed == ~R!Harmed

Symmetry == Permutations(Applications) \cup Permutations(Callers)
              \cup Permutations(Places \ {OsQueue})

-----------------------------------------------------------------------------
\* The types of each module.
TypesOK == R!TypeOK /\ S!TypeOK /\ X!TypeOK /\ Q!TypeOK

\* Between calls the ring holds exactly the READY threads, linked both ways,
\* whatever was created, put to sleep, woken, deleted and switched before; and
\* what is saved of a thread is its own, until a thread returns from its
\* function (operate_thread_list.c:65-110, thread_manage.c:60-90,
\* os_thread_schedule.s:82-107).
RingIntact == R!RingIntact /\ R!ContextsKept

\* A thread runs with its own registers and stack until PendSV preempts a
\* handler that has pushed registers; and no handler of the kernel runs in a
\* call that is masked (os_thread_schedule.s:60-110, os_thread_manage.c:66,
\* 162, thread_manage.c:24).
RegistersKept == X!RegistersKept /\ X!CallIsUninterrupted

\* While a ready thread waits, each other thread has one turn at most, however
\* they yield, sleep, wake, are created and deleted in the meantime
\* (task_switch_context.c:52-64, operate_thread_list.c:67).
WaitBounded == S!WaitBounded

\* The list of queues is intact between the calls, and a queue that was
\* deleted refuses every call, unless it was the only one or a call was under
\* way in it (queue.c:64, 90-103, 113-124).
QueuesIntact == Q!ListIntact /\ Q!RefusedAfterDelete
=============================================================================
