----------------------------- MODULE ThreadSched -----------------------------
(***************************************************************************)
(* Threads (thread_manage/): the ring of ready threads, the context switch *)
(* in PendSV, sleeping and waking, creation, deletion and return.          *)
(*                                                                         *)
(* The kernel thread executes system calls on the other threads with       *)
(* BASEPRI raised: no switch interrupts it, but TIM3 does, and wakes       *)
(* threads in its handler.  A thread that puts itself to sleep, or returns *)
(* from its function, changes the ring unmasked: both PendSV and TIM3 may  *)
(* land between its steps.  PendSV itself is interrupted by TIM3.  Each    *)
(* statement that links or unlinks a thread is a step.                     *)
(*                                                                         *)
(* saved[t] says whose context top_of_stack of t leads to, and cpu whose   *)
(* context the processor has.  os_thread_execute_ptr is NULL whenever      *)
(* anyone reads it and is left out; a time slice ends at any SysTick.      *)
(* stopped ends a behaviour: a fault, or a use of memory that was freed or *)
(* never initialised.  causes is a history variable: the events that do    *)
(* damage, which the properties name.                                      *)
(***************************************************************************)
EXTENDS Naturals, FiniteSets

CONSTANTS Applications,  \* the application threads
          Kernel,        \* os_thread_init
          MaxTimers,     \* a bound: timers armed for one thread at a time
          NULL

ASSUME KernelAssumption == Kernel \notin Applications
ASSUME MaxTimersAssumption == MaxTimers \in Nat \ {0}
ASSUME NullAssumption == NULL \notin Applications \cup {Kernel}

Threads == Applications \cup {Kernel}

VARIABLES next, prev,    \* os_thread_ready_next, os_thread_ready_previous
          current,       \* os_thread_current_ptr
          kernel_ptr,    \* os_thread_kernel_thread_ptr
          state,         \* the state of each thread
          timer_own,     \* the threads whose timer_own is set
          armed,         \* how many timers will resume each thread
          freed,         \* the threads whose memory was given back
          saved, cpu,
          pc,            \* where each thread is in a call that changes the ring
          arg,           \* the thread that the kernel thread's call is about
          handler,       \* where PendSV is, when TIM3 may interrupt it
          causes,
          stopped

links == <<next, prev>>
timers == <<timer_own, armed>>
contexts == <<saved, cpu>>
vars == <<links, current, kernel_ptr, state, timers, freed, contexts, pc, arg,
          handler, causes, stopped>>

Calling(t) == pc[t] # "run"

Init == /\ next = [t \in Threads |-> IF t = Kernel THEN Kernel ELSE NULL]
        /\ prev = next
        /\ current = Kernel
        /\ kernel_ptr = Kernel
        /\ state = [t \in Threads |-> IF t = Kernel THEN "READY" ELSE "NEW"]
        /\ timer_own = {}
        /\ armed = [t \in Threads |-> 0]
        /\ freed = {}
        /\ saved = [t \in Threads |-> t]
        /\ cpu = NULL
        /\ pc = [t \in Threads |-> "run"]
        /\ arg = NULL
        /\ handler = "none"
        /\ causes = {}
        /\ stopped = "no"

-----------------------------------------------------------------------------
\* The statements of os_thread_add_to_list, os_thread_remove_from_list and of
\* their copies in os_thread_create and os_thread_delete.  t goes in front of
\* the current thread, which is at the end of the ring.

LinkSelf(t) == /\ next' = [next EXCEPT ![t] = current]
               /\ prev' = [prev EXCEPT ![t] = prev[current]]

LinkNextOnly(t) == /\ next' = [next EXCEPT ![prev[current]] = t]
                   /\ UNCHANGED prev  \* a mutant of LinkNeighbours

LinkNeighbours(t) == /\ next' = [next EXCEPT ![prev[current]] = t]
                     /\ prev' = [prev EXCEPT ![current] = t]

Link(t) == /\ next' = [next EXCEPT ![t] = current, ![prev[current]] = t]
           /\ prev' = [prev EXCEPT ![t] = prev[current], ![current] = t]

UnlinkNext(t) == /\ prev' = [prev EXCEPT ![next[t]] = prev[t]]
                 /\ UNCHANGED next

UnlinkPrev(t) == /\ next' = [next EXCEPT ![prev[t]] = next[t]]
                 /\ UNCHANGED prev

Unlink(t) == /\ prev' = [prev EXCEPT ![next[t]] = prev[t]]
             /\ next' = [next EXCEPT ![prev[t]] = next[t]]

\* What os_thread_current_ptr becomes when t leaves the ring.
CurrentWithout(t) == IF current # t THEN current
                     ELSE IF next'[t] = t THEN NULL ELSE next'[t]

\* A behaviour ends where current becomes NULL: what follows reads through it.
NoThread == stopped' = IF current' = NULL THEN "fault" ELSE stopped

\* The context of the processor is saved into the current thread.
Save == saved' = [saved EXCEPT ![current] = cpu]

Goto(t, step) == pc' = [pc EXCEPT ![t] = step]
SetState(t, s) == state' = [state EXCEPT ![t] = s]

-----------------------------------------------------------------------------
\* Boot (os_kernel_enter): the kernel thread exists, os_define_application
\* creates threads, and os_first_start runs the kernel thread.  It also stores
\* the address of os_thread_current_ptr into os_thread_kernel_thread_ptr.

BootCreate(t) == /\ cpu = NULL
                 /\ state[t] = "NEW"
                 /\ Link(t)
                 /\ SetState(t, "READY")
                 /\ UNCHANGED <<current, kernel_ptr, timers, freed, contexts, pc,
                                arg, handler, causes, stopped>>

os_first_start == /\ cpu = NULL
                  /\ cpu' = saved[current]
                  /\ kernel_ptr' = NULL
                  /\ UNCHANGED <<links, current, state, timers, freed, saved, pc,
                                 arg, handler, causes, stopped>>

-----------------------------------------------------------------------------
\* Calls.  target(t) is the thread that the call of t is about: the kernel
\* thread's argument, or the calling thread itself.

target(t) == IF t = Kernel THEN arg ELSE t

Runs(t) == /\ stopped = "no"
           /\ handler = "none"
           /\ cpu = t
           /\ t \notin freed

At(t, step) == Runs(t) /\ pc[t] = step

\* A call of t may begin: of the kernel thread on u, or of a thread on itself.
Begins(t, u) == /\ At(t, "run")
                /\ u \notin freed
                /\ t \in {Kernel, u}
                /\ arg' = IF t = Kernel THEN u ELSE arg

ThreadFrame == UNCHANGED <<kernel_ptr, contexts, handler, causes>>

\* os_thread_create, in the kernel thread.
BeginCreate(u) == /\ Begins(Kernel, u)
                  /\ state[u] = "NEW"
                  /\ LinkSelf(u)
                  /\ Goto(Kernel, "create")
                  /\ UNCHANGED <<current, state, timers, freed, stopped>>
                  /\ ThreadFrame

EndCreate == /\ At(Kernel, "create")
             /\ LinkNeighbours(arg)
             /\ SetState(arg, "READY")
             /\ Goto(Kernel, "run")
             /\ UNCHANGED <<current, timers, freed, arg, stopped>>
             /\ ThreadFrame

\* os_thread_sleeping.  A thread with a timer_own is refused.
BeginSleep(t, u) ==
  /\ Begins(t, u)
  /\ state[u] # "NEW"
  /\ u \notin timer_own
  /\ armed[u] < MaxTimers
  /\ timer_own' = timer_own \cup {u}
  /\ SetState(u, "SLEEPING")
  /\ Goto(t, "sleep_arm")
  /\ UNCHANGED <<links, current, armed, freed, stopped>>
  /\ ThreadFrame

ArmedTimersNone(t) == armed  \* a mutant of ArmedTimers

ArmedTimers(t) == [armed EXCEPT ![t] = @ + 1]

\* os_timer_create.  A thread that sleeps itself yields, another is unlinked.

Arm(t) == /\ At(t, "sleep_arm")
          /\ armed' = ArmedTimers(target(t))
          /\ Goto(t, IF target(t) = current THEN "yield" ELSE "unlink_next")
          /\ UNCHANGED <<links, current, state, timer_own, freed, arg, stopped>>
          /\ ThreadFrame

\* The same thread is removed from os_thread_current_ptr's list and, over the
\* same links, from os_thread_execute_ptr's.
SleepUnlink(t) ==
  /\ \/ At(t, "unlink_next") /\ UnlinkNext(arg) /\ Goto(t, "unlink_prev")
     \/ At(t, "unlink_prev") /\ UnlinkPrev(arg) /\ Goto(t, "unlink_again")
     \/ At(t, "unlink_again") /\ Unlink(arg) /\ Goto(t, "run")
  /\ UNCHANGED <<current, state, timers, freed, arg, stopped>>
  /\ ThreadFrame

\* os_thread_resume, in the kernel thread.  The timer stays armed.
BeginResume(u) == /\ Begins(Kernel, u)
                  /\ state[u] = "SLEEPING"
                  /\ LinkSelf(u)
                  /\ Goto(Kernel, "resume_link")
                  /\ UNCHANGED <<current, state, timers, freed, stopped>>
                  /\ ThreadFrame

ResumeLink == /\ At(Kernel, "resume_link")
              /\ LinkNeighbours(arg)
              /\ Goto(Kernel, "resume_ready")
              /\ UNCHANGED <<current, state, timers, freed, arg, stopped>>
              /\ ThreadFrame

EndResume == /\ At(Kernel, "resume_ready")
             /\ SetState(arg, "READY")
             /\ timer_own' = timer_own \ {arg}
             /\ Goto(Kernel, "run")
             /\ UNCHANGED <<links, current, armed, freed, arg, stopped>>
             /\ ThreadFrame

\* os_thread_delete, in the kernel thread or in thread_return_handle.  With one
\* thread in the ring it refuses, and a thread that returned spins for ever;
\* the timer_own of a sleeping thread was never linked nor initialised.
BeginDelete(t, u) ==
  /\ Begins(t, u)
  /\ state[u] # "NEW"
  /\ next[current] # current
  /\ IF state[u] = "READY"
       THEN /\ UnlinkNext(u)
            /\ Goto(t, "delete_prev")
            /\ UNCHANGED <<current, state, timers, freed, stopped>>
       ELSE /\ stopped' = "undefined"
            /\ UNCHANGED <<links, current, state, timers, freed, pc>>
  /\ UNCHANGED <<kernel_ptr, contexts, handler>>
  /\ causes' = IF t = u THEN causes \cup {"return"} ELSE causes

EndDelete(t) == /\ At(t, "delete_prev")
                /\ UnlinkPrev(target(t))
                /\ current' = CurrentWithout(target(t))
                /\ freed' = freed \cup {target(t)}
                /\ Goto(t, "run")
                /\ NoThread
                /\ UNCHANGED <<state, timers, arg>>
                /\ ThreadFrame

\* A call on a thread whose memory was given back.
UseFreed == /\ At(Kernel, "run")
            /\ freed # {}
            /\ stopped' = "undefined"
            /\ UNCHANGED <<links, current, state, timers, freed, pc, arg>>
            /\ ThreadFrame

\* os_switch_to_kernel_thread: SVC_Handler and task_switch_to_kernel_thread.
\* The kernel thread is linked in front of the current one, by its own links
\* only; but its pointer is lost, and the context it leads to faults.
SwitchToKernel(t) ==
  /\ At(t, "run")
  /\ t \in Applications
  /\ IF kernel_ptr = Kernel
       THEN /\ Save
            /\ LinkSelf(Kernel)
            /\ current' = Kernel
            /\ cpu' = saved'[Kernel]
            /\ UNCHANGED <<stopped, causes>>
       ELSE /\ stopped' = "fault"
            /\ causes' = causes \cup {"svc"}
            /\ UNCHANGED <<links, current, contexts>>
  /\ UNCHANGED <<kernel_ptr, state, timers, freed, pc, arg, handler>>

-----------------------------------------------------------------------------
\* PendSV_Handler and task_switch_context, at a thread's request or at the end
\* of its time slice (SysTick_Handler).  BASEPRI holds it back while the kernel
\* thread executes a call.

Interruptible == /\ stopped = "no"
                 /\ handler = "none"
                 /\ cpu # NULL
                 /\ ~(cpu = Kernel /\ Calling(Kernel))

Restore == /\ NoThread
           /\ cpu' = IF current' = NULL THEN cpu ELSE saved'[current']

SuccessorByPrev == prev[prev[current]]  \* a mutant of Successor

Successor == next[current]

PendSV ==
  /\ Interruptible
  /\ Save
  /\ IF state[current] = "READY"
       THEN /\ current' = Successor
            /\ Restore
            /\ UNCHANGED handler
       ELSE /\ handler' = "unlink_next"
            /\ UNCHANGED <<current, cpu, stopped>>
  /\ pc' = IF pc[cpu] = "yield" THEN [pc EXCEPT ![cpu] = "run"] ELSE pc
  /\ causes' = IF pc[cpu] \in {"sleep_arm", "delete_prev"}
                 THEN causes \cup {"preempted"} ELSE causes
  /\ UNCHANGED <<links, kernel_ptr, state, timers, freed, arg>>

PendSVUnlink ==
  /\ stopped = "no"
  /\ \/ /\ handler = "unlink_next"
        /\ UnlinkNext(current)
        /\ handler' = "unlink_prev"
        /\ UNCHANGED <<current, saved, cpu, stopped>>
     \/ /\ handler = "unlink_prev"
        /\ UnlinkPrev(current)
        /\ handler' = "none"
        /\ current' = CurrentWithout(current)
        /\ UNCHANGED saved
        /\ Restore
  /\ UNCHANGED <<kernel_ptr, state, timers, freed, pc, arg, causes>>

DueOrDone(t) == armed[t] >= 0  \* a mutant of Due

Due(t) == armed[t] > 0

\* A timer's thread is put where links are half changed, or is itself the one
\* whose links or state are being changed.
Disturbs(t) ==
  \/ handler = "unlink_next" /\ t = current
  \/ handler = "unlink_prev"
  \/ \E u \in Threads :
       \/ Calling(u) /\ t = target(u)
       \/ pc[u] \in {"create", "resume_link"}
       \/ /\ pc[u] \in {"unlink_prev", "unlink_again", "delete_prev"}
          /\ current \in {target(u), next[target(u)]}

\* TIM3_IRQHandler expires a timer: os_thread_resume of its thread, in an
\* interrupt that nothing masks.
Expire(t) ==
  /\ stopped = "no"
  /\ Due(t)
  /\ armed' = [armed EXCEPT ![t] = @ - 1]
  /\ IF state[t] = "SLEEPING"
       THEN /\ Link(t)
            /\ SetState(t, "READY")
            /\ timer_own' = timer_own \ {t}
            /\ causes' = IF Disturbs(t) THEN causes \cup {"tick"} ELSE causes
       ELSE UNCHANGED <<links, state, timer_own, causes>>
  /\ stopped' = IF t \in freed THEN "undefined" ELSE stopped
  /\ UNCHANGED <<current, kernel_ptr, freed, contexts, pc, arg, handler>>

-----------------------------------------------------------------------------
Call(t) == \/ \E u \in Applications : BeginSleep(t, u) \/ BeginDelete(t, u)
           \/ Arm(t)
           \/ SleepUnlink(t)
           \/ EndDelete(t)

KernelCall == \/ \E u \in Applications : BeginCreate(u) \/ BeginResume(u)
              \/ EndCreate
              \/ ResumeLink
              \/ EndResume
              \/ UseFreed

Next == \/ \E t \in Applications : BootCreate(t) \/ SwitchToKernel(t)
        \/ os_first_start
        \/ \E t \in Threads : Call(t) \/ Expire(t)
        \/ KernelCall
        \/ PendSV
        \/ PendSVUnlink

Spec == Init /\ [][Next]_vars

\* SysTick requests a switch again and again; the request stays pending while
\* BASEPRI is raised and is served as soon as it is not.  A masked call and an
\* interrupt handler run on to their end, and TIM3 counts while a timer is
\* armed (SoftwareTimer).  Nothing is assumed of what application threads do.
MaskedStep == Arm(Kernel) \/ SleepUnlink(Kernel) \/ EndDelete(Kernel)
              \/ EndCreate \/ ResumeLink \/ EndResume

Fairness == /\ WF_vars(os_first_start)
            /\ SF_vars(PendSV)
            /\ WF_vars(PendSVUnlink)
            /\ WF_vars(MaskedStep)
            /\ \A t \in Threads : WF_vars(Expire(t))

FairSpec == Spec /\ Fairness

-----------------------------------------------------------------------------
\* Every variable keeps its type; no timer expires that is not armed.
TypeOK == /\ next \in [Threads -> Threads \cup {NULL}]
          /\ prev \in [Threads -> Threads \cup {NULL}]
          /\ current \in Threads \cup {NULL}
          /\ kernel_ptr \in {Kernel, NULL}
          /\ state \in [Threads -> {"NEW", "READY", "SLEEPING"}]
          /\ timer_own \subseteq Applications
          /\ armed \in [Threads -> Nat]
          /\ freed \subseteq Applications
          /\ saved \in [Threads -> Threads]
          /\ cpu \in Threads \cup {NULL}
          /\ arg \in Applications \cup {NULL}
          /\ handler \in {"none", "unlink_next", "unlink_prev"}
          /\ causes \subseteq {"return", "preempted", "tick", "svc"}
          /\ stopped \in {"no", "fault", "undefined"}

\* The ring or a sleeper was damaged: TIM3 woke a thread between two steps
\* that it disturbs, or a time slice ended between two steps of a call that
\* is not masked.
Harmed == causes \cap {"tick", "preempted"} # {}

Quiet == handler = "none" /\ \A t \in Threads : ~Calling(t)

Exists(t) == state[t] # "NEW" /\ t \notin freed

\* The threads that the ring leads to: the least set that holds the current
\* thread and, with a thread, the next one.
Ring == {t \in Threads \cup {NULL} :
           \A S \in SUBSET (Threads \cup {NULL}) :
             current \in S /\ (\A u \in S \ {NULL} : next[u] \in S) => t \in S}

\* Between calls the ring holds exactly the READY threads, linked both ways,
\* whatever was created, put to sleep, woken, deleted and switched before: a
\* tick or a time slice does damage only at the steps that Harmed records.
RingIntact ==
  ~Harmed /\ Quiet =>
    /\ Ring = {t \in Threads : state[t] = "READY" /\ Exists(t)}
    /\ \A t \in Ring : prev[next[t]] = t

\* top_of_stack of every thread leads to its own context, and the processor
\* has the context of the current thread, until a thread returns from its
\* function: the switch after its deletion saves it into another thread.
ContextsKept ==
  "return" \notin causes =>
    /\ \A t \in Threads : saved[t] = t
    /\ cpu # NULL /\ handler = "none" /\ stopped = "no" => cpu = current

\* A READY thread gets the processor: the switches go round the whole ring,
\* and what joins it does so behind every thread that waits.
EveryReadyThreadRuns ==
  \A t \in Threads :
    Exists(t) /\ state[t] = "READY"
      ~> \/ cpu = t \/ state[t] # "READY" \/ t \in freed
         \/ stopped # "no" \/ Harmed \/ "return" \in causes

\* A sleeping thread wakes, unless its own time slice ended before its timer
\* was armed, or other damage was done before.
EverySleeperWakes ==
  \A t \in Threads :
    state[t] = "SLEEPING" ~> state[t] = "READY" \/ stopped # "no" \/ Harmed

\* What task_switch_context.c says (line 9): when no thread can run, the kernel
\* thread does.  Line 28 can empty the ring after line 10 has looked at it,
\* and PendSV_Handler then restores a context from NULL.
SomeThreadToRun == current # NULL
=============================================================================
