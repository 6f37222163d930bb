----------------------------- MODULE SystemCall -----------------------------
(***************************************************************************)
(* System calls: application threads put calls into os_queue               *)
(* (system_call.c) and the kernel thread takes them out and executes them  *)
(* (thread_manage.c, init_func).  The queue is MessageQueue, in which the  *)
(* application threads only send and the kernel thread only receives.      *)
(*                                                                         *)
(* The first start of the scheduler has stored the address of a variable   *)
(* into os_thread_kernel_thread_ptr (os_thread_schedule.s, 114), so that   *)
(* the SVC at the end of a system call restores a context from there and   *)
(* the processor faults.  Until the first SVC, threads that a time slice   *)
(* has stopped before theirs have their calls executed.                    *)
(*                                                                         *)
(* Abstracted: the ring of ready threads (ThreadSched models it) is the    *)
(* set of READY threads, any of which may run next; memory does not run    *)
(* out.  A call that the code would execute on memory it has freed or not  *)
(* initialised ends the behaviour (stopped = "undefined").                 *)
(***************************************************************************)
EXTENDS Naturals, Sequences, FiniteSets

CONSTANTS Threads,   \* application threads
          Kernel,    \* os_thread_init, the kernel thread
          Calls,     \* the calls the threads may make
          NoMessage,
          Capacity,
          NULL,
          UIntMax

\* A call: who makes it, which entry of system_call_array, and the thread it
\* names.  "unassigned" stands for an index below 512 whose entry is 0.
ASSUME CallsAssumption ==
         Calls \subseteq [from : Threads, on : Threads,
                         op : {"delete", "sleep", "resume", "unassigned"}]

\* What the queue assumes of its constants.
ASSUME QueueAssumption == /\ Capacity \in Nat \ {0}
                          /\ UIntMax \in Nat /\ Capacity <= UIntMax
                          /\ NULL \notin Nat
                          /\ Kernel \notin Threads

VARIABLES state, enqueued_number, available_storage, read_ptr, write_ptr,
          buffer, dest, para, pc, overlapped,
          step,     \* where each thread is in system_call_use
          thread,   \* the state of each application thread
          kernel,   \* where the kernel thread is in init_func
          runs,     \* how often each thread's call was executed: 0, 1, 2 or more
          stopped   \* why the system does not go on, if it does not

Q == INSTANCE MessageQueue WITH Messages <- Calls

queueVars == <<state, enqueued_number, available_storage, read_ptr, write_ptr,
               buffer, dest, para, pc, overlapped>>
vars == <<queueVars, step, thread, kernel, runs, stopped>>

os_message == dest[Kernel]

Init == /\ Q!Init
        /\ step = [t \in Threads |-> "application"]
        /\ thread = [t \in Threads |-> "READY"]
        /\ kernel = "test"
        /\ runs = [t \in Threads |-> 0]
        /\ stopped = "no"

Running(t) == stopped = "no" /\ thread[t] = "READY"

-----------------------------------------------------------------------------
\* system_call_use.  The result of os_queue_send is ignored: a refused call
\* goes on to the SVC like an accepted one.

CallStep(t, to) == /\ step' = [step EXCEPT ![t] = to]
                   /\ UNCHANGED <<thread, kernel, runs, stopped>>

BeginCall(t) == /\ Running(t)
                /\ step[t] = "application"
                /\ \E c \in Calls : c.from = t /\ Q!SendTestStorage(t, c)
                /\ CallStep(t, "sending")

BeginRefused(t) == /\ Running(t)
                   /\ step[t] = "application"
                   /\ available_storage = 0
                   /\ CallStep(t, "switching")
                   /\ UNCHANGED queueVars

Sending(t) == \/ Q!SendTestState(t)
              \/ Q!SendClaim(t)
              \/ Q!SendCopy(t)
              \/ Q!SendCount(t)
              \/ Q!SendMove(t)

SendAs(t, steps) ==
  /\ Running(t)
  /\ step[t] = "sending"
  /\ steps
  /\ CallStep(t, IF pc'[t] = "idle" THEN "switching" ELSE "sending")

ContinueSendKeeping(t) == SendAs(t, Sending(t))  \* a mutant of ContinueSend

ContinueSend(t) == SendAs(t, Sending(t) \/ Q!Release(t))

\* os_switch_to_kernel_thread: SVC with the lost kernel thread pointer.
SwitchToKernel(t) == /\ Running(t)
                     /\ step[t] = "switching"
                     /\ stopped' = "fault"
                     /\ UNCHANGED <<queueVars, step, thread, kernel, runs>>

-----------------------------------------------------------------------------
\* The functions of system_call_array, as the kernel thread executes them on
\* the thread u, with every interrupt but TIM3 masked.

Becomes(u, s) == thread' = [thread EXCEPT ![u] = s] /\ UNCHANGED stopped
Stops(reason) == stopped' = reason /\ UNCHANGED thread
NoEffect == UNCHANGED <<thread, stopped>>

\* os_thread_delete refuses while the kernel thread is alone in the ring.  The
\* timer_own of a sleeping thread is a TIMER that was never initialised.
Delete(u) == CASE \A t \in Threads : thread[t] # "READY" -> NoEffect
               [] thread[u] = "READY" -> Becomes(u, "DELETED")
               [] OTHER -> Stops("undefined")

\* os_thread_sleeping refuses a thread that has a timer already.
SleepInState(u, s) == CASE thread[u] = "READY" -> Becomes(u, s)
                        [] thread[u] = "SLEEPING" -> NoEffect
                        [] OTHER -> Stops("undefined")

SleepBlocked(u) == SleepInState(u, "BLOCKED")  \* a mutant of Sleep

Sleep(u) == SleepInState(u, "SLEEPING")

Resume(u) == IF thread[u] = "SLEEPING" THEN Becomes(u, "READY") ELSE NoEffect

\* A message that was never received has the type_id 0 and is not executed.
Execute(m) ==
  IF m = NoMessage THEN NoEffect /\ UNCHANGED runs
  ELSE /\ runs' = [runs EXCEPT ![m.from] = IF @ = 2 THEN 2 ELSE @ + 1]
       /\ CASE m.op = "delete" -> Delete(m.on)
            [] m.op = "sleep" -> Sleep(m.on)
            [] m.op = "resume" -> Resume(m.on)
            [] OTHER -> Stops("fault")

\* init_func.  enqueued_number is read before the interrupts are masked, and
\* the result of os_queue_receive is ignored: when it is refused, os_message
\* still holds the call of the last receive that was not.

TestNumber(guard) == /\ stopped = "no"
                     /\ kernel = "test"
                     /\ guard
                     /\ kernel' = "serve"
                     /\ UNCHANGED <<queueVars, step, thread, runs, stopped>>

KernelTestNothing == TestNumber(TRUE)                \* two mutants of
KernelTestKeepsOne == TestNumber(enqueued_number > 1) \* KernelTest

KernelTest == TestNumber(enqueued_number # 0)

ReceiveRefused == /\ enqueued_number = 0 \/ state # "READY"
                  /\ UNCHANGED queueVars

Kernel_init_func == /\ stopped = "no"
                    /\ kernel = "serve"
                    /\ Q!MaskedReceive \/ ReceiveRefused
                    /\ Execute(os_message')
                    /\ kernel' = "test"
                    /\ UNCHANGED step

\* TIM3 fires the timer of a sleeping thread: os_thread_resume.
Wake(t) == /\ stopped = "no"
           /\ thread[t] = "SLEEPING"
           /\ Becomes(t, "READY")
           /\ UNCHANGED <<queueVars, step, kernel, runs>>

-----------------------------------------------------------------------------
Next == \/ KernelTest
        \/ Kernel_init_func
        \/ \E t \in Threads : \/ BeginCall(t)
                              \/ BeginRefused(t)
                              \/ ContinueSend(t)
                              \/ SwitchToKernel(t)
                              \/ Wake(t)

Spec == Init /\ [][Next]_vars

\* The kernel thread is READY for ever and SysTick takes the processor from
\* every other thread, so it always runs again; so does a thread that stays
\* READY.  Nothing is assumed of when a thread takes its SVC.
Fairness == /\ WF_vars(KernelTest)
            /\ WF_vars(Kernel_init_func)
            /\ \A t \in Threads : WF_vars(ContinueSend(t)) /\ WF_vars(Wake(t))

FairSpec == Spec /\ Fairness

-----------------------------------------------------------------------------
\* Every variable keeps its type.
TypeOK == /\ Q!TypeOK
          /\ step \in [Threads -> {"application", "sending", "switching"}]
          /\ thread \in [Threads -> {"READY", "SLEEPING", "DELETED"}]
          /\ kernel \in {"test", "serve"}
          /\ runs \in [Threads -> 0 .. 2]
          /\ stopped \in {"no", "fault", "undefined"}

\* The kernel thread never executes a call whose sender is still inside
\* os_queue_send: neither a message half copied, nor one counted in but not
\* yet behind the write pointer.
ExecutedAfterSent ==
  ~overlapped => \A t \in Threads : runs[t] > 0 => step[t] = "switching"

\* init_func ignores the result of os_queue_receive, so it can execute a call
\* again; but only in a step it takes while another thread is stopped inside
\* os_queue_send, with the queue BUSYING.
ReexecutedOnlyWhileSending ==
  [][\A t \in Threads :
       runs[t] > 0 /\ ~overlapped /\ Kernel_init_func /\ os_message' = os_message
         /\ os_message # NoMessage /\ os_message.from = t
       => /\ state = "BUSYING"
          /\ \E u \in Threads \ {t} : pc[u] \in Q!Working]_vars

\* A call that was counted into os_queue is executed, unless the system stops,
\* two sends overlap, or the queue does not stay READY.
CountedCallIsExecuted ==
  <>[](state = "READY") =>
    \A t \in Threads :
      pc[t] = "send_move" ~> runs[t] > 0 \/ stopped # "no" \/ overlapped

\* The queue stays BUSYING for ever only by what the kernel thread executes:
\* it deletes the thread whose send is in progress, or puts it to sleep again
\* and again.
StuckSender ==
  <>[](state = "BUSYING" /\ stopped = "no") =>
    \E t \in Threads : []<>(pc[t] \in Q!Working /\ thread[t] # "READY")
=============================================================================
