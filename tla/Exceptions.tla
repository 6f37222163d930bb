------------------------------ MODULE Exceptions ------------------------------
(***************************************************************************)
(* The exceptions of the kernel (os_initialize_low_level, os_thread_       *)
(* schedule.s, SysTick_Handler, init_func): which one may preempt which,   *)
(* and whose registers r4-r11 and stack the processor has when a handler   *)
(* returns.  A lower number is a higher priority; BASEPRI, when it is not  *)
(* 0, holds back what is not above it.  Which thread follows which is in   *)
(* ThreadSched: here it is any.                                            *)
(*                                                                         *)
(*   active   the handlers that are running, the innermost one last        *)
(*   pending  the exceptions that have been requested                      *)
(*   basepri  BASEPRI                                                      *)
(*   current  os_thread_current_ptr                                        *)
(*   regs     whose values r4-r11 are: a thread's, or SysTick_Handler's    *)
(*   psp      whose stack PSP points into                                  *)
(*   saved    the registers stored at the top of each thread's stack       *)
(*   pushed   what SysTick_Handler has pushed to the main stack            *)
(*   pushes   whether the build lets SysTick_Handler use a register of     *)
(*            r4-r11, which it then pushes and pops                        *)
(*   calling  the kernel thread is between OS_DISABLE and OS_ENABLE        *)
(*   started  os_state                                                     *)
(*   stopped  a system call has been made: SVC_Handler ends in a fault     *)
(*   nested   bookkeeping: PendSV has run within SysTick_Handler           *)
(***************************************************************************)
EXTENDS Naturals, Sequences

CONSTANTS Applications, Kernel

ExceptionsAssumption == Kernel \notin Applications

VARIABLES active, pending, basepri, current, regs, psp, saved, pushed, pushes,
          calling, started, stopped, nested

context == <<current, regs, psp, saved, pushed>>
vars == <<active, pending, basepri, context, pushes, calling, started, stopped,
          nested>>

Threads == Applications \cup {Kernel}
Exception == {"SVC", "PendSV", "SysTick"}

\* The priority bytes 0xff, 0xee and 0xff, of which four bits are there.
Priority(e) == IF e = "PendSV" THEN 14 ELSE 15

Masked == 14        \* OS_MAX_INTERRUPT, and 0xE0 in the handlers
Lowest == 16        \* of thread mode

\* The kernel thread is the first; every stack is as os_build_stack leaves it.
Init == /\ active = <<>> /\ pending = {} /\ basepri = 0
        /\ current = Kernel /\ regs = "main" /\ psp = "main"
        /\ saved = [t \in Threads |-> t]
        /\ pushed = "main" /\ pushes \in BOOLEAN
        /\ calling = FALSE /\ started = FALSE /\ stopped = FALSE
        /\ nested = FALSE

Running == IF active = <<>> THEN "thread" ELSE active[Len(active)]
Execution == IF active = <<>> THEN Lowest ELSE Priority(Running)

Taken(e) == /\ e \in pending /\ ~stopped
            /\ Priority(e) < Execution
            /\ basepri = 0 \/ Priority(e) < basepri

-----------------------------------------------------------------------------
\* os_thread_schedule; it is not left before PendSV.
Start == /\ ~started /\ Running = "thread" /\ "PendSV" \notin pending
         /\ pending' = pending \cup {"PendSV"}
         /\ UNCHANGED <<active, basepri, context, pushes, calling, started,
                        stopped, nested>>

InThread == started /\ Running = "thread" /\ ~stopped

\* THREAD_YILED of a thread: the kernel thread's at the end of its loop.
Yield == /\ InThread /\ ~calling
         /\ pending' = pending \cup {"PendSV"}
         /\ UNCHANGED <<active, basepri, context, pushes, calling, started,
                        stopped, nested>>

Mask == Masked

OS_DISABLE == /\ InThread /\ current = Kernel /\ ~calling
              /\ basepri' = Mask /\ calling' = TRUE
              /\ UNCHANGED <<active, pending, context, pushes, started, stopped,
                             nested>>

Unmask == 0

OS_ENABLE == /\ InThread /\ current = Kernel /\ calling
             /\ basepri' = Unmask /\ calling' = FALSE
             /\ UNCHANGED <<active, pending, context, pushes, started, stopped,
                            nested>>

\* os_switch_to_kernel_thread of an application.  Since os_first_start has
\* lost the kernel thread (os_thread_schedule.s:114), the handler faults.
SystemCall == /\ InThread /\ current # Kernel /\ basepri = 0
              /\ active' = Append(active, "SVC")
              /\ stopped' = TRUE
              /\ UNCHANGED <<pending, basepri, context, pushes, calling,
                             started, nested>>

\* The timer of SysTick; a tick while one is pending is lost.
Tick == /\ ~stopped
        /\ pending' = pending \cup {"SysTick"}
        /\ UNCHANGED <<active, basepri, context, pushes, calling, started,
                       stopped, nested>>

-----------------------------------------------------------------------------
SysTickEnter == /\ Taken("SysTick")
                /\ active' = Append(active, "SysTick")
                /\ pending' = pending \ {"SysTick"}
                /\ IF pushes THEN pushed' = regs /\ regs' = "SysTick"
                             ELSE UNCHANGED <<pushed, regs>>
                /\ UNCHANGED <<basepri, current, psp, saved, pushes, calling,
                               started, stopped, nested>>

\* The time slice has ended.  That of the kernel thread does not end before
\* its first start, which is some instructions after SysTick was enabled.
SysTickExpire == /\ Running = "SysTick" /\ started
                 /\ pending' = pending \cup {"PendSV"}
                 /\ UNCHANGED <<active, basepri, context, pushes, calling,
                                started, stopped, nested>>

SysTickReturn == /\ Running = "SysTick"
                 /\ active' = <<>>
                 /\ regs' = IF pushes THEN pushed ELSE regs
                 /\ UNCHANGED <<pending, basepri, current, psp, saved, pushed,
                                pushes, calling, started, stopped, nested>>

PendSVEnter == /\ Taken("PendSV")
               /\ active' = Append(active, "PendSV")
               /\ pending' = pending \ {"PendSV"}
               /\ nested' = (nested \/ Running = "SysTick")
               /\ UNCHANGED <<basepri, context, pushes, calling, started,
                              stopped>>

\* Mutant: the registers are saved for the thread that follows.
SavedForNext(t) == [saved EXCEPT ![t] = regs]

Saved(t) == [saved EXCEPT ![current] = regs]

\* PendSV_Handler: what it interrupts is saved for the current thread.  No
\* handler of this module preempts it, so that it is one step.
PendSVSwitch == /\ Running = "PendSV" /\ started
                /\ \E t \in Threads :
                     /\ current' = t
                     /\ saved' = Saved(t)
                     /\ regs' = saved'[t]
                     /\ psp' = t
                /\ basepri' = 0
                /\ active' = SubSeq(active, 1, Len(active) - 1)
                /\ UNCHANGED <<pending, pushed, pushes, calling, started,
                               stopped, nested>>

\* os_first_start.
FirstStart == /\ Running = "PendSV" /\ ~started
              /\ regs' = saved[current] /\ psp' = current
              /\ basepri' = 0 /\ started' = TRUE
              /\ active' = <<>>
              /\ UNCHANGED <<pending, current, saved, pushed, pushes, calling,
                             stopped, nested>>

Next == \/ Start \/ Yield \/ OS_DISABLE \/ OS_ENABLE \/ SystemCall \/ Tick
        \/ SysTickEnter \/ SysTickExpire \/ SysTickReturn
        \/ PendSVEnter \/ PendSVSwitch \/ FirstStart

Spec == Init /\ [][Next]_vars

-----------------------------------------------------------------------------
TypeOK == /\ active \in {<<>>, <<"SVC">>, <<"PendSV">>, <<"SysTick">>,
                         <<"SysTick", "PendSV">>}
          /\ pending \subseteq Exception
          /\ basepri \in {0, Masked}
          /\ current \in Threads
          /\ {regs, psp, pushed} \cup {saved[t] : t \in Threads}
               \subseteq Threads \cup {"main", "SysTick"}

\* A thread runs with its own registers and stack, and what is saved of the
\* others is theirs; unless the build lets SysTick_Handler push registers and
\* PendSV has preempted it, which saves the handler's registers for the thread
\* and gives the thread's to its successor (os_thread_manage.c:162).
RegistersKept ==
  ~(pushes /\ nested) =>
    /\ Running = "thread" /\ started => regs = current /\ psp = current
    /\ started => \A t \in Threads \ {current} : saved[t] = t

\* While the kernel thread executes a call no handler of the kernel runs and
\* no other thread becomes current (thread_manage.c:24-30), however the ticks
\* fall; and nothing stays masked when it does not.
CallIsUninterrupted ==
  /\ calling => active = <<>> /\ current = Kernel /\ basepri # 0
  /\ Running = "thread" /\ ~calling => basepri = 0
=============================================================================
