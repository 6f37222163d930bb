------------------------------ MODULE TimeSlice ------------------------------
(***************************************************************************)
(* Time slices (SysTick_Handler, task_switch_context): how long a thread   *)
(* waits for the processor while the ring of ready threads is turned,      *)
(* threads yield, sleep and wake, and the kernel thread masks SysTick and  *)
(* PendSV to create, delete, stop and resume threads.                      *)
(*                                                                         *)
(*   ring     the ready threads; the first one is os_thread_current_ptr,   *)
(*            and a thread that joins goes in front of it: to the end      *)
(*   status   the state of each thread                                     *)
(*   slice    time_slice_new;  left: time_slice_current                    *)
(*   switch   PendSV is pending;  tick: SysTick is                         *)
(*   masked   the kernel thread is between OS_DISABLE and OS_ENABLE        *)
(*   waited   bookkeeping: the ticks that each other thread has had since  *)
(*            a thread had the processor or became ready                   *)
(*                                                                         *)
(* Links and contexts are in ThreadSched; the return of a thread, which    *)
(* destroys a context there, is left out.                                  *)
(***************************************************************************)
EXTENDS Integers, SequencesExt

CONSTANTS Applications, Kernel,
          Slices,   \* that os_thread_create is called with
          Wrap      \* how many values time_slice_current has

SliceAssumption == /\ Kernel \notin Applications
                   /\ Wrap \in Nat /\ Wrap > 2
                   /\ Slices \subseteq 0 .. Wrap - 1

VARIABLES ring, status, slice, left, switch, tick, masked, waited

vars == <<ring, status, slice, left, switch, tick, masked, waited>>

Threads == Applications \cup {Kernel}
current == Head(ring)

NoWait == [u \in Threads |-> 0]

\* os_thread_initialize gives the kernel thread two ticks.
Init == /\ ring = <<Kernel>>
        /\ status = [t \in Threads |-> IF t = Kernel THEN "READY" ELSE "NEW"]
        /\ slice = [t \in Threads |-> IF t = Kernel THEN 2 ELSE 0]
        /\ left = slice
        /\ switch = FALSE /\ tick = FALSE /\ masked = FALSE
        /\ waited = [t \in Threads |-> NoWait]

\* time_slice_current--, unsigned.
CountedDown == (left[current] - 1) % Wrap

\* Mutant: a new turn starts with what the old one has left, nothing.
NewTurnNever(n) == n

NewTurn(n) == IF n = 0 THEN slice[current] ELSE n

Handle == /\ left' = [left EXCEPT ![current] = NewTurn(CountedDown)]
          /\ switch' = (switch \/ CountedDown = 0)
          /\ waited' = [t \in Threads |->
                         IF t \in ToSet(Tail(ring))
                         THEN [waited[t] EXCEPT ![current] = @ + 1]
                         ELSE waited[t]]

\* The timer ticks.  While SysTick is masked one tick waits, more are lost.
SysTick == /\ ~switch
           /\ IF masked
              THEN tick' = TRUE /\ UNCHANGED <<left, switch, waited>>
              ELSE Handle /\ UNCHANGED tick
           /\ UNCHANGED <<ring, status, slice, masked>>

Rotated == Append(Tail(ring), current)

\* PendSV, which is taken before SysTick and before any thread goes on.
PendSV == /\ switch /\ ~masked
          /\ ring' = IF status[current] = "READY" THEN Rotated ELSE Tail(ring)
          /\ switch' = FALSE
          /\ waited' = [waited EXCEPT ![Head(ring')] = NoWait]
          /\ UNCHANGED <<status, slice, left, tick, masked>>

MayRun(t) == current = t /\ ~switch

\* THREAD_YILED, of the kernel thread outside of its calls.
Yield(t) == /\ MayRun(t) /\ ~masked
            /\ switch' = TRUE
            /\ UNCHANGED <<ring, status, slice, left, tick, masked, waited>>

\* os_thread_sleeping of the calling thread.
Sleep(t) == /\ MayRun(t) /\ t \in Applications
            /\ status' = [status EXCEPT ![t] = "SLEEPING"]
            /\ switch' = TRUE
            /\ UNCHANGED <<ring, slice, left, tick, masked, waited>>

OS_DISABLE == /\ MayRun(Kernel) /\ ~masked
              /\ masked' = TRUE
              /\ UNCHANGED <<ring, status, slice, left, switch, tick, waited>>

\* A tick that has waited is handled.
OS_ENABLE == /\ masked
             /\ masked' = FALSE /\ tick' = FALSE
             /\ IF tick THEN Handle ELSE UNCHANGED <<left, switch, waited>>
             /\ UNCHANGED <<ring, status, slice>>

Position(u) == CHOOSE i \in 1 .. Len(ring) : ring[i] = u
Without(u) == RemoveAt(ring, Position(u))

\* os_thread_create, and os_thread_sleeping or os_thread_delete of another
\* thread, in the kernel thread.
Create(u) == /\ masked /\ status[u] = "NEW"
             /\ \E n \in Slices : /\ slice' = [slice EXCEPT ![u] = n]
                                  /\ left' = [left EXCEPT ![u] = n]
             /\ ring' = Append(ring, u)
             /\ status' = [status EXCEPT ![u] = "READY"]
             /\ UNCHANGED <<switch, tick, masked, waited>>

Stop(u) == /\ masked /\ status[u] = "READY"
           /\ \E s \in {"SLEEPING", "DELETED"} :
                status' = [status EXCEPT ![u] = s]
           /\ ring' = Without(u)
           /\ waited' = [waited EXCEPT ![u] = NoWait]
           /\ UNCHANGED <<slice, left, switch, tick, masked>>

\* os_thread_resume: of the kernel thread, or in the handler of TIM3, which
\* nothing masks.  A thread that has not left the ring yet is linked anew
\* there and is harmed (ThreadSched).
Resume(u) == /\ status[u] = "SLEEPING" /\ u \notin ToSet(ring)
             /\ ring' = Append(ring, u)
             /\ status' = [status EXCEPT ![u] = "READY"]
             /\ waited' = [waited EXCEPT ![u] = NoWait]
             /\ UNCHANGED <<slice, left, switch, tick, masked>>

Next == \/ SysTick \/ PendSV \/ OS_DISABLE \/ OS_ENABLE
        \/ \E t \in Threads : Yield(t) \/ Sleep(t)
        \/ \E u \in Applications : Create(u) \/ Stop(u) \/ Resume(u)

Spec == Init /\ [][Next]_vars

-----------------------------------------------------------------------------
\* The longest turn of a thread: with a slice of 0 the counter wraps.
Turn(t) == IF slice[t] = 0 THEN Wrap ELSE slice[t]

TypeOK == /\ ToSet(ring) \subseteq Threads /\ ring # <<>>
          /\ \A t \in Threads : {slice[t], left[t]} \subseteq 0 .. Wrap - 1
          /\ waited \in [Threads -> [Threads -> Nat]]

\* While a ready thread waits, each other thread has one turn at most, however
\* they yield, sleep, wake, are created and deleted in the meantime; the turn
\* of a thread created with a slice of 0 is as long as the counter takes to
\* wrap (task_switch_context.c:52-64, operate_thread_list.c:67).
WaitBounded ==
  \A t \in ToSet(Tail(ring)), u \in Threads :
    u # t => waited[t][u] <= Turn(u)
=============================================================================
