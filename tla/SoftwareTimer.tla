---------------------------- MODULE SoftwareTimer ----------------------------
(***************************************************************************)
(* The software timers (others/software_timer.c): a circular list of       *)
(* timers in which each one stores the ticks that remain after its         *)
(* predecessor, and TIM3, which runs in one-pulse mode, decrements the     *)
(* first timer on each tick and is started again while timers remain.      *)
(*                                                                         *)
(* os_timer_create and os_timer_delete run in the kernel thread with       *)
(* BASEPRI raised, one call at a time, but TIM3 has priority 0 and is not  *)
(* masked: a tick may land between any two of their steps.  A tick takes a *)
(* millisecond and a call far less, so that at most one lands in a call.   *)
(*                                                                         *)
(* list is the circular list, read from os_timer_current_ptr; inserting    *)
(* before the first timer without moving that pointer appends.  corrupted  *)
(* is set by a step that follows a pointer to a timer the interrupt has    *)
(* freed meanwhile, and ends the behaviour.  asked, age, status, delayed   *)
(* are history variables.                                                  *)
(***************************************************************************)
EXTENDS Integers, Sequences, SequencesExt

CONSTANTS Timers,    \* the timers of a behaviour, each created at most once
          MaxTicks,  \* the largest initial_ticks asked for
          NULL

ASSUME MaxTicksAssumption == MaxTicks \in Nat \ {0}
ASSUME NullAssumption == NULL \notin Timers

VARIABLES list,       \* the timers from os_timer_current_ptr on
          remaining,  \* remaining_ticks
          counting,   \* TIM3 is enabled
          at,         \* the next step of the call in progress
          timer_ptr,  \* the timer of the call
          timer_next, \* where a create has walked to
          loaded,     \* the first timer's remaining_ticks as compared, or 0
          ticked,     \* a tick has landed in the call
          corrupted,
          asked,      \* initial_ticks
          age,        \* the ticks since os_timer_create was called
          status,     \* what became of each timer
          delayed     \* the timers that some call may have made late

callVars == <<at, timer_ptr, timer_next, loaded, ticked>>
history == <<asked, age, status, delayed>>
vars == <<list, remaining, counting, callVars, corrupted, history>>

Pending == ToSet(list)

Init == /\ list = <<>>
        /\ remaining = [t \in Timers |-> 0]
        /\ counting = FALSE
        /\ at = "none"
        /\ timer_ptr = NULL
        /\ timer_next = NULL
        /\ loaded = 0
        /\ ticked = FALSE
        /\ corrupted = FALSE
        /\ asked = [t \in Timers |-> 0]
        /\ age = [t \in Timers |-> 0]
        /\ status = [t \in Timers |-> "new"]
        /\ delayed = {}

At(step) == ~corrupted /\ at = step
Goto(step) == at' = step /\ UNCHANGED <<timer_ptr, loaded, ticked>>

Position(t) == CHOOSE i \in 1 .. Len(list) : list[i] = t

\* The timer behind t in the circular list.
Successor(t) == LET i == Position(t)
                IN  IF i = Len(list) THEN Head(list) ELSE list[i + 1]

\* The list is circular: before the first timer is behind the last.
InsertBefore(t, new) == IF t = Head(list) THEN Append(list, new)
                        ELSE InsertAt(list, Position(t), new)

Corrupt == /\ corrupted' = TRUE
           /\ UNCHANGED <<list, remaining, counting, callVars, history>>

-----------------------------------------------------------------------------
\* os_timer_create

Begin(t, ticks) ==
  /\ At("none")
  /\ status[t] = "new"
  /\ remaining' = [remaining EXCEPT ![t] = ticks]
  /\ asked' = [asked EXCEPT ![t] = ticks]
  /\ status' = [status EXCEPT ![t] = "creating"]
  /\ timer_ptr' = t
  /\ ticked' = FALSE
  /\ loaded' = 0
  /\ at' = IF list = <<>> THEN "first" ELSE "compare"
  /\ UNCHANGED <<list, counting, timer_next, corrupted, age, delayed>>

\* The first timer is compared with the new one.  With the list emptied since
\* Begin, os_timer_current_ptr is NULL.
CompareFrom(Precedes(_, _), start) ==
  /\ At("compare")
  /\ IF list = <<>> THEN Corrupt
     ELSE LET first == remaining[Head(list)]
          IN  /\ loaded' = first
              /\ timer_next' = start
              /\ at' = IF Precedes(remaining[timer_ptr], first)
                         THEN "shorten" ELSE "walk"
              /\ UNCHANGED <<list, remaining, counting, timer_ptr, ticked,
                             corrupted, history>>

\* Two mutants of Compare.
CompareNoStart == CompareFrom(LAMBDA new, first : new < first, NULL)
CompareOrEqual == CompareFrom(LAMBDA new, first : new <= first, Head(list))

Compare == CompareFrom(LAMBDA new, first : new < first, Head(list))

\* A later use of the first timer's remaining_ticks reads memory, or the value
\* that the comparison has loaded (0 when it has been used), as the compiler
\* likes.
Reads(t) == {remaining[t]} \cup ({loaded} \ {0})

ShortenBy(ticks) ==
  /\ At("shorten")
  /\ \E h \in Reads(Head(list)) :
       remaining' = [remaining EXCEPT ![Head(list)] = h - ticks]
  /\ Goto("link_head")
  /\ UNCHANGED <<list, counting, timer_next, corrupted, history>>

ShortenNothing == ShortenBy(0)  \* a mutant of Shorten

Shorten == ShortenBy(remaining[timer_ptr])

Linked(newList, late) ==
  /\ list' = newList
  /\ status' = [status EXCEPT ![timer_ptr] = "pending"]
  /\ delayed' = delayed \cup late
  /\ UNCHANGED <<remaining, counting, timer_next, corrupted, asked, age>>

LinkHead == /\ At("link_head")
            /\ IF list = <<>> THEN Corrupt
               ELSE Linked(<<timer_ptr>> \o list, {}) /\ Goto("none")

\* One round of the do-while loop.
Walk ==
  /\ At("walk")
  /\ IF timer_next \notin Pending THEN Corrupt
     ELSE \E h \in Reads(timer_next) :
            LET left == remaining[timer_ptr] - h
                next == Successor(timer_next)
            IN  /\ remaining' = [remaining EXCEPT ![timer_ptr] = left]
                /\ timer_next' = next
                /\ loaded' = 0
                /\ at' = IF next = Head(list) \/ left < remaining[next]
                           THEN "link" ELSE "walk"
                /\ UNCHANGED <<list, counting, timer_ptr, ticked, corrupted,
                               history>>

\* The new timer goes before timer_next, whose remaining_ticks is not reduced:
\* timer_next and the timers behind it become later.
Link == /\ At("link")
        /\ IF timer_next \notin Pending THEN Corrupt
           ELSE LET new == InsertBefore(timer_next, timer_ptr)
                    behind == {u \in Pending : \E i, j \in 1 .. Len(new) :
                                 i < j /\ new[i] = timer_ptr /\ new[j] = u}
                IN  Linked(new, behind) /\ Goto("none")

LinkFirst == /\ At("first")
             /\ Linked(<<timer_ptr>>, {})
             /\ Goto("start")

Start == /\ At("start")
         /\ counting' = TRUE
         /\ Goto("none")
         /\ UNCHANGED <<list, remaining, timer_next, corrupted, history>>

-----------------------------------------------------------------------------
\* os_timer_delete of a pending timer.  What remains of it goes to the timer
\* behind it, which for the last timer is the first.

TransferTicks(t, ticks) ==
  /\ At("none")
  /\ t \in Pending
  /\ timer_ptr' = t
  /\ ticked' = FALSE
  /\ remaining' = [remaining EXCEPT ![Successor(t)] = @ + ticks]
  /\ delayed' = IF t = Last(list) THEN delayed \cup Pending ELSE delayed
  /\ at' = "unlink"
  /\ UNCHANGED <<list, counting, timer_next, loaded, corrupted, asked, age,
                 status>>

TransferNothing(t) == TransferTicks(t, 0)  \* a mutant of Transfer

Transfer(t) == TransferTicks(t, remaining[t])

\* A timer that expired meanwhile is unlinked and freed a second time.
Unlink ==
  /\ At("unlink")
  /\ IF timer_ptr \notin Pending THEN Corrupt
     ELSE /\ list' = RemoveAt(list, Position(timer_ptr))
          /\ remaining' = [remaining EXCEPT ![timer_ptr] = 0]
          /\ status' = [status EXCEPT ![timer_ptr] = "deleted"]
          /\ asked' = [asked EXCEPT ![timer_ptr] = 0]
          /\ age' = [age EXCEPT ![timer_ptr] = 0]
          /\ Goto("none")
          /\ UNCHANGED <<counting, timer_next, corrupted, delayed>>

-----------------------------------------------------------------------------
\* TIM3_IRQHandler, on the update event that ends a pulse: the first timer is
\* decremented, the timers whose turn has come fire, and TIM3 is started again
\* if timers remain.

Tick(Restart(_)) ==
  /\ ~corrupted
  /\ counting
  /\ at # "none" => ~ticked
  /\ ticked' = (at # "none")
  /\ age' = [t \in Timers |-> IF status[t] \in {"creating", "pending"}
                                THEN age[t] + 1 ELSE age[t]]
  /\ delayed' = IF at = "none" THEN delayed
                ELSE delayed \cup Pending \cup {timer_ptr}
  /\ IF list = <<>>
       THEN counting' = FALSE /\ UNCHANGED <<list, remaining, status>>
       ELSE LET left == [remaining EXCEPT ![Head(list)] = @ - 1]
                stays(i) == left[list[i]] # 0
                n == CHOOSE n \in 0 .. Len(list) :
                       /\ \A i \in 1 .. n : ~stays(i)
                       /\ n < Len(list) => stays(n + 1)
                fired == {list[i] : i \in 1 .. n}
            IN  /\ remaining' = left
                /\ list' = SubSeq(list, n + 1, Len(list))
                /\ status' = [t \in Timers |-> IF t \in fired THEN "fired"
                                               ELSE status[t]]
                /\ counting' = Restart(n)
  /\ UNCHANGED <<at, timer_ptr, timer_next, loaded, corrupted, asked>>

\* A mutant of TIM3_IRQHandler, which starts TIM3 only if no timer fired.
TIM3_IRQHandlerIdle == Tick(LAMBDA fired : fired = 0)

TIM3_IRQHandler == Tick(LAMBDA fired : fired < Len(list))

-----------------------------------------------------------------------------
Create == \/ \E t \in Timers, ticks \in 1 .. MaxTicks : Begin(t, ticks)
          \/ Compare
          \/ Shorten
          \/ LinkHead
          \/ Walk
          \/ Link
          \/ LinkFirst
          \/ Start

Delete == (\E t \in Timers : Transfer(t)) \/ Unlink

Next == Create \/ Delete \/ TIM3_IRQHandler

Spec == Init /\ [][Next]_vars

\* A call runs to its end, and an enabled TIM3 reaches its next update event.
Fairness == /\ WF_vars(at # "none" /\ (Create \/ Delete))
            /\ WF_vars(TIM3_IRQHandler)

FairSpec == Spec /\ Fairness

-----------------------------------------------------------------------------
\* Every variable keeps its type; remaining_ticks never wraps below zero.
TypeOK ==
  /\ list \in Seq(Timers) /\ IsInjective(list)
  /\ remaining \in [Timers -> Nat]
  /\ counting \in BOOLEAN
  /\ at \in {"none", "first", "start", "compare", "shorten", "link_head",
             "walk", "link", "unlink"}
  /\ timer_ptr \in Timers \cup {NULL}
  /\ timer_next \in Timers \cup {NULL}
  /\ loaded \in Nat
  /\ ticked \in BOOLEAN
  /\ corrupted \in BOOLEAN
  /\ asked \in [Timers -> 0 .. MaxTicks]
  /\ age \in [Timers -> Nat]
  /\ status \in [Timers -> {"new", "creating", "pending", "fired", "deleted"}]
  /\ delayed \subseteq Timers

\* No timer fires before its ticks have passed, wherever a tick lands, except
\* in the tick that lands between lines 32 and 40 of os_timer_create: the first
\* timer has been shortened there by the ticks of a timer that is not yet
\* linked in front of it.
EarlyOnlyInLinkHead ==
  [][\A t \in Timers :
       status[t] = "pending" /\ status'[t] = "fired" /\ age'[t] < asked[t]
         => at = "link_head"]_vars

\* A timer fires on its very tick unless it was delayed: a timer was inserted
\* in front of it but not first, the last timer was deleted, or a tick landed
\* inside a call.
OnTimeUnlessDelayed ==
  \A t \in Timers : status[t] = "fired" /\ t \notin delayed
                      => age[t] = asked[t]

\* A call follows a freed pointer only if the tick that landed in it fired a
\* timer.
CorruptedByExpiry ==
  corrupted => ticked /\ \E t \in delayed : status[t] = "fired"

\* Every timer that is linked fires or is deleted, unless a call was corrupted.
EveryTimerEnds ==
  \A t \in Timers :
    status[t] = "pending" ~> status[t] \in {"fired", "deleted"} \/ corrupted
=============================================================================
