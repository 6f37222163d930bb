---------------------------- MODULE QueueRegistry ----------------------------
(***************************************************************************)
(* The queues of others/queue.c from their creation to their deletion:     *)
(* the circular list that starts at os_queue_create_ptr, and what a queue  *)
(* is to threads that still use it.  Creation and deletion link and unlink *)
(* statement by statement, and a time slice may end between any two; of a  *)
(* send or a receive there is what it does to state, the rest is in        *)
(* MessageQueue.                                                           *)
(*                                                                         *)
(*   first, next, prev   os_queue_create_ptr and the links                 *)
(*   state    the word at each place of a queue; it survives kmem_free     *)
(*   call     what each thread does, with which queue, and the pointer it  *)
(*            has loaded                                                   *)
(*   places   which memory is in use: kmem_malloc may give a place again   *)
(*   made     bookkeeping: the queues in the order of their creation       *)
(*   overlap  bookkeeping: a call has changed links while another one was  *)
(*            between its first look at the list and its last link; the    *)
(*            models end there                                             *)
(*   only, held   bookkeeping: places freed as the last queue of the list, *)
(*            or while a call was in the queue                             *)
(***************************************************************************)
EXTENDS Naturals, SequencesExt, FiniteSetsExt

CONSTANTS Threads, Places, OsQueue, NULL,
          MaxCreated    \* a bound of the models

RegistryAssumption == OsQueue \in Places /\ NULL \notin Places

VARIABLES first, next, prev, state, call, places, made, overlap, only, held,
          created

links == <<first, next, prev>>
marks == <<made, overlap, only, held, created>>
vars == <<links, state, call, places, marks>>

Idle == [pc |-> "idle", q |-> NULL]
At(t, pc) == call[t].pc = pc
Goto(t, pc) == call' = [call EXCEPT ![t].pc = pc]
Linking == {"test", "next", "previous", "forward", "back", "alone"}
Unlinking == {"test_delete", "step", "around", "around_back"}

\* os_thread_initialize has created os_queue.
Init == /\ first = OsQueue
        /\ next = [q \in Places |-> IF q = OsQueue THEN q ELSE NULL]
        /\ prev = next
        /\ state = [q \in Places |-> IF q = OsQueue THEN "READY" ELSE "none"]
        /\ call = [t \in Threads |-> Idle]
        /\ places = {OsQueue}
        /\ made = <<OsQueue>>
        /\ overlap = FALSE /\ only = {} /\ held = {} /\ created = 0

\* Every step that changes a link.
Overlaps(t) ==
  overlap' = (overlap \/ \E u \in Threads \ {t} :
                           call[u].pc \in Linking \cup Unlinking)

-----------------------------------------------------------------------------
\* queue_create and os_queue_create.

\* Lines 4-89: memory, and the fields.
Create(t, q) ==
  /\ At(t, "idle") /\ q \notin places /\ created < MaxCreated
  /\ places' = places \cup {q}
  /\ state' = [state EXCEPT ![q] = "NEW"]
  /\ call' = [call EXCEPT ![t] = [pc |-> "test", q |-> q]]
  /\ only' = only \ {q} /\ held' = held \ {q}
  /\ created' = created + 1
  /\ UNCHANGED <<links, made, overlap>>

\* Line 90.
TestFirst(t) == /\ At(t, "test")
                /\ Goto(t, IF first = NULL THEN "alone" ELSE "next")
                /\ UNCHANGED <<links, state, places, marks>>

OwnPrevious(q) == prev[first]

\* Lines 92-93.
LinkOwn(t) ==
  LET q == call[t].q
  IN /\ At(t, "next")
     /\ next' = [next EXCEPT ![q] = first]
     /\ prev' = [prev EXCEPT ![q] = OwnPrevious(q)]
     /\ Goto(t, "forward")
     /\ UNCHANGED <<first, state, places, marks>>

\* Line 95.
LinkForward(t) ==
  /\ At(t, "forward")
  /\ next' = [next EXCEPT ![prev[first]] = call[t].q]
  /\ Overlaps(t) /\ Goto(t, "back")
  /\ UNCHANGED <<first, prev, state, places, made, only, held, created>>

BackTo(q) == [prev EXCEPT ![first] = q]

\* Line 96.
LinkBack(t) ==
  /\ At(t, "back")
  /\ prev' = BackTo(call[t].q)
  /\ made' = Append(made, call[t].q)
  /\ Overlaps(t) /\ Goto(t, "ready")
  /\ UNCHANGED <<first, next, state, places, only, held, created>>

\* Lines 100-102.
LinkAlone(t) ==
  LET q == call[t].q
  IN /\ At(t, "alone")
     /\ next' = [next EXCEPT ![q] = q] /\ prev' = [prev EXCEPT ![q] = q]
     /\ first' = q
     /\ made' = Append(made, q)
     /\ Overlaps(t) /\ Goto(t, "ready")
     /\ UNCHANGED <<state, places, only, held, created>>

\* Line 104.
Ready(t) == /\ At(t, "ready")
            /\ state' = [state EXCEPT ![call[t].q] = "READY"]
            /\ call' = [call EXCEPT ![t] = Idle]
            /\ UNCHANGED <<links, places, marks>>

-----------------------------------------------------------------------------
\* os_queue_delete, of a queue that is in the list and that no other thread
\* is deleting.

Delete(t, q) ==
  /\ At(t, "idle") /\ q \in ToSet(made)
  /\ \A u \in Threads :
       call[u].q = q => call[u].pc \notin Unlinking \cup {"free", "ready"}
  /\ call' = [call EXCEPT ![t] = [pc |-> "test_delete", q |-> q]]
  /\ UNCHANGED <<links, state, places, marks>>

Users(q) == {u \in Threads : call[u] = [pc |-> "release", q |-> q]}

\* kmem_free, which finds no memory to free for os_queue.
Freed(q) == /\ places' = IF q = OsQueue THEN places ELSE places \ {q}
            /\ held' = IF Users(q) # {} THEN held \cup {q} ELSE held

\* Lines 113-118: the only queue is freed at once, as it is.
TestOnly(t) ==
  LET q == call[t].q
  IN /\ At(t, "test_delete")
     /\ IF first = q /\ next[q] = q
        THEN /\ first' = NULL
             /\ Overlaps(t)
             /\ Freed(q)
             /\ only' = only \cup {q}
             /\ made' = <<>>
             /\ call' = [call EXCEPT ![t] = Idle]
        ELSE /\ Goto(t, IF first = q THEN "step" ELSE "around")
             /\ UNCHANGED <<first, places, made, overlap, only, held>>
     /\ UNCHANGED <<next, prev, state, created>>

\* Mutant: the list keeps its first queue.
StepKept(q) == first

StepTo(q) == next[q]

\* Line 121.
Step(t) == /\ At(t, "step")
           /\ first' = StepTo(call[t].q)
           /\ Overlaps(t) /\ Goto(t, "around")
           /\ UNCHANGED <<next, prev, state, places, made, only, held, created>>

\* Line 123.
Around(t) ==
  LET q == call[t].q
  IN /\ At(t, "around")
     /\ next' = [next EXCEPT ![prev[q]] = next[q]]
     /\ Overlaps(t) /\ Goto(t, "around_back")
     /\ UNCHANGED <<first, prev, state, places, made, only, held, created>>

Position(q) == CHOOSE i \in DOMAIN made : made[i] = q

\* Line 124.
AroundBack(t) ==
  LET q == call[t].q
  IN /\ At(t, "around_back")
     /\ prev' = [prev EXCEPT ![next[q]] = prev[q]]
     /\ made' = RemoveAt(made, Position(q))
     /\ Overlaps(t) /\ Goto(t, "free")
     /\ UNCHANGED <<first, next, state, places, only, held, created>>

AtEnd(q) == "DELETED"

\* Lines 125-127.
Free(t) == /\ At(t, "free")
           /\ state' = [state EXCEPT ![call[t].q] = AtEnd(call[t].q)]
           /\ Freed(call[t].q)
           /\ call' = [call EXCEPT ![t] = Idle]
           /\ UNCHANGED <<links, made, overlap, only, created>>

-----------------------------------------------------------------------------
\* os_queue_send or os_queue_receive with a pointer that may be out of date:
\* the test of state and the claim, and the release.

Use(t, q) == /\ At(t, "idle") /\ state[q] = "READY"
             /\ call' = [call EXCEPT ![t] = [pc |-> "claim", q |-> q]]
             /\ UNCHANGED <<links, state, places, marks>>

Claim(t) == /\ At(t, "claim")
            /\ state' = [state EXCEPT ![call[t].q] = "BUSYING"]
            /\ Goto(t, "release")
            /\ held' = IF call[t].q \in ToSet(made) THEN held
                       ELSE held \cup {call[t].q}
            /\ UNCHANGED <<links, places, made, overlap, only, created>>

Release(t) == /\ At(t, "release")
              /\ state' = [state EXCEPT ![call[t].q] = "READY"]
              /\ call' = [call EXCEPT ![t] = Idle]
              /\ UNCHANGED <<links, places, marks>>

Next == \E t \in Threads :
          /\ ~overlap
          /\ \/ \E q \in Places : Create(t, q) \/ Delete(t, q) \/ Use(t, q)
             \/ TestFirst(t) \/ LinkOwn(t) \/ LinkForward(t) \/ LinkBack(t)
             \/ LinkAlone(t) \/ Ready(t)
             \/ TestOnly(t) \/ Step(t) \/ Around(t) \/ AroundBack(t) \/ Free(t)
             \/ Claim(t) \/ Release(t)

Spec == Init /\ [][Next]_vars

-----------------------------------------------------------------------------
States == {"none", "NEW", "READY", "BUSYING", "DELETED"}
Busy(q) == \E t \in Threads : call[t].q = q /\ call[t].pc \in
                                  Linking \cup Unlinking \cup {"free", "ready"}

TypeOK == /\ first \in Places \cup {NULL}
          /\ next \in [Places -> Places \cup {NULL}]
          /\ prev \in [Places -> Places \cup {NULL}]
          /\ state \in [Places -> States]
          /\ \A q \in ToSet(made) :
              q \in places /\ next[q] # NULL /\ prev[q] # NULL

\* Between the calls, the list that starts at os_queue_create_ptr is the
\* queues created and not deleted, in the order of their creation, and
\* previous is the inverse of next; whichever of them is deleted, the first
\* or the only one too, and whatever memory a new one is given
\* (queue.c:90-103, 113-124).
ListIntact ==
  LET n == Len(made)
  IN ~overlap /\ (\A t \in Threads : call[t].pc \notin Linking \cup Unlinking) =>
       /\ first = IF n = 0 THEN NULL ELSE made[1]
       /\ \A i \in 1 .. n : /\ next[made[i]] = made[(i % n) + 1]
                            /\ prev[made[(i % n) + 1]] = made[i]

\* A thread that uses a queue after its deletion is refused, since the memory
\* still says DELETED; unless it was the only queue (queue.c:117-119), or a
\* send or receive was under way in it, which makes it READY again
\* (queue.c:64).
RefusedAfterDelete ==
  \A q \in Places \ (ToSet(made) \cup only \cup held) :
    ~Busy(q) => state[q] \in {"DELETED", "none"}
=============================================================================
