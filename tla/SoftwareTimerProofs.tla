------------------------- MODULE SoftwareTimerProofs -------------------------
(***************************************************************************)
(* Theorems of SoftwareTimer: remaining_ticks never wraps below zero       *)
(* wherever a tick lands, a call follows a freed pointer only if the tick  *)
(* that landed in it fired a timer, and when timers fire.                  *)
(*                                                                         *)
(* The first two follow from Sound, which relates what a call has          *)
(* compared, loaded or subtracted so far to the list as it is now.  The    *)
(* last two follow from Timed: there is a schedule that says in how many   *)
(* ticks each pending timer will fire, every step changes it as little as  *)
(* the code's subtractions and additions do, and it is never early.        *)
(***************************************************************************)
EXTENDS SoftwareTimer, ListLemmas

\* The steps of os_timer_create before the new timer is linked.
CreateSteps == {"first", "compare", "shorten", "link_head", "walk", "link"}

\* The tick that landed in the call has fired a timer.
Expired == ticked /\ \E t \in delayed : status[t] = "fired"

Linkage ==
  /\ \A t \in Timers : status[t] = "pending" <=> t \in Pending
  /\ at # "none" => timer_ptr \in Timers
  /\ at \in CreateSteps => status[timer_ptr] = "creating"
  /\ at = "first" => list = <<>>

\* What the next step of a call follows is still pending, unless Expired.
Stranded ==
  /\ at \in {"compare", "shorten", "link_head"} /\ list = <<>> => Expired
  /\ at \in {"walk", "link"} /\ timer_next \notin Pending => Expired
  /\ at = "unlink" /\ timer_ptr \notin Pending => Expired
  /\ corrupted => Expired

\* The value loaded from t, or that value before the tick in the call.
LoadedFrom(t) ==
  loaded = remaining[t] \/ (ticked /\ loaded = remaining[t] + 1)

\* The first timer has a tick left, but for a timer shortened after a tick.
HeadCounts ==
  list # <<>> /\ ~(at = "link_head" /\ ticked) => remaining[list[1]] >= 1

\* What a create subtracts next leaves no negative number.
Subtractable ==
  /\ at \in {"first", "compare", "shorten", "link_head"}
       => remaining[timer_ptr] >= 1
  /\ at = "shorten"
       => /\ list # <<>>
          /\ loaded > remaining[timer_ptr]
          /\ remaining[list[1]] >= remaining[timer_ptr]
          /\ LoadedFrom(list[1])
  /\ at = "walk" /\ timer_next \in Pending
       => /\ remaining[timer_next] <= remaining[timer_ptr]
          /\ loaded <= remaining[timer_ptr]
          /\ loaded # 0 => timer_next = list[1] /\ LoadedFrom(timer_next)

\* The timer behind the one to unlink has been given its ticks.
Transferred ==
  at = "unlink"
    => \A i \in 1 .. Len(list) - 1 :
         list[i] = timer_ptr => remaining[list[i + 1]] >= remaining[timer_ptr]

Sound ==
  TypeOK /\ Linkage /\ Stranded /\ HeadCounts /\ Subtractable /\ Transferred

-----------------------------------------------------------------------------
\* The list, position by position.
ListView ==
  /\ Len(list) \in Nat
  /\ \A i \in 1 .. Len(list) : list[i] \in Timers
  /\ \A i, j \in 1 .. Len(list) : list[i] = list[j] => i = j
  /\ Pending = {list[i] : i \in 1 .. Len(list)}
  /\ (list = <<>>) <=> (Len(list) = 0)
  /\ list # <<>> => Head(list) = list[1] /\ 1 \in 1 .. Len(list)
  /\ Last(list) = list[Len(list)]

LEMMA ListFacts == TypeOK => ListView
<1> SUFFICES ASSUME TypeOK PROVE ListView
  OBVIOUS
<1>1. list \in Seq(Timers) /\ IsInjective(list)
  BY DEF TypeOK
<1>2. Len(list) \in Nat /\ DOMAIN list = 1 .. Len(list)
  BY <1>1
<1>3. (list = <<>>) <=> (Len(list) = 0)
  BY <1>1
<1> QED
  BY <1>1, <1>2, <1>3 DEF IsInjective, Pending, ToSet, Last, ListView

LEMMA ListFactsNext == TypeOK' => ListView'
  BY ListFacts, PTL

LEMMA PositionIs ==
  ASSUME TypeOK, NEW t \in Pending
  PROVE  /\ Position(t) \in 1 .. Len(list)
         /\ list[Position(t)] = t
         /\ \A i \in 1 .. Len(list) : list[i] = t => i = Position(t)
<1>1. \E i \in 1 .. Len(list) : list[i] = t
  BY ListFacts DEF ListView
<1>2. Position(t) \in 1 .. Len(list) /\ list[Position(t)] = t
  BY <1>1 DEF Position
<1> QED
  BY <1>2, ListFacts DEF ListView

LEMMA SuccessorIs ==
  ASSUME TypeOK, NEW i \in 1 .. Len(list)
  PROVE  Successor(list[i]) = IF i = Len(list) THEN list[1] ELSE list[i + 1]
<1>1. list[i] \in Pending
  BY ListFacts DEF ListView
<1>2. Position(list[i]) = i
  BY <1>1, PositionIs
<1>3. Head(list) = list[1]
  BY ListFacts DEF ListView
<1> QED
  BY <1>2, <1>3 DEF Successor

LEMMA PendingAreTimers ==
  ASSUME TypeOK
  PROVE  Pending \subseteq Timers
  BY ListFacts DEF ListView

\* A list of distinct timers, and its elements, from its positions.
LEMMA ListType ==
  ASSUME NEW s \in Seq(Timers),
         \A i, j \in 1 .. Len(s) : s[i] = s[j] => i = j
  PROVE  IsInjective(s)
  BY DEF IsInjective

\* A tick on a list takes one from the first timer and fires the longest
\* run of timers that have nothing left.
Fires(n) ==
  /\ n \in 0 .. Len(list)
  /\ remaining' = [remaining EXCEPT ![list[1]] = @ - 1]
  /\ \A i \in 1 .. n : remaining'[list[i]] = 0
  /\ n < Len(list) => remaining'[list[n + 1]] # 0
  /\ list' = SubSeq(list, n + 1, Len(list))
  /\ status' = [t \in Timers |-> IF t \in {list[i] : i \in 1 .. n}
                                   THEN "fired" ELSE status[t]]
  /\ counting' = (n < Len(list))

LEMMA TickFires ==
  ASSUME TypeOK, TIM3_IRQHandler, list # <<>>
  PROVE  \E n \in Nat : Fires(n)
<1> DEFINE left == [remaining EXCEPT ![Head(list)] = @ - 1]
           stays(i) == left[list[i]] # 0
           P(n) == /\ \A i \in 1 .. n : ~stays(i)
                   /\ n < Len(list) => stays(n + 1)
           S == {n \in 0 .. Len(list) : n < Len(list) => stays(n + 1)}
<1>1. Len(list) \in Nat /\ Head(list) = list[1]
  BY ListFacts DEF ListView
<1>2. \E n \in 0 .. Len(list) : P(n)
  <2>1. S \in SUBSET Nat /\ Len(list) \in S
    BY <1>1
  <2>2. PICK n \in S : \A k \in S : n <= k
    <3> HIDE DEF S
    <3> QED
      BY <2>1, LeastNat
  <2>3. ASSUME NEW i \in 1 .. n PROVE ~stays(i)
    <3>1. i - 1 \in 0 .. Len(list) /\ ~(n <= i - 1)
      BY <1>1, <2>2
    <3>2. i - 1 \notin S
      BY <2>2, <3>1
    <3>3. ~stays((i - 1) + 1)
      BY <3>1, <3>2
    <3> QED
      BY <3>3
  <2> QED
    BY <1>1, <2>2, <2>3
<1>3. PICK n : n = CHOOSE m \in 0 .. Len(list) : P(m)
  OBVIOUS
<1>4. n \in 0 .. Len(list) /\ P(n)
  <2> HIDE DEF P
  <2> QED
    BY <1>2, <1>3
<1>5. /\ remaining' = left
      /\ list' = SubSeq(list, n + 1, Len(list))
      /\ status' = [t \in Timers |-> IF t \in {list[i] : i \in 1 .. n}
                                       THEN "fired" ELSE status[t]]
      /\ counting' = (n < Len(list))
  BY <1>3, Zenon DEF TIM3_IRQHandler, Tick
<1> QED
  BY <1>1, <1>4, <1>5 DEF Fires

\* What is left of the list after n timers have fired.
LEMMA FiresView ==
  ASSUME TypeOK, NEW n \in Nat, Fires(n)
  PROVE  /\ list' \in Seq(Timers) /\ IsInjective(list')
         /\ Len(list') = Len(list) - n
         /\ \A i \in 1 .. Len(list) - n : list'[i] = list[n + i]
         /\ \A t \in Pending : t \in Pending'
                               <=> ~ \E i \in 1 .. n : list[i] = t
         /\ Pending' \subseteq Pending
<1>1. list \in Seq(Timers) /\ n \in 0 .. Len(list) /\ Len(list) \in Nat
  BY ListFacts DEF ListView, TypeOK, Fires
<1>2. /\ list' \in Seq(Timers)
      /\ Len(list') = Len(list) - n
      /\ \A i \in 1 .. Len(list) - n : list'[i] = list[n + i]
  BY <1>1, SuffixView DEF Fires
<1>3. \A i, j \in 1 .. Len(list') : list'[i] = list'[j] => i = j
  <2> SUFFICES ASSUME NEW i \in 1 .. Len(list'), NEW j \in 1 .. Len(list'),
                      list'[i] = list'[j]
               PROVE  i = j
    OBVIOUS
  <2>1. n + i \in 1 .. Len(list) /\ n + j \in 1 .. Len(list)
    BY <1>1, <1>2
  <2>2. list[n + i] = list[n + j]
    BY <1>1, <1>2
  <2>3. n + i = n + j
    BY <2>1, <2>2, ListFacts DEF ListView
  <2> QED
    BY <1>1, <2>3
<1>4. IsInjective(list')
  BY <1>2, <1>3, ListType
<1>5. Pending' = {list'[i] : i \in 1 .. Len(list')}
  BY <1>2 DEF Pending, ToSet
<1>6. Pending = {list[i] : i \in 1 .. Len(list)}
  BY ListFacts DEF ListView
<1>7. ASSUME NEW i \in 1 .. Len(list)
      PROVE  list[i] \in Pending' <=> ~ \E j \in 1 .. n : list[j] = list[i]
  <2>1. CASE i <= n
    <3>1. \A k \in 1 .. Len(list') : list'[k] # list[i]
      <4> SUFFICES ASSUME NEW k \in 1 .. Len(list') PROVE list'[k] # list[i]
        OBVIOUS
      <4>1. n + k \in 1 .. Len(list) /\ n + k # i /\ list'[k] = list[n + k]
        BY <1>1, <1>2, <2>1
      <4> QED
        BY <4>1, ListFacts DEF ListView
    <3>2. i \in 1 .. n
      BY <1>1, <2>1
    <3> QED
      BY <1>5, <3>1, <3>2
  <2>2. CASE ~(i <= n)
    <3>1. i - n \in 1 .. Len(list') /\ n + (i - n) = i
      BY <1>1, <1>2, <2>2
    <3>2. list'[i - n] = list[i]
      BY <1>2, <3>1
    <3>3. \A j \in 1 .. n : list[j] # list[i]
      <4> SUFFICES ASSUME NEW j \in 1 .. n PROVE list[j] # list[i]
        OBVIOUS
      <4>1. j \in 1 .. Len(list) /\ j # i
        BY <1>1, <2>2
      <4> QED
        BY <4>1, ListFacts DEF ListView
    <3> QED
      BY <1>5, <3>1, <3>2, <3>3
  <2> QED
    BY <2>1, <2>2
<1>8. ASSUME NEW t \in Pending'
      PROVE  t \in Pending
  <2>1. PICK i \in 1 .. Len(list') : t = list'[i]
    BY <1>5
  <2>2. n + i \in 1 .. Len(list) /\ t = list[n + i]
    BY <1>1, <1>2, <2>1
  <2> QED
    BY <1>6, <2>2
<1>9. ASSUME NEW t \in Pending
      PROVE  t \in Pending' <=> ~ \E j \in 1 .. n : list[j] = t
  <2>1. PICK i \in 1 .. Len(list) : t = list[i]
    BY <1>6
  <2> QED
    BY <1>7, <2>1
<1> QED
  BY <1>2, <1>4, <1>8, <1>9

\* timer_ptr has been linked at position k.
Inserted(k) ==
  /\ k \in 1 .. Len(list) + 1
  /\ list' \in Seq(Timers)
  /\ Len(list') = Len(list) + 1
  /\ \A i \in 1 .. Len(list) + 1 :
       list'[i] = IF i < k THEN list[i]
                  ELSE IF i = k THEN timer_ptr ELSE list[i - 1]

LEMMA InsertedView ==
  ASSUME TypeOK, timer_ptr \in Timers \ Pending, NEW k \in Nat, Inserted(k)
  PROVE  IsInjective(list') /\ Pending' = Pending \cup {timer_ptr}
<1>1. /\ Len(list) \in Nat /\ k \in 1 .. Len(list) + 1
      /\ Pending = {list[i] : i \in 1 .. Len(list)}
      /\ \A i \in 1 .. Len(list) : list[i] # timer_ptr
      /\ \A i, j \in 1 .. Len(list) : list[i] = list[j] => i = j
  BY ListFacts DEF ListView, Inserted
<1>2. Pending' = {list'[i] : i \in 1 .. Len(list')}
  BY DEF Pending, ToSet, Inserted
<1>3. \A i, j \in 1 .. Len(list') : list'[i] = list'[j] => i = j
  <2> SUFFICES ASSUME NEW i \in 1 .. Len(list'), NEW j \in 1 .. Len(list'),
                      list'[i] = list'[j]
               PROVE  i = j
    OBVIOUS
  <2> DEFINE Old(n) == IF n < k THEN n ELSE n - 1
  <2>1. i \in 1 .. Len(list) + 1 /\ j \in 1 .. Len(list) + 1
    BY DEF Inserted
  <2>2. \A n \in 1 .. Len(list) + 1 :
          n # k => Old(n) \in 1 .. Len(list) /\ list'[n] = list[Old(n)]
    BY <1>1 DEF Inserted
  <2>3. list'[k] = timer_ptr
    BY <1>1 DEF Inserted
  <2>4. CASE i # k /\ j # k
    <3>1. Old(i) = Old(j)
      BY <1>1, <2>1, <2>2, <2>4
    <3> QED
      BY <1>1, <2>1, <2>4, <3>1
  <2>5. CASE i = k \/ j = k
    BY <1>1, <2>1, <2>2, <2>3, <2>5
  <2> QED
    BY <2>4, <2>5
<1>4. IsInjective(list')
  BY <1>3, ListType DEF Inserted
<1>5. ASSUME NEW i \in 1 .. Len(list')
      PROVE  list'[i] \in Pending \cup {timer_ptr}
  <2>1. i = k \/ (i < k /\ i \in 1 .. Len(list))
          \/ (~(i < k) /\ i # k /\ i - 1 \in 1 .. Len(list))
    BY <1>1 DEF Inserted
  <2> QED
    BY <1>1, <2>1 DEF Inserted
<1>6. ASSUME NEW i \in 1 .. Len(list)
      PROVE  \E j \in 1 .. Len(list') : list'[j] = list[i]
  <2>1. CASE i < k
    BY <1>1, <2>1 DEF Inserted
  <2>2. CASE ~(i < k)
    <3>1. i + 1 \in 1 .. Len(list') /\ list'[i + 1] = list[i]
      BY <1>1, <2>2 DEF Inserted
    <3> QED
      BY <3>1
  <2> QED
    BY <2>1, <2>2
<1>7. \E j \in 1 .. Len(list') : list'[j] = timer_ptr
  BY <1>1 DEF Inserted
<1>8. Pending' \subseteq Pending \cup {timer_ptr}
  BY <1>2, <1>5
<1>9. Pending \cup {timer_ptr} \subseteq Pending'
  BY <1>1, <1>2, <1>6, <1>7
<1> QED
  BY <1>4, <1>8, <1>9

\* The timer at position k has been unlinked.
Removed(k) ==
  /\ k \in 1 .. Len(list)
  /\ list' \in Seq(Timers)
  /\ Len(list') = Len(list) - 1
  /\ \A i \in 1 .. Len(list) - 1 :
       list'[i] = IF i < k THEN list[i] ELSE list[i + 1]

LEMMA RemovedView ==
  ASSUME TypeOK, NEW k \in Nat, Removed(k)
  PROVE  IsInjective(list') /\ Pending' = Pending \ {list[k]}
<1>1. /\ Len(list) \in Nat /\ k \in 1 .. Len(list)
      /\ Pending = {list[i] : i \in 1 .. Len(list)}
      /\ \A i, j \in 1 .. Len(list) : list[i] = list[j] => i = j
  BY ListFacts DEF ListView, Removed
<1>2. Pending' = {list'[i] : i \in 1 .. Len(list')}
  BY DEF Pending, ToSet, Removed
<1> DEFINE Old(n) == IF n < k THEN n ELSE n + 1
<1>3. \A n \in 1 .. Len(list') :
        Old(n) \in 1 .. Len(list) /\ Old(n) # k /\ list'[n] = list[Old(n)]
  BY <1>1 DEF Removed
<1>4. \A i, j \in 1 .. Len(list') : list'[i] = list'[j] => i = j
  <2> SUFFICES ASSUME NEW i \in 1 .. Len(list'), NEW j \in 1 .. Len(list'),
                      list'[i] = list'[j]
               PROVE  i = j
    OBVIOUS
  <2>1. Old(i) = Old(j)
    BY <1>1, <1>3
  <2> QED
    BY <1>1, <2>1 DEF Removed
<1>5. IsInjective(list')
  BY <1>4, ListType DEF Removed
<1>6. Pending' \subseteq Pending \ {list[k]}
  BY <1>1, <1>2, <1>3
<1>7. ASSUME NEW i \in 1 .. Len(list), i # k
      PROVE  \E j \in 1 .. Len(list') : list'[j] = list[i]
  <2>1. CASE i < k
    BY <1>1, <2>1 DEF Removed
  <2>2. CASE ~(i < k)
    <3>1. i - 1 \in 1 .. Len(list') /\ list'[i - 1] = list[i]
      BY <1>1, <1>7, <2>2 DEF Removed
    <3> QED
      BY <3>1
  <2> QED
    BY <2>1, <2>2
<1>8. Pending \ {list[k]} \subseteq Pending'
  BY <1>1, <1>2, <1>7
<1> QED
  BY <1>5, <1>6, <1>8

LEMMA LinkFirstView ==
  ASSUME Sound, LinkFirst
  PROVE  Inserted(1)
<1>1. list = <<>> /\ timer_ptr \in Timers /\ list' = <<timer_ptr>>
  BY DEF Sound, Linkage, LinkFirst, Linked, At
<1> QED
  BY <1>1 DEF Inserted

LEMMA LinkHeadView ==
  ASSUME Sound, LinkHead, list # <<>>
  PROVE  Inserted(1)
<1>1. /\ list \in Seq(Timers) /\ timer_ptr \in Timers
      /\ list' = <<timer_ptr>> \o list
  BY DEF Sound, TypeOK, Linkage, LinkHead, Linked, At
<1>2. Len(list) \in Nat
  BY <1>1
<1> QED
  BY <1>1, <1>2, PushView DEF Inserted

\* Where Link puts the new timer: before timer_next, or at the end.
Place == IF timer_next = list[1] THEN Len(list) + 1 ELSE Position(timer_next)

LEMMA LinkView ==
  ASSUME Sound, Link, timer_next \in Pending
  PROVE  Place \in Nat /\ Inserted(Place)
<1>1. /\ list \in Seq(Timers) /\ timer_ptr \in Timers
      /\ list' = InsertBefore(timer_next, timer_ptr)
  BY DEF Sound, TypeOK, Linkage, Link, Linked, At
<1>2. Len(list) \in Nat /\ list # <<>> /\ Head(list) = list[1]
  BY ListFacts DEF ListView, Sound
<1>3. CASE timer_next = list[1]
  <2>1. list' = Append(list, timer_ptr) /\ Place = Len(list) + 1
    BY <1>1, <1>2, <1>3 DEF InsertBefore, Place
  <2>2. \A i \in 1 .. Len(list) + 1 :
          list'[i] = IF i < Len(list) + 1 THEN list[i]
                     ELSE IF i = Len(list) + 1 THEN timer_ptr
                     ELSE list[i - 1]
    BY <1>1, <1>2, <2>1, AppendView
  <2> QED
    BY <1>1, <1>2, <2>1, <2>2, AppendView DEF Inserted
<1>4. CASE timer_next # list[1]
  <2>1. /\ list' = InsertAt(list, Place, timer_ptr)
        /\ Place = Position(timer_next)
    BY <1>1, <1>2, <1>4 DEF InsertBefore, Place
  <2>2. Place \in 1 .. Len(list)
    BY <2>1, PositionIs DEF Sound
  <2> QED
    BY <1>1, <1>2, <2>1, <2>2, InsertAtView DEF Inserted
<1> QED
  BY <1>3, <1>4

LEMMA UnlinkView ==
  ASSUME Sound, Unlink, timer_ptr \in Pending
  PROVE  Position(timer_ptr) \in Nat /\ Removed(Position(timer_ptr))
<1>1. list \in Seq(Timers) /\ list' = RemoveAt(list, Position(timer_ptr))
  BY DEF Sound, TypeOK, Unlink
<1>2. Len(list) \in Nat /\ Position(timer_ptr) \in 1 .. Len(list)
  BY PositionIs, ListFacts DEF ListView, Sound
<1> DEFINE k == Position(timer_ptr)
<1>3. /\ RemoveAt(list, k) \in Seq(Timers)
      /\ Len(RemoveAt(list, k)) = Len(list) - 1
      /\ \A i \in 1 .. Len(list) - 1 :
           RemoveAt(list, k)[i] = IF i < k THEN list[i] ELSE list[i + 1]
  <2> HIDE DEF k
  <2> QED
    BY <1>1, <1>2, RemoveAtView DEF k
<1> QED
  BY <1>1, <1>2, <1>3 DEF Removed

-----------------------------------------------------------------------------
\* Every step keeps Sound.
LEMMA SoundInit == Init => Sound
<1> SUFFICES ASSUME Init PROVE Sound
  OBVIOUS
<1>1. TypeOK
  <2>1. list \in Seq(Timers) /\ Len(list) = 0
    BY DEF Init
  <2>2. \A i, j \in 1 .. Len(list) : list[i] = list[j] => i = j
    BY <2>1
  <2>3. IsInjective(list)
    BY <2>1, <2>2, ListType
  <2>4. /\ remaining \in [Timers -> Nat] /\ counting \in BOOLEAN
        /\ at = "none" /\ timer_ptr = NULL /\ timer_next = NULL
        /\ loaded \in Nat /\ ticked \in BOOLEAN /\ corrupted \in BOOLEAN
        /\ age \in [Timers -> Nat] /\ delayed \subseteq Timers
    BY DEF Init
  <2>5. asked \in [Timers -> 0 .. MaxTicks]
    <3>1. 0 \in 0 .. MaxTicks
      BY MaxTicksAssumption
    <3> QED
      BY <3>1 DEF Init
  <2>6. status \in [Timers ->
                      {"new", "creating", "pending", "fired", "deleted"}]
    BY DEF Init
  <2> QED
    BY <2>1, <2>3, <2>4, <2>5, <2>6 DEF TypeOK
<1>2. Pending = {}
  BY DEF Init, Pending, ToSet
<1>3. Linkage /\ Stranded /\ HeadCounts /\ Subtractable /\ Transferred
  BY <1>2 DEF Init, Linkage, Stranded, HeadCounts, Subtractable,
       Transferred, CreateSteps
<1> QED
  BY <1>1, <1>3 DEF Sound

LEMMA SoundCorrupt ==
  ASSUME Sound, Corrupt, Expired
  PROVE  Sound'
  BY SMTT(30) DEF Corrupt, callVars, history, Sound, TypeOK, Linkage, Stranded,
     HeadCounts, Subtractable, LoadedFrom, Transferred, Expired, Pending

LEMMA SoundBegin ==
  ASSUME Sound, NEW t \in Timers, NEW ticks \in 1 .. MaxTicks,
         Begin(t, ticks)
  PROVE  Sound'
<1>1. t \notin Pending /\ at = "none" /\ ~corrupted
  BY DEF Begin, At, Sound, Linkage
<1>2. ListView
  BY ListFacts DEF Sound
<1>3. \A i \in 1 .. Len(list) : remaining'[list[i]] = remaining[list[i]]
  BY <1>1, <1>2 DEF Begin, Sound, TypeOK, ListView
<1>4. TypeOK'
  <2>1. list' \in Seq(Timers) /\ IsInjective(list')
    BY DEF Begin, Sound, TypeOK
  <2>2. remaining' \in [Timers -> Nat] /\ asked' \in [Timers -> 0 .. MaxTicks]
    BY MaxTicksAssumption DEF Begin, Sound, TypeOK
  <2>3. at' \in {"first", "compare"}
    BY DEF Begin
  <2>4. status' \in [Timers ->
                       {"new", "creating", "pending", "fired", "deleted"}]
    BY DEF Begin, Sound, TypeOK
  <2> QED
    BY <2>1, <2>2, <2>3, <2>4 DEF Begin, Sound, TypeOK
<1>5. Linkage'
  BY <1>1 DEF Begin, Sound, Linkage, TypeOK, CreateSteps, Pending
<1>6. Stranded'
  BY <1>1 DEF Begin, Sound, Stranded
<1>7. HeadCounts'
  BY <1>1, <1>2, <1>3 DEF Begin, Sound, HeadCounts, ListView
<1>8. Subtractable'
  BY <1>1, MaxTicksAssumption DEF Begin, Sound, TypeOK, Subtractable
<1>9. Transferred'
  BY DEF Begin, Transferred
<1> QED
  BY <1>4, <1>5, <1>6, <1>7, <1>8, <1>9 DEF Sound

LEMMA SoundCompare ==
  ASSUME Sound, Compare
  PROVE  Sound'
<1>0. ListView /\ timer_ptr \in Timers /\ timer_ptr \notin Pending
  BY ListFacts
  DEF Sound, Linkage, Compare, CompareFrom, At, CreateSteps
<1>1. CASE list = <<>>
  <2>1. Corrupt /\ Expired
    BY <1>1 DEF Compare, CompareFrom, At, Sound, Stranded
  <2> QED
    BY <2>1, SoundCorrupt
<1>2. CASE list # <<>>
  <2> DEFINE first == remaining[list[1]]
  <2>1. /\ loaded' = first /\ timer_next' = list[1]
        /\ at' = IF remaining[timer_ptr] < first THEN "shorten" ELSE "walk"
        /\ UNCHANGED <<list, remaining, counting, timer_ptr, ticked,
                       corrupted, history>>
    BY <1>0, <1>2 DEF Compare, CompareFrom, ListView
  <2>2. list[1] \in Pending /\ list[1] \in Timers
    BY <1>0, <1>2 DEF ListView
  <2>3. first \in Nat /\ remaining[timer_ptr] \in Nat /\ first >= 1
    BY <1>0, <1>2, <2>2 DEF Sound, TypeOK, HeadCounts, Compare, CompareFrom, At
  <2>4. TypeOK'
    <3>1. at' \in {"shorten", "walk"}
      BY <2>1
    <3> QED
      BY <2>1, <2>2, <2>3, <3>1 DEF Sound, TypeOK, history
  <2>5. Linkage'
    BY <2>1, <1>0
    DEF Sound, Linkage, Compare, CompareFrom, At, CreateSteps, Pending, history
  <2>6. Stranded'
    BY <2>1, <2>2, <1>2
    DEF Sound, Stranded, Compare, CompareFrom, At, Pending
  <2>7. HeadCounts'
    BY <2>1, <2>3 DEF HeadCounts
  <2>8. Subtractable'
    BY <2>1, <2>3, <1>2
    DEF Sound, Subtractable, Compare, CompareFrom, At, LoadedFrom, Pending
  <2>9. Transferred'
    BY <2>1 DEF Transferred
  <2> QED
    BY <2>4, <2>5, <2>6, <2>7, <2>8, <2>9 DEF Sound
<1> QED
  BY <1>1, <1>2

LEMMA SoundShorten ==
  ASSUME Sound, Shorten
  PROVE  Sound'
<1>0. /\ ListView /\ timer_ptr \in Timers /\ timer_ptr \notin Pending
      /\ at = "shorten" /\ list # <<>> /\ Head(list) = list[1]
      /\ list[1] \in Pending /\ list[1] \in Timers
  BY ListFacts
  DEF Sound, Linkage, Shorten, ShortenBy, At, CreateSteps, Subtractable,
      ListView
<1>1. /\ remaining[timer_ptr] \in Nat /\ remaining[timer_ptr] >= 1
      /\ remaining[list[1]] \in Nat /\ loaded \in Nat
      /\ remaining[list[1]] >= remaining[timer_ptr]
      /\ loaded > remaining[timer_ptr]
      /\ LoadedFrom(list[1])
  BY <1>0 DEF Sound, TypeOK, Subtractable
<1>2. PICK h \in Reads(list[1]) :
        remaining' = [remaining EXCEPT ![list[1]] = h - remaining[timer_ptr]]
  BY <1>0 DEF Shorten, ShortenBy
<1>3. /\ h = remaining[list[1]] \/ h = loaded
      /\ h - remaining[timer_ptr] \in Nat
      /\ ~ticked => h - remaining[timer_ptr] >= 1
  BY <1>1 DEF Reads, LoadedFrom
<1>4. /\ at' = "link_head"
      /\ UNCHANGED <<timer_ptr, loaded, ticked, list, counting, timer_next,
                     corrupted, history>>
  BY DEF Shorten, ShortenBy, Goto
<1>5. remaining'[timer_ptr] = remaining[timer_ptr]
  BY <1>0, <1>2 DEF Sound, TypeOK
<1>6. TypeOK'
  BY <1>0, <1>2, <1>3, <1>4 DEF Sound, TypeOK, history
<1>7. Linkage'
  BY <1>0, <1>4
  DEF Sound, Linkage, CreateSteps, Pending, history
<1>8. Stranded'
  BY <1>0, <1>4 DEF Sound, Stranded, Expired, history
<1>9. HeadCounts'
  BY <1>0, <1>2, <1>3, <1>4 DEF HeadCounts, Sound, TypeOK
<1>10. Subtractable'
  BY <1>0, <1>1, <1>4, <1>5 DEF Subtractable
<1>11. Transferred'
  BY <1>4 DEF Transferred
<1> QED
  BY <1>6, <1>7, <1>8, <1>9, <1>10, <1>11 DEF Sound

\* The three ways to link the new timer.
LEMMA SoundLinked ==
  ASSUME Sound, ~corrupted, NEW k \in Nat, Inserted(k),
         NEW late \in SUBSET Timers, Linked(list', late),
         at \in {"first", "link_head", "link"}, at' \in {"none", "start"},
         UNCHANGED <<timer_ptr, loaded, ticked>>,
         remaining[list'[1]] >= 1
  PROVE  Sound'
<1>1. timer_ptr \in Timers /\ timer_ptr \notin Pending
  BY DEF Sound, Linkage, CreateSteps
<1>2. /\ list' \in Seq(Timers) /\ IsInjective(list')
      /\ Pending' = Pending \cup {timer_ptr}
  BY <1>1, InsertedView DEF Inserted, Sound
<1>3. /\ status' = [status EXCEPT ![timer_ptr] = "pending"]
      /\ delayed' = delayed \cup late
      /\ UNCHANGED <<remaining, counting, timer_next, corrupted, asked, age>>
  BY DEF Linked
<1>4. TypeOK'
  BY <1>1, <1>2, <1>3 DEF Sound, TypeOK
<1>5. Linkage'
  BY <1>1, <1>2, <1>3 DEF Sound, Linkage, TypeOK, CreateSteps
<1>6. Stranded'
  BY <1>3 DEF Stranded
<1>7. HeadCounts'
  BY <1>3 DEF HeadCounts
<1>8. Subtractable' /\ Transferred'
  BY DEF Subtractable, Transferred
<1> QED
  BY <1>4, <1>5, <1>6, <1>7, <1>8 DEF Sound

LEMMA SoundLinkFirst ==
  ASSUME Sound, LinkFirst
  PROVE  Sound'
<1>1. Inserted(1) /\ ~corrupted /\ at = "first" /\ at' = "start"
  BY LinkFirstView DEF LinkFirst, At, Goto
<1>2. Linked(list', {}) /\ UNCHANGED <<timer_ptr, loaded, ticked>>
  BY DEF LinkFirst, Linked, Goto
<1>3. list'[1] = timer_ptr /\ remaining[timer_ptr] >= 1
  BY <1>1 DEF LinkFirst, Linked, Sound, Subtractable
<1> QED
  BY <1>1, <1>2, <1>3, SoundLinked

LEMMA SoundLinkHead ==
  ASSUME Sound, LinkHead
  PROVE  Sound'
<1>1. CASE list = <<>>
  <2>1. Corrupt /\ Expired
    BY <1>1 DEF LinkHead, At, Sound, Stranded
  <2> QED
    BY <2>1, SoundCorrupt
<1>2. CASE list # <<>>
  <2>1. Inserted(1) /\ ~corrupted /\ at = "link_head" /\ at' = "none"
    BY <1>2, LinkHeadView DEF LinkHead, At, Goto
  <2>2. Linked(list', {}) /\ UNCHANGED <<timer_ptr, loaded, ticked>>
    BY <1>2 DEF LinkHead, Linked, Goto
  <2>3. list'[1] = timer_ptr /\ remaining[timer_ptr] >= 1
    <3>1. Len(list) \in Nat
      BY ListFacts DEF ListView, Sound
    <3> QED
      BY <2>1, <3>1 DEF Inserted, Sound, Subtractable
  <2> QED
    BY <2>1, <2>2, <2>3, SoundLinked
<1> QED
  BY <1>1, <1>2

LEMMA SoundLink ==
  ASSUME Sound, Link
  PROVE  Sound'
<1>1. CASE timer_next \notin Pending
  <2>1. Corrupt /\ Expired
    BY <1>1 DEF Link, At, Sound, Stranded
  <2> QED
    BY <2>1, SoundCorrupt
<1>2. CASE timer_next \in Pending
  <2> DEFINE late == {u \in Pending : \E i, j \in 1 .. Len(list') :
                        i < j /\ list'[i] = timer_ptr /\ list'[j] = u}
  <2>1. /\ Place \in Nat /\ Inserted(Place)
        /\ ~corrupted /\ at = "link" /\ at' = "none"
    BY <1>2, LinkView DEF Link, At, Goto
  <2>2. Linked(list', late) /\ UNCHANGED <<timer_ptr, loaded, ticked>>
    BY <1>2 DEF Link, Linked, Goto
  <2>3. late \in SUBSET Timers
    BY PendingAreTimers DEF Sound
  <2>4. remaining[list'[1]] >= 1
    <3>1. ListView /\ list # <<>>
      BY <1>2, ListFacts DEF ListView, Sound
    <3>2. remaining[list[1]] >= 1
      BY <2>1, <3>1 DEF Sound, HeadCounts
    <3>3. 1 < Place
      <4>1. CASE timer_next = list[1]
        BY <3>1, <4>1 DEF Place, ListView
      <4>2. CASE timer_next # list[1]
        BY <1>2, <4>2, PositionIs, <3>1 DEF Place, ListView, Sound
      <4> QED
        BY <4>1, <4>2
    <3> QED
      BY <2>1, <3>1, <3>2, <3>3 DEF Inserted, ListView
  <2> HIDE DEF late
  <2> QED
    BY <2>1, <2>2, <2>3, <2>4, SoundLinked
<1> QED
  BY <1>1, <1>2

LEMMA SoundStart ==
  ASSUME Sound, Start
  PROVE  Sound'
  BY DEF Start, Goto, At, history, Sound, TypeOK, Linkage, Stranded,
     HeadCounts, Subtractable, Transferred, Pending, CreateSteps

LEMMA SoundWalk ==
  ASSUME Sound, Walk
  PROVE  Sound'
<1>1. CASE timer_next \notin Pending
  <2>1. Corrupt /\ Expired
    BY <1>1 DEF Walk, At, Sound, Stranded
  <2> QED
    BY <2>1, SoundCorrupt
<1>2. CASE timer_next \in Pending
  <2>1. /\ ListView /\ at = "walk" /\ ~corrupted /\ timer_ptr \in Timers
        /\ timer_ptr \notin Pending /\ list # <<>> /\ Head(list) = list[1]
        /\ list[1] \in Pending
    BY <1>2, ListFacts DEF Sound, Linkage, Walk, At, CreateSteps, ListView
  <2> DEFINE next == Successor(timer_next)
  <2>2. PICK h \in Reads(timer_next) :
          /\ remaining' = [remaining EXCEPT
                             ![timer_ptr] = remaining[timer_ptr] - h]
          /\ at' = IF next = list[1]
                        \/ remaining[timer_ptr] - h < remaining[next]
                     THEN "link" ELSE "walk"
    BY <1>2, <2>1 DEF Walk
  <2>3. /\ timer_next' = next /\ loaded' = 0
        /\ UNCHANGED <<list, counting, timer_ptr, ticked, corrupted, history>>
    BY <1>2 DEF Walk
  <2>4. next \in Pending /\ next \in Timers
    <3>1. PICK i \in 1 .. Len(list) : timer_next = list[i]
      BY <1>2, <2>1 DEF ListView
    <3>2. next = IF i = Len(list) THEN list[1] ELSE list[i + 1]
      BY <3>1, SuccessorIs DEF Sound
    <3> HIDE DEF next
    <3> QED
      BY <2>1, <3>2 DEF ListView
  <2> HIDE DEF next
  <2>5. /\ h \in Nat /\ remaining[timer_ptr] - h \in Nat
        /\ remaining[next] \in Nat
    <3>1. timer_next \in Timers
      BY <1>2, PendingAreTimers DEF Sound
    <3>2. /\ remaining[timer_ptr] \in Nat /\ remaining[timer_next] \in Nat
          /\ loaded \in Nat /\ remaining[next] \in Nat
      BY <2>1, <2>4, <3>1 DEF Sound, TypeOK
    <3>3. h = remaining[timer_next] \/ h = loaded
      BY DEF Reads
    <3>4. /\ remaining[timer_next] <= remaining[timer_ptr]
          /\ loaded <= remaining[timer_ptr]
      BY <1>2, <2>1 DEF Sound, Subtractable
    <3> QED
      BY <3>2, <3>3, <3>4
  <2>6. \A t \in Pending : remaining'[t] = remaining[t]
    BY <2>1, <2>2 DEF Sound, TypeOK, ListView
  <2>7. TypeOK'
    BY <2>1, <2>2, <2>3, <2>4, <2>5 DEF Sound, TypeOK, history
  <2>8. Linkage'
    BY <2>1, <2>2, <2>3 DEF Sound, Linkage, Pending, history, CreateSteps
  <2>9. Stranded'
    BY <2>1, <2>2, <2>3, <2>4 DEF Stranded, Pending
  <2>10. HeadCounts'
    BY <2>1, <2>3, <2>6 DEF Sound, HeadCounts
  <2>11. Subtractable'
    <3>1. at' = "walk" =>
            /\ remaining'[next] <= remaining'[timer_ptr]
            /\ 0 <= remaining'[timer_ptr]
      BY <2>1, <2>2, <2>4, <2>5, <2>6 DEF Sound, TypeOK
    <3> QED
      BY <2>2, <2>3, <3>1 DEF Subtractable
  <2>12. Transferred'
    BY <2>2 DEF Transferred
  <2> QED
    BY <2>7, <2>8, <2>9, <2>10, <2>11, <2>12 DEF Sound
<1> QED
  BY <1>1, <1>2

LEMMA SoundTransfer ==
  ASSUME Sound, NEW t \in Timers, Transfer(t)
  PROVE  Sound'
<1> DEFINE next == Successor(t)
<1>1. ListView /\ at = "none" /\ ~corrupted /\ t \in Pending
  BY ListFacts DEF Sound, Transfer, TransferTicks, At
<1>2. /\ remaining' = [remaining EXCEPT ![next] = @ + remaining[t]]
      /\ timer_ptr' = t /\ ticked' = FALSE /\ at' = "unlink"
      /\ delayed' = delayed \/ delayed' = delayed \cup Pending
      /\ UNCHANGED <<list, counting, timer_next, loaded, corrupted, asked, age,
                     status>>
  BY DEF Transfer, TransferTicks
<1>3. PICK k \in 1 .. Len(list) : t = list[k]
  BY <1>1 DEF ListView
<1>4. next = IF k = Len(list) THEN list[1] ELSE list[k + 1]
  BY <1>3, SuccessorIs DEF Sound
<1>5. next \in Timers
  <2> HIDE DEF next
  <2> QED
    BY <1>1, <1>3, <1>4 DEF ListView
<1> HIDE DEF next
<1>6. /\ remaining[t] \in Nat /\ remaining[next] \in Nat
      /\ remaining'[next] = remaining[next] + remaining[t]
      /\ \A u \in Timers : u # next => remaining'[u] = remaining[u]
      /\ \A u \in Timers : remaining'[u] \in Nat /\ remaining[u] \in Nat
                            /\ remaining'[u] >= remaining[u]
  BY SMTT(30), <1>2, <1>5 DEF Sound, TypeOK
<1>7. TypeOK'
  <2>1. delayed' \subseteq Timers
    BY <1>2, PendingAreTimers DEF Sound, TypeOK
  <2>2. remaining' \in [Timers -> Nat]
    BY <1>2, <1>5 DEF Sound, TypeOK
  <2> QED
    BY <1>2, <2>1, <2>2 DEF Sound, TypeOK
<1>8. Linkage'
  BY <1>1, <1>2 DEF Sound, Linkage, CreateSteps, Pending
<1>9. Stranded'
  BY <1>1, <1>2 DEF Stranded, Pending
<1>10. HeadCounts'
  BY <1>1, <1>2, <1>6 DEF Sound, HeadCounts, ListView
<1>11. Subtractable'
  BY <1>2 DEF Subtractable
<1>12. Transferred'
  <2> SUFFICES ASSUME NEW i \in 1 .. Len(list) - 1, list[i] = t
               PROVE  remaining'[list[i + 1]] >= remaining'[t]
    BY <1>2 DEF Transferred
  <2>1. i = k /\ next = list[i + 1] /\ next # t
    BY <1>1, <1>3, <1>4 DEF ListView
  <2> QED
    BY <1>6, <2>1
<1> QED
  BY <1>7, <1>8, <1>9, <1>10, <1>11, <1>12 DEF Sound

LEMMA SoundUnlink ==
  ASSUME Sound, Unlink
  PROVE  Sound'
<1>1. CASE timer_ptr \notin Pending
  <2>1. Corrupt /\ Expired
    BY <1>1 DEF Unlink, At, Sound, Stranded
  <2> QED
    BY <2>1, SoundCorrupt
<1>2. CASE timer_ptr \in Pending
  <2> DEFINE k == Position(timer_ptr)
  <2>1. /\ ListView /\ at = "unlink" /\ ~corrupted /\ timer_ptr \in Timers
    BY ListFacts DEF Sound, Linkage, Unlink, At
  <2>2. k \in Nat /\ Removed(k)
    BY <1>2, UnlinkView
  <2>3. list[k] = timer_ptr
    BY <1>2, PositionIs DEF Sound
  <2> HIDE DEF k
  <2>4. /\ list' \in Seq(Timers) /\ IsInjective(list')
        /\ Pending' = Pending \ {timer_ptr}
    BY <2>2, <2>3, RemovedView DEF Sound, Removed
  <2>5. /\ remaining' = [remaining EXCEPT ![timer_ptr] = 0]
        /\ status' = [status EXCEPT ![timer_ptr] = "deleted"]
        /\ asked' = [asked EXCEPT ![timer_ptr] = 0]
        /\ age' = [age EXCEPT ![timer_ptr] = 0]
        /\ at' = "none"
        /\ UNCHANGED <<timer_ptr, loaded, ticked, counting, timer_next,
                       corrupted, delayed>>
    BY <1>2 DEF Unlink, Goto
  <2>6. TypeOK'
    BY <2>1, <2>4, <2>5, MaxTicksAssumption DEF Sound, TypeOK
  <2>7. Linkage'
    BY <2>1, <2>4, <2>5 DEF Sound, Linkage, TypeOK, CreateSteps
  <2>8. Stranded'
    BY <2>1, <2>5 DEF Stranded
  <2>9. HeadCounts'
    <3> SUFFICES ASSUME list' # <<>> PROVE remaining'[list'[1]] >= 1
      BY DEF HeadCounts
    <3>1. ListView' /\ Len(list) >= 2
      BY <2>1, <2>2, <2>6, ListFactsNext DEF ListView, Removed
    <3>2. list # <<>> /\ remaining[list[1]] >= 1
      BY <2>1, <3>1 DEF ListView, Sound, HeadCounts
    <3>3. list'[1] = IF 1 < k THEN list[1] ELSE list[2]
      BY <2>2, <2>1, <3>1 DEF Removed, ListView
    <3>4. remaining[list'[1]] >= 1
      <4>1. CASE 1 < k
        BY <3>2, <3>3, <4>1
      <4>2. CASE ~(1 < k)
        <5>1. k = 1 /\ list[1] = timer_ptr
          BY <2>2, <2>3, <4>2 DEF Removed
        <5>2. remaining[list[2]] >= remaining[list[1]]
          BY <2>1, <3>1, <5>1 DEF ListView, Sound, Transferred
        <5>3. remaining[list[2]] \in Nat /\ remaining[list[1]] \in Nat
          BY SMTT(30), <2>1, <3>1 DEF ListView, Sound, TypeOK
        <5> QED
          BY <3>2, <3>3, <4>2, <5>2, <5>3
      <4> QED
        BY <4>1, <4>2
    <3>5. list'[1] # timer_ptr /\ list'[1] \in Timers
      BY <2>1, <2>2, <2>3, <3>1, <3>3 DEF ListView, Removed
    <3> QED
      BY <2>5, <3>4, <3>5 DEF Sound, TypeOK
  <2>10. Subtractable' /\ Transferred'
    BY <2>5 DEF Subtractable, Transferred
  <2> QED
    BY <2>6, <2>7, <2>8, <2>9, <2>10 DEF Sound
<1> QED
  BY <1>1, <1>2

\* A tick on an empty list only stops TIM3.
LEMMA SoundIdleTick ==
  ASSUME Sound, TIM3_IRQHandler, list = <<>>
  PROVE  Sound'
<1>1. /\ ~corrupted /\ (at # "none" => ~ticked) /\ ticked' = (at # "none")
      /\ age' = [t \in Timers |-> IF status[t] \in {"creating", "pending"}
                                     THEN age[t] + 1 ELSE age[t]]
      /\ delayed' = IF at = "none" THEN delayed
                     ELSE delayed \cup Pending \cup {timer_ptr}
      /\ counting' = FALSE
      /\ UNCHANGED <<list, remaining, status, at, timer_ptr, timer_next,
                     loaded, corrupted, asked>>
  BY DEF TIM3_IRQHandler, Tick
<1>2. TypeOK'
  <2>1. age' \in [Timers -> Nat]
    BY <1>1 DEF Sound, TypeOK
  <2>2. delayed' \subseteq Timers
    BY <1>1, PendingAreTimers DEF Sound, TypeOK, Linkage
  <2>3. counting' \in BOOLEAN /\ ticked' \in BOOLEAN
    BY <1>1
  <2> QED
    BY <1>1, <2>1, <2>2, <2>3 DEF Sound, TypeOK
<1>3. Linkage'
  BY <1>1 DEF Sound, Linkage, Pending
<1>4. Stranded'
  BY <1>1 DEF Sound, Stranded, Expired, Pending
<1>5. Pending = {} /\ Len(list) = 0
  BY ListFacts DEF Sound, ListView
<1>6. HeadCounts' /\ Transferred'
  BY <1>1, <1>5 DEF HeadCounts, Transferred
<1>7. Subtractable'
  BY <1>1, <1>5 DEF Sound, Subtractable, Pending
<1> QED
  BY <1>2, <1>3, <1>4, <1>6, <1>7 DEF Sound

\* What any tick on timers does, however many fire.
LEMMA TickView ==
  ASSUME Sound, TIM3_IRQHandler, list # <<>>
  PROVE  /\ ListView /\ ~corrupted
         /\ list[1] \in Timers /\ list[1] \in Pending
         /\ remaining[list[1]] >= 1 /\ (at # "none" => ~ticked)
         /\ ticked' = (at # "none")
         /\ age' = [t \in Timers |-> IF status[t] \in {"creating", "pending"}
                                        THEN age[t] + 1 ELSE age[t]]
         /\ delayed' = IF at = "none" THEN delayed
                        ELSE delayed \cup Pending \cup {timer_ptr}
         /\ UNCHANGED <<at, timer_ptr, timer_next, loaded, corrupted, asked>>
  BY ListFacts DEF TIM3_IRQHandler, Tick, Sound, ListView, HeadCounts

LEMMA SoundFires ==
  ASSUME Sound, TIM3_IRQHandler, list # <<>>, NEW n \in Nat, Fires(n)
  PROVE  Sound'
<1>1. /\ ListView /\ ~corrupted
      /\ list[1] \in Timers /\ list[1] \in Pending
      /\ remaining[list[1]] >= 1 /\ (at # "none" => ~ticked)
      /\ ticked' = (at # "none")
      /\ age' = [t \in Timers |-> IF status[t] \in {"creating", "pending"}
                                     THEN age[t] + 1 ELSE age[t]]
      /\ delayed' = IF at = "none" THEN delayed
                     ELSE delayed \cup Pending \cup {timer_ptr}
      /\ UNCHANGED <<at, timer_ptr, timer_next, loaded, corrupted, asked>>
  BY TickView
<1>2. /\ list' \in Seq(Timers) /\ IsInjective(list')
      /\ Len(list') = Len(list) - n
      /\ \A i \in 1 .. Len(list) - n : list'[i] = list[n + i]
      /\ \A t \in Pending : t \in Pending'
                            <=> ~ \E i \in 1 .. n : list[i] = t
      /\ Pending' \subseteq Pending
  BY FiresView DEF Sound
<1>3. /\ n \in 0 .. Len(list)
      /\ remaining' = [remaining EXCEPT ![list[1]] = @ - 1]
      /\ \A i \in 1 .. n : remaining'[list[i]] = 0
      /\ n < Len(list) => remaining'[list[n + 1]] # 0
      /\ status' = [t \in Timers |-> IF t \in {list[i] : i \in 1 .. n}
                                        THEN "fired" ELSE status[t]]
      /\ counting' = (n < Len(list))
  BY DEF Fires
<1>4. /\ remaining' \in [Timers -> Nat]
      /\ remaining'[list[1]] = remaining[list[1]] - 1
      /\ \A t \in Timers : t # list[1] => remaining'[t] = remaining[t]
      /\ \A t \in Timers : /\ remaining[t] \in Nat /\ remaining'[t] \in Nat
                            /\ remaining'[t] <= remaining[t]
  <2>1. remaining \in [Timers -> Nat] /\ remaining[list[1]] - 1 \in Nat
    BY <1>1 DEF Sound, TypeOK
  <2> QED
    BY <1>1, <1>3, <2>1
<1>5. list[1] \in Pending' => n = 0 /\ list' # <<>> /\ list'[1] = list[1]
  <2> SUFFICES ASSUME list[1] \in Pending' PROVE n = 0 /\ list' # <<>> /\ list'[1] = list[1]
    OBVIOUS
  <2>1. n = 0
    BY <1>1, <1>2
  <2> QED
    BY <1>1, <1>2, <2>1 DEF ListView
<1>6. TypeOK'
  <2>1. age' \in [Timers -> Nat]
    BY SMTT(30), <1>1 DEF Sound, TypeOK
  <2>2. delayed' \subseteq Timers
    BY <1>1, PendingAreTimers DEF Sound, TypeOK, Linkage
  <2>3. counting' \in BOOLEAN /\ ticked' \in BOOLEAN
    BY <1>1, <1>3
  <2>4. status' \in [Timers ->
                      {"new", "creating", "pending", "fired", "deleted"}]
    BY <1>3 DEF Sound, TypeOK
  <2> QED
    BY <1>1, <1>2, <1>4, <2>1, <2>2, <2>3, <2>4 DEF Sound, TypeOK
<1>7. \A t \in Pending : status'[t] = "fired" <=> t \notin Pending'
  <2> SUFFICES ASSUME NEW t \in Pending
               PROVE  status'[t] = "fired" <=> t \notin Pending'
    OBVIOUS
  <2>1. t \in Timers /\ status[t] = "pending"
    BY PendingAreTimers DEF Sound, Linkage
  <2> QED
    BY <1>2, <1>3, <2>1
<1>8. \A t \in Timers \ Pending : status'[t] = status[t]
  BY <1>1, <1>3 DEF ListView
<1>9. Linkage'
  <2>1. \A t \in Timers : status'[t] = "pending" <=> t \in Pending'
    <3> SUFFICES ASSUME NEW t \in Timers
                 PROVE  status'[t] = "pending" <=> t \in Pending'
      OBVIOUS
    <3>1. CASE t \in Pending
      BY <1>2, <1>3, <3>1 DEF Sound, Linkage
    <3>2. CASE t \notin Pending
      BY <1>2, <1>8, <3>2 DEF Sound, Linkage
    <3> QED
      BY <3>1, <3>2
  <2>2. at \in CreateSteps => status'[timer_ptr] = "creating"
    BY <1>8 DEF Sound, Linkage, CreateSteps
  <2>3. at # "first"
    BY DEF Sound, Linkage
  <2> QED
    BY <1>1, <2>1, <2>2, <2>3 DEF Sound, Linkage
<1>10. Stranded'
  <2>1. ASSUME NEW t \in Pending, t \notin Pending', at # "none"
        PROVE  Expired'
    BY <1>1, <1>7, <2>1 DEF Expired
  <2>2. list' = <<>> => list[1] \notin Pending'
    BY <1>5
  <2>3. at \in {"compare", "shorten", "link_head"} /\ list' = <<>> => Expired'
    BY <1>1, <2>1, <2>2
  <2>4. at \in {"walk", "link"} /\ timer_next \notin Pending' => Expired'
    BY <1>1, <2>1 DEF Sound, Stranded, Expired
  <2>5. at = "unlink" /\ timer_ptr \notin Pending' => Expired'
    BY <1>1, <2>1 DEF Sound, Stranded, Expired
  <2> QED
    BY <1>1, <2>3, <2>4, <2>5 DEF Stranded
<1>11. HeadCounts'
  <2> SUFFICES ASSUME list' # <<>> PROVE remaining'[list'[1]] >= 1
    BY DEF HeadCounts
  <2>1. ListView'
    BY <1>6, ListFactsNext
  <2>2. n < Len(list) /\ list'[1] = list[n + 1]
    BY <1>1, <1>2, <2>1 DEF ListView
  <2>3. remaining'[list'[1]] # 0 /\ list'[1] \in Timers
    BY <1>3, <2>1, <2>2 DEF ListView
  <2> QED
    BY <1>4, <2>3
<1>12. at \in CreateSteps => /\ remaining'[timer_ptr] = remaining[timer_ptr]
                            /\ remaining[timer_ptr] \in Nat
  BY <1>1, <1>4 DEF Sound, Linkage, CreateSteps
<1>13. Subtractable'
  <2>1. at \in {"first", "compare", "shorten", "link_head"}
          => remaining'[timer_ptr] >= 1
    BY <1>12 DEF Sound, Subtractable, CreateSteps
  <2>2. at = "shorten"
          => /\ list' # <<>>
             /\ loaded > remaining'[timer_ptr]
             /\ remaining'[list'[1]] >= remaining'[timer_ptr]
             /\ loaded = remaining'[list'[1]] + 1
    <3> SUFFICES ASSUME at = "shorten"
                 PROVE  /\ list' # <<>>
                        /\ loaded > remaining'[timer_ptr]
                        /\ remaining'[list'[1]] >= remaining'[timer_ptr]
                        /\ loaded = remaining'[list'[1]] + 1
      OBVIOUS
    <3>1. /\ remaining[timer_ptr] >= 1 /\ loaded > remaining[timer_ptr]
          /\ loaded = remaining[list[1]]
      BY <1>1 DEF Sound, Subtractable, LoadedFrom
    <3>2. /\ remaining'[list[1]] >= remaining'[timer_ptr]
          /\ remaining'[timer_ptr] = remaining[timer_ptr]
          /\ remaining'[timer_ptr] \in Nat /\ remaining'[list[1]] \in Nat
          /\ loaded = remaining'[list[1]] + 1
      BY <1>1, <1>4, <1>12, <3>1 DEF CreateSteps
    <3>3. remaining'[list[1]] # 0
      BY <3>1, <3>2
    <3>4. n = 0
      BY <1>3, <3>3
    <3>5. list' # <<>> /\ list'[1] = list[1]
      BY <1>1, <1>2, <3>4 DEF ListView
    <3> QED
      BY <3>1, <3>2, <3>5
  <2>3. at = "walk" /\ timer_next \in Pending'
          => /\ remaining'[timer_next] <= remaining'[timer_ptr]
             /\ loaded <= remaining'[timer_ptr]
             /\ loaded # 0 => /\ timer_next = list'[1]
                              /\ loaded = remaining'[timer_next] + 1
    <3> SUFFICES ASSUME at = "walk", timer_next \in Pending'
                 PROVE  /\ remaining'[timer_next] <= remaining'[timer_ptr]
                        /\ loaded <= remaining'[timer_ptr]
                        /\ loaded # 0 => /\ timer_next = list'[1]
                                         /\ loaded = remaining'[timer_next] + 1
      OBVIOUS
    <3>1. timer_next \in Pending /\ timer_next \in Timers
      BY <1>2, PendingAreTimers DEF Sound
    <3>2. /\ remaining[timer_next] <= remaining[timer_ptr]
          /\ loaded <= remaining[timer_ptr]
          /\ loaded # 0 => /\ timer_next = list[1]
                           /\ loaded = remaining[timer_next]
      BY <1>1, <3>1 DEF Sound, Subtractable, LoadedFrom
    <3> QED
      BY <1>4, <1>5, <1>12, <3>1, <3>2 DEF CreateSteps
  <2> QED
    BY <1>1, <2>1, <2>2, <2>3 DEF Subtractable, LoadedFrom
<1>14. Transferred'
  <2> SUFFICES ASSUME at = "unlink", NEW i \in 1 .. Len(list') - 1,
                      list'[i] = timer_ptr
               PROVE  remaining'[list'[i + 1]] >= remaining'[timer_ptr]
    BY <1>1 DEF Transferred
  <2>1. /\ n + i \in 1 .. Len(list) - 1 /\ list[n + i] = timer_ptr
        /\ list'[i + 1] = list[n + i + 1] /\ n + i + 1 \in 1 .. Len(list)
        /\ n + i + 1 # 1
    BY <1>1, <1>2, <1>3 DEF ListView
  <2>2. /\ remaining[list[n + i + 1]] >= remaining[timer_ptr]
        /\ list[n + i + 1] # list[1] /\ list[n + i + 1] \in Timers
        /\ timer_ptr \in Timers
    BY <1>1, <2>1 DEF Sound, Transferred, ListView, Linkage
  <2> QED
    BY SMTT(30), <1>4, <2>1, <2>2
<1> QED
  BY <1>6, <1>9, <1>10, <1>11, <1>13, <1>14 DEF Sound

LEMMA SoundTick ==
  ASSUME Sound, TIM3_IRQHandler
  PROVE  Sound'
<1>1. CASE list = <<>>
  BY <1>1, SoundIdleTick
<1>2. CASE list # <<>>
  <2>1. PICK n \in Nat : Fires(n)
    BY <1>2, TickFires DEF Sound
  <2> QED
    BY <1>2, <2>1, SoundFires
<1> QED
  BY <1>1, <1>2

LEMMA SoundNext ==
  ASSUME Sound, [Next]_vars
  PROVE  Sound'
<1>1. CASE UNCHANGED vars
  BY SMTT(30), <1>1
  DEF vars, callVars, history, Sound, TypeOK, Linkage, Stranded, HeadCounts,
      Subtractable, LoadedFrom, Transferred, Expired, Pending
<1>2. CASE Create
  BY <1>2, SoundBegin, SoundCompare, SoundShorten, SoundLinkHead, SoundWalk,
     SoundLink, SoundLinkFirst, SoundStart
  DEF Create
<1>3. CASE Delete
  BY <1>3, SoundTransfer, SoundUnlink DEF Delete
<1>4. CASE TIM3_IRQHandler
  BY <1>4, SoundTick
<1> QED
  BY <1>1, <1>2, <1>3, <1>4 DEF Next

LEMMA AlwaysSound == Spec => []Sound
  BY SoundInit, SoundNext, PTL DEF Spec

\* Every variable keeps its type, wherever ticks land: in particular no
\* subtraction takes remaining_ticks below zero, where it would wrap.
THEOREM TypeCorrect == Spec => []TypeOK
<1>1. Sound => TypeOK
  BY DEF Sound
<1> QED
  BY <1>1, AlwaysSound, PTL

\* A call follows a freed pointer only if the tick that landed in it fired a
\* timer.
THEOREM AlwaysCorruptedByExpiry == Spec => []CorruptedByExpiry
<1>1. Sound => CorruptedByExpiry
  BY DEF Sound, Stranded, Expired, CorruptedByExpiry
<1> QED
  BY <1>1, AlwaysSound, PTL

-----------------------------------------------------------------------------
(***************************************************************************)
(* When timers fire.  e[t] is the number of ticks from now at which a      *)
(* pending timer t will fire: it is never less than what is left of the    *)
(* ticks asked for, and no more unless the timer was delayed.              *)
(***************************************************************************)

Due(t) == asked[t] - age[t]

Meets(t, ticks) == Due(t) <= ticks /\ (t \notin delayed => Due(t) = ticks)

\* What the first timer has been shortened by for a timer not yet linked.
Headway == IF at = "link_head" THEN remaining[timer_ptr] ELSE 0

\* What the timer behind t has been given of t's ticks.
Given(t) == IF at = "unlink" /\ t = timer_ptr THEN remaining[t] ELSE 0

HeadAt(e) == list # <<>> => e[list[1]] = remaining[list[1]] + Headway

Chain(e) ==
  \A i \in 1 .. Len(list) - 1 :
    e[list[i + 1]] = e[list[i]] + remaining[list[i + 1]] - Given(list[i])

Punctual(e) == \A t \in Pending : Meets(t, e[t])

\* Where the new timer is to go, it will be on time too.
BeforeWalk ==
  at \in {"first", "compare", "shorten", "link_head"}
    => Meets(timer_ptr, remaining[timer_ptr])

InWalk(e) ==
  at = "walk" /\ timer_next \in Pending
    => Meets(timer_ptr, remaining[timer_ptr]
                        + (IF loaded # 0 THEN remaining[timer_next] - loaded
                           ELSE e[timer_next] - remaining[timer_next]))

AfterWalk(e) ==
  at = "link" /\ timer_next \in Pending
    => Meets(timer_ptr, remaining[timer_ptr]
                        + (IF timer_next = list[1] THEN e[list[Len(list)]]
                           ELSE e[timer_next] - remaining[timer_next]))

Predicts(e) == /\ HeadAt(e)
               /\ Chain(e)
               /\ Punctual(e)
               /\ InWalk(e)
               /\ AfterWalk(e)

\* A tick inside a call makes everything late.
Late == ticked /\ at \in CreateSteps \cup {"unlink"}
          => Pending \subseteq delayed /\ timer_ptr \in delayed

Past == \A t \in Timers : /\ status[t] = "new" => age[t] = 0
                          /\ status[t] = "fired" /\ t \notin delayed
                               => age[t] = asked[t]

Timed == /\ \E e \in [Timers -> Int] : Predicts(e)
         /\ BeforeWalk
         /\ Late
         /\ Past

LEMMA TimedInit == Init => Timed
<1> SUFFICES ASSUME Init PROVE Timed
  OBVIOUS
<1>1. Pending = {} /\ list = <<>> /\ Len(list) = 0 /\ at = "none"
  BY DEF Init, Pending, ToSet
<1>2. [t \in Timers |-> 0] \in [Timers -> Int]
  OBVIOUS
<1>3. \A e \in [Timers -> Int] : Predicts(e)
  BY <1>1 DEF Predicts, HeadAt, Chain, Punctual, InWalk, AfterWalk
<1>4. BeforeWalk /\ Late /\ Past
  BY <1>1 DEF Init, BeforeWalk, Late, Past, CreateSteps
<1> QED
  BY <1>2, <1>3, <1>4 DEF Timed

\* A step that only gives up changes nothing of this.
LEMMA TimedSame ==
  ASSUME Timed,
         UNCHANGED <<list, remaining, at, timer_ptr, timer_next, loaded, ticked,
                     asked, age, status, delayed>>
  PROVE  Timed'
<1>1. PICK e \in [Timers -> Int] : Predicts(e)
  BY DEF Timed
<1>2. Predicts(e)'
  BY <1>1
  DEF Predicts, HeadAt, Chain, Punctual, InWalk, AfterWalk, Headway, Given,
      Meets, Due, Pending
<1>3. BeforeWalk' /\ Late' /\ Past'
  BY DEF Timed, BeforeWalk, Late, Past, Meets, Due, Pending
<1> QED
  BY <1>2, <1>3 DEF Timed

LEMMA TimedCorrupt ==
  ASSUME Timed, Corrupt
  PROVE  Timed'
  BY TimedSame DEF Corrupt, callVars, history

LEMMA TimedBegin ==
  ASSUME Sound, Timed, NEW t \in Timers, NEW ticks \in 1 .. MaxTicks,
         Begin(t, ticks)
  PROVE  Timed'
<1>1. /\ t \notin Pending /\ at = "none" /\ ListView /\ age[t] = 0
      /\ \A u \in Pending : u \in Timers /\ u # t
  BY ListFacts, PendingAreTimers
  DEF Begin, At, Sound, Linkage, Timed, Past
<1>2. /\ remaining' = [remaining EXCEPT ![t] = ticks]
      /\ asked' = [asked EXCEPT ![t] = ticks]
      /\ status' = [status EXCEPT ![t] = "creating"]
      /\ timer_ptr' = t /\ ticked' = FALSE
      /\ at' \in {"first", "compare"}
      /\ UNCHANGED <<list, counting, timer_next, corrupted, age, delayed>>
  BY DEF Begin
<1>3. /\ \A u \in Timers : u # t => /\ remaining'[u] = remaining[u]
                                    /\ asked'[u] = asked[u]
                                    /\ status'[u] = status[u]
      /\ remaining'[t] = ticks /\ asked'[t] = ticks /\ status'[t] = "creating"
  BY <1>2 DEF Sound, TypeOK
<1>4. PICK e \in [Timers -> Int] : Predicts(e)
  BY DEF Timed
<1>5. Pending' = Pending
  BY <1>2 DEF Pending
<1>6. \A i \in 1 .. Len(list) : remaining'[list[i]] = remaining[list[i]]
  BY <1>1, <1>3 DEF ListView
<1>7. HeadAt(e)'
  BY <1>1, <1>2, <1>4, <1>6 DEF Predicts, HeadAt, Headway, ListView
<1>8. Chain(e)'
  <2> SUFFICES ASSUME NEW i \in 1 .. Len(list) - 1
               PROVE  e[list[i + 1]] = e[list[i]] + remaining'[list[i + 1]] - 0
    BY <1>2 DEF Chain, Given
  <2>1. e[list[i + 1]] = e[list[i]] + remaining[list[i + 1]] - 0
    BY <1>1, <1>4 DEF Predicts, Chain, Given
  <2>2. i + 1 \in 1 .. Len(list)
    BY <1>1 DEF ListView
  <2> QED
    BY <1>6, <2>1, <2>2
<1>9. Punctual(e)'
  BY <1>1, <1>2, <1>3, <1>4, <1>5 DEF Predicts, Punctual, Meets, Due
<1>10. BeforeWalk'
  BY <1>1, <1>2, <1>3 DEF BeforeWalk, Meets, Due
<1>11. InWalk(e)' /\ AfterWalk(e)' /\ Late'
  BY <1>2 DEF InWalk, AfterWalk, Late
<1>12. Past'
  BY <1>2, <1>3 DEF Timed, Past
<1> QED
  BY <1>7, <1>8, <1>9, <1>10, <1>11, <1>12 DEF Timed, Predicts

LEMMA TimedCompare ==
  ASSUME Sound, Timed, Compare
  PROVE  Timed'
<1>1. CASE list = <<>>
  BY <1>1, TimedCorrupt DEF Compare, CompareFrom
<1>2. CASE list # <<>>
  <2>1. /\ ListView /\ timer_ptr \in Timers /\ list[1] \in Timers
        /\ list[1] \in Pending /\ at = "compare"
    BY <1>2, ListFacts
    DEF Sound, Linkage, Compare, CompareFrom, At, ListView
  <2>2. /\ loaded' = remaining[list[1]] /\ timer_next' = list[1]
        /\ at' \in {"shorten", "walk"}
        /\ UNCHANGED <<list, remaining, counting, timer_ptr, ticked,
                       corrupted, asked, age, status, delayed>>
    BY <1>2, <2>1 DEF Compare, CompareFrom, ListView, history
  <2>3. PICK e \in [Timers -> Int] : Predicts(e)
    BY DEF Timed
  <2>4. HeadAt(e)'
    BY <2>1, <2>2, <2>3 DEF Predicts, HeadAt, Headway
  <2>5. Chain(e)'
    BY <2>1, <2>2, <2>3 DEF Predicts, Chain, Given
  <2>6. Punctual(e)'
    BY <2>1, <2>2, <2>3 DEF Predicts, Punctual, Meets, Due, Pending
  <2>7. Meets(timer_ptr, remaining[timer_ptr])
    BY <2>1 DEF Timed, BeforeWalk
  <2>8. BeforeWalk'
    BY <2>2, <2>7 DEF BeforeWalk, Meets, Due
  <2>9. InWalk(e)'
    <3>1. /\ remaining[timer_ptr] \in Nat /\ remaining[list[1]] \in Nat
          /\ remaining[list[1]] >= 1
      BY <1>2, <2>1 DEF Sound, TypeOK, HeadCounts
    <3>2. remaining[timer_ptr] + (remaining[list[1]] - remaining[list[1]])
            = remaining[timer_ptr]
      BY <3>1
    <3> QED
      BY <2>2, <2>7, <3>1, <3>2 DEF InWalk, Meets, Due
  <2>10. AfterWalk(e)' /\ Late' /\ Past'
    BY <2>1, <2>2 DEF AfterWalk, Timed, Late, Past, CreateSteps, Pending
  <2> QED
    BY <2>4, <2>5, <2>6, <2>8, <2>9, <2>10 DEF Timed, Predicts
<1> QED
  BY <1>1, <1>2

LEMMA TimedShorten ==
  ASSUME Sound, Timed, Shorten
  PROVE  Timed'
<1>0. /\ ListView /\ timer_ptr \in Timers /\ timer_ptr \notin Pending
      /\ at = "shorten" /\ list # <<>> /\ Head(list) = list[1]
      /\ list[1] \in Pending /\ list[1] \in Timers /\ list[1] # timer_ptr
      /\ \A i \in 1 .. Len(list) : list[i] \in Timers
  BY ListFacts
  DEF Sound, Linkage, Shorten, ShortenBy, At, CreateSteps, Subtractable,
      ListView
<1>1. PICK h \in Reads(list[1]) :
        remaining' = [remaining EXCEPT ![list[1]] = h - remaining[timer_ptr]]
  BY <1>0 DEF Shorten, ShortenBy
<1>2. /\ at' = "link_head"
      /\ UNCHANGED <<timer_ptr, loaded, ticked, list, counting, timer_next,
                     corrupted, asked, age, status, delayed>>
  BY DEF Shorten, ShortenBy, Goto, history
<1>3. PICK e \in [Timers -> Int] : Predicts(e)
  BY DEF Timed
<1>4. /\ h \in Int /\ remaining[list[1]] \in Nat /\ remaining[timer_ptr] \in Nat
      /\ h - remaining[list[1]] >= 0
      /\ h - remaining[list[1]] # 0 => ticked
  <2>1. LoadedFrom(list[1]) /\ loaded \in Nat /\ remaining[list[1]] \in Nat
        /\ remaining[timer_ptr] \in Nat
    BY <1>0 DEF Sound, TypeOK, Subtractable
  <2> QED
    BY <2>1 DEF Reads, LoadedFrom
<1>5. PICK d \in [Timers -> Int] :
        \A t \in Timers : d[t] = e[t] + (h - remaining[list[1]])
  <2> DEFINE x == h - remaining[list[1]]
  <2>1. x \in Int
    BY <1>4
  <2> HIDE DEF x
  <2>2. [t \in Timers |-> e[t] + x] \in [Timers -> Int]
    BY <2>1
  <2>3. \E d \in [Timers -> Int] : \A t \in Timers : d[t] = e[t] + x
    BY <2>2
  <2> QED
    BY <2>3 DEF x
<1>6. /\ remaining'[list[1]] = h - remaining[timer_ptr]
      /\ \A t \in Timers : t # list[1] => remaining'[t] = remaining[t]
  BY <1>0, <1>1 DEF Sound, TypeOK
<1>7. HeadAt(d)'
  <2>1. e[list[1]] = remaining[list[1]] + 0
    BY <1>0, <1>3 DEF Predicts, HeadAt, Headway
  <2>2. d[list[1]] = e[list[1]] + (h - remaining[list[1]])
    BY <1>0, <1>5
  <2>3. /\ remaining'[timer_ptr] = remaining[timer_ptr]
        /\ remaining'[list[1]] = h - remaining[timer_ptr]
    BY <1>0, <1>6
  <2>4. d[list[1]] = h
    BY <1>4, <2>1, <2>2
  <2>5. d[list[1]] = remaining'[list[1]] + remaining'[timer_ptr]
    BY <1>4, <2>3, <2>4
  <2> QED
    BY <1>2, <2>5 DEF HeadAt, Headway
<1>8. Chain(d)'
  <2> SUFFICES ASSUME NEW i \in 1 .. Len(list) - 1
               PROVE  d[list[i + 1]] = d[list[i]] + remaining'[list[i + 1]] - 0
    BY <1>2 DEF Chain, Given
  <2>1. e[list[i + 1]] = e[list[i]] + remaining[list[i + 1]] - 0
    BY <1>0, <1>3 DEF Predicts, Chain, Given
  <2>2. /\ i + 1 \in 1 .. Len(list) /\ i \in 1 .. Len(list) /\ i + 1 # 1
        /\ list[i] \in Timers /\ list[i + 1] \in Timers
        /\ list[i + 1] # list[1]
    BY <1>0 DEF ListView
  <2>3. /\ e[list[i]] \in Int /\ remaining[list[i + 1]] \in Nat
        /\ remaining'[list[i + 1]] = remaining[list[i + 1]]
        /\ d[list[i]] = e[list[i]] + (h - remaining[list[1]])
        /\ d[list[i + 1]] = e[list[i + 1]] + (h - remaining[list[1]])
    BY <1>5, <1>6, <2>2 DEF Sound, TypeOK
  <2> QED
    BY <1>4, <2>1, <2>3
<1>9. Punctual(d)'
  <2> SUFFICES ASSUME NEW t \in Pending PROVE Meets(t, d[t])
    BY <1>2 DEF Punctual, Pending, Meets, Due
  <2>0. t \in Timers
    BY PendingAreTimers DEF Sound
  <2>1. /\ Meets(t, e[t]) /\ Due(t) \in Int
        /\ h - remaining[list[1]] # 0 => t \in delayed
    <3>1. Meets(t, e[t])
      BY <1>3 DEF Predicts, Punctual
    <3>2. asked[t] \in Int /\ age[t] \in Int
      BY <2>0, MaxTicksAssumption DEF Sound, TypeOK
    <3>3. ticked => t \in delayed
      BY <1>0 DEF Timed, Late, CreateSteps
    <3> QED
      BY <1>4, <3>1, <3>2, <3>3 DEF Due
  <2>2. d[t] = e[t] + (h - remaining[list[1]]) /\ e[t] \in Int
    BY <1>5, <2>0
  <2> QED
    BY <1>4, <2>1, <2>2 DEF Meets
<1>10. BeforeWalk'
  BY <1>0, <1>2, <1>6 DEF Timed, BeforeWalk, Meets, Due
<1>11. InWalk(d)' /\ AfterWalk(d)' /\ Late' /\ Past'
  BY <1>0, <1>2
  DEF InWalk, AfterWalk, Timed, Late, Past, CreateSteps, Pending
<1> QED
  BY <1>7, <1>8, <1>9, <1>10, <1>11 DEF Timed, Predicts

\* The three ways to link the new timer: it fires in `ticks' ticks, and the
\* timers behind it later than before.
LEMMA TimedLinked ==
  ASSUME Sound, Timed, NEW k \in Nat, Inserted(k),
         NEW late \in SUBSET Timers, Linked(list', late),
         at' \in {"none", "start"}, at \in {"first", "link_head", "link"},
         NEW d \in [Timers -> Int], Chain(d)', HeadAt(d)',
         Meets(timer_ptr, d[timer_ptr]),
         UNCHANGED timer_ptr,
         \A t \in Pending : /\ Meets(t, d[t]) \/ t \in late
                            /\ Due(t) <= d[t]
  PROVE  Timed'
<1>1. timer_ptr \in Timers \ Pending /\ status[timer_ptr] = "creating"
  BY DEF Sound, Linkage, CreateSteps
<1>2. Pending' = Pending \cup {timer_ptr}
  BY <1>1, InsertedView DEF Sound
<1>3. /\ delayed' = delayed \cup late
      /\ status' = [status EXCEPT ![timer_ptr] = "pending"]
      /\ UNCHANGED <<remaining, asked, age>>
  BY DEF Linked
<1>4. Punctual(d)'
  <2> SUFFICES ASSUME NEW t \in Pending \cup {timer_ptr}
               PROVE  /\ Due(t) <= d[t]
                      /\ t \notin delayed \cup late => Due(t) = d[t]
    BY <1>2, <1>3 DEF Punctual, Meets, Due
  <2>1. CASE t = timer_ptr
    BY <2>1 DEF Meets
  <2>2. CASE t \in Pending
    BY <2>2 DEF Meets
  <2> QED
    BY <2>1, <2>2
<1>5. BeforeWalk' /\ InWalk(d)' /\ AfterWalk(d)' /\ Late'
  BY DEF BeforeWalk, InWalk, AfterWalk, Late, CreateSteps
<1>6. Past'
  BY <1>1, <1>3 DEF Timed, Past, Sound, TypeOK
<1> QED
  BY <1>4, <1>5, <1>6 DEF Timed, Predicts

LEMMA TimedLinkFirst ==
  ASSUME Sound, Timed, LinkFirst
  PROVE  Timed'
<1>1. /\ Inserted(1) /\ at = "first" /\ at' = "start" /\ timer_ptr \in Timers
      /\ Linked(list', {}) /\ UNCHANGED timer_ptr /\ UNCHANGED remaining
      /\ list = <<>> /\ list' = <<timer_ptr>> /\ Pending = {}
  BY LinkFirstView
  DEF LinkFirst, At, Goto, Linked, Sound, Linkage, Pending, ToSet
<1>2. remaining \in [Timers -> Int]
  BY DEF Sound, TypeOK
<1>3. Chain(remaining)' /\ HeadAt(remaining)'
  <2>1. \A i \in 1 .. Len(list') - 1 : FALSE
    BY <1>1
  <2>2. list'[1] = timer_ptr /\ remaining[timer_ptr] \in Nat
    BY <1>1 DEF Sound, TypeOK
  <2> QED
    BY <1>1, <2>1, <2>2 DEF Chain, HeadAt, Headway
<1>4. PICK d \in [Timers -> Int] : d = remaining
  BY <1>2
<1>5. Chain(d)' /\ HeadAt(d)'
  BY <1>1, <1>3, <1>4 DEF Chain, HeadAt
<1>6. Meets(timer_ptr, d[timer_ptr])
  BY <1>1, <1>4 DEF Timed, BeforeWalk
<1> QED
  BY <1>1, <1>5, <1>6, TimedLinked

LEMMA TimedLinkHead ==
  ASSUME Sound, Timed, LinkHead
  PROVE  Timed'
<1>1. CASE list = <<>>
  BY <1>1, TimedCorrupt DEF LinkHead
<1>2. CASE list # <<>>
  <2>1. /\ Inserted(1) /\ at = "link_head" /\ at' = "none"
        /\ Linked(list', {}) /\ UNCHANGED timer_ptr /\ UNCHANGED remaining
        /\ timer_ptr \in Timers /\ timer_ptr \notin Pending /\ ListView
        /\ 1 \in 1 .. Len(list)
    BY <1>2, LinkHeadView, ListFacts
    DEF LinkHead, At, Goto, Linked, Sound, Linkage, CreateSteps, ListView
  <2>2. PICK e \in [Timers -> Int] : Predicts(e)
    BY DEF Timed
  <2>3. PICK d \in [Timers -> Int] :
          /\ d[timer_ptr] = remaining[timer_ptr]
          /\ \A t \in Timers : t # timer_ptr => d[t] = e[t]
    <3>1. remaining[timer_ptr] \in Int
      BY <2>1 DEF Sound, TypeOK
    <3>2. [e EXCEPT ![timer_ptr] = remaining[timer_ptr]] \in [Timers -> Int]
      BY <3>1
    <3> QED
      BY <2>1, <3>2
  <2>4. \A i \in 1 .. Len(list) : /\ list[i] \in Timers /\ list[i] # timer_ptr
                                  /\ d[list[i]] = e[list[i]]
                                  /\ e[list[i]] \in Int
                                  /\ remaining[list[i]] \in Nat
    <3> SUFFICES ASSUME NEW t \in Pending
                 PROVE  /\ t \in Timers /\ t # timer_ptr
                        /\ d[t] = e[t]
                        /\ e[t] \in Int
                        /\ remaining[t] \in Nat
      BY <2>1 DEF ListView
    <3> QED
      BY <2>1, <2>3, PendingAreTimers DEF Sound, TypeOK
  <2>5. /\ list'[1] = timer_ptr
        /\ \A i \in 1 .. Len(list) : list'[i + 1] = list[i]
        /\ Len(list') = Len(list) + 1
    BY SMTT(30), <2>1 DEF Inserted, ListView
  <2>6. HeadAt(d)'
    <3>1. remaining[timer_ptr] \in Nat
      BY <2>1 DEF Sound, TypeOK
    <3> QED
      BY <2>1, <2>3, <2>5, <3>1 DEF HeadAt, Headway
  <2>7. Chain(d)'
    <3> SUFFICES ASSUME NEW i \in 1 .. Len(list') - 1
                 PROVE  d[list'[i + 1]] = d[list'[i]] + remaining[list'[i + 1]] - 0
      BY <2>1 DEF Chain, Given
    <3>1. i \in 1 .. Len(list) /\ list'[i + 1] = list[i]
      BY <2>1, <2>5 DEF ListView
    <3>2. CASE i = 1
      <4>1. e[list[1]] = remaining[list[1]] + remaining[timer_ptr]
        BY <1>2, <2>1, <2>2 DEF Predicts, HeadAt, Headway
      <4>2. remaining[timer_ptr] \in Nat
        BY <2>1 DEF Sound, TypeOK
      <4> QED
        BY <2>1, <2>3, <2>4, <2>5, <3>1, <3>2, <4>1, <4>2
    <3>3. CASE i # 1
      <4>1. i - 1 \in 1 .. Len(list) - 1 /\ list'[i] = list[i - 1]
        BY <2>1, <2>5, <3>1, <3>3 DEF ListView
      <4>2. e[list[(i - 1) + 1]] = e[list[i - 1]] + remaining[list[(i - 1) + 1]] - 0
        BY <2>1, <2>2, <4>1 DEF Predicts, Chain, Given
      <4>3. (i - 1) + 1 = i
        BY <3>1
      <4>4. e[list[i]] = e[list[i - 1]] + remaining[list[i]] - 0
        BY <4>2, <4>3
      <4>5. d[list[i]] = e[list[i]] /\ d[list[i - 1]] = e[list[i - 1]]
        BY <2>4, <3>1, <4>1
      <4> QED
        BY <3>1, <4>1, <4>4, <4>5
    <3> QED
      BY <3>2, <3>3
  <2>8. Meets(timer_ptr, d[timer_ptr])
    BY <2>1, <2>3 DEF Timed, BeforeWalk
  <2>9. \A t \in Pending : Meets(t, d[t]) /\ Due(t) <= d[t]
    BY <2>1, <2>2, <2>3, PendingAreTimers
    DEF Predicts, Punctual, Meets, Sound
  <2> QED
    BY <2>1, <2>6, <2>7, <2>8, <2>9, TimedLinked
<1> QED
  BY <1>1, <1>2

LEMMA TimedStart ==
  ASSUME Timed, Start
  PROVE  Timed'
<1>1. /\ at = "start" /\ at' = "none"
      /\ UNCHANGED <<timer_ptr, loaded, ticked, list, remaining, timer_next,
                     asked, age, status, delayed>>
  BY DEF Start, At, Goto, history
<1>2. PICK e \in [Timers -> Int] : Predicts(e)
  BY DEF Timed
<1>3. HeadAt(e)' /\ Chain(e)' /\ Punctual(e)'
  BY <1>1, <1>2
  DEF Predicts, HeadAt, Chain, Punctual, Headway, Given, Meets, Due, Pending
<1>4. InWalk(e)' /\ AfterWalk(e)' /\ BeforeWalk' /\ Late' /\ Past'
  BY <1>1
  DEF InWalk, AfterWalk, BeforeWalk, Timed, Late, Past, CreateSteps
<1> QED
  BY <1>3, <1>4 DEF Timed, Predicts

LEMMA TimedWalk ==
  ASSUME Sound, Timed, Walk
  PROVE  Timed'
<1>1. CASE timer_next \notin Pending
  BY <1>1, TimedCorrupt DEF Walk
<1>2. CASE timer_next \in Pending
  <2> DEFINE next == Successor(timer_next)
  <2>1. /\ ListView /\ at = "walk" /\ timer_ptr \in Timers
        /\ timer_ptr \notin Pending /\ list # <<>> /\ Head(list) = list[1]
        /\ timer_next \in Timers /\ Pending \subseteq Timers
    BY <1>2, ListFacts, PendingAreTimers
    DEF Sound, Linkage, Walk, At, CreateSteps, ListView
  <2>2. PICK h \in Reads(timer_next) :
          /\ remaining' = [remaining EXCEPT
                             ![timer_ptr] = remaining[timer_ptr] - h]
          /\ at' = IF next = list[1]
                        \/ remaining[timer_ptr] - h < remaining[next]
                     THEN "link" ELSE "walk"
    BY <1>2, <2>1 DEF Walk
  <2>3. /\ timer_next' = next /\ loaded' = 0
        /\ UNCHANGED <<list, counting, timer_ptr, ticked, corrupted, asked,
                       age, status, delayed>>
    BY <1>2 DEF Walk, history
  <2>4. PICK e \in [Timers -> Int] : Predicts(e)
    BY DEF Timed
  <2>5. PICK i \in 1 .. Len(list) : timer_next = list[i]
    BY <1>2, <2>1 DEF ListView
  <2>6. next = IF i = Len(list) THEN list[1] ELSE list[i + 1]
    BY <2>5, SuccessorIs DEF Sound
  <2> HIDE DEF next
  <2>7. \A t \in Pending : remaining'[t] = remaining[t] /\ t \in Timers
                           /\ remaining[t] \in Nat /\ e[t] \in Int
    BY <2>1, <2>2 DEF Sound, TypeOK
  <2>8. /\ remaining[timer_ptr] \in Nat /\ loaded \in Nat /\ h \in Nat
        /\ remaining[timer_next] \in Nat /\ e[timer_next] \in Int
        /\ remaining'[timer_ptr] = remaining[timer_ptr] - h
        /\ h = remaining[timer_next] \/ (h = loaded /\ loaded # 0)
        /\ Due(timer_ptr) \in Int
    <3>1. /\ remaining[timer_ptr] \in Nat /\ loaded \in Nat
          /\ remaining[timer_next] \in Nat /\ e[timer_next] \in Int
          /\ remaining'[timer_ptr] = remaining[timer_ptr] - h
      BY <2>1, <2>2 DEF Sound, TypeOK
    <3>2. h = remaining[timer_next] \/ (h = loaded /\ loaded # 0)
      BY DEF Reads
    <3>3. asked[timer_ptr] \in Int /\ age[timer_ptr] \in Int
      BY <2>1, MaxTicksAssumption DEF Sound, TypeOK
    <3> QED
      BY <3>1, <3>2, <3>3 DEF Due
  <2>9. HeadAt(e)'
    <3>1. list[1] \in Pending
      BY <2>1 DEF ListView
    <3> QED
      BY <2>1, <2>2, <2>3, <2>4, <2>7, <3>1 DEF Predicts, HeadAt, Headway
  <2>10. Chain(e)'
    <3> SUFFICES ASSUME NEW j \in 1 .. Len(list) - 1
                 PROVE  e[list[j + 1]] = e[list[j]] + remaining'[list[j + 1]] - 0
      BY <2>2, <2>3 DEF Chain, Given
    <3>1. e[list[j + 1]] = e[list[j]] + remaining[list[j + 1]] - 0
      BY <2>1, <2>4 DEF Predicts, Chain, Given
    <3>2. list[j + 1] \in Pending
      BY <2>1 DEF ListView
    <3> QED
      BY <2>7, <3>1, <3>2
  <2>11. Punctual(e)'
    BY <2>3, <2>4 DEF Predicts, Punctual, Meets, Due, Pending
  <2>12. Meets(timer_ptr, remaining[timer_ptr] - h + e[timer_next])
    <3>1. CASE loaded = 0
      <4>1. Meets(timer_ptr, remaining[timer_ptr]
                             + (e[timer_next] - remaining[timer_next]))
        BY <1>2, <2>1, <2>4, <3>1 DEF Predicts, InWalk
      <4>2. h = remaining[timer_next]
        BY <2>8, <3>1
      <4>3. remaining[timer_ptr] + (e[timer_next] - remaining[timer_next])
              = remaining[timer_ptr] - h + e[timer_next]
        BY <2>8, <4>2
      <4> QED
        BY <4>1, <4>3
    <3>2. CASE loaded # 0
      <4>1. Meets(timer_ptr,
                  remaining[timer_ptr] + (remaining[timer_next] - loaded))
        BY <1>2, <2>1, <2>4, <3>2 DEF Predicts, InWalk
      <4>2. timer_next = list[1] /\ LoadedFrom(timer_next)
        BY <1>2, <2>1, <3>2 DEF Sound, Subtractable
      <4>3. e[timer_next] = remaining[timer_next]
        BY <2>1, <2>4, <2>8, <4>2 DEF Predicts, HeadAt, Headway
      <4>4. ticked => timer_ptr \in delayed
        BY <2>1 DEF Timed, Late, CreateSteps
      <4> DEFINE left == remaining[timer_ptr] + (remaining[timer_next] - loaded)
                 new == remaining[timer_ptr] - h + e[timer_next]
      <4>5. /\ left \in Int /\ new \in Int /\ left <= new
            /\ left = new \/ ticked
        <5>1. loaded = remaining[timer_next]
                \/ (ticked /\ loaded = remaining[timer_next] + 1)
          BY <4>2 DEF LoadedFrom
        <5>3. \A a, b, c, d \in Nat :
                /\ b = c \/ (ticked /\ b = c + 1)
                /\ d = b \/ d = c
                => /\ a + (c - b) \in Int /\ a - d + c \in Int
                   /\ a + (c - b) <= a - d + c
                   /\ a + (c - b) = a - d + c \/ ticked
          OBVIOUS
        <5>4. /\ remaining[timer_ptr] \in Nat /\ loaded \in Nat
              /\ remaining[timer_next] \in Nat /\ h \in Nat
              /\ h = loaded \/ h = remaining[timer_next]
          BY <2>8
        <5> DEFINE a == remaining[timer_ptr]
                   c == remaining[timer_next]
        <5>5. /\ a + (c - loaded) \in Int /\ a - h + c \in Int
              /\ a + (c - loaded) <= a - h + c
              /\ a + (c - loaded) = a - h + c \/ ticked
          <6> HIDE DEF a, c
          <6>1. /\ a \in Nat /\ loaded \in Nat /\ c \in Nat /\ h \in Nat
                /\ loaded = c \/ (ticked /\ loaded = c + 1)
                /\ h = loaded \/ h = c
            BY <5>1, <5>4 DEF a, c
          <6> QED
            BY <5>3, <6>1
        <5> QED
          BY <4>3, <5>5
      <4> HIDE DEF left, new
      <4>6. Meets(timer_ptr, left)
        BY <4>1 DEF left
      <4>7. Meets(timer_ptr, new)
        BY <2>8, <4>4, <4>5, <4>6 DEF Meets
      <4> QED
        BY <4>7 DEF new
    <3> QED
      BY <3>1, <3>2
  <2>13. next # list[1] => /\ next \in Pending
                           /\ e[next] = e[timer_next] + remaining[next]
    <3> SUFFICES ASSUME next # list[1]
                 PROVE  /\ next \in Pending
                        /\ e[next] = e[timer_next] + remaining[next]
      OBVIOUS
    <3>1. i \in 1 .. Len(list) - 1 /\ next = list[i + 1] /\ next \in Pending
      BY <2>1, <2>5, <2>6 DEF ListView
    <3>2. e[next] = e[timer_next] + remaining[next] - 0
      BY <2>1, <2>4, <2>5, <3>1 DEF Predicts, Chain, Given
    <3> QED
      BY <2>7, <2>8, <3>1, <3>2
  <2>14. next = list[1] => timer_next = list[Len(list)]
    BY <2>1, <2>5, <2>6 DEF ListView
  <2>15. next # list[1] =>
           Meets(timer_ptr, remaining'[timer_ptr] + (e[next] - remaining'[next]))
    <3> SUFFICES ASSUME next # list[1]
                 PROVE  Meets(timer_ptr, remaining'[timer_ptr]
                                         + (e[next] - remaining'[next]))
      OBVIOUS
    <3>1. /\ e[next] = e[timer_next] + remaining[next]
          /\ remaining'[next] = remaining[next] /\ remaining[next] \in Nat
      BY <2>7, <2>13
    <3>2. remaining'[timer_ptr] + (e[next] - remaining'[next])
            = remaining[timer_ptr] - h + e[timer_next]
      BY <2>8, <3>1
    <3> QED
      BY <2>12, <3>2
  <2>16. InWalk(e)'
    BY <2>2, <2>3, <2>15 DEF InWalk, Meets, Due
  <2>17. AfterWalk(e)'
    <3>1. next = list[1] =>
            Meets(timer_ptr, remaining'[timer_ptr] + e[list[Len(list)]])
      BY <2>8, <2>12, <2>14
    <3> QED
      BY <2>3, <2>15, <3>1 DEF AfterWalk, Meets, Due
  <2>18. BeforeWalk' /\ Late' /\ Past'
    BY <2>1, <2>2, <2>3 DEF BeforeWalk, Timed, Late, Past, CreateSteps, Pending
  <2> QED
    BY <2>9, <2>10, <2>11, <2>16, <2>17, <2>18 DEF Timed, Predicts
<1> QED
  BY <1>1, <1>2

\* Where Link puts the new timer, it fires its own ticks after the one before.
LEMMA PlaceIsOnTime ==
  ASSUME Sound, Timed, Link, timer_next \in Pending,
         NEW e \in [Timers -> Int], Predicts(e)
  PROVE  /\ Place \in 2 .. Len(list) + 1
         /\ Meets(timer_ptr, remaining[timer_ptr] + e[list[Place - 1]])
<1>1. ListView /\ at = "link" /\ list # <<>> /\ timer_next \in Timers
  BY ListFacts, PendingAreTimers DEF Sound, Link, At, ListView
<1>2. Meets(timer_ptr, remaining[timer_ptr]
                       + (IF timer_next = list[1] THEN e[list[Len(list)]]
                          ELSE e[timer_next] - remaining[timer_next]))
  BY <1>1 DEF Predicts, AfterWalk
<1>3. CASE timer_next = list[1]
  <2>1. Place = Len(list) + 1
    BY <1>3 DEF Place
  <2>2. Place \in 2 .. Len(list) + 1 /\ Place - 1 = Len(list)
    BY <1>1, <2>1 DEF ListView
  <2> QED
    BY <1>2, <1>3, <2>2
<1>4. CASE timer_next # list[1]
  <2> DEFINE k == Position(timer_next)
  <2>1. Place = k /\ k \in 1 .. Len(list) /\ list[k] = timer_next
    BY <1>4, PositionIs DEF Place, Sound
  <2> HIDE DEF k
  <2>2. k \in 2 .. Len(list) + 1 /\ k - 1 \in 1 .. Len(list) - 1
        /\ (k - 1) + 1 = k
    BY <1>1, <1>4, <2>1 DEF ListView
  <2>3. e[list[(k - 1) + 1]]
          = e[list[k - 1]] + remaining[list[(k - 1) + 1]] - 0
    BY <1>1, <2>2 DEF Predicts, Chain, Given
  <2>4. e[timer_next] = e[list[k - 1]] + remaining[timer_next] - 0
    BY <2>1, <2>2, <2>3
  <2>5. e[timer_next] - remaining[timer_next] = e[list[k - 1]]
    <3>1. /\ list[k - 1] \in Timers /\ e[list[k - 1]] \in Int
          /\ e[timer_next] \in Int /\ remaining[timer_next] \in Nat
      <4>1. k - 1 \in 1 .. Len(list)
        BY <1>1, <2>2 DEF ListView
      <4>2. list[k - 1] \in Timers
        BY <1>1, <4>1 DEF ListView
      <4> QED
        BY <1>1, <4>2 DEF Sound, TypeOK
    <3> QED
      BY <2>4, <3>1
  <2> QED
    BY <1>2, <1>4, <2>1, <2>2, <2>5
<1> QED
  BY <1>3, <1>4

LEMMA TimedLink ==
  ASSUME Sound, Timed, Link
  PROVE  Timed'
<1>1. CASE timer_next \notin Pending
  BY <1>1, TimedCorrupt DEF Link
<1>2. CASE timer_next \in Pending
  <2> DEFINE late == {u \in Pending : \E i, j \in 1 .. Len(list') :
                        i < j /\ list'[i] = timer_ptr /\ list'[j] = u}
             k == Place
             wait == remaining[timer_ptr]
  <2>1. /\ Place \in Nat /\ Inserted(Place) /\ at = "link" /\ at' = "none"
        /\ Linked(list', late) /\ UNCHANGED timer_ptr /\ UNCHANGED remaining
        /\ timer_ptr \in Timers /\ timer_ptr \notin Pending /\ ListView
    BY <1>2, LinkView, ListFacts
    DEF Link, At, Goto, Linked, Sound, Linkage, CreateSteps
  <2>2. late \in SUBSET Timers
    BY PendingAreTimers DEF Sound
  <2>3. PICK e \in [Timers -> Int] : Predicts(e)
    BY DEF Timed
  <2>4. k \in 2 .. Len(list) + 1 /\ Meets(timer_ptr, wait + e[list[k - 1]])
    BY <1>2, <2>3, PlaceIsOnTime
  <2> DEFINE Behind(t) == \E j \in k .. Len(list) : t = list[j]
  <2>5. /\ wait \in Nat
        /\ \A i \in 1 .. Len(list) : /\ list[i] \in Timers /\ list[i] \in Pending
                                     /\ list[i] # timer_ptr
                                     /\ e[list[i]] \in Int
                                     /\ remaining[list[i]] \in Nat
    <3> SUFFICES ASSUME NEW t \in Pending
                 PROVE  /\ wait \in Nat /\ t \in Timers /\ t # timer_ptr
                        /\ e[t] \in Int
                        /\ remaining[t] \in Nat
      BY <1>2, <2>1 DEF ListView
    <3> QED
      BY <2>1, PendingAreTimers DEF Sound, TypeOK
  <2> HIDE DEF wait
  <2>6. /\ k - 1 \in 1 .. Len(list) /\ k \in Nat /\ Len(list) \in Nat
        /\ e[list[k - 1]] \in Int
    BY <2>1, <2>4, <2>5 DEF ListView
  <2>7. PICK d \in [Timers -> Int] :
          /\ d[timer_ptr] = wait + e[list[k - 1]]
          /\ \A t \in Timers : t # timer_ptr =>
                 d[t] = IF Behind(t) THEN e[t] + wait ELSE e[t]
    <3> HIDE DEF Behind, k
    <3> DEFINE D(t) == IF t = timer_ptr THEN wait + e[list[k - 1]]
                       ELSE IF Behind(t) THEN e[t] + wait ELSE e[t]
    <3>1. \A t \in Timers : D(t) \in Int
      BY <2>5, <2>6
    <3>2. PICK d : d = [t \in Timers |-> D(t)]
      OBVIOUS
    <3>3. d \in [Timers -> Int] /\ \A t \in Timers : d[t] = D(t)
      <4> HIDE DEF D
      <4> QED
        BY <3>1, <3>2
    <3> QED
      BY <2>1, <3>3
  <2>8. \A i \in 1 .. Len(list) :
          d[list[i]] = IF i < k THEN e[list[i]] ELSE e[list[i]] + wait
    <3> SUFFICES ASSUME NEW i \in 1 .. Len(list)
                 PROVE  Behind(list[i]) <=> ~(i < k)
      BY <2>5, <2>7
    <3> QED
      BY <2>1, <2>6 DEF ListView
  <2> HIDE DEF k
  <2>9. /\ Len(list') = Len(list) + 1
        /\ \A i \in 1 .. Len(list) + 1 :
             list'[i] = IF i < k THEN list[i]
                        ELSE IF i = k THEN timer_ptr ELSE list[i - 1]
    BY <2>1 DEF Inserted, k
  <2>10. \A i \in 1 .. Len(list) - 1 :
           e[list[i + 1]] = e[list[i]] + remaining[list[i + 1]]
    <3> SUFFICES ASSUME NEW i \in 1 .. Len(list) - 1
                 PROVE  e[list[i + 1]] = e[list[i]] + remaining[list[i + 1]]
      OBVIOUS
    <3>1. e[list[i + 1]] = e[list[i]] + remaining[list[i + 1]] - 0
      BY <2>1, <2>3 DEF Predicts, Chain, Given
    <3>2. i \in 1 .. Len(list) /\ i + 1 \in 1 .. Len(list)
      BY <2>6
    <3> QED
      BY <2>5, <3>1, <3>2
  <2>11. HeadAt(d)'
    <3>1. 1 < k /\ 1 \in 1 .. Len(list) /\ 1 \in 1 .. Len(list) + 1
      BY <2>4, <2>6
    <3>2. list'[1] = list[1] /\ d[list[1]] = e[list[1]]
      BY <2>8, <2>9, <3>1
    <3>3. e[list[1]] = remaining[list[1]] + 0
      BY <2>1, <2>3, <3>1 DEF Predicts, HeadAt, Headway, ListView
    <3> QED
      BY <2>1, <3>2, <3>3 DEF HeadAt, Headway
  <2>12. Chain(d)'
    <3> SUFFICES ASSUME NEW i \in 1 .. Len(list)
                 PROVE  d[list'[i + 1]] = d[list'[i]] + remaining[list'[i + 1]]
      <4>1. ASSUME NEW i \in 1 .. Len(list') - 1
            PROVE  d[list'[i + 1]] = d[list'[i]] + remaining[list'[i + 1]] - 0
        <5>1. i \in 1 .. Len(list)
          BY <2>6, <2>9
        <5>2. list'[i + 1] \in Timers /\ list'[i] \in Timers
          BY <2>1, <2>6, <2>9, <4>1 DEF Inserted
        <5>3. d[list'[i]] \in Int /\ remaining[list'[i + 1]] \in Int
          BY <5>2 DEF Sound, TypeOK
        <5> QED
          BY <5>1, <5>3
      <4> QED
        BY <2>1, <4>1 DEF Chain, Given
    <3>0. i + 1 \in 1 .. Len(list) + 1 /\ i \in 1 .. Len(list) + 1
      BY <2>6
    <3>1. CASE i + 1 < k
      <4>1. list'[i + 1] = list[i + 1] /\ list'[i] = list[i]
            /\ i \in 1 .. Len(list) - 1 /\ i + 1 \in 1 .. Len(list)
        BY <2>4, <2>6, <2>9, <3>0, <3>1
      <4>2. d[list[i + 1]] = e[list[i + 1]] /\ d[list[i]] = e[list[i]]
        BY <2>6, <2>8, <3>1, <4>1
      <4> QED
        BY <2>10, <4>1, <4>2
    <3>2. CASE i + 1 = k
      <4>1. list'[i + 1] = timer_ptr /\ list'[i] = list[i] /\ i = k - 1
        BY <2>6, <2>9, <3>0, <3>2
      <4>2. d[list[i]] = e[list[k - 1]]
        BY <2>6, <2>8, <4>1
      <4> QED
        BY <2>6, <2>7, <2>5, <4>1, <4>2 DEF wait
    <3>3. CASE i = k
      <4>1. list'[i + 1] = list[k] /\ list'[i] = timer_ptr
            /\ k \in 1 .. Len(list)
        BY <2>6, <2>9, <3>0, <3>3
      <4>2. d[list[k]] = e[list[k]] + wait
        BY <2>6, <2>8, <4>1
      <4>3. k - 1 \in 1 .. Len(list) - 1 /\ (k - 1) + 1 = k
        BY <2>6, <4>1
      <4>4. e[list[k]] = e[list[k - 1]] + remaining[list[k]]
        BY <2>10, <4>3
      <4> QED
        BY <2>5, <2>6, <2>7, <4>1, <4>2, <4>4
    <3>4. CASE k < i
      <4>1. list'[i + 1] = list[i] /\ list'[i] = list[i - 1]
            /\ i - 1 \in 1 .. Len(list) - 1 /\ (i - 1) + 1 = i
            /\ ~(i < k) /\ ~(i - 1 < k) /\ i - 1 \in 1 .. Len(list)
        BY <2>6, <2>9, <3>0, <3>4
      <4>2. d[list[i]] = e[list[i]] + wait /\ d[list[i - 1]] = e[list[i - 1]] + wait
        BY <2>8, <4>1
      <4>3. e[list[i]] = e[list[i - 1]] + remaining[list[i]]
        BY <2>10, <4>1
      <4> QED
        BY SMTT(30), <2>5, <4>1, <4>2, <4>3
    <3> QED
      BY <2>6, <3>1, <3>2, <3>3, <3>4
  <2>13. \A t \in Pending : /\ Meets(t, d[t]) \/ t \in late
                            /\ Due(t) <= d[t]
    <3> SUFFICES ASSUME NEW t \in Pending
                 PROVE  /\ Meets(t, d[t]) \/ t \in late
                        /\ Due(t) <= d[t]
      OBVIOUS
    <3>1. PICK i \in 1 .. Len(list) : t = list[i]
      BY <2>1 DEF ListView
    <3>2. Meets(t, e[t])
      BY <2>3 DEF Predicts, Punctual
    <3>3. CASE i < k
      BY <2>8, <3>1, <3>2, <3>3 DEF Meets
    <3>4. CASE ~(i < k)
      <4>1. /\ k < i + 1 /\ list'[k] = timer_ptr /\ list'[i + 1] = t
            /\ k \in 1 .. Len(list') /\ i + 1 \in 1 .. Len(list')
        BY <2>4, <2>6, <2>9, <3>1, <3>4
      <4>2. t \in late
        BY <4>1
      <4>3. asked[t] \in Int /\ age[t] \in Int /\ d[t] = e[t] + wait
            /\ e[t] \in Int
        BY SMTT(30), <2>5, <2>8, <3>1, <3>4, MaxTicksAssumption DEF Sound, TypeOK
      <4>4. Due(t) \in Int /\ Due(t) <= e[t]
        BY <3>2, <4>3 DEF Meets, Due
      <4> QED
        BY <2>5, <4>2, <4>3, <4>4
    <3> QED
      BY <3>3, <3>4
  <2>14. Meets(timer_ptr, d[timer_ptr])
    BY <2>4, <2>7 DEF k
  <2> HIDE DEF late
  <2> QED
    BY <2>1, <2>2, <2>11, <2>12, <2>13, <2>14, TimedLinked
<1> QED
  BY <1>1, <1>2

LEMMA TimedTransfer ==
  ASSUME Sound, Timed, NEW t \in Timers, Transfer(t)
  PROVE  Timed'
<1> DEFINE next == Successor(t)
           ticks == remaining[t]
<1>1. ListView /\ at = "none" /\ t \in Pending /\ Pending \subseteq Timers
  BY ListFacts, PendingAreTimers DEF Sound, Transfer, TransferTicks, At
<1>2. /\ remaining' = [remaining EXCEPT ![next] = @ + ticks]
      /\ timer_ptr' = t /\ ticked' = FALSE /\ at' = "unlink"
      /\ delayed' = IF t = list[Len(list)] THEN delayed \cup Pending ELSE delayed
      /\ UNCHANGED <<list, counting, timer_next, loaded, corrupted, asked, age,
                     status>>
  BY <1>1 DEF Transfer, TransferTicks, ListView
<1>3. PICK k \in 1 .. Len(list) : t = list[k]
  BY <1>1 DEF ListView
<1>4. next = IF k = Len(list) THEN list[1] ELSE list[k + 1]
  BY <1>3, SuccessorIs DEF Sound
<1>5. next \in Timers
  <2> HIDE DEF next
  <2> QED
    BY <1>1, <1>3, <1>4 DEF ListView
<1> HIDE DEF next
<1>6. /\ ticks \in Nat
      /\ remaining'[next] = remaining[next] + ticks
      /\ \A u \in Timers : u # next => remaining'[u] = remaining[u]
      /\ \A u \in Timers : remaining[u] \in Nat
  BY <1>2, <1>5 DEF Sound, TypeOK
<1> HIDE DEF ticks
<1>7. PICK e \in [Timers -> Int] : Predicts(e)
  BY DEF Timed
<1>8. /\ \A i \in 1 .. Len(list) - 1 :
           e[list[i + 1]] = e[list[i]] + remaining[list[i + 1]] - 0
      /\ e[list[1]] = remaining[list[1]] + 0
      /\ \A u \in Pending : Meets(u, e[u])
  BY <1>1, <1>3, <1>7
  DEF Predicts, Chain, Given, HeadAt, Headway, Punctual, ListView
<1>9. \A i \in 1 .. Len(list) : list[i] \in Timers
  BY <1>1 DEF ListView
<1>10. BeforeWalk' /\ Late' /\ Past'
  <2>1. BeforeWalk' /\ Late'
    BY <1>2 DEF BeforeWalk, Late
  <2>2. delayed \subseteq delayed'
    BY <1>2
  <2> QED
    BY <1>2, <2>1, <2>2 DEF Timed, Past
<1>11. CASE k # Len(list)
  <2>1. /\ k \in 1 .. Len(list) - 1 /\ next = list[k + 1] /\ next # list[1]
        /\ next # t /\ t # list[Len(list)] /\ list[1] \in Timers
    BY <1>1, <1>3, <1>4, <1>11 DEF ListView
  <2>2. HeadAt(e)'
    BY <1>2, <1>6, <1>8, <2>1 DEF HeadAt, Headway
  <2>3. Chain(e)'
    <3> SUFFICES ASSUME NEW i \in 1 .. Len(list) - 1
                 PROVE  e[list[i + 1]] = e[list[i]] + remaining'[list[i + 1]]
                               - IF list[i] = t THEN remaining'[t] ELSE 0
      BY <1>2 DEF Chain, Given
    <3>1. /\ i \in 1 .. Len(list) /\ i + 1 \in 1 .. Len(list)
      BY <1>1 DEF ListView
    <3>2. /\ list[i] \in Timers /\ list[i + 1] \in Timers
          /\ e[list[i]] \in Int /\ e[list[i + 1]] \in Int
          /\ remaining[list[i + 1]] \in Nat
      BY <1>6, <1>9, <3>1
    <3>3. CASE i = k
      <4>1. remaining'[list[i + 1]] = remaining[list[i + 1]] + ticks
            /\ remaining'[t] = ticks /\ list[i] = t
        BY <1>3, <1>6, <2>1, <3>3 DEF ticks
      <4> QED
        BY <1>6, <1>8, <3>2, <4>1
    <3>4. CASE i # k
      <4>1. list[i] # t /\ list[i + 1] # next
        BY <1>1, <1>3, <2>1, <3>1, <3>4 DEF ListView
      <4> QED
        BY <1>6, <1>8, <3>2, <4>1
    <3> QED
      BY <3>3, <3>4
  <2>4. Punctual(e)'
    BY <1>2, <1>8, <2>1 DEF Punctual, Meets, Due, Pending
  <2>5. InWalk(e)' /\ AfterWalk(e)'
    BY <1>2 DEF InWalk, AfterWalk
  <2> QED
    BY <1>10, <2>2, <2>3, <2>4, <2>5 DEF Timed, Predicts
<1>12. CASE k = Len(list)
  <2>1. next = list[1] /\ t = list[Len(list)] /\ list[1] \in Timers
    BY <1>1, <1>3, <1>4, <1>12 DEF ListView
  <2>2. PICK d \in [Timers -> Int] : \A u \in Timers : d[u] = e[u] + ticks
    <3>1. [u \in Timers |-> e[u] + ticks] \in [Timers -> Int]
      BY <1>6
    <3> QED
      BY <3>1
  <2>3. HeadAt(d)'
    <3>1. d[list[1]] = remaining'[list[1]]
      BY <1>6, <1>8, <2>1, <2>2
    <3>2. remaining'[list[1]] \in Nat
      BY <1>6, <2>1
    <3> QED
      BY <1>2, <3>1, <3>2 DEF HeadAt, Headway
  <2>4. Chain(d)'
    <3> SUFFICES ASSUME NEW i \in 1 .. Len(list) - 1
                 PROVE  d[list[i + 1]] = d[list[i]] + remaining'[list[i + 1]]
                               - IF list[i] = t THEN remaining'[t] ELSE 0
      BY <1>2 DEF Chain, Given
    <3>1. /\ i \in 1 .. Len(list) /\ i + 1 \in 1 .. Len(list)
          /\ i # k /\ i + 1 # 1
      BY <1>1, <1>12 DEF ListView
    <3>2. /\ list[i] \in Timers /\ list[i + 1] \in Timers
          /\ e[list[i]] \in Int /\ e[list[i + 1]] \in Int
          /\ remaining[list[i + 1]] \in Nat
      BY <1>6, <1>9, <3>1
    <3>3. list[i] # t /\ list[i + 1] # next
      BY <1>1, <1>3, <2>1, <3>1 DEF ListView
    <3>4. /\ d[list[i]] = e[list[i]] + ticks
          /\ d[list[i + 1]] = e[list[i + 1]] + ticks
          /\ remaining'[list[i + 1]] = remaining[list[i + 1]]
      BY <1>6, <2>2, <3>2, <3>3
    <3> QED
      BY SMTT(30), <1>6, <1>8, <3>2, <3>3, <3>4
  <2>5. Punctual(d)'
    <3> SUFFICES ASSUME NEW u \in Pending
                 PROVE  Due(u) <= d[u]
      BY <1>2, <2>1 DEF Punctual, Meets, Due, Pending
    <3>1. u \in Timers /\ Due(u) <= e[u]
      BY <1>1, <1>8 DEF Meets
    <3>2. asked[u] \in Int /\ age[u] \in Int
      BY <3>1, MaxTicksAssumption DEF Sound, TypeOK
    <3>3. e[u] \in Int /\ d[u] = e[u] + ticks
      BY <2>2, <3>1
    <3> QED
      BY <1>6, <3>1, <3>2, <3>3 DEF Due
  <2>6. InWalk(d)' /\ AfterWalk(d)'
    BY <1>2 DEF InWalk, AfterWalk
  <2> QED
    BY <1>10, <2>3, <2>4, <2>5, <2>6 DEF Timed, Predicts
<1> QED
  BY <1>11, <1>12

LEMMA TimedUnlink ==
  ASSUME Sound, Timed, Unlink
  PROVE  Timed'
<1>1. CASE timer_ptr \notin Pending
  BY <1>1, TimedCorrupt DEF Unlink
<1>2. CASE timer_ptr \in Pending
  <2> DEFINE k == Position(timer_ptr)
  <2>1. /\ ListView /\ at = "unlink" /\ timer_ptr \in Timers
        /\ Pending \subseteq Timers
    BY ListFacts, PendingAreTimers DEF Sound, Linkage, Unlink, At
  <2>2. k \in Nat /\ Removed(k)
    BY <1>2, UnlinkView
  <2>3. list[k] = timer_ptr /\ k \in 1 .. Len(list)
    BY <1>2, PositionIs DEF Sound
  <2> HIDE DEF k
  <2>4. Pending' = Pending \ {timer_ptr}
    BY <2>2, <2>3, RemovedView DEF Sound
  <2>5. /\ remaining' = [remaining EXCEPT ![timer_ptr] = 0]
        /\ status' = [status EXCEPT ![timer_ptr] = "deleted"]
        /\ asked' = [asked EXCEPT ![timer_ptr] = 0]
        /\ age' = [age EXCEPT ![timer_ptr] = 0]
        /\ at' = "none"
        /\ UNCHANGED <<timer_ptr, loaded, ticked, counting, timer_next,
                       corrupted, delayed>>
    BY <1>2 DEF Unlink, Goto
  <2>6. PICK e \in [Timers -> Int] : Predicts(e)
    BY DEF Timed
  <2>7. \A t \in Timers : t # timer_ptr =>
          /\ remaining'[t] = remaining[t] /\ asked'[t] = asked[t]
          /\ age'[t] = age[t] /\ status'[t] = status[t]
    BY <2>5 DEF Sound, TypeOK
  <2>8. /\ Len(list') = Len(list) - 1 /\ Len(list) \in Nat
        /\ \A i \in 1 .. Len(list) - 1 :
             list'[i] = IF i < k THEN list[i] ELSE list[i + 1]
        /\ \A i \in 1 .. Len(list) :
             /\ list[i] \in Timers /\ e[list[i]] \in Int
             /\ remaining[list[i]] \in Nat
             /\ i # k => /\ list[i] # timer_ptr
                         /\ remaining'[list[i]] = remaining[list[i]]
    <3>1. \A i \in 1 .. Len(list) : list[i] \in Timers
                                  /\ (i # k => list[i] # timer_ptr)
      BY <2>1, <2>3 DEF ListView
    <3> QED
      BY <2>1, <2>2, <2>7, <3>1 DEF ListView, Removed, Sound, TypeOK
  <2>9. \A i \in 1 .. Len(list) - 1 :
          e[list[i + 1]] = e[list[i]] + remaining[list[i + 1]]
                           - IF i = k THEN remaining[timer_ptr] ELSE 0
    <3> SUFFICES ASSUME NEW i \in 1 .. Len(list) - 1
                 PROVE  e[list[i + 1]] = e[list[i]] + remaining[list[i + 1]]
                           - IF i = k THEN remaining[timer_ptr] ELSE 0
      OBVIOUS
    <3>1. i \in 1 .. Len(list)
      BY <2>8
    <3>2. list[i] = timer_ptr <=> i = k
      BY <2>3, <2>8, <3>1
    <3> QED
      BY <2>1, <2>6, <3>2 DEF Predicts, Chain, Given
  <2>10. list # <<>> /\ e[list[1]] = remaining[list[1]]
    <3>1. list # <<>> /\ 1 \in 1 .. Len(list)
      BY <2>1, <2>3 DEF ListView
    <3>2. e[list[1]] = remaining[list[1]] + 0
      BY <2>1, <2>6, <3>1 DEF Predicts, HeadAt, Headway
    <3> QED
      BY <2>8, <3>1, <3>2
  <2>11. HeadAt(e)'
    <3> SUFFICES ASSUME list' # <<>>
                 PROVE  e[list'[1]] = remaining'[list'[1]] + 0
      BY <2>5 DEF HeadAt, Headway
    <3>1. Len(list) >= 2 /\ 1 \in 1 .. Len(list) - 1 /\ 2 \in 1 .. Len(list)
          /\ 1 \in 1 .. Len(list)
      <4>1. list' \in Seq(Timers)
        BY <2>2 DEF Removed
      <4>2. Len(list') # 0 /\ Len(list') \in Nat
        BY <4>1
      <4> QED
        BY <2>8, <4>2
    <3>2. CASE 1 < k
      <4>1. list'[1] = list[1] /\ remaining'[list[1]] = remaining[list[1]]
            /\ remaining[list[1]] \in Nat
        BY <2>8, <3>1, <3>2
      <4> QED
        BY <2>10, <4>1
    <3>3. CASE ~(1 < k)
      <4>1. k = 1 /\ list'[1] = list[1 + 1]
        BY <2>3, <2>8, <3>1, <3>3
      <4>2. e[list[1 + 1]] = e[list[1]] + remaining[list[1 + 1]]
                             - remaining[list[1]]
        BY <2>3, <2>9, <3>1, <4>1
      <4>3. /\ e[list[2]] = e[list[1]] + remaining[list[2]] - remaining[list[1]]
            /\ list'[1] = list[2]
        BY <4>1, <4>2
      <4>4. /\ remaining'[list[2]] = remaining[list[2]]
            /\ remaining[list[2]] \in Nat /\ remaining[list[1]] \in Nat
        BY <2>8, <3>1, <4>1
      <4> QED
        BY <2>10, <4>3, <4>4
    <3> QED
      BY <3>2, <3>3
  <2>12. Chain(e)'
    <3> SUFFICES ASSUME NEW i \in 1 .. Len(list') - 1
                 PROVE  e[list'[i + 1]] = e[list'[i]] + remaining'[list'[i + 1]] - 0
      BY <2>5 DEF Chain, Given
    <3>1. /\ i \in 1 .. Len(list) - 1 /\ i + 1 \in 1 .. Len(list) - 1
          /\ i + 2 \in 1 .. Len(list) /\ i \in 1 .. Len(list)
          /\ i + 1 \in 1 .. Len(list) /\ (i + 1) + 1 = i + 2
      BY <2>8
    <3>2. CASE i + 1 < k
      <4>1. list'[i] = list[i] /\ list'[i + 1] = list[i + 1] /\ i # k
        BY <2>3, <2>8, <3>1, <3>2
      <4>2. remaining'[list[i + 1]] = remaining[list[i + 1]]
        BY <2>3, <2>8, <3>1, <3>2
      <4> QED
        BY <2>9, <3>1, <4>1, <4>2
    <3>3. CASE i + 1 = k
      <4>1. list'[i] = list[i] /\ list'[i + 1] = list[i + 2] /\ i # k
            /\ list[i + 1] = timer_ptr
        BY <2>3, <2>8, <3>1, <3>3
      <4>2. remaining'[list[i + 2]] = remaining[list[i + 2]]
        BY <2>3, <2>8, <3>1, <3>3
      <4>3. e[list[i + 1]] = e[list[i]] + remaining[list[i + 1]] - 0
        BY <2>9, <3>1, <4>1
      <4>4. e[list[i + 2]] = e[list[i + 1]] + remaining[list[i + 2]]
                             - remaining[list[i + 1]]
        BY <2>9, <3>1, <3>3, <4>1
      <4>5. /\ e[list[i]] \in Int /\ e[list[i + 1]] \in Int
            /\ remaining[list[i + 1]] \in Nat /\ remaining[list[i + 2]] \in Nat
        BY <2>8, <3>1
      <4> QED
        BY <4>1, <4>2, <4>3, <4>4, <4>5
    <3>4. CASE k < i + 1
      <4>1. list'[i] = list[i + 1] /\ list'[i + 1] = list[i + 2] /\ i + 1 # k
        BY <2>3, <2>8, <3>1, <3>4
      <4>2. remaining'[list[i + 2]] = remaining[list[i + 2]]
        BY <2>3, <2>8, <3>1, <3>4
      <4>3. e[list[i + 2]] = e[list[i + 1]] + remaining[list[i + 2]] - 0
        BY <2>9, <3>1, <4>1
      <4> QED
        BY <4>1, <4>2, <4>3
    <3> QED
      BY <2>3, <3>1, <3>2, <3>3, <3>4
  <2>13. Punctual(e)'
    BY <2>1, <2>4, <2>5, <2>6, <2>7 DEF Predicts, Punctual, Meets, Due
  <2>14. InWalk(e)' /\ AfterWalk(e)' /\ BeforeWalk' /\ Late'
    BY <2>5 DEF InWalk, AfterWalk, BeforeWalk, Late, CreateSteps
  <2>15. Past'
    <3>1. status'[timer_ptr] = "deleted"
      BY <2>1, <2>5 DEF Sound, TypeOK
    <3> QED
      BY <2>5, <2>7, <3>1 DEF Timed, Past
  <2> QED
    BY <2>11, <2>12, <2>13, <2>14, <2>15 DEF Timed, Predicts
<1> QED
  BY <1>1, <1>2

LEMMA TimedIdleTick ==
  ASSUME Sound, Timed, TIM3_IRQHandler, list = <<>>
  PROVE  Timed'
<1>1. /\ ~corrupted /\ (at # "none" => ~ticked) /\ ticked' = (at # "none")
      /\ age' = [t \in Timers |-> IF status[t] \in {"creating", "pending"}
                                     THEN age[t] + 1 ELSE age[t]]
      /\ delayed' = IF at = "none" THEN delayed
                     ELSE delayed \cup Pending \cup {timer_ptr}
      /\ counting' = FALSE
      /\ UNCHANGED <<list, remaining, status, at, timer_ptr, timer_next,
                     loaded, corrupted, asked>>
  BY DEF TIM3_IRQHandler, Tick
<1>2. Pending = {} /\ Pending' = {} /\ Len(list) = 0
  BY <1>1, ListFacts DEF Sound, ListView, Pending
<1>3. PICK e \in [Timers -> Int] : Predicts(e)
  BY DEF Timed
<1>4. Predicts(e)'
  BY <1>1, <1>2
  DEF Predicts, HeadAt, Chain, Punctual, InWalk, AfterWalk
<1>5. BeforeWalk'
  <2> SUFFICES ASSUME at \in {"first", "compare", "shorten", "link_head"}
               PROVE  /\ asked[timer_ptr] - age'[timer_ptr] <= remaining[timer_ptr]
                      /\ timer_ptr \in delayed'
    BY <1>1 DEF BeforeWalk, Meets, Due
  <2>1. timer_ptr \in Timers /\ status[timer_ptr] = "creating"
    BY DEF Sound, Linkage, CreateSteps
  <2>2. asked[timer_ptr] - age[timer_ptr] <= remaining[timer_ptr]
    BY DEF Timed, BeforeWalk, Meets, Due
  <2>3. /\ asked[timer_ptr] \in Int /\ age[timer_ptr] \in Int
        /\ remaining[timer_ptr] \in Int
    BY <2>1, MaxTicksAssumption DEF Sound, TypeOK
  <2>4. age'[timer_ptr] = age[timer_ptr] + 1
    BY <1>1, <2>1
  <2> QED
    BY <1>1, <2>2, <2>3, <2>4
<1>6. Late' /\ Past'
  <2>1. Late'
    BY <1>1, <1>2 DEF Late
  <2>2. delayed \subseteq delayed'
    BY <1>1
  <2>3. \A t \in Timers : status[t] \in {"new", "fired"} => age'[t] = age[t]
    BY <1>1
  <2> QED
    BY <1>1, <2>1, <2>2, <2>3 DEF Timed, Past
<1> QED
  BY <1>4, <1>5, <1>6 DEF Timed

\* A tick brings every timer one tick nearer, unless the first timer is being
\* unlinked and its ticks are with the next one already.
LEMMA FiresSchedule ==
  ASSUME Sound, TIM3_IRQHandler, list # <<>>, NEW n \in Nat, Fires(n),
         NEW e \in [Timers -> Int], HeadAt(e), Chain(e)
  PROVE  \E d \in [Timers -> Int] :
           /\ HeadAt(d)' /\ Chain(d)'
           /\ \A i \in 1 .. n : d[list[i]] = Headway
           /\ \A t \in Timers : e[t] - 1 <= d[t]
           /\ at # "unlink" => \A t \in Timers : d[t] = e[t] - 1
<1>1. /\ ListView /\ list[1] \in Timers /\ list[1] \in Pending
      /\ remaining[list[1]] >= 1
      /\ UNCHANGED <<at, timer_ptr, timer_next, loaded, corrupted, asked>>
  BY TickView
<1>2. /\ Len(list') = Len(list) - n /\ n \in 0 .. Len(list)
      /\ list' \in Seq(Timers)
      /\ \A i \in 1 .. Len(list) - n : list'[i] = list[n + i]
      /\ \A i \in 1 .. n : remaining'[list[i]] = 0
  BY FiresView DEF Fires, Sound
<1>3. /\ remaining'[list[1]] = remaining[list[1]] - 1
      /\ \A t \in Timers : t # list[1] => remaining'[t] = remaining[t]
      /\ \A t \in Timers : remaining[t] \in Nat
  BY <1>1 DEF Fires, Sound, TypeOK
<1>4. \A i \in 1 .. Len(list) : /\ list[i] \in Timers /\ e[list[i]] \in Int
                                /\ remaining[list[i]] \in Nat
                                /\ remaining'[list[i]] \in Int
                                /\ i # 1 => list[i] # list[1]
  BY <1>1, <1>3 DEF ListView
<1>5. Len(list) \in Nat \ {0}
  BY <1>1 DEF ListView
<1> DEFINE Stays == at = "unlink" /\ timer_ptr = list[1]
           D(t) == IF Stays /\ t # list[1] THEN e[t] ELSE e[t] - 1
<1>6. PICK d \in [Timers -> Int] : \A t \in Timers : d[t] = D(t)
  <2>1. [t \in Timers |-> D(t)] \in [Timers -> Int]
    OBVIOUS
  <2> HIDE DEF D
  <2> QED
    BY <2>1
<1>7. \A t \in Timers : e[t] - 1 <= d[t]
  BY <1>6
<1>8. at # "unlink" => \A t \in Timers : d[t] = e[t] - 1
  BY <1>6
<1>9. d[list[1]] = remaining'[list[1]] + Headway
  <2>1. e[list[1]] = remaining[list[1]] + Headway
    BY DEF HeadAt
  <2>2. Headway \in Nat
    BY DEF Headway, Sound, TypeOK, Linkage
  <2>3. d[list[1]] = e[list[1]] - 1
    BY <1>1, <1>6
  <2> QED
    BY <1>1, <1>3, <2>1, <2>2, <2>3
<1> DEFINE Gave(i) == IF at = "unlink" /\ list[i] = timer_ptr
                        THEN remaining'[list[i]] ELSE 0
<1>10. ASSUME NEW i \in 1 .. Len(list) - 1
       PROVE  d[list[i + 1]] = d[list[i]] + remaining'[list[i + 1]] - Gave(i)
  <2>1. i \in 1 .. Len(list) /\ i + 1 \in 1 .. Len(list) /\ i + 1 # 1
    BY <1>5
  <2>2. e[list[i + 1]] = e[list[i]] + remaining[list[i + 1]]
            - IF at = "unlink" /\ list[i] = timer_ptr
                THEN remaining[list[i]] ELSE 0
    BY DEF Chain, Given
  <2>3. /\ remaining'[list[i + 1]] = remaining[list[i + 1]]
        /\ list[i + 1] # list[1]
        /\ list[i] \in Timers /\ list[i + 1] \in Timers
        /\ e[list[i]] \in Int /\ e[list[i + 1]] \in Int
        /\ remaining[list[i + 1]] \in Nat /\ remaining[list[i]] \in Nat
    BY <1>3, <1>4, <2>1
  <2>4. CASE Stays
    <3>1. d[list[i + 1]] = e[list[i + 1]]
      BY <1>6, <2>3, <2>4
    <3>2. CASE i = 1
      <4>1. d[list[i]] = e[list[i]] - 1 /\ remaining'[list[i]] = remaining[list[i]] - 1
        BY <1>3, <1>6, <2>3, <3>2
      <4>2. Gave(i) = remaining'[list[i]]
        BY <2>4, <3>2
      <4>3. e[list[i + 1]] = e[list[i]] + remaining[list[i + 1]]
                             - remaining[list[i]]
        BY <2>2, <2>4, <3>2
      <4> HIDE DEF Gave
      <4>4. /\ d[list[i]] + remaining'[list[i + 1]] - Gave(i)
                 = (e[list[i]] - 1) + remaining[list[i + 1]]
                   - (remaining[list[i]] - 1)
        BY <2>3, <4>1, <4>2
      <4>5. (e[list[i]] - 1) + remaining[list[i + 1]] - (remaining[list[i]] - 1)
              = e[list[i]] + remaining[list[i + 1]] - remaining[list[i]]
        <5>1. \A a, b, c \in Int : (a - 1) + b - (c - 1) = a + b - c
          OBVIOUS
        <5>2. /\ e[list[i]] \in Int /\ remaining[list[i + 1]] \in Int
              /\ remaining[list[i]] \in Int
          BY <2>3
        <5> QED
          BY <5>1, <5>2
      <4> QED
        BY <3>1, <4>3, <4>4, <4>5
    <3>3. CASE i # 1
      <4>1. list[i] # list[1]
        BY <1>4, <2>1, <3>3
      <4>2. d[list[i]] = e[list[i]]
        BY <1>6, <2>3, <2>4, <4>1
      <4> QED
        BY <2>2, <2>3, <2>4, <3>1, <4>1, <4>2
    <3> QED
      BY <3>2, <3>3
  <2>5. CASE ~Stays
    <3>1. d[list[i + 1]] = e[list[i + 1]] - 1 /\ d[list[i]] = e[list[i]] - 1
      BY <1>6, <2>3, <2>5
    <3>2. at = "unlink" /\ list[i] = timer_ptr
            => remaining'[list[i]] = remaining[list[i]]
      BY <1>3, <2>3, <2>5
    <3> DEFINE gave == IF at = "unlink" /\ list[i] = timer_ptr
                         THEN remaining[list[i]] ELSE 0
    <3>3. Gave(i) = gave /\ gave \in Nat
      BY <2>3, <3>2
    <3>4. e[list[i + 1]] = e[list[i]] + remaining[list[i + 1]] - gave
      BY <2>2
    <3> HIDE DEF Gave, gave
    <3> QED
      BY SMTT(30), <2>3, <3>1, <3>3, <3>4
  <2> QED
    BY <2>4, <2>5
<1> HIDE DEF D, Stays
<1>11. \A i \in 1 .. n : d[list[i]] = Headway
  <2> DEFINE S == {i \in 1 .. n : d[list[i]] = Headway}
  <2>0. Headway \in Nat
    BY DEF Headway, Sound, TypeOK, Linkage
  <2> SUFFICES ASSUME n # 0 PROVE \A i \in 1 .. n : i \in S
    BY <1>2
  <2>1. 1 \in S
    BY <1>2, <1>9, <2>0
  <2>2. ASSUME NEW i \in 1 .. n, i \in S, i + 1 <= n
        PROVE  i + 1 \in S
    <3>1. i \in 1 .. Len(list) - 1 /\ i + 1 \in 1 .. n
      BY <1>2, <1>5, <2>2
    <3>2. Gave(i) = 0 /\ remaining'[list[i + 1]] = 0
      BY <1>2, <3>1
    <3>3. d[list[i + 1]] = d[list[i]] + remaining'[list[i + 1]] - Gave(i)
      BY <1>10, <3>1
    <3> HIDE DEF Gave
    <3> QED
      BY <2>0, <2>2, <3>1, <3>2, <3>3
  <2> HIDE DEF S
  <2> QED
    BY <2>1, <2>2, EveryPosition
<1>12. HeadAt(d)'
  <2> SUFFICES ASSUME list' # <<>>
               PROVE  d[list'[1]] = remaining'[list'[1]] + Headway'
    BY DEF HeadAt
  <2>1. Headway' = Headway
    <3>1. at = "link_head" => remaining'[timer_ptr] = remaining[timer_ptr]
      BY <1>1, <1>3 DEF Sound, Linkage, CreateSteps
    <3> QED
      BY <1>1, <3>1 DEF Headway
  <2>2. Len(list') # 0 /\ Len(list') \in Nat
    BY <1>2
  <2>3. n < Len(list) /\ n + 1 \in 1 .. Len(list) /\ list'[1] = list[n + 1]
    BY <1>2, <1>5, <2>2
  <2>4. CASE n = 0
    BY <1>9, <2>1, <2>3, <2>4
  <2>5. CASE n # 0
    <3>1. n \in 1 .. Len(list) - 1 /\ n \in 1 .. n
      BY <1>2, <2>3, <2>5
    <3>2. d[list[n + 1]] = d[list[n]] + remaining'[list[n + 1]] - Gave(n)
      BY <1>10, <3>1
    <3>3. Gave(n) = 0 /\ d[list[n]] = Headway
      BY <1>2, <1>11, <3>1
    <3>4. remaining'[list[n + 1]] \in Int /\ Headway \in Int
      <4>1. Headway \in Int
        BY DEF Headway, Sound, TypeOK, Linkage
      <4> QED
        BY <1>4, <2>3, <4>1
    <3> HIDE DEF Gave
    <3>5. d[list[n + 1]] = remaining'[list[n + 1]] + Headway
      BY <3>2, <3>3, <3>4
    <3> QED
      BY <2>1, <2>3, <3>5
  <2> QED
    BY <2>4, <2>5
<1>13. Chain(d)'
  <2> SUFFICES ASSUME NEW i \in 1 .. Len(list') - 1
               PROVE  d[list'[i + 1]] = d[list'[i]] + remaining'[list'[i + 1]]
                            - IF at = "unlink" /\ list'[i] = timer_ptr
                                THEN remaining'[list'[i]] ELSE 0
    BY <1>1 DEF Chain, Given
  <2>1. /\ n + i \in 1 .. Len(list) - 1 /\ (n + i) + 1 = n + (i + 1)
        /\ i \in 1 .. Len(list) - n /\ i + 1 \in 1 .. Len(list) - n
    BY <1>2, <1>5
  <2>2. list'[i] = list[n + i] /\ list'[i + 1] = list[(n + i) + 1]
    BY <1>2, <2>1
  <2> QED
    BY <1>10, <2>1, <2>2
<1> QED
  BY <1>7, <1>8, <1>11, <1>12, <1>13

\* What a timer that fires in this tick owed: its last tick at most.
LEMMA FiresDue ==
  ASSUME Sound, Timed, TIM3_IRQHandler, list # <<>>, NEW n \in Nat, Fires(n)
  PROVE  /\ \E d \in [Timers -> Int] : Predicts(d)'
         /\ \A i \in 1 .. n : at # "link_head" => Due(list[i]) <= 1
         /\ \A i \in 1 .. n : at = "none" /\ list[i] \notin delayed
                                => Due(list[i]) = 1
<1>1. /\ ListView /\ list[1] \in Timers /\ list[1] \in Pending
      /\ (at # "none" => ~ticked)
      /\ age' = [t \in Timers |-> IF status[t] \in {"creating", "pending"}
                                     THEN age[t] + 1 ELSE age[t]]
      /\ delayed' = IF at = "none" THEN delayed
                     ELSE delayed \cup Pending \cup {timer_ptr}
      /\ UNCHANGED <<at, timer_ptr, timer_next, loaded, corrupted, asked>>
  BY TickView
<1>2. /\ Len(list') = Len(list) - n /\ n \in 0 .. Len(list)
      /\ list' \in Seq(Timers)
      /\ \A i \in 1 .. Len(list) - n : list'[i] = list[n + i]
      /\ \A t \in Pending : t \in Pending'
                            <=> ~ \E i \in 1 .. n : list[i] = t
      /\ Pending' \subseteq Pending /\ Pending \subseteq Timers
  BY FiresView, PendingAreTimers DEF Fires, Sound
<1>3. /\ remaining' \in [Timers -> Nat]
      /\ remaining'[list[1]] = remaining[list[1]] - 1
      /\ \A t \in Timers : t # list[1] => remaining'[t] = remaining[t]
  <2>1. Sound'
    BY SoundFires
  <2> QED
    BY <1>1, <2>1 DEF Fires, Sound, TypeOK
<1>4. PICK e \in [Timers -> Int] : Predicts(e)
  BY DEF Timed
<1>5. PICK d \in [Timers -> Int] :
        /\ HeadAt(d)' /\ Chain(d)'
        /\ \A i \in 1 .. n : d[list[i]] = Headway
        /\ \A t \in Timers : e[t] - 1 <= d[t]
        /\ at # "unlink" => \A t \in Timers : d[t] = e[t] - 1
  BY <1>4, FiresSchedule DEF Predicts
<1>6. \A t \in Timers : /\ asked[t] \in Int /\ age[t] \in Int
                        /\ remaining[t] \in Int /\ remaining'[t] \in Int
                        /\ e[t] \in Int /\ d[t] \in Int
  BY <1>3, MaxTicksAssumption DEF Sound, TypeOK
<1>7. \A t \in Timers : status[t] \in {"creating", "pending"}
                          => asked'[t] - age'[t] = asked[t] - age[t] - 1
  BY <1>1, <1>6
<1>8. \A t \in Pending : /\ status[t] = "pending"
                         /\ asked[t] - age[t] <= e[t]
                         /\ t \notin delayed => asked[t] - age[t] = e[t]
  BY <1>2, <1>4 DEF Predicts, Punctual, Meets, Due, Sound, Linkage
<1>9. at # "none" => Pending \subseteq delayed' /\ timer_ptr \in delayed'
  BY <1>1
<1>10. delayed \subseteq delayed'
  BY <1>1
<1>11. Punctual(d)'
  <2> SUFFICES ASSUME NEW t \in Pending'
               PROVE  /\ asked'[t] - age'[t] <= d[t]
                      /\ t \notin delayed' => asked'[t] - age'[t] = d[t]
    BY DEF Punctual, Meets, Due
  <2>1. t \in Pending /\ t \in Timers
    BY <1>2
  <2>2. asked'[t] - age'[t] = asked[t] - age[t] - 1
    BY <1>7, <1>8, <2>1
  <2>3. asked[t] - age[t] <= e[t] /\ e[t] - 1 <= d[t]
    BY <1>5, <1>8, <2>1
  <2>4. t \notin delayed' => asked[t] - age[t] = e[t] /\ d[t] = e[t] - 1
    BY <1>5, <1>8, <1>9, <1>10, <2>1
  <2> QED
    BY <1>6, <2>1, <2>2, <2>3, <2>4
<1>12. at \in CreateSteps
         => /\ timer_ptr \in Timers /\ status[timer_ptr] = "creating"
            /\ timer_ptr \notin Pending
            /\ remaining'[timer_ptr] = remaining[timer_ptr]
            /\ asked'[timer_ptr] - age'[timer_ptr]
                 = asked[timer_ptr] - age[timer_ptr] - 1
  BY <1>1, <1>3, <1>7 DEF Sound, Linkage, CreateSteps
<1>13. list[1] \in Pending' => n = 0
  BY <1>1, <1>2
<1>14. InWalk(d)'
  <2> SUFFICES ASSUME at = "walk", timer_next \in Pending'
               PROVE  asked'[timer_ptr] - age'[timer_ptr]
                        <= remaining'[timer_ptr]
                           + (IF loaded # 0 THEN remaining'[timer_next] - loaded
                              ELSE d[timer_next] - remaining'[timer_next])
    BY <1>1, <1>9 DEF InWalk, Meets, Due
  <2> DEFINE late == asked[timer_ptr] - age[timer_ptr]
  <2>1. timer_next \in Pending /\ timer_next \in Timers
    BY <1>2
  <2>2. late <= remaining[timer_ptr]
                + (IF loaded # 0 THEN remaining[timer_next] - loaded
                   ELSE e[timer_next] - remaining[timer_next])
    BY <1>4, <2>1 DEF Predicts, InWalk, Meets, Due
  <2>3. /\ d[timer_next] = e[timer_next] - 1
        /\ remaining[timer_next] - 1 <= remaining'[timer_next]
        /\ remaining'[timer_next] <= remaining[timer_next]
    <3>1. d[timer_next] = e[timer_next] - 1
      BY <1>5, <2>1
    <3>2. remaining[timer_next] \in Int
      BY <1>6, <2>1
    <3>3. \/ remaining'[timer_next] = remaining[timer_next] - 1
          \/ remaining'[timer_next] = remaining[timer_next]
      BY <1>3, <2>1
    <3> QED
      BY <3>1, <3>2, <3>3
  <2>4. /\ remaining'[timer_ptr] = remaining[timer_ptr]
        /\ asked'[timer_ptr] - age'[timer_ptr] = late - 1
        /\ late \in Int /\ remaining[timer_ptr] \in Int
    BY <1>6, <1>12 DEF CreateSteps
  <2>5. /\ loaded \in Int /\ e[timer_next] \in Int
        /\ remaining[timer_next] \in Int /\ remaining'[timer_next] \in Int
    BY <1>6, <2>1 DEF Sound, TypeOK
  <2> HIDE DEF late
  <2>6. CASE loaded # 0
    BY <2>2, <2>3, <2>4, <2>5, <2>6
  <2>7. CASE loaded = 0
    <3>1. late <= remaining[timer_ptr] + (e[timer_next] - remaining[timer_next])
      BY <2>2, <2>7
    <3>2. late - 1 <= remaining[timer_ptr]
                      + (d[timer_next] - remaining'[timer_next])
      BY <2>3, <2>4, <2>5, <3>1
    <3> QED
      BY <2>4, <2>7, <3>2
  <2> QED
    BY <2>6, <2>7
<1>15. AfterWalk(d)'
  <2> SUFFICES ASSUME at = "link", timer_next \in Pending'
               PROVE  asked'[timer_ptr] - age'[timer_ptr]
                        <= remaining'[timer_ptr]
                           + (IF timer_next = list'[1] THEN d[list'[Len(list')]]
                              ELSE d[timer_next] - remaining'[timer_next])
    BY <1>1, <1>9 DEF AfterWalk, Meets, Due
  <2> DEFINE late == asked[timer_ptr] - age[timer_ptr]
  <2>1. timer_next \in Pending /\ timer_next \in Timers
    BY <1>2
  <2>2. late <= remaining[timer_ptr]
                + (IF timer_next = list[1] THEN e[list[Len(list)]]
                   ELSE e[timer_next] - remaining[timer_next])
    BY <1>4, <2>1 DEF Predicts, AfterWalk, Meets, Due
  <2>3. /\ remaining'[timer_ptr] = remaining[timer_ptr]
        /\ asked'[timer_ptr] - age'[timer_ptr] = late - 1
        /\ late \in Int /\ remaining[timer_ptr] \in Int
    BY <1>6, <1>12 DEF CreateSteps
  <2> HIDE DEF late
  <2>4. list' # <<>> /\ Len(list') \in Nat \ {0} /\ list'[1] \in Pending'
    <3>1. DOMAIN list' = 1 .. Len(list') /\ Len(list') \in Nat
      BY <1>2
    <3>2. Pending' = {list'[i] : i \in 1 .. Len(list')}
      BY <3>1 DEF Pending, ToSet
    <3> QED
      BY <3>1, <3>2
  <2>5. CASE timer_next = list[1]
    <3>1. n = 0 /\ list[Len(list)] \in Timers
      BY <1>1, <1>13, <2>5 DEF ListView
    <3>2. list'[Len(list')] = list[Len(list)] /\ list'[1] = list[1]
      BY <1>1, <1>2, <2>4, <3>1 DEF ListView
    <3>3. d[list[Len(list)]] = e[list[Len(list)]] - 1
      BY <1>5, <3>1
    <3>4. e[list[Len(list)]] \in Int
      BY <1>6, <3>1
    <3> QED
      BY <2>2, <2>3, <2>5, <3>2, <3>3, <3>4
  <2>6. CASE timer_next # list[1]
    <3>1. /\ remaining'[timer_next] = remaining[timer_next]
          /\ d[timer_next] = e[timer_next] - 1
          /\ e[timer_next] \in Int /\ remaining[timer_next] \in Nat
      BY <1>3, <1>5, <1>6, <2>1, <2>6 DEF Sound, TypeOK
    <3>2. late - 1 <= remaining[timer_ptr]
                      + (d[timer_next] - remaining[timer_next])
      BY <2>2, <2>3, <2>6, <3>1
    <3>3. CASE timer_next # list'[1]
      BY <2>3, <3>1, <3>2, <3>3
    <3>4. CASE timer_next = list'[1]
      <4>1. d[timer_next] = remaining[timer_next] + 0
        BY <1>1, <1>5, <2>4, <3>1, <3>4 DEF HeadAt, Headway
      <4>2. d[list'[Len(list')]] >= 0
        <5> DEFINE S == {i \in 1 .. Len(list') : d[list'[i]] >= 0}
        <5>1. 1 \in S
          BY <2>4, <3>1, <3>4, <4>1
        <5>2. ASSUME NEW i \in 1 .. Len(list'), i \in S, i + 1 <= Len(list')
              PROVE  i + 1 \in S
          <6>1. i \in 1 .. Len(list') - 1 /\ i + 1 \in 1 .. Len(list')
            BY <2>4, <5>2
          <6>2. d[list'[i + 1]] = d[list'[i]] + remaining'[list'[i + 1]] - 0
            BY <1>1, <1>5, <6>1 DEF Chain, Given
          <6>3. list'[i] \in Timers /\ list'[i + 1] \in Timers
            BY <1>2, <6>1
          <6>4. d[list'[i]] \in Int /\ remaining'[list'[i + 1]] \in Nat
            BY <1>3, <6>3
          <6> QED
            BY <5>2, <6>1, <6>2, <6>4
        <5> HIDE DEF S
        <5>3. \A i \in 1 .. Len(list') : i \in S
          <6>1. Len(list') \in Nat
            BY <2>4
          <6> QED
            BY <5>1, <5>2, <6>1, EveryPosition
        <5>4. Len(list') \in S
          BY <2>4, <5>3
        <5> QED
          BY <5>4 DEF S
      <4>3. late - 1 <= remaining[timer_ptr]
        <5>1. d[timer_next] - remaining[timer_next] = 0
          BY <3>1, <4>1
        <5> QED
          BY <2>3, <3>2, <5>1
      <4>4. d[list'[Len(list')]] \in Int
        BY <1>2, <2>4
      <4> QED
        BY <2>3, <3>4, <4>2, <4>3, <4>4
    <3> QED
      BY <3>3, <3>4
  <2> QED
    BY <2>5, <2>6
<1>16. Predicts(d)'
  BY <1>5, <1>11, <1>14, <1>15 DEF Predicts
<1>17. ASSUME NEW i \in 1 .. n, at # "link_head"
       PROVE  /\ Due(list[i]) <= 1
              /\ at = "none" /\ list[i] \notin delayed => Due(list[i]) = 1
  <2>1. list[i] \in Pending /\ list[i] \in Timers
    <3>1. i \in 1 .. Len(list)
      BY <1>1, <1>2 DEF ListView
    <3> QED
      BY <1>1, <3>1 DEF ListView
  <2>2. d[list[i]] = 0 /\ e[list[i]] - 1 <= d[list[i]]
        /\ (at = "none" => d[list[i]] = e[list[i]] - 1)
    BY <1>5, <1>17, <2>1 DEF Headway
  <2>3. e[list[i]] <= 1 /\ (at = "none" => e[list[i]] = 1)
    BY <1>6, <2>1, <2>2
  <2> QED
    BY <1>6, <1>8, <2>1, <2>3 DEF Due
<1> QED
  BY <1>16, <1>17

LEMMA TimedFires ==
  ASSUME Sound, Timed, TIM3_IRQHandler, list # <<>>, NEW n \in Nat, Fires(n)
  PROVE  Timed'
<1>1. /\ ListView /\ (at # "none" => ~ticked)
      /\ age' = [t \in Timers |-> IF status[t] \in {"creating", "pending"}
                                     THEN age[t] + 1 ELSE age[t]]
      /\ delayed' = IF at = "none" THEN delayed
                     ELSE delayed \cup Pending \cup {timer_ptr}
      /\ UNCHANGED <<at, timer_ptr, timer_next, loaded, corrupted, asked>>
      /\ list[1] \in Timers /\ list[1] \in Pending
  BY TickView
<1>2. /\ status' = [t \in Timers |-> IF t \in {list[i] : i \in 1 .. n}
                                        THEN "fired" ELSE status[t]]
      /\ remaining' = [remaining EXCEPT ![list[1]] = @ - 1]
      /\ Pending' \subseteq Pending /\ Pending \subseteq Timers
      /\ n \in 0 .. Len(list)
  BY FiresView, PendingAreTimers DEF Fires, Sound
<1>3. /\ \E d \in [Timers -> Int] : Predicts(d)'
      /\ \A i \in 1 .. n : at = "none" /\ list[i] \notin delayed
                             => Due(list[i]) = 1
  BY FiresDue
<1>4. Late'
  BY <1>1, <1>2 DEF Late, CreateSteps
<1>5. BeforeWalk'
  <2> SUFFICES ASSUME at \in {"first", "compare", "shorten", "link_head"}
               PROVE  /\ asked[timer_ptr] - age'[timer_ptr] <= remaining'[timer_ptr]
                      /\ timer_ptr \in delayed'
    BY <1>1 DEF BeforeWalk, Meets, Due
  <2>1. timer_ptr \in Timers /\ status[timer_ptr] = "creating"
        /\ timer_ptr \notin Pending
    BY DEF Sound, Linkage, CreateSteps
  <2>2. asked[timer_ptr] - age[timer_ptr] <= remaining[timer_ptr]
    BY DEF Timed, BeforeWalk, Meets, Due
  <2>3. /\ asked[timer_ptr] \in Int /\ age[timer_ptr] \in Int
        /\ remaining[timer_ptr] \in Int
    BY <2>1, MaxTicksAssumption DEF Sound, TypeOK
  <2>4. /\ age'[timer_ptr] = age[timer_ptr] + 1
        /\ remaining'[timer_ptr] = remaining[timer_ptr]
    BY <1>1, <1>2, <2>1 DEF Sound, TypeOK
  <2> QED
    BY <1>1, <2>2, <2>3, <2>4
<1>6. Past'
  <2> SUFFICES ASSUME NEW t \in Timers
               PROVE  /\ status'[t] = "new" => age'[t] = 0
                      /\ status'[t] = "fired" /\ t \notin delayed'
                           => age'[t] = asked[t]
    BY <1>1 DEF Past
  <2>1. CASE t \in {list[i] : i \in 1 .. n}
    <3>1. PICK i \in 1 .. n : t = list[i]
      BY <2>1
    <3>2. t \in Pending /\ i \in 1 .. Len(list)
      BY <1>1, <1>2, <3>1 DEF ListView
    <3>3. status'[t] = "fired" /\ age'[t] = age[t] + 1
      BY <1>1, <1>2, <2>1, <3>2 DEF Sound, Linkage
    <3>4. t \notin delayed' => Due(t) = 1
      BY <1>1, <1>3, <3>1, <3>2
    <3>5. age[t] \in Int /\ asked[t] \in Int
      BY MaxTicksAssumption DEF Sound, TypeOK
    <3> QED
      BY <3>3, <3>4, <3>5 DEF Due
  <2>2. CASE t \notin {list[i] : i \in 1 .. n}
    <3>1. status'[t] = status[t]
      BY <1>2, <2>2
    <3>2. status[t] \in {"new", "fired"} => age'[t] = age[t]
      BY <1>1
    <3>3. delayed \subseteq delayed'
      BY <1>1
    <3> QED
      BY <3>1, <3>2, <3>3 DEF Timed, Past
  <2> QED
    BY <2>1, <2>2
<1> QED
  BY <1>3, <1>4, <1>5, <1>6 DEF Timed

LEMMA TimedNext ==
  ASSUME Sound, Timed, [Next]_vars
  PROVE  Timed'
<1>1. CASE UNCHANGED vars
  BY <1>1, TimedSame DEF vars, callVars, history
<1>2. CASE Create
  BY <1>2, TimedBegin, TimedCompare, TimedShorten, TimedLinkHead, TimedWalk,
     TimedLink, TimedLinkFirst, TimedStart
  DEF Create
<1>3. CASE Delete
  BY <1>3, TimedTransfer, TimedUnlink DEF Delete
<1>4. CASE TIM3_IRQHandler
  <2>1. CASE list = <<>>
    BY <1>4, <2>1, TimedIdleTick
  <2>2. CASE list # <<>>
    <3>1. PICK n \in Nat : Fires(n)
      BY <1>4, <2>2, TickFires DEF Sound
    <3> QED
      BY <1>4, <2>2, <3>1, TimedFires
  <2> QED
    BY <2>1, <2>2
<1> QED
  BY <1>1, <1>2, <1>3, <1>4 DEF Next

LEMMA AlwaysTimed == Spec => [](Sound /\ Timed)
<1>1. Init => Sound /\ Timed
  BY SoundInit, TimedInit
<1>2. Sound /\ Timed /\ [Next]_vars => (Sound /\ Timed)'
  BY SoundNext, TimedNext
<1> QED
  BY <1>1, <1>2, PTL DEF Spec

\* A timer fires on its very tick unless a timer was inserted in front of it
\* but not first, the last timer was deleted, or a tick landed inside a call:
\* every other create, delete and tick keeps the sums along the list.
THEOREM AlwaysOnTimeUnlessDelayed == Spec => []OnTimeUnlessDelayed
<1>1. Sound /\ Timed => OnTimeUnlessDelayed
  BY DEF Timed, Past, OnTimeUnlessDelayed
<1> QED
  BY <1>1, AlwaysTimed, PTL

\* Only the tick fires a timer.
LEMMA OnlyTickFires ==
  ASSUME Sound, Create \/ Delete, NEW t \in Timers, status[t] = "pending"
  PROVE  status'[t] # "fired"
<1> USE DEF Sound, TypeOK
<1>1. CASE \E u \in Timers, ticks \in 1 .. MaxTicks : Begin(u, ticks)
  BY <1>1 DEF Begin
<1>2. CASE Compare
  BY <1>2 DEF Compare, CompareFrom, Corrupt, history
<1>3. CASE Shorten
  BY <1>3 DEF Shorten, ShortenBy, history
<1>4. CASE LinkHead
  BY <1>4 DEF LinkHead, Linked, Corrupt, history
<1>5. CASE Walk
  BY <1>5 DEF Walk, Corrupt, history
<1>6. CASE Link
  BY <1>6 DEF Link, Linked, Corrupt, history
<1>7. CASE LinkFirst
  BY <1>7 DEF LinkFirst, Linked
<1>8. CASE Start
  BY <1>8 DEF Start, history
<1>9. CASE \E u \in Timers : Transfer(u)
  BY <1>9 DEF Transfer, TransferTicks
<1>10. CASE Unlink
  BY <1>10 DEF Unlink, Corrupt, history
<1> QED
  BY <1>1, <1>2, <1>3, <1>4, <1>5, <1>6, <1>7, <1>8, <1>9, <1>10
  DEF Create, Delete

\* No timer fires before its ticks have passed, wherever a tick lands, except
\* in the tick between the two statements that insert a new first timer.
THEOREM OnlyEarlyInLinkHead == Spec => EarlyOnlyInLinkHead
<1> DEFINE A == \A t \in Timers :
                  status[t] = "pending" /\ status'[t] = "fired"
                    /\ age'[t] < asked[t] => at = "link_head"
<1>1. ASSUME Sound, Timed, [Next]_vars
      PROVE  [A]_vars
  <2> SUFFICES ASSUME NEW t \in Timers,
                      status[t] = "pending", status'[t] = "fired",
                      age'[t] < asked[t], at # "link_head", ~UNCHANGED vars
               PROVE  FALSE
    OBVIOUS
  <2>1. CASE Create \/ Delete
    BY <1>1, <2>1, OnlyTickFires
  <2>2. CASE TIM3_IRQHandler
    <3>1. list # <<>>
      BY <2>2 DEF TIM3_IRQHandler, Tick
    <3>2. PICK n \in Nat : Fires(n)
      BY <1>1, <2>2, <3>1, TickFires DEF Sound
    <3>3. PICK i \in 1 .. n : t = list[i]
      BY <3>2 DEF Fires
    <3>4. Due(t) <= 1
      BY <1>1, <2>2, <3>1, <3>2, <3>3, FiresDue
    <3>5. age'[t] = age[t] + 1
      BY <2>2 DEF TIM3_IRQHandler, Tick
    <3>6. age[t] \in Int /\ asked[t] \in Int
      BY <1>1, MaxTicksAssumption DEF Sound, TypeOK
    <3> QED
      BY <3>4, <3>5, <3>6 DEF Due
  <2> QED
    BY <1>1, <2>1, <2>2 DEF Next
<1>2. Spec => [][A]_vars
  BY <1>1, AlwaysTimed, PTL DEF Spec
<1> QED
  BY <1>2 DEF EarlyOnlyInLinkHead
=============================================================================
