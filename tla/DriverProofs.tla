---------------------------- MODULE DriverProofs ----------------------------
(***************************************************************************)
(* Invariants of the parts of MCDrivers, for any channels, devices,        *)
(* requests and sizes.  A step of the composition is a step of one part or *)
(* leaves its variables alone.                                             *)
(***************************************************************************)
EXTENDS MCDrivers, ListLemmas, FiniteSets, FiniteSetTheorems

-----------------------------------------------------------------------------
\* FlashDriver.

Content == {<<>>} \cup (Nat \X Nat)
Operation ==
  [pc : {"idle", "fill", "erase", "program", "return"}, id : Nat, at : Nat,
   asked : Nat, size : Nat, page : Nat, offset : 0 .. PageSize - 1,
   src : Nat, left : Nat, done : 0 .. PageSize \div 2,
   status : {"error", "success"}, lost : BOOLEAN]

FlashType == /\ flash \in [F!Byte -> Content] /\ before \in [F!Byte -> Content]
             /\ buf \in [0 .. PageSize - 1 -> Content]
             /\ op \in Operation
             /\ op.size = op.asked + (op.asked % 2)
             /\ torn \in SUBSET Nat /\ IsFiniteSet(torn) /\ losses \in Nat

\* Offset, source and what is left agree where a page starts; or nothing is
\* left, and the page lies behind the request.
Agree(start, offset) ==
  \/ op.at + op.src = start + offset /\ (op.src = 0 \/ offset = 0)
  \/ op.left = 0 /\ op.at + op.size <= start

\* The request is at a page: what has gone into flash_buf for it, and what of
\* it is programmed.
AtPage ==
  LET start == op.page * PageSize
  IN /\ op.pc \in {"fill", "erase", "program"} => op.src + op.left = op.size
     /\ op.pc = "fill" => Agree(start, op.offset)
     /\ op.pc \in {"erase", "program"} =>
          /\ Agree(start + PageSize, 0) /\ op.page < Pages
          /\ \A o \in 0 .. PageSize - 1 : buf[o] = F!Wanted(start + o)
     /\ op.pc = "program" =>
          \A o \in 0 .. PageSize - 1 :
            flash[start + o] = IF o < 2 * op.done THEN buf[o] ELSE F!Erased

\* The pages before it and behind it.
Passed ==
  op.id > 0 =>
    \A b \in F!Byte :
      LET p == F!PageOf(b)
      IN /\ p < op.page => flash[b] = F!Wanted(b)
         /\ p > op.page => flash[b] = before[b]
         /\ p = op.page /\ op.pc \in {"fill", "erase"} => flash[b] = before[b]

\* A request that ends well has passed all of its pages.
Over ==
  op.pc = "return" /\ op.status = "success" /\ ~op.lost =>
    \A b \in F!Byte :
      b \in op.at .. op.at + op.size - 1 => F!PageOf(b) < op.page

\* What is erased is lost, or will be programmed.
Losses ==
  /\ Cardinality(torn) <= losses
  /\ \A b \in F!Byte :
       /\ flash[b] = F!Erased =>
            \/ F!PageOf(b) \in torn
            \/ op.pc = "program" /\ F!PageOf(b) = op.page
       /\ before[b] = F!Erased => F!PageOf(b) \in torn
  /\ op.pc # "idle" => op.id > 0

Rewriting == FlashType /\ AtPage /\ Passed /\ Over /\ Losses

-----------------------------------------------------------------------------
\* Pages and their bytes.

LEMMA PagesAreApart ==
  ASSUME NEW p \in Nat, NEW q \in Nat, NEW n \in Nat, p < q
  PROVE  p * n + n <= q * n
<1>1. p + 1 <= q
  OBVIOUS
<1>2. (p + 1) * n <= q * n
  BY <1>1
<1>3. (p + 1) * n = p * n + n
  OBVIOUS
<1>4. p * n \in Nat /\ q * n \in Nat
  OBVIOUS
<1> QED
  BY <1>2, <1>3, <1>4

LEMMA Division ==
  ASSUME NEW b \in Nat, NEW q \in Nat, NEW n \in Nat \ {0}
  PROVE  /\ b \div n \in Nat
         /\ b \div n = q <=> b \in q * n .. q * n + n - 1
         /\ b \div n < q <=> b < q * n
         /\ b % n \in 0 .. n - 1 /\ b = (b \div n) * n + (b % n)
<1> DEFINE d == b \div n
           m == b % n
<1>1. d \in Nat /\ m \in 0 .. n - 1 /\ b = d * n + m /\ d * n \in Nat
  OBVIOUS
<1> HIDE DEF d, m
<1>2. q * n \in Nat
  OBVIOUS
<1>3. d < q => d * n + n <= q * n
  BY <1>1, PagesAreApart
<1>4. d > q => q * n + n <= d * n
  BY <1>1, PagesAreApart
<1>5. d = q \/ d < q \/ d > q
  BY <1>1
<1>6. d = q <=> b \in q * n .. q * n + n - 1
  <2>1. d = q => b \in q * n .. q * n + n - 1
    BY <1>1, <1>2
  <2>2. b \in q * n .. q * n + n - 1 => d = q
    BY <1>1, <1>2, <1>3, <1>4
  <2> QED
    BY <2>1, <2>2
<1>7. d < q <=> b < q * n
  <2>1. d < q => b < q * n
    BY <1>1, <1>2, <1>3
  <2>2. d = q => ~(b < q * n)
    BY <1>1, <1>2
  <2>3. d > q => ~(b < q * n)
    BY <1>1, <1>2, <1>4
  <2> QED
    BY <1>5, <2>1, <2>2, <2>3
<1> QED
  BY <1>1, <1>6, <1>7 DEF d, m

\* All that is used of a page: where it starts, and which bytes are its own.
LEMMA PageView ==
  ASSUME NEW q \in Nat
  PROVE  /\ q * PageSize \in Nat
         /\ (q + 1) * PageSize = q * PageSize + PageSize
         /\ q < Pages <=> q * PageSize < F!End
         /\ \A b \in F!Byte :
              /\ F!PageOf(b) \in Nat /\ b \in Nat
              /\ F!PageOf(b) = q
                   <=> b \in q * PageSize .. q * PageSize + PageSize - 1
              /\ F!PageOf(b) < q <=> b < q * PageSize
         /\ q < Pages => \A o \in 0 .. PageSize - 1 : q * PageSize + o \in F!Byte
<1>1. PageSize \in Nat \ {0} /\ Pages \in Nat
  BY FlashAssumption DEF F!SizeAssumption
<1>2. /\ q * PageSize \in Nat /\ Pages * PageSize \in Nat
      /\ (q + 1) * PageSize = q * PageSize + PageSize
  BY <1>1
<1>3. F!End = Pages * PageSize
  BY DEF F!End
<1>4. q < Pages => q * PageSize + PageSize <= Pages * PageSize
  BY <1>1, PagesAreApart
<1>5. ~(q < Pages) => Pages * PageSize <= q * PageSize
  <2>1. CASE q = Pages
    BY <1>2, <2>1
  <2>2. CASE Pages < q
    <3>1. Pages * PageSize + PageSize <= q * PageSize
      BY <1>1, <2>2, PagesAreApart
    <3> QED
      BY <1>1, <1>2, <3>1
  <2> QED
    BY <1>1, <2>1, <2>2
<1>6. q < Pages <=> q * PageSize < F!End
  <2>1. q < Pages => q * PageSize < Pages * PageSize
    BY <1>1, <1>2, <1>4
  <2>2. ~(q < Pages) => ~(q * PageSize < Pages * PageSize)
    BY <1>2, <1>5
  <2> QED
    BY <1>3, <2>1, <2>2
<1>7. F!Byte \subseteq Nat
  BY <1>2, <1>3 DEF F!Byte
<1>8. \A b \in F!Byte :
        /\ F!PageOf(b) \in Nat /\ b \in Nat
        /\ F!PageOf(b) = q
             <=> b \in q * PageSize .. q * PageSize + PageSize - 1
        /\ F!PageOf(b) < q <=> b < q * PageSize
  BY <1>1, <1>7, Division DEF F!PageOf
<1>9. q < Pages => \A o \in 0 .. PageSize - 1 : q * PageSize + o \in F!Byte
  BY <1>1, <1>2, <1>3, <1>4 DEF F!Byte
<1> QED
  BY <1>2, <1>6, <1>8, <1>9


-----------------------------------------------------------------------------
\* The steps of a write.

LEMMA FlashSteps == ASSUME [Next]_vars PROVE UNCHANGED flashVars \/ F!Next
  BY DEF Next, vars, flashVars

LEMMA FlashSizes ==
  /\ PageSize \in Nat \ {0} /\ Pages \in Nat \ {0}
  /\ PageSize \div 2 \in Nat /\ 2 * (PageSize \div 2) = PageSize
<1>1. PageSize \in Nat \ {0} /\ Pages \in Nat \ {0} /\ PageSize % 2 = 0
  BY FlashAssumption DEF F!SizeAssumption
<1> QED
  BY <1>1

LEMMA SameWanted ==
  ASSUME op'.id = op.id, op'.at = op.at, op'.asked = op.asked, before' = before
  PROVE  \A b : F!Wanted(b)' = F!Wanted(b)
  BY DEF F!Wanted

LEMMA RequestRewrites ==
  ASSUME Rewriting, NEW r \in FlashRequests, F!Request(r)
  PROVE  Rewriting'
<1>0. PICK size, p, offset :
        /\ size = r.size + (r.size % 2) /\ p = r.at \div PageSize
        /\ offset = r.at % PageSize
  OBVIOUS
<1>1. /\ r.at \in Nat /\ r.size \in Nat /\ size \in Nat
      /\ p \in Nat /\ offset \in 0 .. PageSize - 1
      /\ p * PageSize \in Nat /\ r.at = p * PageSize + offset
  <2>1. r.at \in Nat /\ r.size \in Nat
    BY FlashAssumption DEF F!RequestAssumption
  <2>2. size \in Nat
    BY <1>0, <2>1
  <2>3. /\ r.at \div PageSize \in Nat /\ r.at % PageSize \in 0 .. PageSize - 1
        /\ r.at = (r.at \div PageSize) * PageSize + (r.at % PageSize)
    BY <2>1, FlashSizes, Division
  <2>4. p * PageSize \in Nat
    BY <1>0, <2>3, PageView
  <2> QED
    BY <1>0, <2>1, <2>2, <2>3, <2>4
<1>2. /\ op.pc = "idle" /\ before' = flash /\ UNCHANGED <<flash, buf, torn, losses>>
      /\ op' = [pc |-> IF r.at \in F!Byte THEN "fill" ELSE "return",
                id |-> op.id + 1, at |-> r.at, asked |-> r.size, size |-> size,
                page |-> p, offset |-> offset, src |-> 0, left |-> size,
                done |-> 0, status |-> "error", lost |-> FALSE]
  BY <1>0 DEF F!Request, F!Rounded, F!PageOf
<1>3. FlashType /\ op \in Operation
  BY DEF Rewriting, FlashType
<1>4. /\ op'.pc \in {"fill", "return"} /\ op'.id = op.id + 1 /\ op'.at = r.at
      /\ op'.asked = r.size /\ op'.size = size /\ op'.page = p
      /\ op'.offset = offset /\ op'.src = 0 /\ op'.left = size
      /\ op'.done = 0 /\ op'.status = "error" /\ op'.lost = FALSE
  BY <1>2
<1>5. op' \in Operation
  <2>1. op.id + 1 \in Nat /\ 0 \in 0 .. PageSize \div 2
    BY <1>3, FlashSizes DEF Operation
  <2> QED
    BY <1>1, <1>2, <2>1 DEF Operation
<1>6. FlashType'
  BY <1>0, <1>2, <1>3, <1>4, <1>5 DEF FlashType
<1>7. AtPage'
  <2>1. op'.src + op'.left = op'.size
    BY <1>1, <1>4
  <2>2. Agree(op.page * PageSize, op.offset)'
    BY <1>1, <1>4 DEF Agree
  <2> QED
    BY <1>4, <2>1, <2>2 DEF AtPage
<1>8. Passed'
  <2>1. \A b \in F!Byte : F!PageOf(b) < p => b \in Nat /\ b < r.at
    BY <1>1, PageView
  <2>2. \A b \in F!Byte : F!PageOf(b) < p => F!Wanted(b)' = flash[b]
    BY <1>1, <1>2, <1>4, <2>1 DEF F!Wanted
  <2>3. \A b \in F!Byte : F!PageOf(b)' = F!PageOf(b)
    OBVIOUS
  <2> QED
    BY <1>2, <1>4, <2>2 DEF Passed
<1>9. Over'
  BY <1>4 DEF Over
<1>10. Losses'
  <2>1. op'.id > 0 /\ op'.pc # "idle"
    BY <1>3, <1>4 DEF Operation
  <2> QED
    BY <1>2, <1>4, <2>1 DEF Rewriting, Losses
<1> QED
  BY <1>6, <1>7, <1>8, <1>9, <1>10 DEF Rewriting

LEMMA FillRewrites == ASSUME Rewriting, F!Fill PROVE Rewriting'
<1>0. PICK p, start : p = op.page /\ start = p * PageSize
  OBVIOUS
<1>1. /\ FlashType /\ op \in Operation /\ op.pc = "fill" /\ p \in Nat
      /\ op.id > 0 /\ UNCHANGED <<flash, before, torn, losses>>
  BY <1>0 DEF Rewriting, FlashType, Operation, F!Fill, Losses
<1>2. /\ start \in Nat /\ (p + 1) * PageSize = start + PageSize
      /\ p < Pages <=> start < F!End
      /\ \A b \in F!Byte :
           /\ F!PageOf(b) \in Nat /\ b \in Nat
           /\ F!PageOf(b) = p <=> b \in start .. start + PageSize - 1
           /\ F!PageOf(b) < p <=> b < start
      /\ p < Pages => \A o \in 0 .. PageSize - 1 : start + o \in F!Byte
  BY <1>0, <1>1, PageView
<1>3. /\ op.src + op.left = op.size /\ Agree(start, op.offset)
      /\ op.at \in Nat /\ op.src \in Nat /\ op.left \in Nat /\ op.size \in Nat
      /\ op.offset \in 0 .. PageSize - 1 /\ op.asked \in Nat
      /\ op.size = op.asked + (op.asked % 2)
  BY <1>0, <1>1 DEF Rewriting, AtPage, FlashType, Operation
<1>4. CASE start < F!End /\ start < op.at + op.size
  <2>0. PICK used : used = F!Used
    OBVIOUS
  <2>1. /\ used \in Nat /\ used <= op.left
        /\ used = PageSize - op.offset \/ used = op.left
        /\ used <= PageSize - op.offset
    <3>1. PageSize - op.offset \in Int /\ PageSize - op.offset > 0
      BY <1>3, FlashSizes
    <3>2. \A a, b \in Int : a <= b => F!Min({a, b}) = a /\ F!Min({b, a}) = a
      BY DEF F!Min
    <3>3. PICK room : room = PageSize - op.offset
      OBVIOUS
    <3>4. used = F!Min({room, op.left}) /\ room \in Int /\ op.left \in Int
      BY <1>3, <2>0, <3>1, <3>3 DEF F!Used
    <3>5. \/ room <= op.left /\ used = room
          \/ op.left <= room /\ used = op.left
      BY <3>2, <3>4
    <3> QED
      BY <1>3, <3>1, <3>3, <3>4, <3>5
  <2>2. /\ buf' = F!Merged(p, op.offset, op.src, op.left)
        /\ op' = [op EXCEPT !.pc = "erase", !.src = @ + used, !.left = @ - used]
    BY <1>0, <1>4, <2>0 DEF F!Fill
  <2>3. /\ op'.pc = "erase" /\ op'.src = op.src + used
        /\ op'.left = op.left - used /\ op'.id = op.id /\ op'.at = op.at
        /\ op'.asked = op.asked /\ op'.size = op.size /\ op'.page = p
        /\ op' \in Operation
    <3>1. op.src + used \in Nat /\ op.left - used \in Nat
      BY <1>3, <2>1
    <3> QED
      BY <1>0, <1>1, <2>2, <3>1 DEF Operation
  <2>4. \A b : F!Wanted(b)' = F!Wanted(b)
    BY <1>1, <2>3, SameWanted
  <2>5. op.at + op.src = start + op.offset /\ (op.src = 0 \/ op.offset = 0)
    BY <1>2, <1>3, <1>4 DEF Agree
  <2>6. ASSUME NEW o \in 0 .. PageSize - 1
        PROVE  buf'[o] = F!Wanted(start + o) /\ buf'[o] \in Content
    <3>1. buf'[o] = IF o >= op.offset /\ o - op.offset < op.left
                    THEN <<op.id, op.src + (o - op.offset)>>
                    ELSE flash[start + o]
      BY <1>0, <2>2 DEF F!Merged
    <3>2. o \in Nat /\ start + o \in F!Byte /\ F!PageOf(start + o) = p
      BY <1>2, <1>4, FlashSizes
    <3>3. flash[start + o] = before[start + o] /\ flash[start + o] \in Content
      BY <1>0, <1>1, <3>2 DEF Rewriting, Passed, FlashType
    <3>4. start + o \in op.at .. op.at + op.asked + (op.asked % 2) - 1
            <=> o >= op.offset /\ o - op.offset < op.left
      BY <1>2, <1>3, <2>5, <3>2
    <3>5. o >= op.offset => (start + o) - op.at = op.src + (o - op.offset)
      BY <1>2, <1>3, <2>5, <3>2
    <3>6. o >= op.offset => op.src + (o - op.offset) \in Nat /\ op.id \in Nat
      BY <1>1, <1>3, <3>2 DEF Operation
    <3>7. CASE o >= op.offset /\ o - op.offset < op.left
      <4>1. /\ buf'[o] = <<op.id, op.src + (o - op.offset)>>
            /\ op.src + (o - op.offset) = (start + o) - op.at
        BY <3>1, <3>5, <3>7
      <4>2. F!Wanted(start + o) = <<op.id, (start + o) - op.at>>
        BY <3>4, <3>7 DEF F!Wanted
      <4> QED
        BY <3>6, <3>7, <4>1, <4>2 DEF Content
    <3>8. CASE ~(o >= op.offset /\ o - op.offset < op.left)
      <4>1. F!Wanted(start + o) = before[start + o]
        BY <3>4, <3>8 DEF F!Wanted
      <4> QED
        BY <3>1, <3>3, <3>8, <4>1
    <3> QED
      BY <3>7, <3>8
  <2>7. FlashType'
    <3>1. buf' \in [0 .. PageSize - 1 -> Content]
      BY <2>2, <2>6 DEF F!Merged
    <3> QED
      BY <1>1, <2>3, <3>1 DEF FlashType
  <2>8. AtPage'
    <3>1. op'.src + op'.left = op'.size
      BY <1>3, <2>1, <2>3
    <3>2. \/ op'.at + op'.src = start + PageSize
          \/ op'.left = 0 /\ op'.at + op'.size <= start + PageSize
      <4>1. CASE used = PageSize - op.offset
        <5>1. op'.at + op'.src = op.at + (op.src + used)
          BY <2>3
        <5> QED
          BY <1>2, <1>3, <2>1, <2>5, <4>1, <5>1, FlashSizes
      <4>2. CASE used = op.left
        <5>1. op'.left = 0 /\ op'.at + op'.size = op.at + (op.src + op.left)
          BY <1>3, <2>3, <4>2
        <5>2. op.left <= PageSize - op.offset
          BY <2>1, <4>2
        <5> QED
          BY <1>2, <1>3, <2>5, <5>1, <5>2, FlashSizes
      <4> QED
        BY <2>1, <4>1, <4>2
    <3>3. Agree(start + PageSize, 0)'
      <4>1. (start + PageSize) + 0 = start + PageSize
        BY <1>2, FlashSizes
      <4> QED
        BY <3>2, <4>1 DEF Agree
    <3> QED
      BY <1>0, <1>2, <1>4, <2>3, <2>4, <2>6, <3>1, <3>3 DEF AtPage
  <2>9. Passed'
    BY <1>0, <1>1, <2>3, <2>4 DEF Rewriting, Passed
  <2>10. Over'
    BY <2>3 DEF Over
  <2>11. Losses'
    BY <1>1, <2>3 DEF Rewriting, Losses
  <2> QED
    BY <2>7, <2>8, <2>9, <2>10, <2>11 DEF Rewriting
<1>5. CASE ~(start < F!End /\ start < op.at + op.size)
  <2>1. op' = [op EXCEPT !.pc = "return", !.status = "success"] /\ buf' = buf
    BY <1>0, <1>5 DEF F!Fill
  <2>2. /\ op'.pc = "return" /\ op'.id = op.id /\ op'.at = op.at
        /\ op'.asked = op.asked /\ op'.size = op.size /\ op'.page = p
        /\ op' \in Operation
    BY <1>0, <1>1, <2>1 DEF Operation
  <2>3. \A b : F!Wanted(b)' = F!Wanted(b)
    BY <1>1, <2>2, SameWanted
  <2>4. FlashType'
    BY <1>1, <2>1, <2>2 DEF FlashType
  <2>5. AtPage'
    BY <2>2 DEF AtPage
  <2>6. Passed'
    BY <1>0, <1>1, <2>2, <2>3 DEF Rewriting, Passed
  <2>7. Over'
    <3>1. F!End \in Nat /\ \A b \in F!Byte : b < F!End
      BY FlashSizes DEF F!End, F!Byte
    <3>2. \A b \in F!Byte : b \in op.at .. op.at + op.size - 1 => b < start
      BY <1>2, <1>3, <1>5, <3>1
    <3> QED
      BY <1>2, <2>2, <3>2 DEF Over
  <2>8. Losses'
    BY <1>1, <2>2 DEF Rewriting, Losses
  <2> QED
    BY <2>4, <2>5, <2>6, <2>7, <2>8 DEF Rewriting
<1> QED
  BY <1>4, <1>5


LEMMA EraseRewrites ==
  ASSUME Rewriting, NEW busy \in BOOLEAN, F!Erase(busy)
  PROVE  Rewriting'
<1>0. PICK p, start : p = op.page /\ start = p * PageSize
  OBVIOUS
<1>1. /\ FlashType /\ op \in Operation /\ op.pc = "erase" /\ p \in Nat
      /\ op.id > 0 /\ p < Pages /\ UNCHANGED <<buf, before>>
      /\ flash' = [b \in F!Byte |-> IF F!PageOf(b) = p THEN F!Erased ELSE flash[b]]
  BY <1>0 DEF Rewriting, FlashType, Operation, F!Erase, F!ErasedPage, AtPage,
              Losses
<1>2. flash' \in [F!Byte -> Content]
  BY <1>1 DEF FlashType, Content, F!Erased
<1>3. CASE busy
  <2>1. /\ op' = [op EXCEPT !.pc = "return", !.status = "success", !.lost = TRUE]
        /\ torn' = torn \cup {p} /\ losses' = losses + 1
    BY <1>0, <1>3 DEF F!Erase
  <2>2. /\ op'.pc = "return" /\ op'.id = op.id /\ op'.at = op.at
        /\ op'.asked = op.asked /\ op'.size = op.size /\ op'.page = p
        /\ op'.lost = TRUE /\ op' \in Operation
    BY <1>0, <1>1, <2>1 DEF Operation
  <2>3. \A b : F!Wanted(b)' = F!Wanted(b)
    BY <1>1, <2>2, SameWanted
  <2>4. /\ IsFiniteSet(torn') /\ torn' \in SUBSET Nat /\ losses' \in Nat
        /\ Cardinality(torn') <= losses'
    <3>1. /\ IsFiniteSet(torn) /\ torn \in SUBSET Nat /\ losses \in Nat
          /\ Cardinality(torn) <= losses /\ Cardinality(torn) \in Nat
      BY <1>1, FS_CardinalityType DEF Rewriting, FlashType, Losses
    <3>2. /\ IsFiniteSet(torn')
          /\ Cardinality(torn') = Cardinality(torn)
             \/ Cardinality(torn') = Cardinality(torn) + 1
      BY <2>1, <3>1, FS_AddElement
    <3> QED
      BY <1>1, <2>1, <3>1, <3>2
  <2>5. FlashType'
    BY <1>1, <1>2, <2>2, <2>4 DEF FlashType
  <2>6. AtPage' /\ Over'
    BY <2>2 DEF AtPage, Over
  <2>7. Passed'
    <3>1. \A b \in F!Byte : F!PageOf(b) \in Nat
      BY <1>1, PageView
    <3> QED
      BY <1>0, <1>1, <2>2, <2>3, <3>1 DEF Rewriting, Passed
  <2>8. Losses'
    BY <1>1, <2>1, <2>2, <2>4 DEF Rewriting, Losses
  <2> QED
    BY <2>5, <2>6, <2>7, <2>8 DEF Rewriting
<1>4. CASE ~busy
  <2>1. op' = [op EXCEPT !.pc = "program", !.done = 0]
        /\ UNCHANGED <<torn, losses>>
    BY <1>4 DEF F!Erase
  <2>2. /\ op'.pc = "program" /\ op'.id = op.id /\ op'.at = op.at
        /\ op'.asked = op.asked /\ op'.size = op.size /\ op'.page = p
        /\ op'.src = op.src /\ op'.left = op.left /\ op'.done = 0
        /\ op' \in Operation
    <3>1. 0 \in 0 .. PageSize \div 2
      BY FlashSizes
    <3> QED
      BY <1>0, <1>1, <2>1, <3>1 DEF Operation
  <2>3. \A b : F!Wanted(b)' = F!Wanted(b)
    BY <1>1, <2>2, SameWanted
  <2>4. FlashType'
    BY <1>1, <1>2, <2>1, <2>2 DEF FlashType
  <2>5. AtPage'
    <3>1. \A o \in 0 .. PageSize - 1 :
            flash'[start + o] = F!Erased /\ ~(o < 2 * 0)
      <4> SUFFICES ASSUME NEW o \in 0 .. PageSize - 1
                   PROVE  flash'[start + o] = F!Erased /\ ~(o < 2 * 0)
        OBVIOUS
      <4>1. start + o \in F!Byte /\ start \in Nat /\ PageSize \in Nat
        BY <1>0, <1>1, PageView, FlashSizes
      <4>2. start + o \in start .. start + PageSize - 1
        BY <4>1
      <4>3. F!PageOf(start + o) = p
        BY <1>0, <1>1, <4>1, <4>2, PageView
      <4> QED
        BY <1>1, <4>1, <4>3
    <3>2. /\ op.src + op.left = op.size /\ Agree(start + PageSize, 0)
          /\ \A o \in 0 .. PageSize - 1 : buf[o] = F!Wanted(start + o)
      BY <1>0, <1>1 DEF Rewriting, AtPage
    <3>3. Agree(start + PageSize, 0)'
      BY <2>2, <3>2 DEF Agree
    <3> QED
      BY <1>0, <1>1, <2>2, <2>3, <3>1, <3>2, <3>3 DEF AtPage
  <2>6. Over'
    BY <2>2 DEF Over
  <2>7. Passed'
    <3>1. \A b \in F!Byte : F!PageOf(b) \in Nat
      BY <1>1, PageView
    <3> QED
      BY <1>0, <1>1, <2>2, <2>3, <3>1 DEF Rewriting, Passed
  <2>8. Losses'
    BY <1>1, <2>1, <2>2 DEF Rewriting, Losses
  <2> QED
    BY <2>4, <2>5, <2>6, <2>7, <2>8 DEF Rewriting
<1> QED
  BY <1>3, <1>4

LEMMA ProgramRewrites == ASSUME Rewriting, F!Program PROVE Rewriting'
<1>0. PICK p, start : p = op.page /\ start = p * PageSize
  OBVIOUS
<1>1. /\ FlashType /\ op \in Operation /\ op.pc = "program" /\ p \in Nat
      /\ op.id > 0 /\ p < Pages /\ UNCHANGED <<buf, before, torn, losses>>
      /\ op.done \in 0 .. PageSize \div 2
  BY <1>0 DEF Rewriting, FlashType, Operation, F!Program, AtPage, Losses
<1>2. /\ start \in Nat /\ (p + 1) * PageSize = start + PageSize
      /\ \A b \in F!Byte :
           /\ F!PageOf(b) \in Nat /\ b \in Nat
           /\ F!PageOf(b) = p <=> b \in start .. start + PageSize - 1
           /\ F!PageOf(b) < p <=> b < start
      /\ \A o \in 0 .. PageSize - 1 : start + o \in F!Byte
  BY <1>0, <1>1, PageView
<1>3. /\ op.src + op.left = op.size /\ Agree(start + PageSize, 0)
      /\ \A o \in 0 .. PageSize - 1 :
           /\ buf[o] = F!Wanted(start + o)
           /\ flash[start + o] = IF o < 2 * op.done THEN buf[o] ELSE F!Erased
  BY <1>0, <1>1 DEF Rewriting, AtPage
<1>4. CASE op.done < F!LastHalf
  <2>0. PICK first : first = start + 2 * op.done
    OBVIOUS
  <2>1. /\ flash' = [b \in F!Byte |-> IF b \in {first, first + 1}
                                      THEN buf[b - start] ELSE flash[b]]
        /\ op' = [op EXCEPT !.done = @ + 1]
    BY <1>0, <1>4, <2>0 DEF F!Program
  <2>2. /\ op.done \in Nat /\ op.done + 1 \in 0 .. PageSize \div 2
        /\ 2 * op.done + 1 < PageSize /\ 2 * (op.done + 1) = 2 * op.done + 2
    BY <1>1, <1>4, FlashSizes DEF F!LastHalf
  <2>3. /\ op'.pc = "program" /\ op'.id = op.id /\ op'.at = op.at
        /\ op'.asked = op.asked /\ op'.size = op.size /\ op'.page = p
        /\ op'.src = op.src /\ op'.left = op.left /\ op'.done = op.done + 1
        /\ op' \in Operation
    BY <1>0, <1>1, <2>1, <2>2 DEF Operation
  <2>4. \A b : F!Wanted(b)' = F!Wanted(b)
    BY <1>1, <2>3, SameWanted
  <2>5. \A b \in F!Byte :
          /\ b \in {first, first + 1} =>
               b - start \in 0 .. PageSize - 1 /\ F!PageOf(b) = p
          /\ flash'[b] = IF b \in {first, first + 1} THEN buf[b - start]
                         ELSE flash[b]
    <3>1. \A b \in F!Byte :
            b \in {first, first + 1} =>
              b - start \in 0 .. PageSize - 1
              /\ b \in start .. start + PageSize - 1
      BY <1>2, <2>0, <2>2, FlashSizes
    <3> QED
      BY <1>2, <2>1, <3>1
  <2>6. FlashType'
    <3>1. flash' \in [F!Byte -> Content]
      BY <1>1, <2>1, <2>5 DEF FlashType
    <3> QED
      BY <1>1, <2>3, <3>1 DEF FlashType
  <2>7. AtPage'
    <3>1. \A o \in 0 .. PageSize - 1 :
            flash'[start + o] = IF o < 2 * op.done + 2 THEN buf[o]
                                ELSE F!Erased
      <4> SUFFICES ASSUME NEW o \in 0 .. PageSize - 1
                   PROVE  flash'[start + o] = IF o < 2 * op.done + 2
                                              THEN buf[o] ELSE F!Erased
        OBVIOUS
      <4>1. start + o \in F!Byte /\ o \in Nat /\ (start + o) - start = o
        BY <1>2, FlashSizes
      <4>2. CASE o \in {2 * op.done, 2 * op.done + 1}
        <5>1. start + o \in {first, first + 1} /\ o < 2 * op.done + 2
          BY <1>2, <2>0, <2>2, <4>1, <4>2
        <5> QED
          BY <2>5, <4>1, <5>1
      <4>3. CASE o \notin {2 * op.done, 2 * op.done + 1}
        <5>1. /\ start + o \notin {first, first + 1}
              /\ o < 2 * op.done + 2 <=> o < 2 * op.done
          BY <1>2, <2>0, <2>2, <4>1, <4>3
        <5> QED
          BY <1>3, <2>5, <4>1, <5>1
      <4> QED
        BY <4>2, <4>3
    <3>2. Agree(start + PageSize, 0)'
      BY <1>3, <2>3 DEF Agree
    <3> QED
      BY <1>0, <1>1, <1>3, <2>2, <2>3, <2>4, <3>1, <3>2 DEF AtPage
  <2>8. Over'
    BY <2>3 DEF Over
  <2>9. Passed'
    <3>1. \A b \in F!Byte : F!PageOf(b) < p \/ F!PageOf(b) > p
                              => flash'[b] = flash[b]
      BY <1>1, <1>2, <2>5
    <3> QED
      BY <1>0, <1>1, <2>3, <2>4, <3>1 DEF Rewriting, Passed
  <2>10. Losses'
    BY <1>0, <1>1, <2>3, <2>5 DEF Rewriting, Losses
  <2> QED
    BY <2>6, <2>7, <2>8, <2>9, <2>10 DEF Rewriting
<1>5. CASE ~(op.done < F!LastHalf)
  <2>1. /\ flash' = flash
        /\ op' = [op EXCEPT !.pc = "fill", !.page = @ + 1, !.offset = 0]
    BY <1>5 DEF F!Program, F!NextPage
  <2>2. 2 * op.done = PageSize
    BY <1>1, <1>5, FlashSizes DEF F!LastHalf
  <2>3. /\ op'.pc = "fill" /\ op'.id = op.id /\ op'.at = op.at
        /\ op'.asked = op.asked /\ op'.size = op.size /\ op'.page = p + 1
        /\ op'.src = op.src /\ op'.left = op.left /\ op'.offset = 0
        /\ op' \in Operation
    <3>1. 0 \in 0 .. PageSize - 1 /\ p + 1 \in Nat
      BY <1>1, FlashSizes
    <3>2. op' = [op EXCEPT !.pc = "fill", !.page = p + 1, !.offset = 0]
      BY <1>0, <2>1
    <3> QED
      BY <1>1, <3>1, <3>2 DEF Operation
  <2>4. \A b : F!Wanted(b)' = F!Wanted(b)
    BY <1>1, <2>3, SameWanted
  <2>5. \A b \in F!Byte : F!PageOf(b) = p => flash[b] = F!Wanted(b)
    <3> SUFFICES ASSUME NEW b \in F!Byte, F!PageOf(b) = p
                 PROVE  flash[b] = F!Wanted(b)
      OBVIOUS
    <3>0. PICK o : o = b - start
      OBVIOUS
    <3>1. /\ o \in 0 .. PageSize - 1 /\ b = start + o /\ o < 2 * op.done
      BY <1>2, <2>2, <3>0, FlashSizes
    <3> QED
      BY <1>3, <3>1
  <2>6. FlashType'
    BY <1>1, <2>1, <2>3 DEF FlashType
  <2>7. AtPage'
    <3>1. Agree(start + PageSize, 0)'
      BY <1>3, <2>3 DEF Agree
    <3> QED
      BY <1>2, <1>3, <2>3, <3>1 DEF AtPage
  <2>8. Over'
    BY <2>3 DEF Over
  <2>9. Passed'
    <3>1. \A b \in F!Byte :
            /\ F!PageOf(b) < p + 1 => F!PageOf(b) < p \/ F!PageOf(b) = p
            /\ F!PageOf(b) > p + 1 => F!PageOf(b) > p
            /\ F!PageOf(b) = p + 1 => F!PageOf(b) > p
      BY <1>1, <1>2
    <3>2. \A b \in F!Byte : /\ F!PageOf(b) < p => flash[b] = F!Wanted(b)
                            /\ F!PageOf(b) > p => flash[b] = before[b]
      BY <1>0, <1>1 DEF Rewriting, Passed
    <3> QED
      BY <1>1, <2>1, <2>3, <2>4, <2>5, <3>1, <3>2 DEF Passed
  <2>10. Losses'
    <3>1. \A b \in F!Byte :
            flash[b] = F!Erased /\ F!PageOf(b) = p => F!PageOf(b) \in torn
      <4> SUFFICES ASSUME NEW b \in F!Byte, flash[b] = F!Erased,
                          F!PageOf(b) = p
                   PROVE  F!PageOf(b) \in torn
        OBVIOUS
      <4>1. F!Wanted(b) = <<>>
        BY <2>5 DEF F!Erased
      <4>2. before[b] = <<>>
        BY <4>1 DEF F!Wanted
      <4> QED
        BY <4>2 DEF Rewriting, Losses, F!Erased
    <3> QED
      BY <1>0, <1>1, <2>1, <2>3, <3>1 DEF Rewriting, Losses
  <2> QED
    BY <2>6, <2>7, <2>8, <2>9, <2>10 DEF Rewriting
<1> QED
  BY <1>4, <1>5


LEMMA ReturnRewrites == ASSUME Rewriting, F!Return PROVE Rewriting'
<1>1. /\ FlashType /\ op \in Operation /\ op.pc = "return"
      /\ op' = [op EXCEPT !.pc = "idle"]
      /\ UNCHANGED <<flash, buf, before, torn, losses>>
  BY DEF Rewriting, FlashType, F!Return
<1>2. /\ op'.pc = "idle" /\ op'.id = op.id /\ op'.at = op.at
      /\ op'.asked = op.asked /\ op'.size = op.size /\ op'.page = op.page
      /\ op' \in Operation
  BY <1>1 DEF Operation
<1>3. \A b : F!Wanted(b)' = F!Wanted(b)
  BY <1>1, <1>2, SameWanted
<1>4. FlashType' /\ AtPage' /\ Over'
  BY <1>1, <1>2 DEF FlashType, AtPage, Over
<1>5. Passed'
  BY <1>1, <1>2, <1>3 DEF Rewriting, Passed
<1>6. Losses'
  BY <1>1, <1>2 DEF Rewriting, Losses
<1> QED
  BY <1>4, <1>5, <1>6 DEF Rewriting

LEMMA ResetRewrites == ASSUME Rewriting, F!Reset PROVE Rewriting'
<1>1. /\ FlashType /\ op \in Operation
      /\ op' = [op EXCEPT !.pc = "idle", !.lost = TRUE]
      /\ buf' = F!Cleared /\ UNCHANGED <<flash, before>>
  BY DEF Rewriting, FlashType, F!Reset
<1>2. /\ op'.pc = "idle" /\ op'.id = op.id /\ op'.at = op.at
      /\ op'.asked = op.asked /\ op'.size = op.size /\ op'.page = op.page
      /\ op' \in Operation
  BY <1>1 DEF Operation
<1>3. \A b : F!Wanted(b)' = F!Wanted(b)
  BY <1>1, <1>2, SameWanted
<1>4. /\ IsFiniteSet(torn') /\ torn' \in SUBSET Nat /\ losses' \in Nat
      /\ Cardinality(torn') <= losses' /\ torn \subseteq torn'
      /\ op.pc = "program" => op.page \in torn'
  <2>1. /\ IsFiniteSet(torn) /\ torn \in SUBSET Nat /\ losses \in Nat
        /\ Cardinality(torn) <= losses /\ Cardinality(torn) \in Nat
        /\ op.page \in Nat
    BY <1>1, FS_CardinalityType DEF Rewriting, FlashType, Losses, Operation
  <2>2. CASE op.pc = "program"
    <3>1. torn' = torn \cup {op.page} /\ losses' = losses + 1
      BY <2>2 DEF F!Reset
    <3>2. /\ IsFiniteSet(torn')
          /\ Cardinality(torn') = Cardinality(torn)
             \/ Cardinality(torn') = Cardinality(torn) + 1
      BY <2>1, <3>1, FS_AddElement
    <3>3. torn' \in SUBSET Nat /\ torn \subseteq torn' /\ op.page \in torn'
      BY <2>1, <3>1
    <3>4. losses' \in Nat /\ Cardinality(torn') <= losses'
      BY <2>1, <3>1, <3>2
    <3> QED
      BY <3>2, <3>3, <3>4
  <2>3. CASE op.pc # "program"
    BY <2>1, <2>3 DEF F!Reset
  <2> QED
    BY <2>2, <2>3
<1>5. FlashType'
  <2>1. buf' \in [0 .. PageSize - 1 -> Content]
    BY <1>1 DEF F!Cleared, Content
  <2> QED
    BY <1>1, <1>2, <1>4, <2>1 DEF FlashType
<1>6. AtPage' /\ Over'
  BY <1>2 DEF AtPage, Over
<1>7. Passed'
  BY <1>1, <1>2, <1>3 DEF Rewriting, Passed
<1>8. Losses'
  BY <1>1, <1>2, <1>4 DEF Rewriting, Losses
<1> QED
  BY <1>5, <1>6, <1>7, <1>8 DEF Rewriting

LEMMA SameRewriting ==
  ASSUME Rewriting, UNCHANGED flashVars PROVE Rewriting'
<1>1. UNCHANGED <<flash, buf, op, before, torn, losses>>
  BY DEF flashVars
<1>2. \A b : F!Wanted(b)' = F!Wanted(b)
  BY <1>1, SameWanted
<1>3. FlashType' /\ Over' /\ Losses'
  BY <1>1 DEF Rewriting, FlashType, Over, Losses
<1>4. AtPage' /\ Passed'
  BY <1>1, <1>2 DEF Rewriting, AtPage, Passed, Agree
<1> QED
  BY <1>3, <1>4 DEF Rewriting

LEMMA InitRewriting == ASSUME Init PROVE Rewriting
<1>1. /\ flash = [b \in F!Byte |-> <<0, b>>] /\ buf = F!Cleared
      /\ before = flash /\ torn = {} /\ losses = 0
      /\ op = [pc |-> "idle", id |-> 0, at |-> 0, asked |-> 0, size |-> 0,
               page |-> 0, offset |-> 0, src |-> 0, left |-> 0, done |-> 0,
               status |-> "error", lost |-> FALSE]
  BY DEF Init, F!Init
<1>2. \A b \in F!Byte : <<0, b>> \in Content /\ <<0, b>> # <<>>
  BY PageView DEF Content
<1>3. op \in Operation
  <2>1. 0 \in 0 .. PageSize - 1 /\ 0 \in 0 .. PageSize \div 2
    BY FlashSizes
  <2> QED
    BY <1>1, <2>1 DEF Operation
<1>4. FlashType
  <2>1. IsFiniteSet(torn)
    BY <1>1, FS_EmptySet
  <2>2. op.size = op.asked + (op.asked % 2)
    BY <1>1
  <2>3. buf \in [0 .. PageSize - 1 -> Content]
    BY <1>1 DEF F!Cleared, Content
  <2> QED
    BY <1>1, <1>2, <1>3, <2>1, <2>2, <2>3 DEF FlashType
<1>5. AtPage /\ Passed /\ Over
  BY <1>1 DEF AtPage, Passed, Over
<1>6. Losses
  <2>1. Cardinality(torn) <= losses
    BY <1>1, FS_EmptySet
  <2> QED
    BY <1>1, <1>2, <2>1 DEF Losses, F!Erased
<1> QED
  BY <1>4, <1>5, <1>6 DEF Rewriting

LEMMA NextRewrites == ASSUME Rewriting, [Next]_vars PROVE Rewriting'
<1>1. CASE UNCHANGED flashVars
  BY <1>1, SameRewriting
<1>2. ASSUME NEW r \in FlashRequests, F!Request(r) PROVE Rewriting'
  BY <1>2, RequestRewrites
<1>3. CASE F!Fill
  BY <1>3, FillRewrites
<1>4. ASSUME NEW busy \in BOOLEAN, F!Erase(busy) PROVE Rewriting'
  BY <1>4, EraseRewrites
<1>5. CASE F!Program
  BY <1>5, ProgramRewrites
<1>6. CASE F!Return
  BY <1>6, ReturnRewrites
<1>7. CASE F!Reset
  BY <1>7, ResetRewrites
<1> QED
  BY <1>1, <1>2, <1>3, <1>4, <1>5, <1>6, <1>7, FlashSteps DEF F!Next

LEMMA RewritingLosesOnePage ==
  ASSUME Rewriting PROVE LosesOnePage /\ F!WrittenIfSuccess
<1>1. F!LosesOnePage /\ F!PagesInTurn
  <2>1. Losses /\ Passed
    BY DEF Rewriting
  <2>2. F!LosesOnePage
    BY <2>1 DEF Losses, F!LosesOnePage, F!Cardinality, Cardinality
  <2>3. F!PagesInTurn
    BY <2>1 DEF Passed, F!PagesInTurn
  <2> QED
    BY <2>2, <2>3
<1>2. F!WrittenIfSuccess
  <2> SUFFICES ASSUME op.pc = "return", op.status = "success", ~op.lost,
                      NEW b \in F!Byte, b \in op.at .. op.at + op.asked - 1
               PROVE  flash[b] = <<op.id, b - op.at>>
    BY DEF F!WrittenIfSuccess
  <2>1. /\ op.at \in Nat /\ op.asked \in Nat /\ op.id > 0
        /\ op.size = op.asked + (op.asked % 2)
    BY DEF Rewriting, FlashType, Operation, Losses
  <2>2. op.asked % 2 \in Nat
    BY <2>1
  <2>3. b \in op.at .. op.at + op.size - 1
        /\ b \in op.at .. op.at + op.asked + (op.asked % 2) - 1
    BY <2>1, <2>2
  <2>4. flash[b] = F!Wanted(b)
    BY <2>1, <2>3 DEF Rewriting, Over, Passed
  <2> QED
    BY <2>3, <2>4 DEF F!Wanted
<1> QED
  BY <1>1, <1>2 DEF LosesOnePage

\* A reset or a busy flash at any step of a write loses the page that is being
\* rewritten and no other, for flashes and requests of any size: the pages
\* before it hold what was asked for, those behind it are as they were
\* (driver_FLASH.c:72-89).
THEOREM LosesAtMostOnePage == Spec => []LosesOnePage
<1>1. Init => Rewriting
  BY InitRewriting
<1>2. Rewriting /\ [Next]_vars => Rewriting'
  BY NextRewrites
<1>3. Rewriting => LosesOnePage
  BY RewritingLosesOnePage
<1> QED
  BY <1>1, <1>2, <1>3, PTL DEF Spec


-----------------------------------------------------------------------------
\* DeviceDriver.

States == {"asked", "running", "ok", "failed", "refused", "lost"}
Notification == [to : Devices \cup {NONE}, kind : D!Kinds]
Entries == [by : D!Users, on : {"none"} \cup D!Channels, how : {"sync", "asyn"},
            state : States, notes : SUBSET Notification, taken : BOOLEAN,
            wants : SUBSET D!Kinds]

DeviceType ==
  /\ dev \in [Devices -> [D!Kinds -> BOOLEAN]]
  /\ channel \in [D!Channels -> [call : [D!Kinds -> Devices \cup {NONE}],
                                 en : BOOLEAN, job : Nat]]
  /\ at \in [D!Users -> [pc : {"idle", "test", "claim", "refused"}, id : Nat]]
  /\ requests \in Seq(Entries)

\* A user is at a request of its own that is not started or told yet.
Asking(u) ==
  LET i == at[u].id
  IN at[u].pc # "idle" => /\ i \in 1 .. Len(requests)
                          /\ requests[i].by = u /\ requests[i].state = "asked"

\* An enabled channel has a request that is not told yet.
Busy(c) ==
  LET i == channel[c].job
  IN /\ i \in 0 .. Len(requests)
     /\ channel[c].en => /\ i \in 1 .. Len(requests)
                         /\ requests[i].on = c /\ requests[i].state = "running"

Open(i) == requests[i].state \in {"asked", "running"}

\* As long as a request is open, its channel has its functions or those of the
\* request that took them; when it has been told it is closed.
Told(i) ==
  LET r == requests[i]
  IN /\ r.state = "running" => channel[r.on].en /\ channel[r.on].job = i
     /\ Open(i) => /\ r.notes = {} /\ r.how = "asyn" /\ r.on \in D!Channels
                   /\ r.taken \/ r.by = Printer \/
                        \A k \in D!Kinds : channel[r.on].call[k] \in {r.by, NONE}
     /\ r.notes = {} \/ \E note \in Notification : r.notes = {note}
     /\ \A note \in r.notes :
          /\ note.to = r.by \/ r.taken \/ r.by = Printer
          /\ note.kind = "complete" <=>
               /\ r.state = "ok"
               /\ ~(r.how = "sync" /\ "complete" \notin r.wants)

Telling == /\ DeviceType
           /\ \A u \in D!Users : Asking(u)
           /\ \A c \in D!Channels : Busy(c)
           /\ \A i \in 1 .. Len(requests) : Told(i)


LEMMA DeviceSteps == ASSUME [Next]_vars PROVE UNCHANGED deviceVars \/ D!Next
  BY DEF Next, vars, deviceVars

LEMMA UsersAre ==
  /\ Devices \subseteq D!Users /\ Printer \in D!Users
  /\ Printer \notin Devices /\ NONE \notin Devices
  /\ D!Kinds = {"complete", "error"} /\ D!Channels = {"rx", "tx"}
  BY DeviceAssumption DEF D!DevicesAssumption, D!Users, D!Kinds, D!Channels

LEMMA FunctionsAre ==
  ASSUME DeviceType, NEW d \in Devices
  PROVE  /\ D!Functions(d) \in [D!Kinds -> Devices \cup {NONE}]
         /\ \A k \in D!Kinds : D!Functions(d)[k] = IF dev[d][k] THEN d ELSE NONE
  BY DEF D!Functions

\* An entry with the notification of a function, if there is one.
Noted(r, d, k) ==
  IF d = NONE THEN r
  ELSE [r EXCEPT !.notes = @ \cup {[to |-> d, kind |-> k]}]

LEMMA CalledView ==
  ASSUME NEW l \in Seq(Entries), NEW j \in 1 .. Len(l),
         NEW d \in Devices \cup {NONE}, NEW k \in D!Kinds
  PROVE  /\ D!Called(l, j, d, k) \in Seq(Entries)
         /\ Len(D!Called(l, j, d, k)) = Len(l)
         /\ \A i \in 1 .. Len(l) : i # j => D!Called(l, j, d, k)[i] = l[i]
         /\ D!Called(l, j, d, k)[j] = Noted(l[j], d, k)
<1>1. l[j] \in Entries
  OBVIOUS
<1>2. CASE d = NONE
  <2>1. D!Called(l, j, d, k) = l
    BY <1>2 DEF D!Called
  <2> QED
    BY <1>2, <2>1 DEF Noted
<1>3. CASE d # NONE
  <2>1. PICK v : v = [l[j] EXCEPT !.notes = @ \cup {[to |-> d, kind |-> k]}]
    OBVIOUS
  <2>2. v \in Entries
    BY <1>1, <2>1 DEF Entries, Notification
  <2>3. D!Called(l, j, d, k) = [l EXCEPT ![j] = v]
    BY <1>3, <2>1 DEF D!Called
  <2>4. /\ [l EXCEPT ![j] = v] \in Seq(Entries)
        /\ Len([l EXCEPT ![j] = v]) = Len(l) /\ [l EXCEPT ![j] = v][j] = v
        /\ \A i \in 1 .. Len(l) : i # j => [l EXCEPT ![j] = v][i] = l[i]
    BY <2>2
  <2> QED
    BY <1>3, <2>1, <2>3, <2>4 DEF Noted
<1> QED
  BY <1>2, <1>3

\* A step that leaves the channels and the users alone, and appends a request.
LEMMA SyncTells ==
  ASSUME Telling, NEW d \in Devices, NEW ok \in BOOLEAN, D!Sync(d, ok)
  PROVE  Telling'
<1>0. PICK k, e, n : /\ k = D!KindOf(d, ok) /\ n = Len(requests) + 1
                     /\ e = D!Entry(d, "none", "sync",
                                    IF ok THEN "ok" ELSE "failed")
  OBVIOUS
<1>1. /\ DeviceType /\ UNCHANGED <<dev, channel, at>>
      /\ requests' = D!Called(Append(requests, e), n, D!Functions(d)[k], k)
  BY <1>0 DEF Telling, D!Sync
<1>2. /\ k \in D!Kinds
      /\ k = "complete" <=> ok /\ dev[d]["complete"]
      /\ D!Functions(d)[k] = IF dev[d][k] THEN d ELSE NONE
      /\ D!Functions(d)[k] \in Devices \cup {NONE}
  BY <1>0, <1>1, FunctionsAre, UsersAre DEF D!KindOf
<1>3. /\ e \in Entries /\ e.by = d /\ e.how = "sync" /\ e.notes = {}
      /\ e.state = IF ok THEN "ok" ELSE "failed"
      /\ e.wants = {j \in D!Kinds : dev[d][j]}
  <2>1. PICK state : state = IF ok THEN "ok" ELSE "failed"
    OBVIOUS
  <2>2. /\ state \in States /\ d \in D!Users /\ d # Printer
        /\ "none" \in {"none"} \cup D!Channels
    BY <2>1, UsersAre DEF States
  <2>3. e = D!Entry(d, "none", "sync", state)
    BY <1>0, <2>1
  <2>4. PICK wants : wants = {j \in D!Kinds : dev[d][j]}
    OBVIOUS
  <2>5. e = [by |-> d, on |-> "none", how |-> "sync", state |-> state,
             notes |-> {}, taken |-> FALSE, wants |-> wants]
    BY <2>2, <2>3, <2>4 DEF D!Entry
  <2>6. wants \in SUBSET D!Kinds
    BY <2>4
  <2>7. e \in Entries
    BY <2>2, <2>5, <2>6 DEF Entries
  <2>8. /\ e.by = d /\ e.how = "sync" /\ e.notes = {} /\ e.state = state
        /\ e.wants = wants
    BY <2>5
  <2> QED
    BY <2>1, <2>4, <2>7, <2>8
<1>4. /\ requests' \in Seq(Entries) /\ Len(requests') = n
      /\ n \in Nat /\ n \notin 1 .. Len(requests)
      /\ \A i \in 1 .. Len(requests) : requests'[i] = requests[i] /\ i \in 1 .. n
      /\ \A i \in 1 .. n : i = n \/ i \in 1 .. Len(requests)
      /\ requests'[n] = Noted(e, D!Functions(d)[k], k)
  <2>1. requests \in Seq(Entries) /\ Len(requests) \in Nat
    BY <1>1 DEF DeviceType
  <2>2. /\ Append(requests, e) \in Seq(Entries) /\ Len(Append(requests, e)) = n
        /\ \A i \in 1 .. Len(requests) : Append(requests, e)[i] = requests[i]
        /\ Append(requests, e)[n] = e /\ n \in 1 .. n
    BY <1>0, <1>3, <2>1, AppendView
  <2>3. /\ \A i \in 1 .. Len(requests) : i # n /\ i \in 1 .. n
        /\ \A i \in 1 .. n : i = n \/ i \in 1 .. Len(requests)
        /\ n \in Nat /\ n \notin 1 .. Len(requests)
    BY <1>0, <2>1
  <2>4. PICK l : l = Append(requests, e)
    OBVIOUS
  <2>5. PICK f : f = D!Functions(d)[k]
    OBVIOUS
  <2>6. l \in Seq(Entries) /\ n \in 1 .. Len(l) /\ f \in Devices \cup {NONE}
    BY <1>2, <2>2, <2>4, <2>5
  <2>7. /\ D!Called(l, n, f, k) \in Seq(Entries)
        /\ Len(D!Called(l, n, f, k)) = Len(l)
        /\ \A i \in 1 .. Len(l) : i # n => D!Called(l, n, f, k)[i] = l[i]
        /\ D!Called(l, n, f, k)[n] = Noted(l[n], f, k)
    BY <1>2, <2>6, CalledView
  <2>8. requests' = D!Called(l, n, f, k)
    BY <1>1, <2>4, <2>5
  <2> QED
    BY <2>2, <2>3, <2>4, <2>5, <2>7, <2>8
<1>5. DeviceType'
  BY <1>1, <1>4 DEF DeviceType
<1>6. \A u \in D!Users : Asking(u)'
  BY <1>1, <1>4 DEF Telling, Asking
<1>7. \A c \in D!Channels : Busy(c)'
  BY <1>1, <1>4 DEF Telling, Busy
<1>8. \A i \in 1 .. Len(requests) : Told(i)'
  BY <1>1, <1>4 DEF Telling, Told, Open
<1>9. Told(n)'
  <2>1. /\ requests'[n].by = d /\ requests'[n].how = "sync"
        /\ requests'[n].state = IF ok THEN "ok" ELSE "failed"
        /\ requests'[n].wants = {j \in D!Kinds : dev[d][j]}
        /\ requests'[n].notes = IF D!Functions(d)[k] = NONE THEN {}
             ELSE {[to |-> D!Functions(d)[k], kind |-> k]}
    BY <1>3, <1>4 DEF Entries, Noted
  <2>2. CASE D!Functions(d)[k] = NONE
    BY <2>1, <2>2 DEF Told, Open
  <2>3. CASE D!Functions(d)[k] # NONE
    <3>1. requests'[n].notes = {[to |-> d, kind |-> k]}
      BY <1>2, <2>1, <2>3
    <3>2. [to |-> d, kind |-> k] \in Notification
      BY <1>2 DEF Notification
    <3>3. k = "complete" <=> /\ requests'[n].state = "ok"
                             /\ "complete" \in requests'[n].wants
      BY <1>2, <2>1, UsersAre
    <3> QED
      BY <2>1, <3>1, <3>2, <3>3 DEF Told, Open
  <2> QED
    BY <2>2, <2>3
<1> QED
  BY <1>4, <1>5, <1>6, <1>7, <1>8, <1>9 DEF Telling


LEMMA RecordIsEntry ==
  ASSUME NEW u \in D!Users, NEW c \in {"none"} \cup D!Channels,
         NEW how \in {"sync", "asyn"}, NEW state \in States,
         NEW wants \in SUBSET D!Kinds
  PROVE  [by |-> u, on |-> c, how |-> how, state |-> state, notes |-> {},
          taken |-> FALSE, wants |-> wants] \in Entries
  BY DEF Entries

LEMMA AskedEntry ==
  ASSUME NEW u \in D!Users, NEW c \in D!Channels,
         NEW e, e = D!Entry(u, c, "asyn", "asked")
  PROVE  /\ e \in Entries /\ e.by = u /\ e.on = c /\ e.how = "asyn"
         /\ e.state = "asked" /\ e.notes = {} /\ ~e.taken
<1>1. PICK wants : wants = IF u = Printer THEN {} ELSE {k \in D!Kinds : dev[u][k]}
  OBVIOUS
<1>2. wants \in SUBSET D!Kinds
  BY <1>1
<1>3. e = [by |-> u, on |-> c, how |-> "asyn", state |-> "asked",
           notes |-> {}, taken |-> FALSE, wants |-> wants]
  BY <1>1 DEF D!Entry
<1>4. /\ "asked" \in States /\ "asyn" \in {"sync", "asyn"}
      /\ c \in {"none"} \cup D!Channels
  BY DEF States
<1>5. e \in Entries
  BY <1>2, <1>3, <1>4, RecordIsEntry
<1> QED
  BY <1>3, <1>5

\* A request that is appended does not disturb the others.
LEMMA AppendedView ==
  ASSUME NEW T, NEW l \in Seq(T), NEW e \in T, NEW n, n = Len(l) + 1
  PROVE  /\ Append(l, e) \in Seq(T) /\ Len(Append(l, e)) = n
         /\ \A i \in 1 .. Len(l) :
              Append(l, e)[i] = l[i] /\ i \in 1 .. n /\ i # n
         /\ Append(l, e)[n] = e /\ n \in 1 .. n /\ n \in Nat
         /\ \A i \in 1 .. n : i = n \/ i \in 1 .. Len(l)
<1>1. /\ Append(l, e) \in Seq(T) /\ Len(Append(l, e)) = Len(l) + 1
      /\ \A i \in 1 .. Len(l) + 1 :
           Append(l, e)[i] = IF i = Len(l) + 1 THEN e ELSE l[i]
  BY AppendView
<1>2. Len(l) \in Nat
  OBVIOUS
<1>3. /\ \A i \in 1 .. Len(l) : i \in 1 .. Len(l) + 1 /\ i # Len(l) + 1
      /\ \A i \in 1 .. Len(l) + 1 : i = Len(l) + 1 \/ i \in 1 .. Len(l)
      /\ Len(l) + 1 \in 1 .. Len(l) + 1 /\ Len(l) + 1 \in Nat
  BY <1>2
<1> QED
  BY <1>1, <1>3

LEMMA BeginTells ==
  ASSUME Telling, NEW d \in Devices, NEW c \in D!Channels, D!Begin(d, c)
  PROVE  Telling'
<1>0. PICK e, n, gone, marked :
        /\ n = Len(requests) + 1 /\ e = D!Entry(d, c, "asyn", "asked")
        /\ gone = D!Replaced(c, D!Functions(d))
        /\ marked = [i \in DOMAIN requests |->
                       [requests[i] EXCEPT !.taken = @ \/ i \in gone]]
  OBVIOUS
<1>1. /\ DeviceType /\ dev' = dev
      /\ channel' = [channel EXCEPT ![c].call = D!Functions(d)]
      /\ at' = [at EXCEPT ![d] = [pc |-> "test", id |-> n]]
      /\ requests' = Append(marked, e)
  BY <1>0 DEF Telling, D!Begin, D!Installed
<1>2. /\ e \in Entries /\ e.by = d /\ e.on = c /\ e.how = "asyn"
      /\ e.state = "asked" /\ e.notes = {} /\ e.taken = FALSE
  <2>1. d \in D!Users /\ e = D!Entry(d, c, "asyn", "asked")
    BY <1>0, UsersAre
  <2> QED
    BY <2>1, AskedEntry
<1>3. requests \in Seq(Entries) /\ DOMAIN requests = 1 .. Len(requests)
      /\ Len(requests) \in Nat
  BY <1>1 DEF DeviceType
<1>4. /\ marked \in Seq(Entries) /\ Len(marked) = Len(requests)
      /\ \A i \in 1 .. Len(requests) :
           marked[i] = [requests[i] EXCEPT !.taken = @ \/ i \in gone]
  <2>1. \A i \in 1 .. Len(requests) :
          [requests[i] EXCEPT !.taken = @ \/ i \in gone] \in Entries
    <3> SUFFICES ASSUME NEW i \in 1 .. Len(requests)
                 PROVE  [requests[i] EXCEPT !.taken = @ \/ i \in gone] \in Entries
      OBVIOUS
    <3>1. PICK taken \in BOOLEAN : taken = (requests[i].taken \/ i \in gone)
      OBVIOUS
    <3>2. requests[i] \in Entries
      BY <1>3
    <3>3. [requests[i] EXCEPT !.taken = taken] \in Entries
      BY <3>2 DEF Entries
    <3> QED
      BY <3>1, <3>3
  <2>2. marked \in [1 .. Len(requests) -> Entries]
    BY <1>0, <1>3, <2>1
  <2> QED
    BY <1>0, <1>3, <2>2
<1>5. /\ requests' \in Seq(Entries) /\ Len(requests') = n
      /\ \A i \in 1 .. Len(requests) :
           requests'[i] = marked[i] /\ i \in 1 .. n /\ i # n
      /\ requests'[n] = e /\ n \in 1 .. n /\ n \in Nat
      /\ \A i \in 1 .. n : i = n \/ i \in 1 .. Len(requests)
  <2>1. n = Len(marked) + 1
    BY <1>0, <1>4
  <2> QED
    BY <1>1, <1>2, <1>4, <2>1, AppendedView
<1>6. \A i \in 1 .. Len(requests) :
        /\ requests'[i].by = requests[i].by /\ requests'[i].on = requests[i].on
        /\ requests'[i].how = requests[i].how
        /\ requests'[i].state = requests[i].state
        /\ requests'[i].notes = requests[i].notes
        /\ requests'[i].wants = requests[i].wants
        /\ requests[i].taken => requests'[i].taken
        /\ i \in gone => requests'[i].taken
  <2> SUFFICES ASSUME NEW i \in 1 .. Len(requests)
               PROVE
        /\ requests'[i].by = requests[i].by /\ requests'[i].on = requests[i].on
        /\ requests'[i].how = requests[i].how
        /\ requests'[i].state = requests[i].state
        /\ requests'[i].notes = requests[i].notes
        /\ requests'[i].wants = requests[i].wants
        /\ requests[i].taken => requests'[i].taken
        /\ i \in gone => requests'[i].taken
    OBVIOUS
  <2>1. requests'[i] = [requests[i] EXCEPT !.taken = @ \/ i \in gone]
    BY <1>4, <1>5
  <2>2. requests[i] \in Entries
    BY <1>3
  <2>3. requests'[i].taken = (requests[i].taken \/ i \in gone)
    BY <2>1, <2>2 DEF Entries
  <2>4. (requests[i].taken => requests'[i].taken)
        /\ (i \in gone => requests'[i].taken)
    BY <2>3, Zenon
  <2> QED
    BY <2>1, <2>2, <2>4 DEF Entries
<1>7. /\ D!Functions(d) \in [D!Kinds -> Devices \cup {NONE}]
      /\ \A k \in D!Kinds : D!Functions(d)[k] \in {d, NONE}
  BY <1>1, FunctionsAre
<1>8. /\ \A c2 \in D!Channels : /\ channel'[c2].en = channel[c2].en
                                /\ channel'[c2].job = channel[c2].job
                                /\ c2 # c => channel'[c2] = channel[c2]
      /\ channel'[c].call = D!Functions(d)
      /\ channel' \in [D!Channels -> [call : [D!Kinds -> Devices \cup {NONE}],
                                      en : BOOLEAN, job : Nat]]
  BY <1>1, <1>7 DEF DeviceType
<1>9. DeviceType'
  <2>1. at' \in [D!Users -> [pc : {"idle", "test", "claim", "refused"},
                             id : Nat]]
    BY <1>1, <1>5, UsersAre DEF DeviceType
  <2> QED
    BY <1>1, <1>5, <1>8, <2>1 DEF DeviceType
<1>10. \A u \in D!Users : Asking(u)'
  <2>1. Asking(d)'
    <3>1. at'[d] = [pc |-> "test", id |-> n]
      BY <1>1, UsersAre DEF DeviceType
    <3> QED
      BY <1>2, <1>5, <3>1 DEF Asking
  <2>2. ASSUME NEW u \in D!Users, u # d PROVE Asking(u)'
    <3>1. at'[u] = at[u] /\ Asking(u)
      BY <1>1, <2>2 DEF Telling, DeviceType
    <3> QED
      BY <1>5, <1>6, <3>1 DEF Asking
  <2> QED
    BY <2>1, <2>2
<1>11. ASSUME NEW c2 \in D!Channels PROVE Busy(c2)'
  <2>1. /\ Busy(c2) /\ channel'[c2].en = channel[c2].en
        /\ channel'[c2].job = channel[c2].job
    BY <1>8 DEF Telling
  <2>2. \A i \in 0 .. Len(requests) : i \in 0 .. n
    BY <1>0, <1>3
  <2> QED
    BY <1>5, <1>6, <2>1, <2>2 DEF Busy
<1>12. ASSUME NEW i \in 1 .. Len(requests) PROVE Told(i)'
  <2>1. Told(i) /\ requests[i] \in Entries
    BY <1>3 DEF Telling
  <2>2. Open(i)' <=> Open(i)
    BY <1>6 DEF Open
  <2>3. requests'[i].state = "running" =>
          channel'[requests'[i].on].en /\ channel'[requests'[i].on].job = i
    <3>1. requests[i].state = "running" => Open(i)
      BY DEF Open
    <3> QED
      BY <1>6, <1>8, <2>1, <3>1 DEF Told
  <2>4. ASSUME Open(i), ~requests'[i].taken, requests[i].by # Printer
        PROVE  \A k \in D!Kinds :
                 channel'[requests[i].on].call[k] \in {requests[i].by, NONE}
    <3>1. /\ ~requests[i].taken /\ i \notin gone /\ requests[i].how = "asyn"
          /\ requests[i].on \in D!Channels
          /\ \A k \in D!Kinds :
               channel[requests[i].on].call[k] \in {requests[i].by, NONE}
      BY <1>6, <2>1, <2>4 DEF Told
    <3>2. CASE requests[i].on = c
      <4>1. D!Functions(d) = channel[c].call
        BY <1>0, <1>3, <2>4, <3>1, <3>2 DEF D!Replaced, Open
      <4> QED
        BY <1>8, <3>1, <3>2, <4>1
    <3>3. CASE requests[i].on # c
      BY <1>8, <3>1, <3>3
    <3> QED
      BY <3>2, <3>3
  <2> QED
    BY <1>6, <2>1, <2>2, <2>3, <2>4 DEF Told
<1>13. Told(n)'
  BY <1>2, <1>5, <1>7, <1>8 DEF Told, Open
<1> QED
  BY <1>5, <1>9, <1>10, <1>11, <1>12, <1>13 DEF Telling

LEMMA PrintTells == ASSUME Telling, D!PrintDirectly PROVE Telling'
<1>0. PICK e, n : n = Len(requests) + 1
                  /\ e = D!Entry(Printer, "tx", "asyn", "asked")
  OBVIOUS
<1>1. /\ DeviceType /\ UNCHANGED <<dev, channel>>
      /\ at' = [at EXCEPT ![Printer] = [pc |-> "test", id |-> n]]
      /\ requests' = Append(requests, e)
  BY <1>0 DEF Telling, D!PrintDirectly
<1>2. /\ e \in Entries /\ e.by = Printer /\ e.on = "tx" /\ e.how = "asyn"
      /\ e.state = "asked" /\ e.notes = {} /\ e.taken = FALSE
  <2>1. Printer \in D!Users /\ "tx" \in D!Channels
    BY UsersAre
  <2>2. e = D!Entry(Printer, "tx", "asyn", "asked")
    BY <1>0
  <2> QED
    BY <2>1, <2>2, AskedEntry
<1>3. /\ requests' \in Seq(Entries) /\ Len(requests') = n
      /\ \A i \in 1 .. Len(requests) :
           requests'[i] = requests[i] /\ i \in 1 .. n /\ i # n
      /\ requests'[n] = e /\ n \in 1 .. n /\ n \in Nat
      /\ \A i \in 1 .. n : i = n \/ i \in 1 .. Len(requests)
  <2>1. requests \in Seq(Entries)
    BY <1>1 DEF DeviceType
  <2> QED
    BY <1>0, <1>1, <1>2, <2>1, AppendedView
<1>4. DeviceType'
  BY <1>1, <1>3, UsersAre DEF DeviceType
<1>5. \A u \in D!Users : Asking(u)'
  <2>1. Asking(Printer)'
    <3>1. at'[Printer] = [pc |-> "test", id |-> n]
      BY <1>1, UsersAre DEF DeviceType
    <3> QED
      BY <1>2, <1>3, <3>1 DEF Asking
  <2>2. ASSUME NEW u \in D!Users, u # Printer PROVE Asking(u)'
    <3>1. at'[u] = at[u] /\ Asking(u)
      BY <1>1, <2>2 DEF Telling, DeviceType
    <3> QED
      BY <1>3, <3>1 DEF Asking
  <2> QED
    BY <2>1, <2>2
<1>6. \A c \in D!Channels : Busy(c)'
  BY <1>1, <1>3 DEF Telling, Busy
<1>7. \A i \in 1 .. Len(requests) : Told(i)'
  BY <1>1, <1>3 DEF Telling, Told, Open
<1>8. Told(n)'
  BY <1>2, <1>3, UsersAre DEF Told, Open
<1> QED
  BY <1>3, <1>4, <1>5, <1>6, <1>7, <1>8 DEF Telling

-----------------------------------------------------------------------------
\* The requests when one of them gets another state.
Moved(l, j, s) == [l EXCEPT ![j].state = s]

LEMMA MovedView ==
  ASSUME NEW l \in Seq(Entries), NEW j \in 1 .. Len(l), NEW s \in States
  PROVE  /\ Moved(l, j, s) \in Seq(Entries) /\ Len(Moved(l, j, s)) = Len(l)
         /\ \A i \in 1 .. Len(l) : i # j => Moved(l, j, s)[i] = l[i]
         /\ Moved(l, j, s)[j] = [l[j] EXCEPT !.state = s]
<1>1. l[j] \in Entries
  OBVIOUS
<1>2. PICK v : v = [l[j] EXCEPT !.state = s]
  OBVIOUS
<1>3. v \in Entries
  BY <1>1, <1>2 DEF Entries
<1>4. Moved(l, j, s) = [l EXCEPT ![j] = v]
  BY <1>2 DEF Moved
<1>5. /\ [l EXCEPT ![j] = v] \in Seq(Entries)
      /\ Len([l EXCEPT ![j] = v]) = Len(l) /\ [l EXCEPT ![j] = v][j] = v
      /\ \A i \in 1 .. Len(l) : i # j => [l EXCEPT ![j] = v][i] = l[i]
  BY <1>3
<1> QED
  BY <1>2, <1>4, <1>5

\* An open request that ends, and whose device is told what happened by the
\* functions in its channel, or its own.
LEMMA EndTells ==
  ASSUME Telling, NEW j \in 1 .. Len(requests), Open(j),
         NEW s \in {"ok", "failed", "refused"}, NEW d \in Devices \cup {NONE},
         NEW k \in D!Kinds, k = "complete" <=> s = "ok",
         \/ d \in {requests[j].by, NONE}
         \/ requests[j].taken \/ requests[j].by = Printer,
         requests' = D!Called(Moved(requests, j, s), j, d, k)
  PROVE  /\ requests' \in Seq(Entries) /\ Len(requests') = Len(requests)
         /\ \A i \in 1 .. Len(requests) : i # j => requests'[i] = requests[i]
         /\ Told(j)'
<1>1. requests \in Seq(Entries) /\ s \in States /\ Told(j) /\ requests[j] \in Entries
  BY DEF Telling, DeviceType, States
<1>2. PICK l : l = Moved(requests, j, s)
  OBVIOUS
<1>3. /\ l \in Seq(Entries) /\ Len(l) = Len(requests)
      /\ \A i \in 1 .. Len(requests) : i # j => l[i] = requests[i]
      /\ l[j] = [requests[j] EXCEPT !.state = s]
  BY <1>1, <1>2, MovedView
<1>4. /\ requests' \in Seq(Entries) /\ Len(requests') = Len(requests)
      /\ \A i \in 1 .. Len(requests) : i # j => requests'[i] = requests[i]
      /\ requests'[j] = Noted(l[j], d, k)
  <2>1. l \in Seq(Entries) /\ j \in 1 .. Len(l)
    BY <1>3
  <2>2. /\ D!Called(l, j, d, k) \in Seq(Entries)
        /\ Len(D!Called(l, j, d, k)) = Len(l)
        /\ \A i \in 1 .. Len(l) : i # j => D!Called(l, j, d, k)[i] = l[i]
        /\ D!Called(l, j, d, k)[j] = Noted(l[j], d, k)
    BY <2>1, CalledView
  <2>3. requests' = D!Called(l, j, d, k)
    BY <1>2
  <2> QED
    BY <1>3, <2>2, <2>3
<1>5. /\ requests[j].notes = {} /\ requests[j].how = "asyn"
      /\ requests[j].on \in D!Channels
  BY <1>1 DEF Told
<1>6. /\ requests'[j].by = requests[j].by /\ requests'[j].how = "asyn"
      /\ requests'[j].state = s /\ requests'[j].taken = requests[j].taken
      /\ requests'[j].notes = IF d = NONE THEN {}
                              ELSE {[to |-> d, kind |-> k]}
  <2>1. /\ l[j] \in Entries /\ l[j].by = requests[j].by /\ l[j].how = "asyn"
        /\ l[j].state = s /\ l[j].taken = requests[j].taken /\ l[j].notes = {}
    BY <1>1, <1>3, <1>5 DEF Entries
  <2>2. PICK r : r = l[j]
    OBVIOUS
  <2>3. CASE d = NONE
    BY <1>4, <2>1, <2>3 DEF Noted
  <2>4. CASE d # NONE
    <3>1. requests'[j] = [r EXCEPT !.notes = @ \cup {[to |-> d, kind |-> k]}]
      BY <1>4, <2>2, <2>4 DEF Noted
    <3> QED
      BY <2>1, <2>2, <2>4, <3>1 DEF Entries
  <2> QED
    BY <2>3, <2>4
<1>7. CASE d = NONE
  BY <1>4, <1>6, <1>7 DEF Told, Open
<1>8. CASE d # NONE
  <2>1. [to |-> d, kind |-> k] \in Notification
    BY DEF Notification
  <2>2. d = requests[j].by \/ requests[j].taken \/ requests[j].by = Printer
    BY <1>8
  <2> QED
    BY <1>4, <1>6, <1>8, <2>1, <2>2 DEF Told, Open
<1> QED
  BY <1>4, <1>7, <1>8

LEMMA RefusedTells ==
  ASSUME Telling, NEW u \in D!Users, D!Refused(u) PROVE Telling'
<1>0. PICK j : j = at[u].id
  OBVIOUS
<1>1. /\ DeviceType /\ UNCHANGED <<dev, channel>>
      /\ at' = [at EXCEPT ![u] = [pc |-> "idle", id |-> 0]]
      /\ at[u].pc = "refused"
  BY DEF Telling, D!Refused, D!Idle
<1>2. /\ j \in 1 .. Len(requests) /\ requests[j].by = u
      /\ requests[j].state = "asked" /\ Open(j)
  BY <1>0, <1>1 DEF Telling, Asking, Open
<1>3. PICK d \in Devices \cup {NONE} :
        /\ d \in {u, NONE}
        /\ requests' = D!Called(Moved(requests, j, "refused"), j, d, "error")
  <2>1. CASE u = Printer
    BY <1>0, <2>1 DEF D!Refused, Moved, D!Called
  <2>2. CASE u # Printer
    <3>1. u \in Devices /\ "error" \in D!Kinds
      BY <2>2, UsersAre DEF D!Users
    <3>2. D!Functions(u)["error"] \in {u, NONE}
      BY <1>1, <3>1, FunctionsAre
    <3>3. requests' = D!Called(Moved(requests, j, "refused"), j,
                               D!Functions(u)["error"], "error")
      BY <1>0, <2>2 DEF D!Refused, Moved
    <3> QED
      BY <3>1, <3>2, <3>3
  <2> QED
    BY <2>1, <2>2
<1>4. /\ requests' \in Seq(Entries) /\ Len(requests') = Len(requests)
      /\ \A i \in 1 .. Len(requests) : i # j => requests'[i] = requests[i]
      /\ Told(j)'
  <2>1. "error" \in D!Kinds /\ "refused" \in {"ok", "failed", "refused"}
    BY UsersAre
  <2>2. \/ d \in {requests[j].by, NONE}
        \/ requests[j].taken \/ requests[j].by = Printer
    BY <1>2, <1>3
  <2> QED
    BY <1>2, <1>3, <2>1, <2>2, EndTells
<1>5. DeviceType'
  BY <1>1, <1>4 DEF DeviceType
<1>6. ASSUME NEW v \in D!Users PROVE Asking(v)'
  <2>1. CASE v = u
    BY <1>1, <2>1 DEF DeviceType, Asking
  <2>2. CASE v # u
    <3>1. at'[v] = at[v] /\ Asking(v)
      BY <1>1, <2>2 DEF Telling, DeviceType
    <3> QED
      BY <1>2, <1>4, <2>2, <3>1 DEF Asking
  <2> QED
    BY <2>1, <2>2
<1>7. \A c \in D!Channels : Busy(c)'
  BY <1>1, <1>2, <1>4 DEF Telling, Busy
<1>8. \A i \in 1 .. Len(requests) : i # j => Told(i)'
  BY <1>1, <1>4 DEF Telling, Told, Open
<1> QED
  BY <1>4, <1>5, <1>6, <1>7, <1>8 DEF Telling


LEMMA InterruptTells ==
  ASSUME Telling, NEW c \in D!Channels, NEW ok \in BOOLEAN, D!Irq(c, ok)
  PROVE  Telling'
<1>0. PICK j, s, k : /\ j = channel[c].job
                     /\ s = IF ok THEN "ok" ELSE "failed"
                     /\ k = IF ok THEN "complete" ELSE "error"
  OBVIOUS
<1>1. /\ DeviceType /\ UNCHANGED <<dev, at>> /\ channel[c].en
      /\ channel' = [channel EXCEPT ![c].en = FALSE]
      /\ requests' = D!Called(Moved(requests, j, s), j, channel[c].call[k], k)
  BY <1>0 DEF Telling, D!Irq, D!Stopped, Moved
<1>2. /\ j \in 1 .. Len(requests) /\ requests[j].on = c
      /\ requests[j].state = "running" /\ Open(j)
  BY <1>0, <1>1 DEF Telling, Busy, Open
<1>3. PICK d \in Devices \cup {NONE} :
        d = channel[c].call[k] /\ k \in D!Kinds
  BY <1>0, <1>1, UsersAre DEF DeviceType
<1>4. /\ requests' \in Seq(Entries) /\ Len(requests') = Len(requests)
      /\ \A i \in 1 .. Len(requests) : i # j => requests'[i] = requests[i]
      /\ Told(j)'
  <2>1. /\ s \in {"ok", "failed", "refused"}
        /\ k = "complete" <=> s = "ok"
    BY <1>0
  <2>2. \/ d \in {requests[j].by, NONE}
        \/ requests[j].taken \/ requests[j].by = Printer
    BY <1>2, <1>3 DEF Telling, Told
  <2>3. requests' = D!Called(Moved(requests, j, s), j, d, k)
    BY <1>1, <1>3
  <2> QED
    BY <1>2, <1>3, <2>1, <2>2, <2>3, EndTells
<1>5. /\ channel' \in [D!Channels -> [call : [D!Kinds -> Devices \cup {NONE}],
                                      en : BOOLEAN, job : Nat]]
      /\ ~channel'[c].en /\ channel'[c].job = channel[c].job
      /\ \A c2 \in D!Channels : c2 # c => channel'[c2] = channel[c2]
      /\ \A c2 \in D!Channels : channel'[c2].call = channel[c2].call
  BY <1>1 DEF DeviceType
<1>6. DeviceType'
  BY <1>1, <1>4, <1>5 DEF DeviceType
<1>7. \A u \in D!Users : Asking(u)'
  BY <1>1, <1>2, <1>4 DEF Telling, Asking
<1>8. ASSUME NEW c2 \in D!Channels PROVE Busy(c2)'
  <2>1. Busy(c2) /\ channel'[c2].job = channel[c2].job
    BY <1>5 DEF Telling
  <2>2. CASE c2 = c
    BY <1>4, <1>5, <2>1, <2>2 DEF Busy
  <2>3. CASE c2 # c
    BY <1>2, <1>4, <1>5, <2>1, <2>3 DEF Busy
  <2> QED
    BY <2>2, <2>3
<1>9. ASSUME NEW i \in 1 .. Len(requests), i # j PROVE Told(i)'
  <2>1. Told(i) /\ requests'[i] = requests[i]
    BY <1>4, <1>9 DEF Telling
  <2>2. requests[i].state = "running" => requests[i].on # c
    BY <1>0, <1>9, <2>1 DEF Told
  <2>3. requests[i].state = "running" => requests[i].on \in D!Channels
    BY <2>1 DEF Told, Open
  <2> QED
    BY <1>5, <2>1, <2>2, <2>3 DEF Told, Open
<1> QED
  BY <1>4, <1>6, <1>7, <1>8, <1>9 DEF Telling

LEMMA ClaimTells ==
  ASSUME Telling, NEW u \in D!Users, D!Claim(u) PROVE Telling'
<1>0. PICK j, c, last, l : /\ j = at[u].id /\ c = requests[j].on
                           /\ last = channel[c].job
                           /\ l = IF channel[c].en
                                  THEN Moved(requests, last, "lost")
                                  ELSE requests
  OBVIOUS
<1>1. /\ DeviceType /\ dev' = dev /\ at[u].pc = "claim"
      /\ at' = [at EXCEPT ![u] = [pc |-> "idle", id |-> 0]]
      /\ channel' = [channel EXCEPT ![c].en = TRUE, ![c].job = j]
      /\ requests' = Moved(l, j, "running")
  BY <1>0 DEF Telling, D!Claim, D!On, D!Idle, Moved
<1>2. /\ j \in 1 .. Len(requests) /\ requests[j].by = u
      /\ requests[j].state = "asked" /\ Open(j) /\ Told(j)
      /\ requests \in Seq(Entries)
  BY <1>0, <1>1 DEF Telling, Asking, Open, DeviceType
<1>3. c \in D!Channels /\ requests[j].how = "asyn" /\ requests[j].notes = {}
  BY <1>0, <1>2 DEF Told
<1>4. channel[c].en => /\ last \in 1 .. Len(requests) /\ last # j
                       /\ requests[last].on = c /\ Told(last)
                       /\ requests[last].state = "running"
  BY <1>0, <1>2, <1>3 DEF Telling, Busy
<1>5. /\ l \in Seq(Entries) /\ Len(l) = Len(requests) /\ l[j] = requests[j]
      /\ \A i \in 1 .. Len(requests) :
           ~(i = last /\ channel[c].en) => l[i] = requests[i]
      /\ channel[c].en => l[last] = [requests[last] EXCEPT !.state = "lost"]
  <2>1. CASE ~channel[c].en
    BY <1>0, <1>2, <2>1
  <2>2. CASE channel[c].en
    <3>1. /\ l = Moved(requests, last, "lost") /\ "lost" \in States
          /\ last \in 1 .. Len(requests)
      BY <1>0, <1>4, <2>2 DEF States
    <3>2. /\ l \in Seq(Entries) /\ Len(l) = Len(requests)
          /\ \A i \in 1 .. Len(requests) : i # last => l[i] = requests[i]
          /\ l[last] = [requests[last] EXCEPT !.state = "lost"]
      BY <1>2, <3>1, MovedView
    <3> QED
      BY <1>2, <1>4, <2>2, <3>2
  <2> QED
    BY <2>1, <2>2
<1>6. /\ requests' \in Seq(Entries) /\ Len(requests') = Len(requests)
      /\ requests'[j] = [requests[j] EXCEPT !.state = "running"]
      /\ \A i \in 1 .. Len(requests) :
           i # j /\ ~(i = last /\ channel[c].en) =>
             requests'[i] = requests[i]
      /\ channel[c].en =>
           requests'[last] = [requests[last] EXCEPT !.state = "lost"]
  <2>1. "running" \in States /\ j \in 1 .. Len(l)
    BY <1>2, <1>5 DEF States
  <2>2. /\ requests' \in Seq(Entries) /\ Len(requests') = Len(l)
        /\ \A i \in 1 .. Len(l) : i # j => requests'[i] = l[i]
        /\ requests'[j] = [l[j] EXCEPT !.state = "running"]
    BY <1>1, <1>5, <2>1, MovedView
  <2> QED
    BY <1>4, <1>5, <2>2
<1>7. /\ channel' \in [D!Channels -> [call : [D!Kinds -> Devices \cup {NONE}],
                                      en : BOOLEAN, job : Nat]]
      /\ channel'[c].en /\ channel'[c].job = j
      /\ \A c2 \in D!Channels : c2 # c => channel'[c2] = channel[c2]
      /\ \A c2 \in D!Channels : channel'[c2].call = channel[c2].call
  <2>1. PICK enabled : enabled = [channel EXCEPT ![c].en = TRUE]
    OBVIOUS
  <2>2. /\ channel' = [enabled EXCEPT ![c].job = j]
        /\ j \in Nat
    BY <1>1, <1>2, <2>1
  <2>3. /\ enabled \in [D!Channels -> [call : [D!Kinds -> Devices \cup {NONE}],
                                      en : BOOLEAN, job : Nat]]
        /\ enabled[c].en /\ enabled[c].call = channel[c].call
        /\ \A c2 \in D!Channels : c2 # c => enabled[c2] = channel[c2]
    BY <1>1, <1>3, <2>1 DEF DeviceType
  <2> QED
    BY <1>3, <2>2, <2>3
<1>8. DeviceType'
  <2>1. at' \in [D!Users -> [pc : {"idle", "test", "claim", "refused"},
                             id : Nat]]
    BY <1>1 DEF DeviceType
  <2> QED
    BY <1>1, <1>6, <1>7, <2>1 DEF DeviceType
<1>9. requests[j] \in Entries /\ (channel[c].en => requests[last] \in Entries)
  BY <1>2, <1>4
<1>10. /\ requests'[j].by = u /\ requests'[j].on = c
       /\ requests'[j].how = "asyn" /\ requests'[j].notes = {}
       /\ requests'[j].state = "running"
       /\ requests'[j].taken = requests[j].taken
  BY <1>0, <1>2, <1>3, <1>6, <1>9 DEF Entries
<1>11. ASSUME NEW v \in D!Users PROVE Asking(v)'
  <2>1. CASE v = u
    BY <1>1, <2>1 DEF DeviceType, Asking
  <2>2. CASE v # u
    <3>1. at'[v] = at[v] /\ Asking(v)
      BY <1>1, <2>2 DEF Telling, DeviceType
    <3> QED
      BY <1>2, <1>4, <1>6, <2>2, <3>1 DEF Asking
  <2> QED
    BY <2>1, <2>2
<1>12. ASSUME NEW c2 \in D!Channels PROVE Busy(c2)'
  <2>1. CASE c2 = c
    <3>1. channel'[c].job = j /\ j \in 1 .. Len(requests')
      BY <1>2, <1>6, <1>7
    <3>2. j \in 0 .. Len(requests')
      BY <3>1
    <3> QED
      BY <1>10, <2>1, <3>1, <3>2 DEF Busy
  <2>2. CASE c2 # c
    <3>1. channel'[c2] = channel[c2] /\ Busy(c2)
      BY <1>7, <2>2 DEF Telling
    <3> QED
      BY <1>2, <1>4, <1>6, <2>2, <3>1 DEF Busy
  <2> QED
    BY <2>1, <2>2
<1>13. ASSUME NEW i \in 1 .. Len(requests) PROVE Told(i)'
  <2>1. CASE i = j
    <3>1. /\ requests[j].taken \/ requests[j].by = Printer \/
               \A k \in D!Kinds : channel[c].call[k] \in {requests[j].by, NONE}
      BY <1>0, <1>2 DEF Told
    <3>2. /\ requests'[j].taken \/ requests'[j].by = Printer \/
               \A k \in D!Kinds :
                 channel'[c].call[k] \in {requests'[j].by, NONE}
      BY <1>2, <1>3, <1>7, <1>10, <3>1
    <3> QED
      BY <1>3, <1>7, <1>10, <2>1, <3>2 DEF Told, Open
  <2>2. CASE i # j /\ i = last /\ channel[c].en
    <3>1. /\ requests'[i].state = "lost" /\ requests'[i].notes = {}
      BY <1>4, <1>6, <1>9, <2>2 DEF Told, Open, Entries
    <3> QED
      BY <3>1 DEF Told, Open
  <2>3. CASE i # j /\ ~(i = last /\ channel[c].en)
    <3>1. Told(i) /\ requests'[i] = requests[i]
      BY <1>6, <2>3 DEF Telling
    <3>2. requests[i].state = "running" =>
            requests[i].on # c /\ requests[i].on \in D!Channels
      BY <1>0, <2>3, <3>1 DEF Told, Open
    <3> QED
      BY <1>7, <3>1, <3>2 DEF Told, Open
  <2> QED
    BY <2>1, <2>2, <2>3
<1> QED
  BY <1>6, <1>8, <1>11, <1>12, <1>13 DEF Telling

LEMMA TestTells ==
  ASSUME Telling, NEW u \in D!Users, NEW quiet \in BOOLEAN, D!Test(u, quiet)
  PROVE  Telling'
<1>1. PICK pc \in {"claim", "refused"} :
        at' = [at EXCEPT ![u].pc = pc]
  BY DEF D!Test, D!Go
<1>2. /\ DeviceType /\ UNCHANGED <<dev, channel, requests>>
      /\ at[u].pc = "test"
  BY DEF Telling, D!Test
<1>3. DeviceType'
  BY <1>1, <1>2 DEF DeviceType
<1>4. \A v \in D!Users : at'[v].id = at[v].id
                         /\ (at'[v].pc # "idle" => at[v].pc # "idle")
  BY <1>1, <1>2 DEF DeviceType
<1>5. \A v \in D!Users : Asking(v)'
  BY <1>2, <1>4 DEF Telling, Asking
<1>6. /\ \A c \in D!Channels : Busy(c)'
      /\ \A i \in 1 .. Len(requests) : Told(i)'
  BY <1>2 DEF Telling, Busy, Told, Open
<1> QED
  BY <1>2, <1>3, <1>5, <1>6 DEF Telling

\* The functions of a device are not those of a channel.
LEMMA FunctionsTell ==
  ASSUME Telling, NEW d \in Devices, NEW kinds \in SUBSET D!Kinds,
         D!driver_func_set(d, kinds) \/ D!driver_func_clear(d, kinds)
  PROVE  Telling'
<1>1. DeviceType /\ UNCHANGED <<channel, at, requests>>
  BY DEF Telling, D!driver_func_set, D!driver_func_clear
<1>2. PICK new \in [D!Kinds -> BOOLEAN] : dev' = [dev EXCEPT ![d] = new]
  <2>1. CASE D!driver_func_set(d, kinds)
    <3>1. PICK new : new = [k \in D!Kinds |-> dev[d][k] \/ k \in kinds]
      OBVIOUS
    <3>2. new \in [D!Kinds -> BOOLEAN]
      BY <3>1
    <3> QED
      BY <1>1, <2>1, <3>1, <3>2 DEF D!driver_func_set, DeviceType
  <2>2. CASE D!driver_func_clear(d, kinds)
    <3>1. PICK new : new = [k \in D!Kinds |-> dev[d][k] /\ k \notin kinds]
      OBVIOUS
    <3>2. new \in [D!Kinds -> BOOLEAN]
      BY <3>1
    <3> QED
      BY <1>1, <2>2, <3>1, <3>2 DEF D!driver_func_clear, DeviceType
  <2> QED
    BY <2>1, <2>2
<1>3. DeviceType'
  BY <1>1, <1>2 DEF DeviceType
<1>4. /\ \A v \in D!Users : Asking(v)'
      /\ \A c \in D!Channels : Busy(c)'
      /\ \A i \in 1 .. Len(requests) : Told(i)'
  BY <1>1 DEF Telling, Asking, Busy, Told, Open
<1> QED
  BY <1>1, <1>3, <1>4 DEF Telling

LEMMA SameTelling == ASSUME Telling, UNCHANGED deviceVars PROVE Telling'
<1>1. UNCHANGED <<dev, channel, at, requests>>
  BY DEF deviceVars
<1>2. DeviceType' /\ \A u \in D!Users : Asking(u)'
  BY <1>1 DEF Telling, DeviceType, Asking
<1>3. \A c \in D!Channels : Busy(c)'
  BY <1>1 DEF Telling, Busy
<1>4. \A i \in 1 .. Len(requests) : Told(i)'
  BY <1>1 DEF Telling, Told, Open
<1> QED
  BY <1>1, <1>2, <1>3, <1>4 DEF Telling

LEMMA InitTelling == ASSUME Init PROVE Telling
<1>1. /\ dev = [d \in Devices |-> [k \in D!Kinds |-> FALSE]]
      /\ channel = [c \in D!Channels |-> [call |-> [k \in D!Kinds |-> NONE],
                                          en |-> FALSE, job |-> 0]]
      /\ at = [u \in D!Users |-> [pc |-> "idle", id |-> 0]]
      /\ requests = <<>>
  BY DEF Init, D!Init, D!Idle
<1>2. DeviceType
  BY <1>1 DEF DeviceType
<1>3. /\ \A v \in D!Users : Asking(v)
      /\ \A c \in D!Channels : Busy(c)
  BY <1>1 DEF Asking, Busy
<1>4. \A i \in 1 .. Len(requests) : Told(i)
  BY <1>1
<1> QED
  BY <1>2, <1>3, <1>4 DEF Telling

LEMMA NextTells == ASSUME Telling, [Next]_vars PROVE Telling'
<1>1. CASE UNCHANGED deviceVars
  BY <1>1, SameTelling
<1>2. ASSUME NEW d \in Devices, NEW kinds \in SUBSET D!Kinds,
             D!driver_func_set(d, kinds) \/ D!driver_func_clear(d, kinds)
      PROVE  Telling'
  BY <1>2, FunctionsTell
<1>3. ASSUME NEW d \in Devices, NEW c \in D!Channels, D!Begin(d, c)
      PROVE  Telling'
  BY <1>3, BeginTells
<1>4. ASSUME NEW d \in Devices, NEW ok \in BOOLEAN, D!Sync(d, ok)
      PROVE  Telling'
  BY <1>4, SyncTells
<1>5. CASE D!PrintDirectly
  BY <1>5, PrintTells
<1>6. ASSUME NEW u \in D!Users, D!Step(u) PROVE Telling'
  BY <1>6, TestTells, ClaimTells, RefusedTells DEF D!Step
<1>7. ASSUME NEW c \in D!Channels, D!Interrupt(c) PROVE Telling'
  BY <1>7, InterruptTells DEF D!Interrupt
<1> QED
  BY <1>1, <1>2, <1>3, <1>4, <1>5, <1>6, <1>7, DeviceSteps DEF D!Next

\* What Telling says of the runs' properties.
LEMMA TellingIsTold ==
  ASSUME Telling
  PROVE  D!OneTransferPerChannel /\ D!CalledForOwn /\ D!ToldOnceAsIs
<1>1. /\ requests \in Seq(Entries) /\ DOMAIN requests = 1 .. Len(requests)
      /\ D!Asked = 1 .. Len(requests)
  BY DEF Telling, DeviceType, D!Asked
<1>2. D!OneTransferPerChannel
  BY <1>1 DEF Telling, Busy, Told, Open, D!OneTransferPerChannel
<1>3. D!CalledForOwn
  <2> SUFFICES ASSUME NEW i \in 1 .. Len(requests), NEW n \in requests[i].notes
               PROVE  \/ n.to = requests[i].by \/ requests[i].taken
                      \/ requests[i].by = Printer
    BY <1>1 DEF D!CalledForOwn
  <2> QED
    BY DEF Telling, Told
<1>4. D!ToldOnceAsIs
  <2> SUFFICES ASSUME NEW i \in 1 .. Len(requests)
               PROVE
         /\ Cardinality(requests[i].notes) <= 1
         /\ \A n \in requests[i].notes :
              n.kind = "complete" <=>
                requests[i].state = "ok"
                  /\ ~(requests[i].how = "sync"
                         /\ "complete" \notin requests[i].wants)
    BY <1>1 DEF D!ToldOnceAsIs, D!Cardinality, Cardinality
  <2>1. Told(i)
    BY DEF Telling
  <2>2. Cardinality(requests[i].notes) <= 1
    <3>1. CASE requests[i].notes = {}
      BY <3>1, FS_EmptySet
    <3>2. ASSUME NEW n, requests[i].notes = {n}
          PROVE  Cardinality(requests[i].notes) <= 1
      <4>1. Cardinality({n}) = 1
        BY FS_Singleton
      <4> QED
        BY <3>2, <4>1
    <3> QED
      BY <2>1, <3>1, <3>2 DEF Told
  <2> QED
    BY <2>1, <2>2 DEF Told
<1> QED
  BY <1>2, <1>3, <1>4



-----------------------------------------------------------------------------
\* I2cDriver.

Asks == {"read", "write", "read_asyn", "write_asyn"}
Marks == {"aborted", "error", "complete", "moved", "again", "ended", "hit",
          "nested"}
Calls == [op : Asks \cup {"copy"}, told : {"none"} \cup I!Status,
          marks : SUBSET Marks]
ChannelState == [status : I!Status, used : BOOLEAN, en : BOOLEAN, job : Nat]
CallState == [pc : {"idle", "enter", "address", "data", "start", "leave",
                    "after", "return"},
              id : Nat, req : Asks \cup {"init", "uninit"},
              second : BOOLEAN, short : BOOLEAN, null : BOOLEAN]

I2cType == /\ per \in [request : Asks \cup {"init", "uninit"},
                       status : I!Status]
           /\ ch \in [I2cChannels -> ChannelState]
           /\ call \in CallState
           /\ copy \in Nat /\ (copy # 0 => copy - 1 \in I2cChannels)
           /\ log \in Seq(Calls)

\* A channel transfers what was asked for asynchronously, and knows whose it
\* is.
Transfer(c) ==
  LET id == ch[c].job
  IN /\ ch[c].en <=> ch[c].status = "busy"
     /\ id \in 0 .. Len(log)
     /\ ch[c].en =>
          /\ id # 0
          /\ ch[c].used <=> log[id].op # "copy" /\ ~I!Has(id, "nested")
          /\ \/ log[id].op \in I!Asyn \cup {"copy"}
             \/ I!Has(id, "hit")

\* What an attempt without an interrupt has come to.
Attempt ==
  LET id == call.id
      asked == log[id].op
      moved == I!Has(id, "moved")
  IN /\ call.second <=> I!Has(id, "again")
     /\ per.request = IF call.second THEN "uninit" ELSE asked
     /\ call.pc = "enter" => per.status = "error"
     /\ call.pc \in {"address", "data", "start"} =>
          per.status = "busy" /\ ~call.second /\ call.req = asked
     /\ call.pc = "data" => asked \notin I!Asyn
     /\ call.pc = "start" => asked \in I!Asyn
     /\ call.second => /\ call.pc # "after"
                       /\ call.pc \in {"leave", "return"} =>
                            per.status = "success"
     /\ call.pc = "return" => per.status # "error"
     /\ asked = "write" =>
          /\ call.second \/ call.pc \in {"enter", "address", "data"} => ~moved
          /\ ~call.second /\ call.pc \in {"leave", "after", "return"} =>
               (moved <=> per.status = "success")
     /\ asked \in I!Asyn /\ ~call.second /\ call.pc = "leave" =>
          per.status # "success"

\* The request that is being made is not answered yet, and an interrupt came
\* during the call, or the attempt is as it should be.
Calling ==
  LET id == call.id
  IN call.pc # "idle" =>
       /\ id \in 1 .. Len(log)
       /\ log[id].op # "copy" /\ log[id].told = "none"
       /\ ~I!Has(id, "nested")
       /\ I!Has(id, "hit") \/ Attempt

\* What a request was told.
Answered(r) ==
  /\ r.told = "error" => "hit" \in r.marks
  /\ r.op = "write" /\ r.told = "success" /\ "hit" \notin r.marks =>
       ("moved" \in r.marks <=> "again" \notin r.marks)
  /\ r.op = "read_asyn" /\ "complete" \in r.marks =>
       r.marks \cap {"moved", "again", "hit"} # {}

Answering == /\ I2cType
             /\ \A c \in I2cChannels : Transfer(c)
             /\ Calling
             /\ \A i \in 1 .. Len(log) : Answered(log[i])



LEMMA I2cSteps == ASSUME [Next]_vars PROVE UNCHANGED i2cVars \/ I!Next
  BY DEF Next, vars, i2cVars

LEMMA I2cAre ==
  /\ I2cChannels \subseteq Nat /\ Rx \in I2cChannels /\ Tx \in I2cChannels
  /\ I2cRequests \subseteq [op : Asks, short : BOOLEAN, null : BOOLEAN]
  BY I2cAssumption DEF I!ChannelAssumption, I!RequestAssumption, Asks

LEMMA MarkedView ==
  ASSUME NEW l \in Seq(Calls), NEW j \in 0 .. Len(l), NEW m \in SUBSET Marks
  PROVE  /\ I!Marked(l, j, m) \in Seq(Calls)
         /\ Len(I!Marked(l, j, m)) = Len(l)
         /\ \A i \in 1 .. Len(l) :
              /\ i # j => I!Marked(l, j, m)[i] = l[i]
              /\ I!Marked(l, j, m)[i].op = l[i].op
              /\ I!Marked(l, j, m)[i].told = l[i].told
              /\ i = j => I!Marked(l, j, m)[i].marks = l[i].marks \cup m
<1>1. CASE j = 0
  BY <1>1 DEF I!Marked, I!NoRequest
<1>2. CASE j # 0
  <2>1. j \in 1 .. Len(l)
    BY <1>2
  <2>2. l[j] \in Calls
    BY <2>1
  <2>3. PICK v : v = [l[j] EXCEPT !.marks = @ \cup m]
    OBVIOUS
  <2>4. /\ v \in Calls /\ v.op = l[j].op /\ v.told = l[j].told
        /\ v.marks = l[j].marks \cup m
    BY <2>2, <2>3 DEF Calls
  <2>5. I!Marked(l, j, m) = [l EXCEPT ![j] = v]
    BY <1>2, <2>3 DEF I!Marked, I!NoRequest
  <2>6. /\ [l EXCEPT ![j] = v] \in Seq(Calls)
        /\ Len([l EXCEPT ![j] = v]) = Len(l) /\ [l EXCEPT ![j] = v][j] = v
        /\ \A i \in 1 .. Len(l) : i # j => [l EXCEPT ![j] = v][i] = l[i]
    BY <2>1, <2>4
  <2> QED
    BY <2>4, <2>5, <2>6
<1> QED
  BY <1>1, <1>2

LEMMA NothingMarked ==
  ASSUME NEW l \in Seq(Calls), NEW j \in 1 .. Len(l)
  PROVE  I!Marked(l, j, {}) = l
<1>1. PICK marked : marked = I!Marked(l, j, {})
  OBVIOUS
<1>2. marked = [l EXCEPT ![j].marks = @ \cup {}]
  BY <1>1 DEF I!Marked, I!NoRequest
<1>3. l[j] \in Calls /\ l[j].marks \cup {} = l[j].marks
  OBVIOUS
<1>4. [l[j] EXCEPT !.marks = @ \cup {}] = l[j]
  BY <1>3 DEF Calls
<1>5. /\ marked \in Seq(Calls) /\ Len(marked) = Len(l)
      /\ \A i \in 1 .. Len(l) : marked[i] = l[i]
  BY <1>2, <1>3, <1>4
<1> QED
  BY <1>1, <1>5

\* A step of the call that is under way, which leaves the channels alone.
LEMMA CallStep ==
  ASSUME Answering, UNCHANGED <<ch, copy>>, call.pc # "idle",
         per' \in [request : Asks \cup {"init", "uninit"}, status : I!Status],
         call' \in CallState, call'.id = call.id, call'.pc # "idle",
         NEW m \in SUBSET {"error", "complete", "moved", "again"},
         log' = I!Marked(log, call.id, m),
         I!Has(call.id, "hit") \/ Attempt',
         "complete" \in m => \/ log[call.id].op # "read_asyn"
                             \/ I!Has(call.id, "again")
                             \/ I!Has(call.id, "hit")
  PROVE  Answering'
<1>1. /\ I2cType /\ Calling /\ log \in Seq(Calls)
      /\ call.id \in 1 .. Len(log) /\ log[call.id].told = "none"
      /\ log[call.id].op # "copy" /\ ~I!Has(call.id, "nested")
  BY DEF Answering, I2cType, Calling
<1>2. /\ log' \in Seq(Calls) /\ Len(log') = Len(log)
      /\ \A i \in 1 .. Len(log) :
           /\ i # call.id => log'[i] = log[i]
           /\ log'[i].op = log[i].op /\ log'[i].told = log[i].told
      /\ log'[call.id].marks = log[call.id].marks \cup m
  <2>1. m \in SUBSET Marks /\ call.id \in 0 .. Len(log)
    BY <1>1 DEF Marks
  <2> QED
    BY <1>1, <2>1, MarkedView
<1>3. /\ \A i \in 1 .. Len(log) :
           /\ I!Has(i, "hit") => "hit" \in log'[i].marks
           /\ I!Has(i, "nested") <=> "nested" \in log'[i].marks
      /\ \A x \in Marks : I!Has(call.id, x) => x \in log'[call.id].marks
  BY <1>2 DEF I!Has
<1>4. I2cType'
  BY <1>1, <1>2 DEF I2cType
<1>5. \A c \in I2cChannels : Transfer(c)'
  BY <1>2, <1>3 DEF Answering, Transfer, I!Has
<1>6. Calling'
  BY <1>1, <1>2, <1>3 DEF Calling, I!Has
<1>7. ASSUME NEW i \in 1 .. Len(log) PROVE Answered(log'[i])
  <2>1. CASE i # call.id
    BY <1>2, <2>1 DEF Answering
  <2>2. CASE i = call.id
    <3>1. Answered(log[i])
      BY DEF Answering
    <3>2. "complete" \in log'[i].marks =>
            "complete" \in log[i].marks \/ "complete" \in m
      BY <1>2, <2>2
    <3>3. /\ "moved" \in log[i].marks => "moved" \in log'[i].marks
          /\ "again" \in log[i].marks => "again" \in log'[i].marks
          /\ "hit" \in log[i].marks => "hit" \in log'[i].marks
      BY <1>2, <2>2
    <3>4. log'[i].told = "none" /\ log'[i].op = log[i].op
      BY <1>1, <1>2, <2>2
    <3> QED
      BY <2>2, <3>1, <3>2, <3>3, <3>4 DEF Answered, I!Has
  <2> QED
    BY <2>1, <2>2
<1> QED
  BY <1>2, <1>4, <1>5, <1>6, <1>7 DEF Answering

LEMMA EnterAnswers == ASSUME Answering, I!Enter PROVE Answering'
<1>1. /\ I2cType /\ Calling /\ call.pc = "enter"
      /\ UNCHANGED <<ch, copy, log>>
  BY DEF Answering, I!Enter, I!At
<1>2. log' = I!Marked(log, call.id, {})
  BY <1>1, NothingMarked DEF I2cType, Calling
<1>3. /\ per' \in [request : Asks \cup {"init", "uninit"}, status : I!Status]
      /\ call' \in CallState /\ call'.id = call.id /\ call'.pc # "idle"
      /\ call'.second = call.second
  <2>1. /\ per \in [request : Asks \cup {"init", "uninit"}, status : I!Status]
        /\ call \in CallState
    BY <1>1 DEF I2cType
  <2>2. \/ per' = per
        \/ per' = [per EXCEPT !.status = "success"]
        \/ per' = [per EXCEPT !.status = "busy"]
    BY DEF I!Enter
  <2>3. per' \in [request : Asks \cup {"init", "uninit"}, status : I!Status]
    BY <2>1, <2>2 DEF I!Status
  <2>4. PICK pc \in {"leave", "address", "return", "after"},
             req \in Asks \cup {"init", "uninit"} :
          call' = [call EXCEPT !.pc = pc, !.req = req]
    <3>1. call.req \in Asks \cup {"init", "uninit"}
          /\ per.request \in Asks \cup {"init", "uninit"}
      BY <2>1 DEF CallState
    <3>2. CASE call' = [call EXCEPT !.pc = I!Out]
      <4>1. I!Out \in {"leave", "address", "return", "after"}
        BY DEF I!Out
      <4>2. call' = [call EXCEPT !.pc = I!Out, !.req = call.req]
        BY <2>1, <3>2 DEF CallState
      <4> QED
        BY <3>1, <4>1, <4>2
    <3>3. CASE call' = [call EXCEPT !.pc = "leave", !.req = per.request]
      BY <3>1, <3>3
    <3>4. CASE call' = [call EXCEPT !.pc = "address", !.req = per.request]
      BY <3>1, <3>4
    <3> QED
      BY <3>2, <3>3, <3>4 DEF I!Enter, I!Goto, I!Switch
  <2>5. /\ call' \in CallState /\ call'.id = call.id /\ call'.pc = pc
        /\ call'.second = call.second
    BY <2>1, <2>4 DEF CallState
  <2> QED
    BY <2>3, <2>4, <2>5
<1>4. ASSUME Attempt PROVE Attempt'
  <2>1. /\ per.status = "error"
        /\ per.request = IF call.second THEN "uninit" ELSE log[call.id].op
        /\ log[call.id].op \in Asks
    <3>1. log[call.id] \in Calls /\ log[call.id].op # "copy"
      BY <1>1 DEF I2cType, Calling
    <3>2. log[call.id].op \in Asks
      BY <3>1 DEF Calls
    <3> QED
      BY <1>1, <1>4, <3>2 DEF Attempt
  <2>2. CASE call.second
    <3>1. /\ per' = [per EXCEPT !.status = "success"]
          /\ call' = [call EXCEPT !.pc = "leave", !.req = per.request]
      BY <2>1, <2>2 DEF I!Enter, I!Switch, Asks
    <3>2. /\ per'.status = "success" /\ per'.request = per.request
          /\ call'.pc = "leave"
      BY <1>1, <3>1 DEF I2cType, CallState
    <3> QED
      BY <1>1, <1>3, <1>4, <2>2, <3>2 DEF Attempt, I!Has
  <2>3. CASE ~call.second
    <3>1. /\ per' = [per EXCEPT !.status = "busy"]
          /\ call' = [call EXCEPT !.pc = IF I!Short THEN "leave" ELSE "address",
                                  !.req = per.request]
      BY <2>1, <2>3 DEF I!Enter, I!Switch, Asks
    <3>2. /\ per'.status = "busy" /\ per'.request = per.request
          /\ call'.pc \in {"leave", "address"} /\ call'.req = per.request
      BY <1>1, <3>1 DEF I2cType, CallState
    <3> QED
      BY <1>1, <1>3, <1>4, <2>1, <2>3, <3>2 DEF Attempt, I!Has
  <2> QED
    BY <2>2, <2>3
<1>5. I!Has(call.id, "hit") \/ Attempt'
  BY <1>1, <1>4 DEF Calling
<1> QED
  BY <1>1, <1>2, <1>3, <1>5, CallStep


LEMMA AddressAnswers ==
  ASSUME Answering, NEW answered \in BOOLEAN, I!Address(answered)
  PROVE  Answering'
<1>1. /\ I2cType /\ Calling /\ call.pc = "address"
      /\ UNCHANGED <<ch, copy, log>>
  BY DEF Answering, I!Address, I!At
<1>2. log' = I!Marked(log, call.id, {})
  BY <1>1, NothingMarked DEF I2cType, Calling
<1>3. PICK pc, status :
        /\ call' = [call EXCEPT !.pc = pc] /\ per' = [per EXCEPT !.status = status]
        /\ \/ /\ pc = IF call.req \in I!Asyn THEN "start" ELSE "data"
              /\ status = per.status /\ status # "error"
           \/ pc = "leave" /\ status = "error"
  <2>1. CASE answered /\ per.status # "error"
    <3>1. per = [per EXCEPT !.status = per.status]
      BY <1>1 DEF I2cType
    <3> QED
      BY <2>1, <3>1 DEF I!Address, I!Goto
  <2>2. CASE ~(answered /\ per.status # "error")
    BY <2>2 DEF I!Address, I!Goto
  <2> QED
    BY <2>1, <2>2
<1>4. /\ pc \in {"start", "data", "leave"} /\ status \in I!Status
      /\ per.request \in Asks \cup {"init", "uninit"}
      /\ call'.pc = pc /\ per'.status = status /\ per'.request = per.request
      /\ call' \in CallState /\ call'.id = call.id /\ call'.second = call.second
      /\ call'.req = call.req
      /\ per' \in [request : Asks \cup {"init", "uninit"}, status : I!Status]
  BY <1>1, <1>3 DEF I2cType, CallState, I!Status
<1>5. Attempt => Attempt'
  BY <1>1, <1>3, <1>4 DEF Attempt, I!Has
<1>6. I!Has(call.id, "hit") \/ Attempt'
  BY <1>1, <1>5 DEF Calling
<1>7. call'.pc # "idle"
  BY <1>4
<1> QED
  BY <1>1, <1>2, <1>4, <1>6, <1>7, CallStep

LEMMA DataAnswers ==
  ASSUME Answering, NEW answered \in BOOLEAN, I!Data(answered)
  PROVE  Answering'
<1>1. /\ I2cType /\ Calling /\ call.pc = "data"
      /\ UNCHANGED <<ch, copy>>
      /\ call' = [call EXCEPT !.pc = "leave"]
  BY DEF Answering, I!Data, I!At, I!Goto
<1>2. PICK m, status :
        /\ log' = I!Marked(log, call.id, m)
        /\ per' = [per EXCEPT !.status = status]
        /\ \/ m = {"moved"} /\ status = "success"
           \/ /\ m = {}
              /\ status = IF call.req = "read" THEN "success" ELSE "error"
  <2>1. CASE answered /\ per.status # "error"
    BY <2>1 DEF I!Data, I!AfterData
  <2>2. CASE ~(answered /\ per.status # "error")
    BY <2>2 DEF I!Data, I!AfterData
  <2> QED
    BY <2>1, <2>2
<1>3. /\ call'.pc = "leave" /\ per'.status = status
      /\ per'.request = per.request /\ status \in I!Status
      /\ call' \in CallState /\ call'.id = call.id /\ call'.second = call.second
      /\ per' \in [request : Asks \cup {"init", "uninit"}, status : I!Status]
      /\ m \in SUBSET {"error", "complete", "moved", "again"}
      /\ "complete" \notin m
  BY <1>1, <1>2 DEF I2cType, CallState, I!Status
<1>4. /\ log'[call.id].op = log[call.id].op
      /\ log'[call.id].marks = log[call.id].marks \cup m
  <2>1. /\ m \in SUBSET Marks /\ log \in Seq(Calls) /\ call.id \in 1 .. Len(log)
        /\ call.id \in 0 .. Len(log)
    BY <1>1, <1>3 DEF I2cType, Calling, Marks
  <2> QED
    BY <1>2, <2>1, MarkedView
<1>5. ASSUME Attempt PROVE Attempt'
  <2>1. /\ ~call.second /\ call.req = log[call.id].op
        /\ log[call.id].op \notin I!Asyn
        /\ per.request = log[call.id].op
        /\ "again" \notin log[call.id].marks
        /\ log[call.id].op = "write" => "moved" \notin log[call.id].marks
    BY <1>1, <1>5 DEF Attempt, I!Has
  <2>2. /\ "again" \notin log'[call.id].marks
        /\ log[call.id].op = "write" =>
             ("moved" \in log'[call.id].marks <=> status = "success")
    BY <1>2, <1>4, <2>1
  <2> QED
    BY <1>3, <1>4, <2>1, <2>2 DEF Attempt, I!Has
<1>6. I!Has(call.id, "hit") \/ Attempt'
  BY <1>1, <1>5 DEF Calling
<1>7. call'.pc # "idle" /\ call.pc # "idle"
  BY <1>1, <1>3
<1> QED
  BY <1>1, <1>2, <1>3, <1>6, <1>7, CallStep

LEMMA LeaveAnswers == ASSUME Answering, I!Leave PROVE Answering'
<1>1. /\ I2cType /\ Calling /\ call.pc = "leave"
      /\ UNCHANGED <<per, ch, copy>>
      /\ call' = [call EXCEPT !.pc = IF call.second THEN "return" ELSE "after"]
  BY DEF Answering, I!Leave, I!At, I!Goto, I!Out
<1>2. PICK m : m = I!Note
  OBVIOUS
<1>3. /\ log' = I!Marked(log, call.id, m)
      /\ m \in SUBSET {"error", "complete", "moved", "again"}
      /\ "complete" \in m => per.status = "success"
      /\ "moved" \notin m /\ "again" \notin m
  BY <1>2 DEF I!Leave, I!Note
<1>4. /\ call'.pc = IF call.second THEN "return" ELSE "after"
      /\ call' \in CallState /\ call'.id = call.id /\ call'.second = call.second
      /\ per' \in [request : Asks \cup {"init", "uninit"}, status : I!Status]
      /\ call'.pc # "idle"
  BY <1>1 DEF I2cType, CallState
<1>5. /\ log'[call.id].op = log[call.id].op
      /\ log'[call.id].marks = log[call.id].marks \cup m
  <2>1. /\ m \in SUBSET Marks /\ log \in Seq(Calls) /\ call.id \in 1 .. Len(log)
        /\ call.id \in 0 .. Len(log)
    BY <1>1, <1>3 DEF I2cType, Calling, Marks
  <2>2. log' = I!Marked(log, call.id, m)
    BY <1>3
  <2> QED
    BY <2>1, <2>2, MarkedView
<1>6. /\ "moved" \in log'[call.id].marks <=> "moved" \in log[call.id].marks
      /\ "again" \in log'[call.id].marks <=> "again" \in log[call.id].marks
  BY <1>3, <1>5
<1>7. Attempt => Attempt'
  BY <1>1, <1>4, <1>5, <1>6 DEF Attempt, I!Has, I!Status
<1>8. I!Has(call.id, "hit") \/ Attempt'
  BY <1>1, <1>7 DEF Calling
<1>9. "complete" \in m => \/ log[call.id].op # "read_asyn"
                          \/ I!Has(call.id, "again")
                          \/ I!Has(call.id, "hit")
  BY <1>1, <1>3 DEF Calling, Attempt, I!Asyn
<1> QED
  BY <1>1, <1>3, <1>4, <1>8, <1>9, CallStep

LEMMA AfterAnswers == ASSUME Answering, I!After PROVE Answering'
<1>1. /\ I2cType /\ Calling /\ call.pc = "after"
      /\ UNCHANGED <<ch, copy>>
      /\ log \in Seq(Calls) /\ call.id \in 1 .. Len(log)
  BY DEF Answering, I!After, I!At, Calling, I2cType
<1>2. CASE I!Retries
  <2>1. /\ log' = I!Marked(log, call.id, {"again"})
        /\ per' = [request |-> "uninit", status |-> "error"]
        /\ call' = [call EXCEPT !.pc = "enter", !.second = TRUE]
    BY <1>2 DEF I!After
  <2>2. /\ call' \in CallState /\ call'.id = call.id /\ call'.second
        /\ call'.pc = "enter" /\ call'.pc # "idle"
        /\ per' \in [request : Asks \cup {"init", "uninit"}, status : I!Status]
        /\ per'.request = "uninit" /\ per'.status = "error"
    BY <1>1, <2>1 DEF I2cType, CallState, I!Status
  <2>3. /\ log'[call.id].op = log[call.id].op
        /\ log'[call.id].marks = log[call.id].marks \cup {"again"}
    <3>1. {"again"} \in SUBSET Marks /\ call.id \in 0 .. Len(log)
      BY <1>1 DEF Marks
    <3> QED
      BY <1>1, <2>1, <3>1, MarkedView
  <2>4. Attempt => Attempt'
    <3>1. /\ "again" \in log'[call.id].marks
          /\ "moved" \in log'[call.id].marks <=> "moved" \in log[call.id].marks
      BY <2>3
    <3>2. log[call.id].op = "write" => per.status # "success"
      BY <1>2 DEF I!Retries, I!Op
    <3> QED
      BY <1>1, <2>2, <2>3, <3>1, <3>2 DEF Attempt, I!Has
  <2>5. I!Has(call.id, "hit") \/ Attempt'
    BY <1>1, <2>4 DEF Calling
  <2>6. {"again"} \in SUBSET {"error", "complete", "moved", "again"}
        /\ "complete" \notin {"again"} /\ call.pc # "idle"
    BY <1>1
  <2> QED
    BY <1>1, <2>1, <2>2, <2>5, <2>6, CallStep
<1>3. CASE ~I!Retries
  <2>1. /\ UNCHANGED <<per, log>> /\ call' = [call EXCEPT !.pc = "return"]
    BY <1>3 DEF I!After, I!Goto
  <2>2. /\ call' \in CallState /\ call'.id = call.id
        /\ call'.second = call.second
        /\ call'.pc = "return" /\ call'.pc # "idle"
        /\ per' \in [request : Asks \cup {"init", "uninit"}, status : I!Status]
    BY <1>1, <2>1 DEF I2cType, CallState
  <2>3. per.status # "error"
    BY <1>3 DEF I!Retries
  <2>4. Attempt => Attempt'
    BY <1>1, <2>1, <2>2, <2>3 DEF Attempt, I!Has
  <2>5. I!Has(call.id, "hit") \/ Attempt'
    BY <1>1, <2>4 DEF Calling
  <2>6. log' = I!Marked(log, call.id, {})
    BY <1>1, <2>1, NothingMarked
  <2> QED
    BY <1>1, <2>1, <2>2, <2>5, <2>6, CallStep
<1> QED
  BY <1>2, <1>3


LEMMA ReturnAnswers == ASSUME Answering, I!Return PROVE Answering'
<1>1. /\ I2cType /\ Calling /\ call.pc = "return"
      /\ UNCHANGED <<per, ch, copy>>
      /\ call' = [call EXCEPT !.pc = "idle"]
      /\ log' = [log EXCEPT ![call.id].told = per.status]
      /\ log \in Seq(Calls) /\ call.id \in 1 .. Len(log)
      /\ per.status \in I!Status
  BY DEF Answering, I!Return, I!At, I!Goto, I2cType, Calling
<1>2. PICK r : r = [log[call.id] EXCEPT !.told = per.status]
  OBVIOUS
<1>3. /\ log[call.id] \in Calls /\ r \in Calls /\ r.told = per.status
      /\ r.op = log[call.id].op /\ r.marks = log[call.id].marks
  <2>1. log[call.id] \in Calls
    BY <1>1
  <2> QED
    BY <1>1, <1>2, <2>1 DEF Calls
<1>4. log' = [log EXCEPT ![call.id] = r]
  BY <1>1, <1>2
<1>5. /\ log' \in Seq(Calls) /\ Len(log') = Len(log) /\ log'[call.id] = r
      /\ \A i \in 1 .. Len(log) : i # call.id => log'[i] = log[i]
  BY <1>1, <1>3, <1>4
<1>6. /\ call' \in CallState /\ call'.pc = "idle"
  BY <1>1 DEF I2cType, CallState
<1>7. I2cType'
  BY <1>1, <1>5, <1>6 DEF I2cType
<1>8. \A c \in I2cChannels : Transfer(c)'
  BY <1>1, <1>3, <1>5 DEF Answering, Transfer, I!Has
<1>9. Calling'
  BY <1>6 DEF Calling
<1>10. Answered(r)
  <2>1. Answered(log[call.id])
    BY <1>1 DEF Answering
  <2>2. "hit" \in r.marks \/ Attempt
    BY <1>1, <1>3 DEF Calling, I!Has
  <2>3. CASE "hit" \in r.marks
    BY <1>3, <2>1, <2>3 DEF Answered
  <2>4. CASE Attempt
    <3>1. /\ per.status # "error"
          /\ call.second <=> "again" \in r.marks
          /\ r.op = "write" /\ call.second => "moved" \notin r.marks
          /\ r.op = "write" /\ ~call.second =>
               ("moved" \in r.marks <=> per.status = "success")
      BY <1>1, <1>3, <2>4 DEF Attempt, I!Has
    <3> QED
      BY <1>3, <2>1, <3>1 DEF Answered
  <2> QED
    BY <2>2, <2>3, <2>4
<1>11. \A i \in 1 .. Len(log) : Answered(log'[i])
  BY <1>5, <1>10 DEF Answering
<1> QED
  BY <1>5, <1>7, <1>8, <1>9, <1>11 DEF Answering

LEMMA RequestAnswers ==
  ASSUME Answering, NEW r \in I2cRequests, I!Request(r) PROVE Answering'
<1>0. PICK e, n : /\ n = Len(log) + 1
                  /\ e = [op |-> r.op, told |-> "none", marks |-> {}]
  OBVIOUS
<1>1. /\ I2cType /\ UNCHANGED <<ch, copy>>
      /\ per' = [request |-> r.op, status |-> "error"]
      /\ call' = [call EXCEPT !.pc = "enter", !.id = n, !.second = FALSE,
                              !.short = r.short, !.null = r.null]
      /\ log' = Append(log, e) /\ log \in Seq(Calls)
  BY <1>0 DEF Answering, I!Request, I!Entry, I2cType
<1>2. r.op \in Asks /\ r.short \in BOOLEAN /\ r.null \in BOOLEAN
  BY I2cAre
<1>3. /\ e \in Calls /\ e.op = r.op /\ e.told = "none" /\ e.marks = {}
  BY <1>0, <1>2 DEF Calls
<1>4. /\ log' \in Seq(Calls) /\ Len(log') = n
      /\ \A i \in 1 .. Len(log) : log'[i] = log[i] /\ i \in 1 .. n /\ i # n
      /\ log'[n] = e /\ n \in 1 .. n /\ n \in Nat
      /\ \A i \in 1 .. n : i = n \/ i \in 1 .. Len(log)
  BY <1>0, <1>1, <1>3, AppendedView
<1>5. /\ call' \in CallState /\ call'.id = n /\ call'.pc = "enter"
      /\ ~call'.second
  BY <1>1, <1>2, <1>4 DEF I2cType, CallState
<1>6. /\ per'.request = r.op /\ per'.status = "error"
      /\ per' \in [request : Asks \cup {"init", "uninit"}, status : I!Status]
  BY <1>1, <1>2 DEF I!Status
<1>7. I2cType'
  BY <1>1, <1>4, <1>5, <1>6 DEF I2cType
<1>8. \A c \in I2cChannels : Transfer(c)'
  <2> SUFFICES ASSUME NEW c \in I2cChannels PROVE Transfer(c)'
    OBVIOUS
  <2>1. Transfer(c) /\ ch' = ch /\ Len(log) \in Nat
    BY <1>1 DEF Answering
  <2>2. ch[c].job \in 0 .. n
    BY <1>0, <2>1 DEF Transfer
  <2>3. ch[c].en => log'[ch[c].job] = log[ch[c].job]
    BY <1>4, <2>1 DEF Transfer
  <2> QED
    BY <1>4, <2>1, <2>2, <2>3 DEF Transfer, I!Has
<1>9. Calling'
  BY <1>2, <1>3, <1>4, <1>5, <1>6 DEF Calling, Attempt, I!Has, Asks
<1>10. /\ Answered(e)
       /\ \A i \in 1 .. Len(log) : Answered(log'[i])
  BY <1>3, <1>4 DEF Answering, Answered
<1> QED
  BY <1>4, <1>7, <1>8, <1>9, <1>10 DEF Answering

\* The marks that do not matter to the invariant.
Alike(r, s) == /\ r.op = s.op /\ r.told = s.told
               /\ \A x \in {"hit", "nested", "again", "moved", "complete"} :
                    x \in r.marks <=> x \in s.marks

LEMMA AlikeAnswered ==
  ASSUME NEW r, NEW s, Alike(r, s), Answered(r) PROVE Answered(s)
  BY DEF Alike, Answered

LEMMA AbortedView ==
  ASSUME Answering, NEW c \in I2cChannels
  PROVE  /\ I!Aborted(c) \in Seq(Calls) /\ Len(I!Aborted(c)) = Len(log)
         /\ \A i \in 1 .. Len(log) : Alike(log[i], I!Aborted(c)[i])
<1>1. log \in Seq(Calls) /\ Transfer(c)
  BY DEF Answering, I2cType
<1>2. CASE ~ch[c].en
  BY <1>1, <1>2 DEF I!Aborted, Alike
<1>3. CASE ch[c].en
  <2>1. PICK j, m : j = ch[c].job /\ m = {"aborted"}
    OBVIOUS
  <2>2. j \in 0 .. Len(log) /\ m \in SUBSET Marks
    BY <1>1, <2>1 DEF Transfer, Marks
  <2>3. I!Aborted(c) = I!Marked(log, j, m)
    BY <1>3, <2>1 DEF I!Aborted
  <2>4. \A i \in 1 .. Len(log) : Alike(log[i], I!Marked(log, j, m)[i])
    BY <1>1, <2>1, <2>2, MarkedView DEF Alike
  <2> QED
    BY <1>1, <2>2, <2>3, <2>4, MarkedView
<1> QED
  BY <1>2, <1>3

LEMMA CopyFindAnswers == ASSUME Answering, I!CopyFind PROVE Answering'
<1>1. PICK idle : idle = {c \in I2cChannels : ch[c].status # "busy"}
  OBVIOUS
<1>2. /\ I2cType /\ UNCHANGED <<per, ch, call, log>>
      /\ idle # {} /\ copy' = I!Min(idle) + 1
  BY <1>1 DEF Answering, I!CopyFind
<1>3. idle \subseteq I2cChannels /\ idle \subseteq Nat
  BY <1>1, I2cAre
<1>4. I!Min(idle) \in idle
  <2>1. \E m \in idle : \A k \in idle : m <= k
    BY <1>2, <1>3, LeastNat
  <2> QED
    BY <2>1 DEF I!Min
<1>5. copy' \in Nat /\ copy' - 1 \in I2cChannels
  <2>1. PICK k \in idle : k = I!Min(idle)
    BY <1>4
  <2>2. k \in Nat /\ k \in I2cChannels /\ copy' = k + 1
    BY <1>2, <1>3, <2>1
  <2>3. copy' \in Nat /\ copy' - 1 = k
    BY <2>2
  <2> QED
    BY <2>2, <2>3
<1>6. I2cType'
  BY <1>2, <1>5 DEF I2cType
<1>7. /\ \A c \in I2cChannels : Transfer(c)'
      /\ \A i \in 1 .. Len(log) : Answered(log'[i])
  BY <1>2 DEF Answering, Transfer, I!Has
<1>8. Calling'
  BY <1>2 DEF Answering, Calling, Attempt, I!Has
<1> QED
  BY <1>2, <1>6, <1>7, <1>8 DEF Answering


\* What a channel asks of its request, which only more interrupts can change.
Kept(r, s) == /\ r.op = s.op /\ ("hit" \in r.marks => "hit" \in s.marks)
              /\ "nested" \in r.marks <=> "nested" \in s.marks

LEMMA KeptTransfer ==
  ASSUME NEW c \in I2cChannels, Transfer(c), ch'[c] = ch[c],
         Len(log) \in Nat, Len(log') \in Nat, Len(log) <= Len(log'),
         \A i \in 1 .. Len(log) : Kept(log[i], log'[i])
  PROVE  Transfer(c)'
<1>1. /\ ch[c].job \in 0 .. Len(log) /\ ch[c].job \in 0 .. Len(log')
      /\ ch[c].en => ch[c].job \in 1 .. Len(log)
  BY DEF Transfer
<1> QED
  BY <1>1 DEF Transfer, Kept, I!Has

LEMMA AlikeTransfer ==
  ASSUME NEW c \in I2cChannels, Transfer(c), ch'[c] = ch[c],
         Len(log) \in Nat, Len(log') \in Nat, Len(log) <= Len(log'),
         \A i \in 1 .. Len(log) : Alike(log[i], log'[i])
  PROVE  Transfer(c)'
<1>1. \A i \in 1 .. Len(log) : Kept(log[i], log'[i])
  BY DEF Alike, Kept
<1> QED
  BY <1>1, KeptTransfer

\* A call that goes on with its request alike.
LEMMA AlikeCalling ==
  ASSUME Calling, UNCHANGED <<per, call>>,
         Len(log) \in Nat, Len(log') \in Nat, Len(log) <= Len(log'),
         \A i \in 1 .. Len(log) : Alike(log[i], log'[i])
  PROVE  Calling'
<1>1. call.pc # "idle" => /\ call.id \in 1 .. Len(log)
                          /\ call.id \in 1 .. Len(log')
                          /\ Alike(log[call.id], log'[call.id])
  BY DEF Calling
<1> QED
  BY <1>1 DEF Calling, Attempt, Alike, I!Has

LEMMA CopyTakeAnswers == ASSUME Answering, I!CopyTake PROVE Answering'
<1>0. PICK c, e, l, n :
        /\ c = copy - 1 /\ n = Len(log) + 1 /\ l = I!Aborted(c)
        /\ e = [op |-> "copy", told |-> "success", marks |-> {}]
  OBVIOUS
<1>1. /\ I2cType /\ UNCHANGED <<per, call>> /\ copy # 0
      /\ copy' = 0 /\ log' = Append(l, e) /\ log \in Seq(Calls)
      /\ ch' = [ch EXCEPT ![c] = [status |-> "busy", used |-> FALSE,
                                  en |-> TRUE, job |-> n]]
  BY <1>0 DEF Answering, I!CopyTake, I!Entry, I!Started, I!NoRequest, I2cType
<1>2. c \in I2cChannels
  BY <1>0, <1>1 DEF I2cType
<1>3. /\ l \in Seq(Calls) /\ Len(l) = Len(log)
      /\ \A i \in 1 .. Len(log) : Alike(log[i], l[i])
  BY <1>0, <1>2, AbortedView
<1>4. /\ e \in Calls /\ e.op = "copy" /\ e.told = "success" /\ e.marks = {}
  BY <1>0 DEF Calls, I!Status
<1>5. /\ log' \in Seq(Calls) /\ Len(log') = n /\ log'[n] = e
      /\ \A i \in 1 .. Len(log) : log'[i] = l[i] /\ i \in 1 .. n /\ i # n
      /\ n \in 1 .. n /\ n \in Nat /\ Len(log) \in Nat /\ Len(log) <= n
      /\ \A i \in 1 .. n : i = n \/ i \in 1 .. Len(log)
  <2>1. n = Len(l) + 1 /\ Len(log) \in Nat
    BY <1>0, <1>1, <1>3
  <2>2. Len(log) <= n
    BY <1>0, <2>1
  <2> QED
    BY <1>1, <1>3, <1>4, <2>1, <2>2, AppendedView
<1>6. \A i \in 1 .. Len(log) : Alike(log[i], log'[i])
  BY <1>3, <1>5
<1>7. /\ ch' \in [I2cChannels -> ChannelState]
      /\ ch'[c] = [status |-> "busy", used |-> FALSE, en |-> TRUE, job |-> n]
      /\ \A c2 \in I2cChannels : c2 # c => ch'[c2] = ch[c2]
  BY <1>1, <1>2, <1>5 DEF I2cType, ChannelState, I!Status
<1>8. I2cType'
  BY <1>1, <1>5, <1>7 DEF I2cType
<1>9. ASSUME NEW c2 \in I2cChannels PROVE Transfer(c2)'
  <2>1. CASE c2 = c
    <3>1. n \in 0 .. n /\ n # 0
      BY <1>0, <1>5
    <3> QED
      BY <1>4, <1>5, <1>7, <2>1, <3>1 DEF Transfer, I!Has
  <2>2. CASE c2 # c
    BY <1>5, <1>6, <1>7, <2>2, AlikeTransfer DEF Answering
  <2> QED
    BY <2>1, <2>2
<1>10. Calling'
  BY <1>1, <1>5, <1>6, AlikeCalling DEF Answering
<1>11. /\ Answered(e)
       /\ \A i \in 1 .. Len(log) : Answered(log'[i])
  BY <1>4, <1>6, AlikeAnswered DEF Answering, Answered
<1> QED
  BY <1>5, <1>8, <1>9, <1>10, <1>11 DEF Answering

LEMMA DmaAnswers == ASSUME Answering, I!Dma PROVE Answering'
<1>0. PICK c, refused, l, m :
        /\ c = IF per.request = "read_asyn" THEN Rx ELSE Tx
        /\ refused = (call.null /\ c = Rx)
        /\ l = I!Aborted(c)
        /\ m = IF refused /\ ch[c].used THEN {"error"} ELSE {}
  OBVIOUS
<1>1. /\ I2cType /\ Calling /\ copy' = copy /\ call.pc = "start"
      /\ call' = [call EXCEPT !.pc = "leave"]
      /\ log \in Seq(Calls) /\ call.id \in 1 .. Len(log)
      /\ c \in I2cChannels
  BY <1>0, I2cAre DEF Answering, I!Dma, I!At, I!Goto, I2cType, Calling
<1>2. /\ l \in Seq(Calls) /\ Len(l) = Len(log)
      /\ \A i \in 1 .. Len(log) : Alike(log[i], l[i])
  BY <1>0, <1>1, AbortedView
<1>3. PICK status, used, en, job :
        /\ ch' = [ch EXCEPT ![c] = [status |-> status, used |-> used,
                                    en |-> en, job |-> job]]
        /\ per' = [per EXCEPT !.status = status]
        /\ \/ status = "error" /\ used = FALSE /\ en = FALSE /\ job = 0
           \/ status = "busy" /\ used = TRUE /\ en = TRUE /\ job = call.id
        /\ log' = I!Marked(l, call.id, m)
  <2>1. CASE refused
    BY <1>0, <2>1 DEF I!Dma, I!NoRequest
  <2>2. CASE ~refused
    <3>1. log' = l
      BY <1>0, <2>2 DEF I!Dma
    <3>2. log' = I!Marked(l, call.id, {})
      BY <1>1, <1>2, <3>1, NothingMarked
    <3> QED
      BY <1>0, <2>2, <3>2 DEF I!Dma, I!Started
  <2> QED
    BY <2>1, <2>2
<1>4. /\ log' \in Seq(Calls) /\ Len(log') = Len(log)
      /\ \A i \in 1 .. Len(log) : Alike(log[i], log'[i])
  <2>1. m \in SUBSET Marks /\ m \subseteq {"error"} /\ call.id \in 0 .. Len(l)
    BY <1>0, <1>1, <1>2 DEF Marks
  <2>2. \A i \in 1 .. Len(log) : Alike(l[i], log'[i])
    BY <1>2, <1>3, <2>1, MarkedView DEF Alike
  <2>3. \A i \in 1 .. Len(log) : Alike(log[i], log'[i])
    BY <1>2, <2>2 DEF Alike
  <2> QED
    BY <1>2, <1>3, <2>1, <2>3, MarkedView
<1>5. /\ status \in I!Status /\ used \in BOOLEAN /\ en \in BOOLEAN
      /\ job \in Nat /\ job \in 0 .. Len(log)
  <2>1. used \in BOOLEAN /\ en \in BOOLEAN
    BY <1>3, Zenon
  <2>2. status \in I!Status /\ job \in Nat /\ job \in 0 .. Len(log)
    BY <1>1, <1>3 DEF I!Status
  <2> QED
    BY <2>1, <2>2
<1>6. /\ ch' \in [I2cChannels -> ChannelState]
      /\ ch'[c] = [status |-> status, used |-> used, en |-> en, job |-> job]
      /\ \A c2 \in I2cChannels : c2 # c => ch'[c2] = ch[c2]
  BY <1>1, <1>3, <1>5 DEF I2cType, ChannelState
<1>7. /\ per' \in [request : Asks \cup {"init", "uninit"}, status : I!Status]
      /\ per'.status = status /\ per'.request = per.request
      /\ call' \in CallState /\ call'.pc = "leave" /\ call'.id = call.id
      /\ call'.second = call.second
  BY <1>1, <1>3, <1>5 DEF I2cType, CallState
<1>8. I2cType'
  BY <1>1, <1>4, <1>6, <1>7 DEF I2cType
<1>9. Alike(log[call.id], log'[call.id])
  BY <1>1, <1>4
<1>10. Calling'
  <2>1. Attempt => Attempt'
    BY <1>1, <1>3, <1>7, <1>9 DEF Attempt, Alike, I!Has, I!Asyn
  <2> QED
    BY <1>1, <1>4, <1>7, <1>9, <2>1 DEF Calling, Alike, I!Has
<1>11. ASSUME NEW c2 \in I2cChannels PROVE Transfer(c2)'
  <2>1. CASE c2 = c
    <3>1. /\ log[call.id].op # "copy" /\ ~I!Has(call.id, "nested")
          /\ log[call.id].op \in I!Asyn \/ I!Has(call.id, "hit")
      BY <1>1 DEF Calling, Attempt
    <3> QED
      BY <1>1, <1>3, <1>4, <1>5, <1>6, <1>9, <2>1, <3>1
      DEF Transfer, Alike, I!Has
  <2>2. CASE c2 # c
    <3>1. Len(log) \in Nat
      BY <1>1
    <3> QED
      BY <1>4, <1>6, <2>2, <3>1, AlikeTransfer DEF Answering
  <2> QED
    BY <2>1, <2>2
<1>12. \A i \in 1 .. Len(log) : Answered(log'[i])
  BY <1>4, AlikeAnswered DEF Answering
<1> QED
  BY <1>4, <1>8, <1>10, <1>11, <1>12 DEF Answering


\* What the interrupt handler leaves in the log.
LEMMA OverView ==
  ASSUME Answering, NEW c \in I2cChannels, NEW ok \in BOOLEAN, ch[c].en,
         NEW l, l = I!Over(c, ok)
  PROVE  /\ l \in Seq(Calls) /\ Len(l) = Len(log)
         /\ \A i \in 1 .. Len(log) : Kept(log[i], l[i]) /\ Answered(l[i])
         /\ call.pc # "idle" =>
              /\ l[call.id].op = log[call.id].op
              /\ l[call.id].told = log[call.id].told
              /\ IF ch[c].used THEN "hit" \in l[call.id].marks
                 ELSE Alike(log[call.id], l[call.id])
<1>0. PICK j, m : /\ j = ch[c].job
                  /\ m = (IF ok THEN {"moved"} ELSE {})
                           \cup (IF ~ch[c].used THEN {"ended"}
                                 ELSE {IF ok THEN "complete" ELSE "error"})
  OBVIOUS
<1>1. PICK done : done = I!Marked(log, j, m)
  OBVIOUS
<1>2. /\ l = IF ch[c].used /\ call.pc # "idle"
             THEN I!Marked(done, call.id, {"hit"}) ELSE done
  BY <1>0, <1>1 DEF I!Over, I!At
<1>3. /\ I2cType /\ log \in Seq(Calls) /\ Transfer(c) /\ Calling
      /\ j \in 1 .. Len(log) /\ j \in 0 .. Len(log)
  BY <1>0 DEF Answering, I2cType, Transfer
<1>4. /\ m \subseteq {"moved", "ended", "complete", "error"}
      /\ "complete" \in m => "moved" \in m
  BY <1>0
<1>5. /\ done \in Seq(Calls) /\ Len(done) = Len(log)
      /\ \A i \in 1 .. Len(log) :
           /\ i # j => done[i] = log[i]
           /\ done[i].op = log[i].op /\ done[i].told = log[i].told
      /\ done[j].marks = log[j].marks \cup m
  <2>1. m \in SUBSET Marks
    BY <1>4 DEF Marks
  <2> QED
    BY <1>1, <1>3, <2>1, MarkedView
<1>6. /\ \A x \in {"hit", "nested", "again"} :
           x \in done[j].marks <=> x \in log[j].marks
      /\ "moved" \in log[j].marks => "moved" \in done[j].marks
      /\ "complete" \in done[j].marks =>
           "complete" \in log[j].marks \/ "moved" \in done[j].marks
  BY <1>4, <1>5
<1>7. Answered(done[j])
  <2>1. Answered(log[j])
    BY <1>3 DEF Answering
  <2>2. \/ log[j].op # "write" \/ "hit" \in log[j].marks
    BY <1>0, <1>3 DEF Transfer, I!Has, I!Asyn
  <2> QED
    BY <1>3, <1>5, <1>6, <2>1, <2>2 DEF Answered
<1>8. \A i \in 1 .. Len(log) : Kept(log[i], done[i]) /\ Answered(done[i])
  <2> SUFFICES ASSUME NEW i \in 1 .. Len(log)
               PROVE  Kept(log[i], done[i]) /\ Answered(done[i])
    OBVIOUS
  <2>1. CASE i = j
    BY <1>5, <1>6, <1>7, <2>1 DEF Kept
  <2>2. CASE i # j
    BY <1>5, <2>2 DEF Kept, Answering
  <2> QED
    BY <2>1, <2>2
<1>9. CASE ch[c].used /\ call.pc # "idle"
  <2>1. /\ l = I!Marked(done, call.id, {"hit"}) /\ {"hit"} \in SUBSET Marks
        /\ call.id \in 1 .. Len(done) /\ call.id \in 0 .. Len(done)
    BY <1>2, <1>3, <1>5, <1>9 DEF Calling, Marks
  <2>2. /\ l \in Seq(Calls) /\ Len(l) = Len(done)
        /\ \A i \in 1 .. Len(log) :
             /\ i # call.id => l[i] = done[i]
             /\ l[i].op = done[i].op /\ l[i].told = done[i].told
        /\ l[call.id].marks = done[call.id].marks \cup {"hit"}
    BY <1>5, <2>1, MarkedView
  <2>3. /\ "hit" \in l[call.id].marks
        /\ \A x \in {"nested", "again", "moved", "complete"} :
             x \in l[call.id].marks <=> x \in done[call.id].marks
    BY <2>2
  <2>4. Kept(log[call.id], l[call.id]) /\ Answered(l[call.id])
    BY <1>5, <1>8, <2>1, <2>2, <2>3 DEF Kept, Answered
  <2>5. \A i \in 1 .. Len(log) : Kept(log[i], l[i]) /\ Answered(l[i])
    BY <1>8, <2>2, <2>4
  <2> QED
    BY <1>5, <1>9, <2>1, <2>2, <2>3, <2>5
<1>10. CASE ~(ch[c].used /\ call.pc # "idle")
  <2>1. l = done
    BY <1>2, <1>10
  <2>2. call.pc # "idle" => /\ ~ch[c].used /\ call.id \in 1 .. Len(log)
                            /\ call.id # j
    BY <1>0, <1>3, <1>10 DEF Calling, Transfer
  <2>3. call.pc # "idle" => Alike(log[call.id], l[call.id])
    BY <1>5, <2>1, <2>2 DEF Alike
  <2> QED
    BY <1>5, <1>8, <2>1, <2>2, <2>3 DEF Alike
<1> QED
  BY <1>9, <1>10

\* An interrupt that came during the call.
LEMMA HitCalling ==
  ASSUME Calling, call' = call, Len(log) \in Nat, Len(log') \in Nat,
         Len(log) <= Len(log'),
         call.pc # "idle" =>
           /\ Kept(log[call.id], log'[call.id])
           /\ log'[call.id].told = log[call.id].told
           /\ "hit" \in log'[call.id].marks
  PROVE  Calling'
<1>1. call.pc # "idle" => call.id \in 1 .. Len(log) /\ call.id \in 1 .. Len(log')
  BY DEF Calling
<1> QED
  BY <1>1 DEF Calling, Kept, I!Has

LEMMA StoppedView ==
  ASSUME I2cType, NEW c \in I2cChannels, NEW ok \in BOOLEAN,
         NEW new, new = I!Stopped(c, ok)
  PROVE  /\ new \in [I2cChannels -> ChannelState]
         /\ ~new[c].en /\ new[c].status \in {"success", "error"}
         /\ new[c].job = ch[c].job
         /\ \A c2 \in I2cChannels : c2 # c => new[c2] = ch[c2]
<1>1. PICK disabled : disabled = [ch EXCEPT ![c].en = FALSE]
  OBVIOUS
<1>2. PICK over : over = [disabled EXCEPT ![c].status = I!Result(ok)]
  OBVIOUS
<1>3. new = [over EXCEPT ![c].used = FALSE]
  BY <1>1, <1>2 DEF I!Stopped
<1>4. /\ disabled \in [I2cChannels -> ChannelState] /\ ~disabled[c].en
      /\ disabled[c].job = ch[c].job
      /\ \A c2 \in I2cChannels : c2 # c => disabled[c2] = ch[c2]
  BY <1>1 DEF I2cType, ChannelState
<1>5. I!Result(ok) \in {"success", "error"} /\ I!Result(ok) \in I!Status
  BY DEF I!Result, I!Status
<1>6. /\ over \in [I2cChannels -> ChannelState] /\ ~over[c].en
      /\ over[c].job = ch[c].job /\ over[c].status \in {"success", "error"}
      /\ \A c2 \in I2cChannels : c2 # c => over[c2] = ch[c2]
  BY <1>2, <1>4, <1>5 DEF ChannelState
<1> QED
  BY <1>3, <1>6 DEF ChannelState

LEMMA IrqAnswers ==
  ASSUME Answering, NEW c \in I2cChannels, NEW ok \in BOOLEAN, I!Irq(c, ok)
  PROVE  Answering'
<1>0. PICK s : s = I!Result(ok)
  OBVIOUS
<1>1. /\ I2cType /\ Calling /\ UNCHANGED <<call, copy>> /\ ch[c].en
      /\ log \in Seq(Calls) /\ log' = I!Over(c, ok)
      /\ ch' = I!Stopped(c, ok)
      /\ per' = IF ch[c].used THEN [per EXCEPT !.status = s] ELSE per
      /\ s \in {"success", "error"}
  BY <1>0 DEF Answering, I!Irq, I2cType, I!Result
<1>2. /\ log' \in Seq(Calls) /\ Len(log') = Len(log)
      /\ \A i \in 1 .. Len(log) : Kept(log[i], log'[i]) /\ Answered(log'[i])
      /\ call.pc # "idle" =>
           /\ log'[call.id].told = log[call.id].told
           /\ IF ch[c].used THEN "hit" \in log'[call.id].marks
              ELSE Alike(log[call.id], log'[call.id])
  BY <1>1, OverView
<1>3. /\ ch' \in [I2cChannels -> ChannelState]
      /\ ~ch'[c].en /\ ch'[c].status \in {"success", "error"} /\ ch'[c].job = ch[c].job
      /\ \A c2 \in I2cChannels : c2 # c => ch'[c2] = ch[c2]
  BY <1>0, <1>1, StoppedView
<1>4. per' \in [request : Asks \cup {"init", "uninit"}, status : I!Status]
  BY <1>1 DEF I2cType, I!Status
<1>5. I2cType'
  BY <1>1, <1>2, <1>3, <1>4 DEF I2cType
<1>6. ASSUME NEW c2 \in I2cChannels PROVE Transfer(c2)'
  <2>1. CASE c2 = c
    BY <1>1, <1>2, <1>3, <2>1 DEF Answering, Transfer
  <2>2. CASE c2 # c
    <3>1. Len(log) \in Nat
      BY <1>1
    <3> QED
      BY <1>2, <1>3, <2>2, <3>1, KeptTransfer DEF Answering
  <2> QED
    BY <2>1, <2>2
<1>7. Calling'
  <2>1. Len(log) \in Nat /\ (call.pc # "idle" => call.id \in 1 .. Len(log))
    BY <1>1 DEF Calling
  <2>2. CASE ch[c].used
    BY <1>1, <1>2, <2>1, <2>2, HitCalling
  <2>3. CASE ~ch[c].used
    <3>1. call.pc # "idle" => Alike(log[call.id], log'[call.id])
      BY <1>2, <2>3
    <3>2. per' = per
      BY <1>1, <2>3
    <3> QED
      BY <1>1, <1>2, <2>1, <3>1, <3>2 DEF Calling, Attempt, Alike, I!Has
  <2> QED
    BY <2>2, <2>3
<1> QED
  BY <1>2, <1>5, <1>6, <1>7 DEF Answering


LEMMA RestartAnswers ==
  ASSUME Answering, NEW c \in I2cChannels, I!IrqRestarts(c) PROVE Answering'
<1>0. PICK n, over, l, e, stopped, marks :
        /\ n = Len(log) + 1 /\ over = I!Over(c, TRUE)
        /\ l = IF c # Rx /\ ch[Rx].en
               THEN I!Marked(over, ch[Rx].job, {"aborted"}) ELSE over
        /\ marks = IF Rx = c THEN {"nested"} ELSE {}
        /\ e = [op |-> "read_asyn", told |-> "busy", marks |-> marks]
        /\ stopped = I!Stopped(c, TRUE)
  OBVIOUS
<1>1. /\ I2cType /\ Calling /\ UNCHANGED <<call, copy>>
      /\ ch[c].en /\ ch[c].used /\ log \in Seq(Calls)
      /\ log' = Append(l, e)
      /\ ch' = [stopped EXCEPT ![Rx] = [status |-> "busy", used |-> Rx # c,
                                        en |-> TRUE, job |-> n]]
      /\ per' = [request |-> "read_asyn", status |-> "busy"]
  BY <1>0 DEF Answering, I!IrqRestarts, I!Entry, I2cType
<1>2. /\ over \in Seq(Calls) /\ Len(over) = Len(log)
      /\ \A i \in 1 .. Len(log) : Kept(log[i], over[i]) /\ Answered(over[i])
      /\ call.pc # "idle" => /\ over[call.id].told = log[call.id].told
                             /\ "hit" \in over[call.id].marks
  <2>1. TRUE \in BOOLEAN
    OBVIOUS
  <2> QED
    BY <1>0, <1>1, <2>1, OverView
<1>3. /\ l \in Seq(Calls) /\ Len(l) = Len(log)
      /\ \A i \in 1 .. Len(log) : Alike(over[i], l[i])
  <2>1. CASE c # Rx /\ ch[Rx].en
    <3>1. /\ ch[Rx].job \in 0 .. Len(over) /\ {"aborted"} \in SUBSET Marks
      BY <1>2, I2cAre DEF Answering, Transfer, Marks
    <3>2. PICK j, m : j = ch[Rx].job /\ m = {"aborted"}
      OBVIOUS
    <3>3. /\ l = I!Marked(over, j, m) /\ j \in 0 .. Len(over)
          /\ m \in SUBSET Marks
      BY <1>0, <2>1, <3>1, <3>2
    <3>4. /\ l \in Seq(Calls) /\ Len(l) = Len(over)
          /\ \A i \in 1 .. Len(over) :
               /\ i # j => l[i] = over[i]
               /\ l[i].op = over[i].op /\ l[i].told = over[i].told
               /\ i = j => l[i].marks = over[i].marks \cup m
      BY <1>2, <3>3, MarkedView
    <3> QED
      BY <1>2, <3>2, <3>4 DEF Alike
  <2>2. CASE ~(c # Rx /\ ch[Rx].en)
    <3>1. l = over
      BY <1>0, <2>2
    <3> QED
      BY <1>2, <3>1 DEF Alike
  <2> QED
    BY <2>1, <2>2
<1>4. /\ e \in Calls /\ e.op = "read_asyn" /\ e.told = "busy"
      /\ e.marks = marks /\ marks \subseteq {"nested"}
      /\ "nested" \in marks <=> Rx = c
  <2>1. marks \subseteq {"nested"} /\ marks \in SUBSET Marks
    BY <1>0 DEF Marks
  <2> QED
    BY <1>0, <2>1 DEF Calls, I!Status, Asks
<1>5. /\ log' \in Seq(Calls) /\ Len(log') = n /\ log'[n] = e
      /\ \A i \in 1 .. Len(log) : log'[i] = l[i] /\ i \in 1 .. n /\ i # n
      /\ n \in 1 .. n /\ n \in Nat /\ Len(log) \in Nat /\ Len(log) <= n
      /\ \A i \in 1 .. n : i = n \/ i \in 1 .. Len(log)
  <2>1. n = Len(l) + 1 /\ Len(log) \in Nat
    <3>1. n = Len(log) + 1 /\ Len(l) = Len(log)
      BY <1>0, <1>3
    <3>2. Len(log) \in Nat
      BY <1>1
    <3> QED
      BY <3>1, <3>2
  <2>2. Len(log) <= n
    BY <1>0, <2>1
  <2> QED
    BY <1>1, <1>3, <1>4, <2>1, <2>2, AppendedView
<1>6. \A i \in 1 .. Len(log) : Kept(log[i], log'[i]) /\ Answered(log'[i])
  <2> SUFFICES ASSUME NEW i \in 1 .. Len(log)
               PROVE  Kept(log[i], log'[i]) /\ Answered(log'[i])
    OBVIOUS
  <2>1. /\ Kept(log[i], over[i]) /\ Answered(over[i])
        /\ Alike(over[i], l[i]) /\ log'[i] = l[i]
    BY <1>2, <1>3, <1>5
  <2>2. Answered(l[i])
    BY <2>1, AlikeAnswered
  <2> QED
    BY <2>1, <2>2 DEF Kept, Alike
<1>7. PICK new : new = [status |-> "busy", used |-> Rx # c, en |-> TRUE,
                        job |-> n]
  OBVIOUS
<1>8. /\ new \in ChannelState /\ new.status = "busy" /\ new.en
      /\ new.job = n /\ (new.used <=> Rx # c)
  <2>1. PICK used \in BOOLEAN : used = (Rx # c)
    OBVIOUS
  <2>2. new = [status |-> "busy", used |-> used, en |-> TRUE, job |-> n]
    BY <1>7, <2>1
  <2>3. new \in ChannelState
    BY <1>5, <2>2 DEF ChannelState, I!Status
  <2>4. new.used = used
    BY <2>2
  <2>5. new.used <=> Rx # c
    BY <2>1, <2>4, Zenon
  <2> QED
    BY <1>7, <2>3, <2>5
<1>9. /\ stopped \in [I2cChannels -> ChannelState]
      /\ ~stopped[c].en /\ stopped[c].status \in {"success", "error"}
      /\ stopped[c].job = ch[c].job
      /\ \A c2 \in I2cChannels : c2 # c => stopped[c2] = ch[c2]
  <2>1. TRUE \in BOOLEAN /\ I2cType /\ stopped = I!Stopped(c, TRUE)
    BY <1>0, <1>1
  <2> QED
    BY <2>1, StoppedView
<1>10. /\ ch' \in [I2cChannels -> ChannelState] /\ ch'[Rx] = new
       /\ \A c2 \in I2cChannels : c2 # Rx => ch'[c2] = stopped[c2]
  <2>1. ch' = [stopped EXCEPT ![Rx] = new]
    BY <1>1, <1>7
  <2> QED
    BY <1>8, <1>9, <2>1, I2cAre
<1>11. I2cType'
  <2>1. per' \in [request : Asks \cup {"init", "uninit"}, status : I!Status]
    BY <1>1 DEF Asks, I!Status
  <2> QED
    BY <1>1, <1>5, <1>10, <2>1 DEF I2cType
<1>12. ASSUME NEW c2 \in I2cChannels PROVE Transfer(c2)'
  <2>1. CASE c2 = Rx
    <3>1. n \in 0 .. n /\ n # 0
      BY <1>0, <1>5
    <3>2. "read_asyn" \in I!Asyn \cup {"copy"}
      BY DEF I!Asyn
    <3> QED
      BY <1>4, <1>5, <1>8, <1>10, <2>1, <3>1, <3>2 DEF Transfer, I!Has
  <2>2. CASE c2 # Rx /\ c2 = c
    <3>1. /\ ~ch'[c2].en /\ ch'[c2].status \in {"success", "error"}
          /\ ch'[c2].job = ch[c].job
      BY <1>9, <1>10, <2>2
    <3>2. ch[c].job \in 0 .. n
      BY <1>5 DEF Answering, Transfer
    <3> QED
      BY <1>5, <3>1, <3>2 DEF Transfer
  <2>3. CASE c2 # Rx /\ c2 # c
    <3>1. ch'[c2] = ch[c2]
      BY <1>9, <1>10, <2>3
    <3> QED
      BY <1>5, <1>6, <3>1, KeptTransfer DEF Answering
  <2> QED
    BY <2>1, <2>2, <2>3
<1>13. Calling'
  <2>1. call.pc # "idle" => call.id \in 1 .. Len(log)
    BY <1>1 DEF Calling
  <2>2. call.pc # "idle" => /\ log'[call.id].told = log[call.id].told
                            /\ "hit" \in log'[call.id].marks
    BY <1>2, <1>3, <1>5, <2>1 DEF Alike
  <2>3. call.pc # "idle" => Kept(log[call.id], log'[call.id])
    BY <1>6, <2>1
  <2> QED
    BY <1>1, <1>5, <2>2, <2>3, HitCalling
<1>14. Answered(e)
  BY <1>4 DEF Answered
<1> QED
  BY <1>5, <1>6, <1>11, <1>12, <1>13, <1>14 DEF Answering

LEMMA SameAnswering == ASSUME Answering, UNCHANGED i2cVars PROVE Answering'
<1>1. UNCHANGED <<per, ch, call, copy, log>>
  BY DEF i2cVars
<1> QED
  BY <1>1 DEF Answering, I2cType, Transfer, Calling, Attempt, I!Has

LEMMA InitAnswering == ASSUME Init PROVE Answering
<1>1. /\ per = [request |-> "init", status |-> "success"]
      /\ ch = [c \in I2cChannels |-> [status |-> "error", used |-> FALSE,
                                      en |-> FALSE, job |-> 0]]
      /\ call = [pc |-> "idle", id |-> 0, req |-> "init",
                 second |-> FALSE, short |-> FALSE, null |-> FALSE]
      /\ copy = 0 /\ log = <<>>
  BY DEF Init, I!Init, I!NoRequest
<1>2. I2cType
  BY <1>1 DEF I2cType, ChannelState, CallState, I!Status
<1>3. \A c \in I2cChannels : Transfer(c)
  <2>1. \A c \in I2cChannels : /\ ~ch[c].en /\ ch[c].status = "error"
                              /\ ch[c].job = 0
    BY <1>1
  <2>2. 0 \in 0 .. Len(log)
    BY <1>1
  <2> QED
    BY <2>1, <2>2 DEF Transfer
<1>4. Calling
  BY <1>1 DEF Calling
<1>5. \A i \in 1 .. Len(log) : Answered(log[i])
  BY <1>1
<1> QED
  BY <1>2, <1>3, <1>4, <1>5 DEF Answering

LEMMA NextAnswers == ASSUME Answering, [Next]_vars PROVE Answering'
<1>1. CASE UNCHANGED i2cVars
  BY <1>1, SameAnswering
<1>2. ASSUME NEW r \in I2cRequests, I!Request(r) PROVE Answering'
  BY <1>2, RequestAnswers
<1>3. CASE I!Caller
  BY <1>3, EnterAnswers, AddressAnswers, DataAnswers, DmaAnswers,
     LeaveAnswers, AfterAnswers, ReturnAnswers DEF I!Caller
<1>4. CASE I!CopyFind
  BY <1>4, CopyFindAnswers
<1>5. CASE I!CopyTake
  BY <1>5, CopyTakeAnswers
<1>6. CASE I!Interrupt
  BY <1>6, IrqAnswers, RestartAnswers DEF I!Interrupt
<1> QED
  BY <1>1, <1>2, <1>3, <1>4, <1>5, <1>6, I2cSteps DEF I!Next

\* What Answering says of the runs' properties.
LEMMA AnsweringIsTold ==
  ASSUME Answering
  PROVE  /\ I!BusyWhileTransferring /\ I!OwnerWhileTransferring
         /\ I!FailureIsHidden /\ I!WrittenIfSuccess /\ I!CompleteIfRead
<1>1. /\ log \in Seq(Calls) /\ DOMAIN log = 1 .. Len(log)
      /\ I!Asked = 1 .. Len(log)
  BY DEF Answering, I2cType, I!Asked
<1>2. I!BusyWhileTransferring /\ I!OwnerWhileTransferring
  BY DEF Answering, Transfer, I!BusyWhileTransferring, I!OwnerWhileTransferring
<1>3. I!FailureIsHidden /\ I!WrittenIfSuccess
  BY <1>1 DEF Answering, Answered, I!FailureIsHidden, I!WrittenIfSuccess, I!Has
<1>4. I!CompleteIfRead
  <2> SUFFICES ASSUME NEW i \in 1 .. Len(log), log[i].op = "read_asyn",
                      "complete" \in log[i].marks
               PROVE  \/ "moved" \in log[i].marks \/ "again" \in log[i].marks
                      \/ "hit" \in log[i].marks
    BY <1>1 DEF I!CompleteIfRead, I!Has
  <2> QED
    BY DEF Answering, Answered
<1> QED
  BY <1>2, <1>3, <1>4

-----------------------------------------------------------------------------
\* The channels of both drivers know what they transfer: for any number of
\* channels and devices, one that is enabled is busy to whoever looks for a
\* free one, and it has one request, whose peripheral it knows unless it was
\* started in a notification (driver_DMA.c:147, 342; F1/driver_DMA.c:45, 123).
THEOREM OneOwnerAlways == Spec => []OneOwnerPerTransfer
<1>1. Init => Telling /\ Answering
  BY InitTelling, InitAnswering
<1>2. Telling /\ Answering /\ [Next]_vars => Telling' /\ Answering'
  BY NextTells, NextAnswers
<1>3. Telling /\ Answering => OneOwnerPerTransfer
  BY TellingIsTold, AnsweringIsTold DEF OneOwnerPerTransfer
<1> QED
  BY <1>1, <1>2, <1>3, PTL DEF Spec

\* What a caller is told is what happened, but for the cases the properties of
\* the drivers name, for any requests and devices and interrupts at any step
\* (driver.c:48-138, driver_I2C.c:191-334, F1/driver.c:89-146,
\* driver_FLASH.c:8).
THEOREM AlwaysToldAsIs == Spec => []ToldAsIs
<1>1. Init => Telling /\ Answering /\ Rewriting
  BY InitTelling, InitAnswering, InitRewriting
<1>2. Telling /\ Answering /\ Rewriting /\ [Next]_vars =>
        Telling' /\ Answering' /\ Rewriting'
  BY NextTells, NextAnswers, NextRewrites
<1>3. Telling /\ Answering /\ Rewriting => ToldAsIs
  BY TellingIsTold, AnsweringIsTold, RewritingLosesOnePage DEF ToldAsIs
<1> QED
  BY <1>1, <1>2, <1>3, PTL DEF Spec


-----------------------------------------------------------------------------
\* The types.  Bytes of the flash are numbered by requests that were made, and
\* what is torn is a page.
Dated(x) == x = <<>> \/ x[1] \in 0 .. op.id

Numbered == /\ \A b \in F!Byte : Dated(flash[b]) /\ Dated(before[b])
            /\ torn \subseteq 0 .. Pages - 1

LEMMA InitNumbered == ASSUME Init PROVE Numbered
<1>1. /\ flash = [b \in F!Byte |-> <<0, b>>] /\ before = flash /\ torn = {}
      /\ op.id = 0
  BY DEF Init, F!Init
<1>2. \A b \in F!Byte : <<0, b>>[1] \in 0 .. 0
  OBVIOUS
<1> QED
  BY <1>1, <1>2 DEF Numbered, Dated

LEMMA NextNumbered ==
  ASSUME Rewriting, Numbered, [Next]_vars PROVE Numbered'
<1>0. FlashType /\ op \in Operation /\ op.id \in Nat /\ op.page \in Nat
  BY DEF Rewriting, FlashType, Operation
<1>1. ASSUME op'.id \in {op.id, op.id + 1}, torn' = torn,
             \A b \in F!Byte : /\ flash'[b] \in {flash[b], <<>>}
                               /\ before'[b] \in {before[b], flash[b]}
      PROVE  Numbered'
  <2>1. \A x : Dated(x) => Dated(x)'
    BY <1>0, <1>1 DEF Dated
  <2>2. Dated(<<>>)'
    BY DEF Dated
  <2> QED
    BY <1>1, <2>1, <2>2 DEF Numbered, Dated
<1>2. CASE UNCHANGED flashVars
  BY <1>2 DEF flashVars, Numbered, Dated
<1>3. ASSUME NEW r \in FlashRequests, F!Request(r) PROVE Numbered'
  <2>1. /\ op'.id = op.id + 1 /\ before' = flash
        /\ UNCHANGED <<flash, torn>>
    BY <1>3 DEF F!Request
  <2> QED
    BY <1>1, <2>1
<1>4. CASE F!Fill
  <2>1. op'.id = op.id /\ UNCHANGED <<flash, before, torn>>
    BY <1>0, <1>4 DEF F!Fill, Operation
  <2> QED
    BY <1>1, <2>1
<1>5. CASE F!Return
  <2>1. op'.id = op.id /\ UNCHANGED <<flash, before, torn>>
    BY <1>0, <1>5 DEF F!Return, Operation
  <2> QED
    BY <1>1, <2>1
<1>6. op.pc \in {"erase", "program"} => op.page \in 0 .. Pages - 1
  <2>1. op.pc \in {"erase", "program"} => op.page < Pages
    BY DEF Rewriting, AtPage
  <2> QED
    BY <1>0, <2>1, FlashSizes
<1>7. ASSUME NEW busy \in BOOLEAN, F!Erase(busy) PROVE Numbered'
  <2>1. /\ op'.id = op.id /\ before' = before
        /\ torn' = torn \/ torn' = torn \cup {op.page}
        /\ op.page \in 0 .. Pages - 1
    BY <1>0, <1>6, <1>7 DEF F!Erase, Operation
  <2>2. \A b \in F!Byte : flash'[b] \in {flash[b], <<>>}
    BY <1>7 DEF F!Erase, F!ErasedPage, F!Erased
  <2>3. \A b \in F!Byte :
          /\ flash'[b] = <<>> \/ flash'[b][1] \in 0 .. op.id
          /\ before'[b] = <<>> \/ before'[b][1] \in 0 .. op.id
    BY <2>1, <2>2 DEF Numbered, Dated
  <2>4. torn' \subseteq 0 .. Pages - 1
    BY <2>1 DEF Numbered
  <2> QED
    BY <2>1, <2>3, <2>4 DEF Numbered, Dated
<1>8. CASE F!Reset
  <2>1. /\ op'.id = op.id /\ UNCHANGED <<flash, before>>
        /\ \/ torn' = torn
           \/ torn' = torn \cup {op.page} /\ op.page \in 0 .. Pages - 1
    BY <1>0, <1>6, <1>8 DEF F!Reset, Operation
  <2>2. torn' \subseteq 0 .. Pages - 1
    BY <2>1 DEF Numbered
  <2> QED
    BY <2>1, <2>2 DEF Numbered, Dated
<1>9. CASE F!Program
  <2>0. PICK start : start = op.page * PageSize
    OBVIOUS
  <2>1. /\ op'.id = op.id /\ UNCHANGED <<before, torn>>
    BY <1>0, <1>9 DEF F!Program, F!NextPage, Operation
  <2>2. /\ start \in Nat /\ op.pc = "program"
        /\ \A b \in F!Byte : b \in Nat
        /\ \A o \in 0 .. PageSize - 1 : buf[o] = F!Wanted(start + o)
    BY <1>0, <1>9, <2>0, PageView DEF F!Program, Rewriting, AtPage
  <2>3. \A b \in F!Byte : Dated(F!Wanted(b))
    <3> SUFFICES ASSUME NEW b \in F!Byte PROVE Dated(F!Wanted(b))
      OBVIOUS
    <3>1. F!Wanted(b) = before[b] \/ F!Wanted(b) = <<op.id, b - op.at>>
      BY DEF F!Wanted
    <3>2. <<op.id, b - op.at>>[1] \in 0 .. op.id
      BY <1>0
    <3> QED
      BY <3>1, <3>2 DEF Numbered, Dated
  <2>4. \A b \in F!Byte : flash'[b] \in {flash[b], F!Wanted(b)}
    <3>1. CASE op.done < F!LastHalf
      <4>1. PICK first : first = start + 2 * op.done
        OBVIOUS
      <4>2. flash' = [b \in F!Byte |-> IF b \in {first, first + 1}
                                       THEN buf[b - start] ELSE flash[b]]
        BY <1>9, <2>0, <3>1, <4>1 DEF F!Program
      <4>3. op.done \in Nat /\ 2 * op.done + 1 < PageSize
        BY <1>0, <3>1, FlashSizes DEF Operation, F!LastHalf
      <4>4. \A b \in F!Byte : b \in {first, first + 1} =>
              b - start \in 0 .. PageSize - 1 /\ start + (b - start) = b
        BY <2>2, <4>1, <4>3, FlashSizes
      <4> QED
        BY <2>2, <4>2, <4>4
    <3>2. CASE ~(op.done < F!LastHalf)
      BY <1>9, <3>2 DEF F!Program
    <3> QED
      BY <3>1, <3>2
  <2>5. \A b \in F!Byte :
          /\ flash'[b] = <<>> \/ flash'[b][1] \in 0 .. op.id
          /\ before'[b] = <<>> \/ before'[b][1] \in 0 .. op.id
    BY <2>1, <2>3, <2>4 DEF Numbered, Dated
  <2> QED
    BY <2>1, <2>5 DEF Numbered, Dated
<1> QED
  BY <1>2, <1>3, <1>4, <1>5, <1>7, <1>8, <1>9, FlashSteps DEF F!Next

\* The types of the drivers, for any sizes and requests.
THEOREM TypesAlwaysOK == Spec => []TypesOK
<1>1. Init => Telling /\ Answering /\ Rewriting /\ Numbered
  BY InitTelling, InitAnswering, InitRewriting, InitNumbered
<1>2. Telling /\ Answering /\ Rewriting /\ Numbered /\ [Next]_vars =>
        Telling' /\ Answering' /\ Rewriting' /\ Numbered'
  BY NextTells, NextAnswers, NextRewrites, NextNumbered
<1>3. ASSUME Telling, Answering, Rewriting, Numbered PROVE TypesOK
  <2>1. I!TypeOK
    <3>1. /\ I2cType /\ Calling /\ DOMAIN log = 1 .. Len(log)
      BY <1>3 DEF Answering, I2cType
    <3>2. \A c \in I2cChannels : ch[c].job \in DOMAIN log \cup {0}
      <4>1. \A c \in I2cChannels : ch[c].job \in 0 .. Len(log)
        BY <1>3 DEF Answering, Transfer
      <4>2. Len(log) \in Nat
        BY <3>1 DEF I2cType
      <4>3. \A j \in 0 .. Len(log) : j = 0 \/ j \in 1 .. Len(log)
        BY <4>2
      <4>4. \A c \in I2cChannels : ch[c].job = 0 \/ ch[c].job \in 1 .. Len(log)
        BY <4>1, <4>3
      <4> QED
        BY <3>1, <4>4
    <3>3. \A c \in I2cChannels : ch[c].status \in I!Status
      BY <3>1 DEF I2cType, ChannelState
    <3>4. /\ per.status \in I!Status
          /\ per.request \in {"init", "uninit", "read", "write"} \cup I!Asyn
      BY <3>1 DEF I2cType, Asks, I!Asyn
    <3>5. /\ call.pc \in {"idle", "enter", "address", "data", "start", "leave",
                          "after", "return"}
          /\ call.pc # "idle" => call.id \in DOMAIN log
      BY <3>1 DEF I2cType, CallState, Calling
    <3> QED
      BY <3>2, <3>3, <3>4, <3>5 DEF I!TypeOK, I!Asked, I!NoRequest, I!At
  <2>2. D!TypeOK
    <3>1. DeviceType /\ DOMAIN requests = 1 .. Len(requests)
      BY <1>3 DEF Telling, DeviceType
    <3>2. \A c \in D!Channels : channel[c].job \in DOMAIN requests \cup {0}
      BY <1>3, <3>1 DEF Telling, Busy
    <3>3. \A i \in DOMAIN requests : requests[i].by \in D!Users
      <4> SUFFICES ASSUME NEW i \in DOMAIN requests
                   PROVE  requests[i].by \in D!Users
        OBVIOUS
      <4>1. requests[i] \in Entries
        BY <3>1 DEF DeviceType
      <4> QED
        BY <4>1 DEF Entries
    <3>4. \A c \in D!Channels : \A k \in D!Kinds :
            channel[c].call[k] \in Devices \cup {NONE}
      BY <3>1 DEF DeviceType
    <3>5. \A u \in D!Users : at[u].pc \in {"idle", "test", "claim", "refused"}
      BY <3>1 DEF DeviceType
    <3> QED
      BY <3>2, <3>3, <3>4, <3>5 DEF D!TypeOK, D!Asked
  <2>3. F!TypeOK
    <3>1. op \in Operation
      BY <1>3 DEF Rewriting, FlashType
    <3>2. /\ \A b \in F!Byte : flash[b] = F!Erased \/ flash[b][1] \in 0 .. op.id
          /\ torn \subseteq 0 .. Pages - 1
      BY <1>3 DEF Numbered, Dated, F!Erased
    <3>3. /\ op.pc \in {"idle", "fill", "erase", "program", "return"}
          /\ op.status \in {"error", "success"}
          /\ op.done \in 0 .. PageSize \div 2 /\ op.page \in Nat
          /\ op.offset \in 0 .. PageSize - 1 /\ op.left \in Nat
      BY <3>1 DEF Operation
    <3> QED
      BY <3>2, <3>3 DEF F!TypeOK
  <2> QED
    BY <2>1, <2>2, <2>3 DEF TypesOK
<1> QED
  BY <1>1, <1>2, <1>3, PTL DEF Spec

=============================================================================
