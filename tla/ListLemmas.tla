------------------------------ MODULE ListLemmas ------------------------------
(***************************************************************************)
(* What the sequence operators that model the program's linked lists do,   *)
(* position by position, and the least element of a set of naturals, which *)
(* is how the proofs argue by induction.                                   *)
(***************************************************************************)
EXTENDS Integers, SequencesExt, SequenceTheorems, NaturalsInduction,
        WellFoundedInduction, TLAPS

LEMMA LeastNat ==
  ASSUME NEW S \in SUBSET Nat, S # {}
  PROVE  \E m \in S : \A k \in S : m <= k
<1>1. IsWellFoundedOn(OpToRel(<, Nat), Nat)
  BY NatLessThanWellFounded
<1>2. \E x \in S : \A y \in S : ~(<<y, x>> \in OpToRel(<, Nat))
  BY <1>1, WFMin
<1>3. \A x, y \in Nat : <<y, x>> \in OpToRel(<, Nat) <=> y < x
  BY DEF OpToRel
<1>4. \A x \in S : x \in Nat
  OBVIOUS
<1>5. \E x \in S : \A y \in S : ~(y < x)
  BY <1>2, <1>3, <1>4, Zenon
<1> QED
  BY <1>4, <1>5, SMT

\* A set of positions that is closed under the next position holds all of
\* them.
LEMMA EveryPosition ==
  ASSUME NEW n \in Nat, NEW S, 1 \in S,
         \A i \in 1 .. n : i \in S /\ i + 1 <= n => i + 1 \in S
  PROVE  \A i \in 1 .. n : i \in S
<1> DEFINE T == {i \in 1 .. n : i \notin S}
<1> SUFFICES ASSUME T # {} PROVE FALSE
  OBVIOUS
<1>1. PICK m \in T : \A k \in T : m <= k
  <2>1. T \in SUBSET Nat
    OBVIOUS
  <2> QED
    BY <2>1, LeastNat
<1>2. m # 1 /\ m \in 1 .. n /\ m \notin S
  BY <1>1
<1>3. m - 1 \in 1 .. n /\ m - 1 \in S
  BY <1>1, <1>2
<1> QED
  BY <1>2, <1>3

LEMMA ConcatView ==
  ASSUME NEW S, NEW a \in Seq(S), NEW b \in Seq(S)
  PROVE  /\ a \o b \in Seq(S)
         /\ Len(a \o b) = Len(a) + Len(b)
         /\ \A j \in 1 .. Len(a) : (a \o b)[j] = a[j]
         /\ \A j \in 1 .. Len(b) : (a \o b)[Len(a) + j] = b[j]
  OBVIOUS

LEMMA RemoveAtView ==
  ASSUME NEW S, NEW s \in Seq(S), NEW i \in 1 .. Len(s)
  PROVE  /\ RemoveAt(s, i) \in Seq(S)
         /\ Len(RemoveAt(s, i)) = Len(s) - 1
         /\ \A j \in 1 .. Len(s) - 1 :
              RemoveAt(s, i)[j] = IF j < i THEN s[j] ELSE s[j + 1]
<1>1. i \in Nat /\ Len(s) \in Nat
  OBVIOUS
<1>2. \E a \in Seq(S), b \in Seq(S) :
        /\ RemoveAt(s, i) = a \o b
        /\ Len(a) = i - 1 /\ \A j \in 1 .. i - 1 : a[j] = s[j]
        /\ Len(b) = Len(s) - i /\ \A j \in 1 .. Len(s) - i : b[j] = s[i + j]
  <2>1. /\ SubSeq(s, 1, i - 1) \in Seq(S)
        /\ Len(SubSeq(s, 1, i - 1)) = i - 1
        /\ \A j \in 1 .. i - 1 : SubSeq(s, 1, i - 1)[j] = s[j]
    BY <1>1
  <2>2. /\ SubSeq(s, i + 1, Len(s)) \in Seq(S)
        /\ Len(SubSeq(s, i + 1, Len(s))) = Len(s) - i
        /\ \A j \in 1 .. Len(s) - i : SubSeq(s, i + 1, Len(s))[j] = s[i + j]
    BY <1>1
  <2> QED
    BY <2>1, <2>2, Zenon DEF RemoveAt
<1>3. PICK a \in Seq(S), b \in Seq(S) :
        /\ RemoveAt(s, i) = a \o b
        /\ Len(a) = i - 1 /\ \A j \in 1 .. i - 1 : a[j] = s[j]
        /\ Len(b) = Len(s) - i /\ \A j \in 1 .. Len(s) - i : b[j] = s[i + j]
  BY <1>2
<1>4. /\ a \o b \in Seq(S) /\ Len(a \o b) = Len(a) + Len(b)
      /\ \A j \in 1 .. Len(a) : (a \o b)[j] = a[j]
      /\ \A j \in 1 .. Len(b) : (a \o b)[Len(a) + j] = b[j]
  BY ConcatView
<1>5. ASSUME NEW j \in 1 .. Len(s) - 1
      PROVE  RemoveAt(s, i)[j] = IF j < i THEN s[j] ELSE s[j + 1]
  <2>1. CASE j < i
    <3>1. j \in 1 .. Len(a) /\ j \in 1 .. i - 1
      BY <1>1, <1>3, <2>1
    <3>2. (a \o b)[j] = a[j] /\ a[j] = s[j]
      BY <1>3, <1>4, <3>1
    <3> QED
      BY <1>3, <2>1, <3>2
  <2>2. CASE ~(j < i)
    <3>1. PICK k \in 1 .. Len(b) : j = Len(a) + k /\ j + 1 = i + k
      <4>1. j - Len(a) \in 1 .. Len(b)
        BY <1>1, <1>3, <2>2
      <4> QED
        BY <1>1, <1>3, <2>2, <4>1
    <3> QED
      BY <1>3, <1>4, <2>2, <3>1
  <2> QED
    BY <2>1, <2>2
<1> QED
  BY <1>1, <1>3, <1>4, <1>5

LEMMA InsertAtView ==
  ASSUME NEW S, NEW s \in Seq(S), NEW i \in 1 .. Len(s), NEW x \in S
  PROVE  /\ InsertAt(s, i, x) \in Seq(S)
         /\ Len(InsertAt(s, i, x)) = Len(s) + 1
         /\ \A j \in 1 .. Len(s) + 1 :
              InsertAt(s, i, x)[j] = IF j < i THEN s[j]
                                     ELSE IF j = i THEN x ELSE s[j - 1]
  BY SMTT(30) DEF InsertAt

LEMMA SuffixView ==
  ASSUME NEW S, NEW s \in Seq(S), NEW n \in 0 .. Len(s)
  PROVE  /\ SubSeq(s, n + 1, Len(s)) \in Seq(S)
         /\ Len(SubSeq(s, n + 1, Len(s))) = Len(s) - n
         /\ \A j \in 1 .. Len(s) - n : SubSeq(s, n + 1, Len(s))[j] = s[n + j]
  BY SubSeqProperties

LEMMA AppendView ==
  ASSUME NEW S, NEW s \in Seq(S), NEW x \in S
  PROVE  /\ Append(s, x) \in Seq(S)
         /\ Len(Append(s, x)) = Len(s) + 1
         /\ \A j \in 1 .. Len(s) + 1 :
              Append(s, x)[j] = IF j = Len(s) + 1 THEN x ELSE s[j]
  OBVIOUS

LEMMA PushView ==
  ASSUME NEW S, NEW s \in Seq(S), NEW x \in S
  PROVE  /\ <<x>> \o s \in Seq(S)
         /\ Len(<<x>> \o s) = Len(s) + 1
         /\ \A j \in 1 .. Len(s) + 1 :
              (<<x>> \o s)[j] = IF j = 1 THEN x ELSE s[j - 1]
  BY ConcatProperties
=============================================================================
