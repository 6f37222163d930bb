------------------------------ MODULE MpuProofs ------------------------------
(***************************************************************************)
(* The invariants of Mpu, for any number of regions and any addresses,     *)
(* lengths and permissions.                                                *)
(*                                                                         *)
(* The regions of one array are Compact (the valid ones come first) and    *)
(* Disjoint but for the last.  Disjointness relies on compactness: only    *)
(* because nothing valid lies behind the slot that MPU_add fills has it    *)
(* compared all the regions that are there.                                *)
(***************************************************************************)
EXTENDS Mpu, TLAPS

Compact(regions) ==
  \A n \in Numbers : regions[n].valid => \A i \in 0 .. n : regions[i].valid

Disjoint(regions) ==
  \A i, j \in Numbers :
    i < j /\ regions[j].valid /\ Overlap(regions[i], regions[j])
      => \A k \in Numbers : regions[k].valid => k <= j

Arrays == [Numbers -> Regions]

\* The inductive invariant of the arrays.
Ordered == /\ next_regions \in Arrays /\ current_regions \in Arrays
           /\ Compact(next_regions) /\ Compact(current_regions)
           /\ Disjoint(next_regions) /\ Disjoint(current_regions)

-----------------------------------------------------------------------------
\* A slot that was never used is a region.
LEMMA UnusedType == Unused \in Regions
  BY BasesAssumption DEF Unused, Regions

\* A region whose slot is given up is a region that is not valid.
LEMMA InvalidType ==
  ASSUME NEW r \in Regions
  PROVE  Invalid(r) \in Regions /\ ~Invalid(r).valid
  BY DEF Regions, Invalid

\* What MPU_add puts into a slot, once it has permitted the access, is a region.
LEMMA NewRegionType ==
  ASSUME NEW base \in Bases, NEW length \in Lengths,
         NEW permissions \in Permissions, Permitted(permissions)
  PROVE  NewRegion(base, length, permissions) \in Regions
<1>1. base \in Nat /\ length \in Nat \ {0}
  BY BasesAssumption, LengthsAssumption
<1>2. base + length - 1 \in Nat
  BY <1>1
<1>3. /\ permissions \in (0 .. 2) \X (0 .. 2)
      /\ permissions[1] >= permissions[2]
  BY PermissionsAssumption DEF Permitted
<1> QED
  BY <1>2, <1>3 DEF NewRegion, Regions

\* Filling the first unused slot of an array keeps it compact, and disjoint
\* when nothing before that slot overlaps.
LEMMA AddOrdered ==
  ASSUME Ordered, NEW n \in Numbers, NEW r \in Regions, r.valid,
         MPU_add(n, r)
  PROVE  Ordered'
<1> DEFINE old == next_regions
           new == next_regions'
<1>1. /\ new = [old EXCEPT ![n] = r]
      /\ UNCHANGED current_regions
      /\ FirstUnused(n)
      /\ ~Clash(n)
  BY DEF MPU_add
<1>2. old \in Arrays /\ new \in Arrays
  BY <1>1 DEF Ordered, Arrays
<1>3. new[n] = r /\ \A i \in Numbers \ {n} : new[i] = old[i]
  BY <1>1, <1>2 DEF Arrays
<1>4. \A i \in Numbers : new[i].valid <=> i <= n
  <2> SUFFICES ASSUME NEW i \in Numbers
               PROVE  new[i].valid <=> i <= n
    OBVIOUS
  <2>1. CASE i = n
    BY <1>3, <2>1, RegionNumberAssumption DEF Numbers
  <2>2. CASE i < n
    BY <1>1, <1>3, <2>2, RegionNumberAssumption DEF FirstUnused, Numbers
  <2>3. CASE i > n
    <3>1. ~old[n].valid /\ n \in 0 .. i
      BY <1>1, <2>3, RegionNumberAssumption DEF FirstUnused, Numbers
    <3> QED
      BY <1>3, <2>3, <3>1, RegionNumberAssumption
      DEF Ordered, Compact, Numbers
  <2> QED
    BY <2>1, <2>2, <2>3, RegionNumberAssumption DEF Numbers
<1>5. Compact(new)
  BY <1>4, RegionNumberAssumption DEF Compact, Numbers
<1>6. Disjoint(new)
  <2> SUFFICES ASSUME NEW i \in Numbers, NEW j \in Numbers, NEW k \in Numbers,
                      i < j, new[j].valid, Overlap(new[i], new[j]),
                      new[k].valid
               PROVE  k <= j
    BY DEF Disjoint
  <2>1. k <= n /\ j <= n
    BY <1>4
  <2>2. CASE j = n
    BY <2>1, <2>2
  <2>3. CASE j < n
    <3>1. Overlap(old[i], old[j])
      BY <1>3, <2>3, RegionNumberAssumption DEF Numbers
    <3>2. i \in 0 .. n /\ j \in 0 .. n /\ i # j
      BY <2>3, RegionNumberAssumption DEF Numbers
    <3>3. Clash(n)
      BY <3>1, <3>2 DEF Overlap, Clash, ClashUpTo
    <3> QED
      BY <1>1, <3>3
  <2> QED
    BY <2>1, <2>2, <2>3, RegionNumberAssumption DEF Numbers
<1> QED
  BY <1>1, <1>2, <1>5, <1>6 DEF Ordered

\* Moving the regions behind a deleted one down keeps the array compact, and
\* keeps the pairs of regions that remain and their order.
LEMMA DeleteOrdered ==
  ASSUME Ordered, NEW n \in Numbers, InUse(n),
         next_regions' = WithoutRegion(n), UNCHANGED current_regions
  PROVE  Ordered'
<1> DEFINE old == next_regions
           new == next_regions'
<1>1. old \in Arrays /\ \A i \in Numbers : old[i] \in Regions
  BY DEF Ordered, Arrays
<1>2. \A i \in Numbers : old[i].valid <=> InUse(i)
  BY RegionNumberAssumption DEF Ordered, Compact, InUse, Numbers
<1>3. \A i \in Numbers : i < n => new[i] = old[i] /\ old[i].valid
  BY RegionNumberAssumption DEF WithoutRegion, InUse, Numbers
<1>4. \A i \in Numbers :
        i >= n /\ InUse(i) /\ i # RegionNumber - 1
          => i + 1 \in Numbers /\ new[i] = old[i + 1]
  BY RegionNumberAssumption DEF WithoutRegion, Numbers
<1>5. \A i \in Numbers :
        i >= n /\ ~(InUse(i) /\ i # RegionNumber - 1) => ~new[i].valid
  <2> SUFFICES ASSUME NEW i \in Numbers, i >= n,
                      ~(InUse(i) /\ i # RegionNumber - 1)
               PROVE  ~new[i].valid
    OBVIOUS
  <2>1. CASE ~InUse(i)
    <3>1. new[i] = old[i]
      BY <2>1 DEF WithoutRegion
    <3> QED
      BY <1>2, <2>1, <3>1
  <2>2. CASE InUse(i) /\ i = RegionNumber - 1
    <3>1. new[i] = Invalid(old[i])
      BY <2>2, RegionNumberAssumption DEF WithoutRegion, Numbers
    <3> QED
      BY <1>1, <3>1, InvalidType
  <2> QED
    BY <2>1, <2>2
<1>6. new \in Arrays
  <2>1. \A i \in Numbers : new[i] \in Regions
    <3> SUFFICES ASSUME NEW i \in Numbers
                 PROVE  new[i] \in Regions
      OBVIOUS
    <3>1. CASE i < n
      BY <1>1, <1>3, <3>1
    <3>2. CASE i >= n /\ InUse(i) /\ i # RegionNumber - 1
      BY <1>1, <1>4, <3>2
    <3>3. CASE i >= n /\ ~InUse(i)
      BY <1>1, <3>3 DEF WithoutRegion
    <3>4. CASE i >= n /\ InUse(i) /\ i = RegionNumber - 1
      <4>1. new[i] = Invalid(old[i])
        BY <3>4, RegionNumberAssumption DEF WithoutRegion, Numbers
      <4> QED
        BY <1>1, <4>1, InvalidType
    <3> QED
      BY <3>1, <3>2, <3>3, <3>4, RegionNumberAssumption DEF Numbers
  <2> QED
    BY <2>1 DEF WithoutRegion, Arrays
<1>7. Compact(new)
  <2> SUFFICES ASSUME NEW m \in Numbers, new[m].valid, NEW i \in 0 .. m
               PROVE  new[i].valid
    BY DEF Compact
  <2>0. i \in Numbers /\ i <= m
    BY RegionNumberAssumption DEF Numbers
  <2>1. CASE i < n
    BY <1>3, <2>0, <2>1
  <2>2. CASE i >= n
    <3>1. m >= n /\ InUse(m) /\ m # RegionNumber - 1
      BY <1>5, <2>0, <2>2, RegionNumberAssumption DEF Numbers
    <3>2. m + 1 \in Numbers /\ old[m + 1].valid
      BY <1>4, <3>1
    <3>3. /\ i + 1 \in 0 .. m + 1 /\ i + 1 \in Numbers
          /\ i \in 0 .. m + 1 /\ i # RegionNumber - 1
      BY <2>0, <3>2, RegionNumberAssumption DEF Numbers
    <3>4. old[i + 1].valid /\ InUse(i)
      BY <1>2, <2>0, <3>2, <3>3 DEF Ordered, Compact
    <3> QED
      BY <1>4, <2>0, <2>2, <3>3, <3>4
  <2> QED
    BY <2>0, <2>1, <2>2, RegionNumberAssumption DEF Numbers
<1>8. Disjoint(new)
  <2> SUFFICES ASSUME NEW i \in Numbers, NEW j \in Numbers, NEW k \in Numbers,
                      i < j, new[j].valid, Overlap(new[i], new[j]),
                      new[k].valid
               PROVE  k <= j
    BY DEF Disjoint
  <2>0. old[n].valid
    BY <1>2
  <2>1. CASE j < n
    <3>1. i < n /\ Overlap(old[i], old[j]) /\ old[j].valid
      BY <1>3, <2>1, RegionNumberAssumption DEF Numbers
    <3>2. n <= j
      BY <2>0, <3>1 DEF Ordered, Disjoint
    <3> QED
      BY <2>1, <3>2, RegionNumberAssumption DEF Numbers
  <2>2. CASE j >= n
    <3>1. /\ j + 1 \in Numbers /\ new[j] = old[j + 1]
      BY <1>4, <1>5, <2>2
    <3>2. PICK h \in Numbers : h < j + 1 /\ new[i] = old[h]
      <4>1. CASE i < n
        BY <1>3, <4>1, RegionNumberAssumption DEF Numbers
      <4>2. CASE i >= n
        <5>1. new[i].valid
          BY <1>7, RegionNumberAssumption DEF Compact, Numbers
        <5>2. i + 1 \in Numbers /\ new[i] = old[i + 1]
          BY <1>4, <1>5, <4>2, <5>1
        <5>3. i + 1 < j + 1
          BY RegionNumberAssumption DEF Numbers
        <5> QED
          BY <5>2, <5>3
      <4> QED
        BY <4>1, <4>2, RegionNumberAssumption DEF Numbers
    <3>3. \A l \in Numbers : old[l].valid => l <= j + 1
      BY <3>1, <3>2 DEF Ordered, Disjoint
    <3>4. CASE k < n
      BY <2>2, <3>4, RegionNumberAssumption DEF Numbers
    <3>5. CASE k >= n
      <4>1. k + 1 \in Numbers /\ old[k + 1].valid
        BY <1>4, <1>5, <3>5
      <4> QED
        BY <3>3, <4>1, RegionNumberAssumption DEF Numbers
    <3> QED
      BY <3>4, <3>5, RegionNumberAssumption DEF Numbers
  <2> QED
    BY <2>1, <2>2, RegionNumberAssumption DEF Numbers
<1> QED
  BY <1>6, <1>7, <1>8 DEF Ordered

\* An exchange leaves next_regions without a valid region.
LEMMA ExchangeOrdered == Ordered /\ MPU_exchange => Ordered'
<1> SUFFICES ASSUME Ordered, MPU_exchange
             PROVE  Ordered'
  OBVIOUS
<1>1. /\ current_regions' = next_regions
      /\ next_regions' = [n \in Numbers |-> Invalid(current_regions[n])]
  BY DEF MPU_exchange
<1>2. \A n \in Numbers : /\ next_regions'[n] \in Regions
                         /\ ~next_regions'[n].valid
  BY <1>1, InvalidType DEF Ordered, Arrays
<1>3. next_regions' \in Arrays
  BY <1>1, <1>2 DEF Arrays
<1>4. Compact(next_regions)' /\ Disjoint(next_regions)'
  BY <1>2 DEF Compact, Disjoint
<1> QED
  BY <1>1, <1>3, <1>4 DEF Ordered, Compact, Disjoint, Overlap, Within

\* Every step of the unit keeps the arrays ordered.
LEMMA NextOrdered == Ordered /\ [Next]_vars => Ordered'
<1> SUFFICES ASSUME Ordered, [Next]_vars
             PROVE  Ordered'
  OBVIOUS
<1>1. ASSUME NEW n \in Numbers, NEW base \in Bases, NEW length \in Lengths,
             NEW permissions \in Permissions,
             MPU_add(n, NewRegion(base, length, permissions))
      PROVE  Ordered'
  <2> DEFINE r == NewRegion(base, length, permissions)
  <2>1. Permitted(permissions) /\ r.valid
    BY <1>1 DEF MPU_add, NewRegion
  <2>2. r \in Regions
    BY <2>1, NewRegionType
  <2> QED
    BY <1>1, <2>1, <2>2, AddOrdered
<1>2. ASSUME NEW base \in Bases, MPU_delete(base)
      PROVE  Ordered'
  BY <1>2, DeleteOrdered DEF MPU_delete, FirstAt
<1>3. CASE MPU_exchange
  BY <1>3, ExchangeOrdered
<1>4. CASE UNCHANGED vars
  BY <1>4 DEF vars, Ordered, Compact, Disjoint
<1> QED
  BY <1>1, <1>2, <1>3, <1>4 DEF Next

\* The two arrays are ordered at first: no region is valid.
LEMMA InitOrdered == Init => Ordered
  BY UnusedType DEF Init, Ordered, Arrays, Compact, Disjoint, Unused

\* In every reachable state the valid regions come first in both arrays, so
\* that MPU_add and MPU_delete, which stop at the first that is not valid,
\* have seen them all.
THEOREM ValidAlwaysFirst == Spec => []ValidFirst
<1>1. Ordered => ValidFirst
  BY DEF Ordered, Compact, ValidFirst
<1> QED
  BY <1>1, InitOrdered, NextOrdered, PTL DEF Spec

\* In every reachable state two regions of an array overlap only if one of
\* them is the last: an overlap goes undetected by MPU_add once, not twice.
THEOREM OverlapsOnlyWithLast == Spec => []OverlapOnlyWithLast
<1>1. Ordered => OverlapOnlyWithLast
  BY DEF Ordered, Disjoint, OverlapOnlyWithLast
<1> QED
  BY <1>1, InitOrdered, NextOrdered, PTL DEF Spec
-----------------------------------------------------------------------------
\* What the unit holds of one region, and that AccessField and Grants agree:
\* the six pairs that MPU_add permits have six different AP fields.
Settings == [base : Bases, end : Nat, ap : 0 .. 7]

LEMMA ProgrammedRegion ==
  ASSUME NEW r \in Regions
  PROVE  /\ Programmed(r) \in Settings
         /\ Programmed(r).base = r.base /\ Programmed(r).end = r.end
         /\ Grants(Programmed(r).ap) = r.permissions
<1>1. /\ r.base \in Bases /\ r.end \in Nat
      /\ r.permissions \in (0 .. 2) \X (0 .. 2)
      /\ r.permissions[1] >= r.permissions[2]
  BY DEF Regions
<1>2. r.permissions \in {<<0, 0>>, <<1, 0>>, <<1, 1>>,
                         <<2, 0>>, <<2, 1>>, <<2, 2>>}
  BY <1>1
<1>3. /\ AccessField(r.permissions) \in 0 .. 7
      /\ Grants(AccessField(r.permissions)) = r.permissions
  BY <1>2 DEF AccessField, Grants
<1> QED
  BY <1>1, <1>3 DEF Programmed, Settings

\* After an exchange the unit holds the valid regions of the array that was
\* next, and NULL in every other place: all of them are Enabled.
LEMMA ProgrammedArray ==
  ASSUME Ordered, NEW n \in Numbers
  PROVE  ProgrammedUnit[n] = IF next_regions[n].valid
                               THEN Programmed(next_regions[n]) ELSE NULL
<1>1. next_regions[n] \in Regions
  BY DEF Ordered, Arrays
<1>2. Enabled(next_regions[n]) <=> next_regions[n].valid
  BY <1>1 DEF Enabled, Regions
<1> QED
  BY <1>2 DEF ProgrammedUnit

UnitType == \A n \in Numbers : unit[n] = NULL \/ unit[n] \in Settings

\* Nothing but MPU_exchange changes current_regions or the unit.
LEMMA OnlyExchangeChangesUnit ==
  ASSUME [Next]_vars
  PROVE  UNCHANGED <<current_regions, unit>> \/ MPU_exchange
  BY DEF Next, vars, MPU_add, MPU_delete

\* The unit is well typed after every step.
LEMMA NextUnitType == Ordered /\ UnitType /\ [Next]_vars => UnitType'
<1> SUFFICES ASSUME Ordered, UnitType, [Next]_vars
             PROVE  UnitType'
  OBVIOUS
<1>1. CASE UNCHANGED <<current_regions, unit>>
  BY <1>1 DEF UnitType
<1>2. CASE MPU_exchange
  <2> SUFFICES ASSUME NEW n \in Numbers
               PROVE  unit'[n] = NULL \/ unit'[n] \in Settings
    BY DEF UnitType
  <2>1. next_regions[n] \in Regions /\ unit' = ProgrammedUnit
    BY <1>2 DEF Ordered, Arrays, MPU_exchange
  <2> QED
    BY <2>1, ProgrammedArray, ProgrammedRegion
<1> QED
  BY <1>1, <1>2, OnlyExchangeChangesUnit

\* The unit protects the current regions after every step.
LEMMA NextUnitIsCurrent ==
  Ordered /\ UnitIsCurrent /\ [Next]_vars => UnitIsCurrent'
<1> SUFFICES ASSUME Ordered, UnitIsCurrent, [Next]_vars
             PROVE  UnitIsCurrent'
  OBVIOUS
<1>1. CASE UNCHANGED <<current_regions, unit>>
  BY <1>1 DEF UnitIsCurrent
<1>2. CASE MPU_exchange
  <2> SUFFICES ASSUME NEW n \in Numbers
               PROVE  LET r == next_regions[n]
                          u == unit'[n]
                      IN  IF r.valid
                            THEN /\ u # NULL
                                 /\ u.base = r.base /\ u.end = r.end
                                 /\ Grants(u.ap) = r.permissions
                            ELSE u = NULL
    BY <1>2 DEF UnitIsCurrent, MPU_exchange
  <2>1. next_regions[n] \in Regions /\ unit' = ProgrammedUnit
    BY <1>2 DEF Ordered, Arrays, MPU_exchange
  <2>2. Programmed(next_regions[n]) # NULL
    BY <2>1, ProgrammedRegion, NullAssumption, BasesAssumption DEF Settings
  <2> QED
    BY <2>1, <2>2, ProgrammedArray, ProgrammedRegion
<1> QED
  BY <1>1, <1>2, OnlyExchangeChangesUnit

\* The unit is off at first, and no region is valid.
LEMMA InitUnit == Init => UnitType /\ UnitIsCurrent
  BY DEF Init, UnitType, UnitIsCurrent, Unused

\* In every reachable state the arrays hold regions that give unprivileged
\* code no more access than privileged code, and the unit holds settings.
THEOREM TypeCorrect == Spec => []TypeOK
<1>1. Ordered /\ UnitType => TypeOK
  BY DEF Ordered, Arrays, UnitType, Settings, TypeOK
<1> QED
  BY <1>1, InitOrdered, InitUnit, NextOrdered, NextUnitType, PTL DEF Spec

\* In every reachable state the unit protects exactly the valid regions of
\* current_regions, with the addresses and the access that MPU_add was given:
\* MPU_exchange leaves nothing of an earlier exchange in RBAR and RASR.
THEOREM UnitAlwaysCurrent == Spec => []UnitIsCurrent
  BY InitOrdered, InitUnit, NextOrdered, NextUnitIsCurrent, PTL DEF Spec
=============================================================================
