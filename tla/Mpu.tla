--------------------------------- MODULE Mpu ---------------------------------
(***************************************************************************)
(* The memory protection unit of the F4 (Driver/F4/driver_MPU.c): regions  *)
(* are added to and deleted from the array next_regions, MPU_exchange      *)
(* programs the unit with them and swaps the array with current_regions.   *)
(* The arrays are mpu_regions0 and mpu_regions1.                           *)
(*                                                                         *)
(* An address counts the 32 bytes of the smallest region; permissions are  *)
(* numbered as in PERISSIONS, NO_ACCESS = 0 to READ_AND_WRITE = 2.  A call *)
(* that returns an error changes no variable and is not a step; the arrays *)
(* regions_base_address and regions_end_address are only written.          *)
(***************************************************************************)
EXTENDS Naturals

CONSTANTS RegionNumber,  \* MPU_REGION_NUMBER
          Bases,         \* the addresses asked for
          Lengths,       \* the lengths asked for
          Permissions,   \* the pairs <<privileged, unprivileged>> asked for
          NULL

ASSUME RegionNumberAssumption == RegionNumber \in Nat \ {0}
ASSUME BasesAssumption == Bases \subseteq Nat /\ 0 \in Bases
ASSUME LengthsAssumption == Lengths \subseteq Nat \ {0}
ASSUME PermissionsAssumption == Permissions \subseteq (0 .. 2) \X (0 .. 2)
ASSUME NullAssumption == NULL \notin [base : Nat, end : Nat, ap : 0 .. 7]

VARIABLES next_regions, current_regions,
          unit  \* what RBAR and RASR of each region enable, or NULL

vars == <<next_regions, current_regions, unit>>

Numbers == 0 .. RegionNumber - 1

Unused == [valid |-> FALSE, base |-> 0, end |-> 0, permissions |-> <<0, 0>>]

\* A region that is not in use any more: the slot keeps the rest.
Invalid(r) == [r EXCEPT !.valid = FALSE]

NewRegion(base, length, permissions) ==
  [valid |-> TRUE, base |-> base, end |-> base + length - 1,
   permissions |-> permissions]

Init == /\ next_regions = [n \in Numbers |-> Unused]
        /\ current_regions = [n \in Numbers |-> Unused]
        /\ unit = [n \in Numbers |-> NULL]

-----------------------------------------------------------------------------
\* MPU_add.  The first n regions and what the unused region n still holds are
\* compared with each other; the new region is not.

Within(r, s) == s.base <= r.base /\ r.base <= s.end

ClashUpTo(n) == \E i, j \in 0 .. n : i # j /\ Within(next_regions[i],
                                                     next_regions[j])

ClashBefore(n) == n > 1 /\ ClashUpTo(n - 2)  \* a mutant of Clash

Clash(n) == ClashUpTo(n)

AnyPair(permissions) == permissions \in Permissions  \* a mutant of Permitted

Permitted(permissions) == permissions[1] >= permissions[2]

FirstUnused(n) == /\ ~next_regions[n].valid
                  /\ \A i \in 0 .. n - 1 : next_regions[i].valid

MPU_add(n, region) ==
  /\ Permitted(region.permissions)
  /\ FirstUnused(n)
  /\ ~Clash(n)
  /\ next_regions' = [next_regions EXCEPT ![n] = region]
  /\ UNCHANGED <<current_regions, unit>>

-----------------------------------------------------------------------------
\* MPU_delete: the regions behind the first one at that address move down.

InUse(n) == \A i \in 0 .. n : next_regions[i].valid

FirstAt(n, base) == /\ InUse(n)
                    /\ next_regions[n].base = base
                    /\ \A i \in 0 .. n - 1 : next_regions[i].base # base

\* A mutant of WithoutRegion, which leaves a hole.
WithoutMoving(n) == [next_regions EXCEPT ![n] = Invalid(@)]

WithoutRegion(n) ==
  [i \in Numbers |->
     IF i < n \/ ~InUse(i) THEN next_regions[i]
     ELSE IF i = RegionNumber - 1 THEN Invalid(next_regions[i])
     ELSE next_regions[i + 1]]

MPU_delete(base) == \E n \in Numbers : /\ FirstAt(n, base)
                                       /\ next_regions' = WithoutRegion(n)
                                       /\ UNCHANGED <<current_regions, unit>>

-----------------------------------------------------------------------------
\* MPU_exchange

\* The AP field of RASR for a pair of permissions.
AccessField(permissions) == CASE permissions = <<2, 2>> -> 3
                              [] permissions = <<2, 1>> -> 2
                              [] permissions = <<2, 0>> -> 1
                              [] permissions = <<1, 1>> -> 6
                              [] permissions = <<1, 0>> -> 5
                              [] OTHER -> 0

Enabled(r) == r.valid /\ r.permissions[1] >= r.permissions[2]

Programmed(r) == [base |-> r.base, end |-> r.end,
                  ap |-> AccessField(r.permissions)]

\* A mutant of ProgrammedUnit: RASR of an unused region is not cleared.
UnitKeepsOld ==
  [n \in Numbers |-> IF Enabled(next_regions[n])
                       THEN Programmed(next_regions[n]) ELSE unit[n]]

ProgrammedUnit ==
  [n \in Numbers |-> IF Enabled(next_regions[n])
                       THEN Programmed(next_regions[n]) ELSE NULL]

MPU_exchange ==
  /\ unit' = ProgrammedUnit
  /\ current_regions' = next_regions
  /\ next_regions' = [n \in Numbers |-> Invalid(current_regions[n])]

-----------------------------------------------------------------------------
Next == \/ \E n \in Numbers, base \in Bases, length \in Lengths,
             permissions \in Permissions :
               MPU_add(n, NewRegion(base, length, permissions))
        \/ \E base \in Bases : MPU_delete(base)
        \/ MPU_exchange

Spec == Init /\ [][Next]_vars

-----------------------------------------------------------------------------
Regions == [valid : BOOLEAN, base : Bases, end : Nat,
            permissions : {p \in (0 .. 2) \X (0 .. 2) : p[1] >= p[2]}]

\* Every variable keeps its type; no region gives unprivileged code more than
\* privileged code.
TypeOK == /\ next_regions \in [Numbers -> Regions]
          /\ current_regions \in [Numbers -> Regions]
          /\ \A n \in Numbers :
               unit[n] = NULL \/ unit[n] \in [base : Bases, end : Nat, ap : 0 .. 7]

\* The valid regions come first in both arrays, whatever is added, deleted
\* and exchanged: MPU_add and MPU_delete stop at the first that is not valid.
ValidFirst ==
  \A regions \in {next_regions, current_regions} :
    \A n \in Numbers : regions[n].valid => \A i \in 0 .. n : regions[i].valid

Overlap(r, s) == Within(r, s) \/ Within(s, r)

\* MPU_add compares the regions that are there before it adds another one, so
\* that two regions overlap only if one of them is the last.
OverlapOnlyWithLast ==
  \A regions \in {next_regions, current_regions} :
    \A i, j \in Numbers :
      i < j /\ regions[j].valid /\ Overlap(regions[i], regions[j])
        => \A k \in Numbers : regions[k].valid => k <= j

\* The access that an AP field gives privileged and unprivileged code (ARMv7-M).
Grants(ap) == CASE ap = 1 -> <<2, 0>>
                [] ap = 2 -> <<2, 1>>
                [] ap = 3 -> <<2, 2>>
                [] ap = 5 -> <<1, 0>>
                [] ap \in {6, 7} -> <<1, 1>>
                [] OTHER -> <<0, 0>>

\* The unit protects exactly the valid regions of current_regions, each with
\* the access that was asked for; nothing of an earlier exchange is left.
UnitIsCurrent ==
  \A n \in Numbers :
    LET r == current_regions[n]
    IN  IF r.valid
          THEN /\ unit[n] # NULL
               /\ unit[n].base = r.base /\ unit[n].end = r.end
               /\ Grants(unit[n].ap) = r.permissions
          ELSE unit[n] = NULL

\* What driver_MPU.c says of line 24 on: a region that overlaps another one is
\* not added.  The comparison leaves the new region out.
AddChecksAddressAndSize ==
  \A i, j \in Numbers :
    i # j /\ next_regions[i].valid /\ next_regions[j].valid
      => ~Within(next_regions[i], next_regions[j])
=============================================================================
