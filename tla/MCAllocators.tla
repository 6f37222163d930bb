---------------------------- MODULE MCAllocators ----------------------------
(***************************************************************************)
(* The allocators of memory_manage/ in one run.  They share no state, and  *)
(* part says which of them a behaviour is about; the others stay as they   *)
(* are initialised:                                                        *)
(*                                                                         *)
(*   "kmem"   kmem_malloc and kmem_free                                    *)
(*   "scan"   the same with two sizes, where calls have to return          *)
(*   "buddy"  the buddy system alone                                       *)
(*   "area"   the area allocator with one small area                       *)
(*   "areas"  the area allocator with ranges that overlap                  *)
(***************************************************************************)
EXTENDS Integers

CONSTANTS KmemRamSize, KmemMaxInfo, KmemListLength, KmemMaxLive,
          Requests, ScanRequests,
          BuddyRamSize, BuddyMaxInfo, BuddyListLength, BuddySizes,
          AreaSizes, AreaMaxLive, AreasSizes, AreasMaxLive

VARIABLES part, heap, call, live, refused, buddy, owned, area, ready, blocks, cause

K == INSTANCE Kmem WITH RamSize <- KmemRamSize, MaxInfo <- KmemMaxInfo,
       ListLength <- KmemListLength, MaxLive <- KmemMaxLive

S == INSTANCE Kmem WITH RamSize <- KmemRamSize, MaxInfo <- KmemMaxInfo,
       ListLength <- KmemListLength, MaxLive <- KmemMaxLive,
       Requests <- ScanRequests

B == INSTANCE Buddy WITH heap <- buddy, RamSize <- BuddyRamSize,
       MaxInfo <- BuddyMaxInfo, ListLength <- BuddyListLength,
       Sizes <- BuddySizes

\* AREA_ALIGN is 128 instead of 4096.
A == INSTANCE AreaAlloc WITH live <- blocks, AreaAlign <- 128,
       MaxAreaNum <- 1, Ranges <- {<<128, 256>>}, Sizes <- AreaSizes,
       MaxLive <- AreaMaxLive, MaxAlloc <- 160

\* An area that is aligned in both directions, one of its own, and one around
\* the first.
O == INSTANCE AreaAlloc WITH live <- blocks, AreaAlign <- 128,
       MaxAreaNum <- 2, Sizes <- AreasSizes, MaxLive <- AreasMaxLive,
       Ranges <- {<<200, 400>>, <<512, 640>>, <<128, 500>>}, MaxAlloc <- 128

ASSUME KmemAssumption ==
         K!RamAssumption /\ K!ListAssumption /\ K!RequestsAssumption
ASSUME BuddyAssumption ==
         B!RamAssumption /\ B!ListAssumption /\ B!SizesAssumption
ASSUME AreaAssumption == A!AlignAssumption /\ A!InputAssumption

kmemVars == <<heap, call, live, refused>>
buddyVars == <<buddy, owned>>
areaVars == <<area, ready, blocks, cause>>
vars == <<part, kmemVars, buddyVars, areaVars>>

Init == /\ part \in {"kmem", "scan", "buddy", "area", "areas"}
        /\ K!Init
        /\ B!Init
        /\ A!Init

Next ==
  /\ UNCHANGED part
  /\ \/ part = "kmem" /\ K!Next /\ UNCHANGED <<buddyVars, areaVars>>
     \/ part = "scan" /\ S!Next /\ UNCHANGED <<buddyVars, areaVars>>
     \/ part = "buddy" /\ B!Next /\ UNCHANGED <<kmemVars, areaVars>>
     \/ part = "area" /\ A!Next /\ UNCHANGED <<kmemVars, buddyVars>>
     \/ part = "areas" /\ O!Next /\ UNCHANGED <<kmemVars, buddyVars>>

Fairness == /\ WF_kmemVars(part = "scan" /\ S!Scan)
            /\ WF_kmemVars(part = "scan" /\ S!Refill)

Spec == Init /\ [][Next]_vars /\ Fairness

-----------------------------------------------------------------------------
\* The types of each allocator.
TypesOK == K!TypeOK /\ B!TypeOK /\ O!TypeOK

\* No allocator hands out memory twice, and each block is as large as what
\* was asked for, but for the sizes and after the events the code is known to
\* get wrong.  Every operation on the lists has to agree with all others
\* (memory_kmem.c:18-56, memory_block.c:115-130, memory_tool.c:41-123).
NothingHandedOutTwice ==
  /\ K!LiveApart
  /\ B!Tiled /\ B!FitsPowersOfTwo
  /\ A!ApartUntilCause /\ O!ApartUntilCause /\ O!OverlapOnlyAround

\* What is free can be found: every block is counted, in the list of its size
\* or held, and every byte of an area is in a block or a fragment
\* (memory_kmem.c:181-198, memory_block.c:168-178, memory_tool.c:95).
NothingLost ==
  /\ K!BlocksCounted /\ K!NoBlockLost /\ K!RefusedTooLarge
  /\ B!Accounted /\ B!NoStaleUnlink
  /\ A!Tiled /\ A!RecordsInOrder /\ A!LargestFirst

\* memory_manage_sort leaves no free block next to the unused memory, although
\* giving one back may uncover a block of a smaller class that was already
\* looked at (memory_manage.c:59).
SortGivesAllBack == B!SortGivesAllBack

\* A call of kmem_malloc leaves the loop over the partial list, unless that
\* list became NULL under it (memory_kmem.c:139).
ScanIsLeft == part = "scan" => S!ScanEnds
=============================================================================
