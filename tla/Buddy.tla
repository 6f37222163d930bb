-------------------------------- MODULE Buddy --------------------------------
(***************************************************************************)
(* The buddy system of memory_manage/ on its own: blocks are taken with    *)
(* memory_block_get, given back with memory_block_insert and, by           *)
(* memory_manage_sort, to the unused memory.  Calls are not preempted.     *)
(***************************************************************************)
EXTENDS BlockHeap

CONSTANT Sizes  \* the sizes asked for

SizesAssumption == Sizes \subseteq Nat /\ \A s \in Sizes : s >= Page

VARIABLES heap,
          owned  \* the blocks handed out: info block and size asked for

vars == <<heap, owned>>

Init == heap = EmptyHeap /\ owned = {}

Usable == heap.torn = "no" /\ heap.front < MaxInfo * InfoSize

Get(size) ==
  LET got == BlockGet(heap, size)
  IN /\ Usable
     /\ heap' = got.h
     /\ owned' = IF got.b = NULL \/ got.h.torn # "no" THEN owned
                 ELSE owned \cup {[b |-> got.b, asked |-> size]}

Put(o) == /\ Usable
          /\ heap' = BlockInsert(heap, o.b)
          /\ owned' = owned \ {o}

Sort == /\ Usable
        /\ heap' = BlockSort(heap)
        /\ UNCHANGED owned

Next == \/ \E size \in Sizes : Get(size)
        \/ \E o \in owned : Put(o)
        \/ Sort

Spec == Init /\ [][Next]_vars

-----------------------------------------------------------------------------
Sound == heap.torn = "no"

Listed(c) == Ring(heap, heap.buddy[c])

\* Types, as far as they do not follow from the definitions: the unused memory
\* has a front and a back, a block belongs to a list or to a caller.
TypeOK == /\ heap.torn \in {"no", "reused", "links", "null"}
          /\ heap.front \in 0 .. heap.back /\ heap.back \in 0 .. RamSize
          /\ Sound => \A o \in owned : o.b \in Blocks(heap)

\* The blocks tile the memory from back to the end: no byte is in two blocks,
\* none is lost.  Splitting, the last free info block and giving back must
\* agree (memory_block.c:115-130, memory_manage.c:57).
Tiled ==
  Sound =>
    /\ \A a, b \in Blocks(heap) :
         a # b => \/ EndOf(heap, a) <= heap.blk[b].start
                  \/ EndOf(heap, b) <= heap.blk[a].start
    /\ \A b \in Blocks(heap) : heap.blk[b].start >= heap.back
    /\ MapThenSumSet(LAMBDA b : heap.blk[b].size, Blocks(heap))
         = RamSize - heap.back

\* Every block is handed out or in the list of its size, and no block is both
\* or in two lists; a list starts with its lowest block, which is the one
\* memory_manage_sort looks at (memory_block.c:168-178).
Accounted ==
  Sound =>
    /\ \A c \in Class : \A b \in Listed(c) :
         /\ heap.blk[b].size = Page * 2^c
         /\ heap.blk[b].start >= heap.blk[heap.buddy[c]].start
    /\ \A b \in Blocks(heap) :
         (\A o \in owned : o.b # b) <=> b \in UNION {Listed(c) : c \in Class}
    /\ \A o, q \in owned : o.b = q.b => o = q

\* A block is as large as what was asked for, if that is a power of two.
\* NORMALIZE_SIZE rounds the size up but not its class, so the first block of
\* the class below may be handed out for other sizes (memory_block.h:23).
FitsPowersOfTwo ==
  Sound => \A o \in owned : o.asked \in {Page * 2^c : c \in Class}
                              => heap.blk[o.b].size >= o.asked

\* In the buddy system alone a block is only unlinked where it is linked.
NoStaleUnlink == heap.torn # "links"

\* After memory_manage_sort no free block is next to the unused memory: giving
\* one back may uncover a block of a smaller class that was already looked at
\* (memory_manage.c:59, local = 0).
SortGivesAllBack ==
  [][owned' = owned /\ heap'.back # heap.back /\ Sort /\ Sound' =>
       \A b \in UNION {Listed(c)' : c \in Class} :
         heap'.blk[b].start # heap'.back]_vars
=============================================================================
