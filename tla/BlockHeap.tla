------------------------------ MODULE BlockHeap ------------------------------
(***************************************************************************)
(* The functions of memory_manage/memory_block.c as operators on a heap:   *)
(*                                                                         *)
(*   front, back  os_unused_memory_front_ptr and _back_ptr                 *)
(*   free         free_info_block                                          *)
(*   buddy        buddy_system_list                                        *)
(*   cur, partial slob_current and slob_partial                            *)
(*   blk          the info blocks, numbered in the order in which they     *)
(*                were taken from the front of the memory; NULL is 0       *)
(*   torn         why the lists cannot be trusted any more, or "no"        *)
(*                                                                         *)
(* All lists are circular and linked through next and prev (work_next and  *)
(* work_previous); a block that has been unlinked keeps its own links, as  *)
(* in the code.  A heap that is torn is not used any further: "reused" (a  *)
(* block in use was handed out as a new info block, or linked with the     *)
(* free ones), "links" (a block was unlinked or linked through links that  *)
(* are out of date, which changed another list), "null" (a pointer that is *)
(* NULL or was never written is followed).  role is bookkeeping: what an   *)
(* info block serves for.  The end of a block is start + size.             *)
(***************************************************************************)
EXTENDS Integers, SequencesExt, FiniteSetsExt

CONSTANTS RamSize,    \* SRAM_END, counted from the end of the used segment
          MaxInfo,    \* info blocks that can exist: a bound of the models
          ListLength  \* BUDDY_SYSTEM_LIST_LENGTH

RamAssumption == RamSize \in Nat /\ RamSize >= 4096
ListAssumption == ListLength \in 1 .. 20 /\ MaxInfo \in Nat \ {0}

NULL == 0
Page == 4096      \* 0x1000
InfoSize == 32    \* sizeof(MEMORY_BLOCK)
Info == 1 .. MaxInfo
Class == 0 .. ListLength - 1

NoInfo == [role |-> "none", size |-> 0, start |-> 0, next |-> NULL,
           prev |-> NULL, avail |-> 0, ref |-> 0, slob |-> <<>>]

EndOf(h, b) == h.blk[b].start + h.blk[b].size

Tear(h, why) == IF h.torn = "no" THEN [h EXCEPT !.torn = why] ELSE h

\* The statements that take b out of the list its links lead to.
Unlink(h, b) ==
  LET n == h.blk[b].next
      p == h.blk[b].prev
      linked == h.blk[n].prev = b /\ h.blk[p].next = b
      already == h.blk[n].prev = p /\ h.blk[p].next = n
  IN IF NULL \in {n, p} THEN Tear(h, "null")
     ELSE LET cut == [h EXCEPT !.blk[n].prev = p, !.blk[p].next = n]
          IN IF linked \/ already THEN cut ELSE Tear(cut, "links")

SelfLinked(h, b) == [h EXCEPT !.blk[b].next = b, !.blk[b].prev = b]

LinkBefore(h, b, n) ==
  LET p == h.blk[n].prev
      out == [h EXCEPT !.blk[b].next = n, !.blk[b].prev = p,
                       !.blk[p].next = b, !.blk[n].prev = b]
  IN IF h.blk[p].next = n THEN out ELSE Tear(out, "links")

-----------------------------------------------------------------------------
\* info_block_get: [h, b].  The last free info block stays free as well.
InfoGet(h) ==
  IF h.free # NULL
  THEN LET b == h.free
       IN [h |-> IF h.blk[b].role = "block" THEN Tear(h, "reused")
                 ELSE [Unlink(h, b) EXCEPT !.free = h.blk[b].next,
                                           !.blk[b].role = "block"],
           b |-> b]
  ELSE IF h.front + InfoSize < h.back
       THEN [h |-> [h EXCEPT !.front = @ + InfoSize,
                             !.blk[h.front \div InfoSize + 1].role = "block"],
             b |-> h.front \div InfoSize + 1]
       ELSE [h |-> h, b |-> NULL]

InfoInsert(h, b) ==
  IF b = NULL THEN Tear(h, "null")
  ELSE LET out == [Unlink(h, b) EXCEPT !.blk[b].role = "info"]
       IN IF h.free = NULL THEN [SelfLinked(out, b) EXCEPT !.free = b]
          ELSE IF h.blk[h.free].role = "block"
                  /\ ~(h.free = b /\ h.blk[b].next = b)
               THEN Tear(out, "reused")
               ELSE LinkBefore(out, b, h.free)

Carve(h, b, size) ==
  SelfLinked([h EXCEPT !.back = @ - size,
                       !.blk[b].size = size, !.blk[b].avail = size,
                       !.blk[b].start = h.back - size,
                       !.blk[b].ref = 0, !.blk[b].slob = <<>>], b)

\* Mutant: the memory that is left is not compared with the size.
CarvedUnchecked(got, size) ==
  IF got.b = NULL THEN [h |-> Tear(got.h, "null"), b |-> NULL]
  ELSE [h |-> Carve(got.h, got.b, size), b |-> got.b]

\* got is the new info block.
Carved(got, size) ==
  IF got.h.back - got.h.front >= size
  THEN IF got.b = NULL THEN [h |-> Tear(got.h, "null"), b |-> NULL]
       ELSE [h |-> Carve(got.h, got.b, size), b |-> got.b]
  ELSE [h |-> InfoInsert(got.h, got.b), b |-> NULL]

\* memory_block_create: carves a block from the back of the unused memory.
BlockCreate(h, size) == Carved(InfoGet(h), size)

\* NORMALIZE_SIZE: the class of the highest bit, and the size rounded up to a
\* power of two.  The class is not rounded up with the size.
ClassOf(size) == CHOOSE c \in 0 .. 19 : /\ Page * 2^c <= size
                                        /\ size < Page * 2^(c + 1)
RoundUp(size) == LET floor == Page * 2^ClassOf(size)
                 IN IF size = floor THEN floor ELSE 2 * floor

\* The block in front of which memory_block_insert links b.
Successor(h, b, c) ==
  LET head == h.buddy[c]
      from[x \in Info] ==
        IF h.blk[x].start > h.blk[b].start THEN x
        ELSE IF h.blk[x].next = head THEN head ELSE from[h.blk[x].next]
  IN from[head]

BlockInsert(h, b) ==
  LET c == ClassOf(h.blk[b].size)
      clear == [h EXCEPT !.blk[b].slob = <<>>]
      n == Successor(h, b, c)
      first == n = h.buddy[c] /\ h.blk[n].start > h.blk[b].start
  IN IF b = NULL \/ h.blk[b].ref # 0 THEN h
     ELSE IF h.buddy[c] = NULL
          THEN [SelfLinked(clear, b) EXCEPT !.buddy[c] = b]
          ELSE LinkBefore(IF first THEN [clear EXCEPT !.buddy[c] = b]
                          ELSE clear, b, n)

TakeHead(h, c) ==
  LET b == h.buddy[c]
      n == h.blk[b].next
  IN [Unlink(h, b) EXCEPT !.buddy[c] = IF n = b THEN NULL ELSE n,
                          !.blk[b].ref = 0]

Halved(h, b, low) ==
  LET half == h.blk[b].size \div 2
  IN [h EXCEPT !.blk[low] = [@ EXCEPT !.size = half, !.avail = half,
                               !.start = h.blk[b].start, !.ref = 0,
                               !.slob = <<>>],
               !.blk[b] = [@ EXCEPT !.size = half, !.avail = half,
                             !.start = @ + half]]

\* The halves of block b go to the list; got is the info block of the lower.
InsertHalves(got, b) ==
  IF got.b = NULL THEN Tear(got.h, "null")
  ELSE IF got.h.torn # "no" THEN got.h
  ELSE LET cut == SelfLinked(Halved(got.h, b, got.b), got.b)
       IN BlockInsert(BlockInsert(cut, b), got.b)

\* One round of the inner loop of memory_block_get: the first block of class
\* c is halved, its lower half gets an info block of its own.
Split(h, c) == IF h.torn # "no" THEN h
               ELSE InsertHalves(InfoGet(TakeHead(h, c)), h.buddy[c])

FirstOf(h, c) == IF h.torn # "no" THEN [h |-> h, b |-> NULL]
                 ELSE [h |-> TakeHead(h, c), b |-> h.buddy[c]]

\* memory_block_get.
BlockGet(h, size) ==
  LET c == ClassOf(size)
      some == {k \in Class : k >= c /\ h.buddy[k] # NULL}
      down == LET k == Min(some) IN [i \in 1 .. k - c |-> k + 1 - i]
  IN IF c \notin Class THEN [h |-> h, b |-> NULL]
     ELSE IF some = {} THEN BlockCreate(h, RoundUp(size))
     ELSE FirstOf(FoldLeft(Split, h, down), c)

\* memory_manage_sort, from line 42: while the first block of a list lies at
\* the end of the unused memory, it is given back to it.
GiveBack(h, i) ==
  LET at == {c \in Class : h.buddy[c] # NULL /\ h.torn = "no"
                           /\ h.blk[h.buddy[c]].start = h.back}
      c == Min(at)
      b == h.buddy[c]
      out == TakeHead(h, c)
  IN IF at = {} THEN h ELSE InfoInsert([out EXCEPT !.back = EndOf(h, b)], b)

\* Mutant: only the first block found is given back.
BlockSortFirst(h) == GiveBack(h, 1)

BlockSort(h) == FoldLeft(GiveBack, h, [i \in Info |-> i])

\* The memory after memory_manage_initialize, before slob_current is created.
EmptyHeap == [front |-> 0, back |-> RamSize, free |-> NULL,
              buddy |-> [c \in Class |-> NULL], cur |-> NULL,
              partial |-> NULL, blk |-> [b \in Info |-> NoInfo],
              torn |-> "no"]

\* The blocks that a walk from head comes to, and whether it comes back.
Ring(h, head) ==
  LET step(S, i) == S \cup {h.blk[x].next : x \in S \ {NULL}}
  IN FoldLeft(step, {head}, [i \in Info |-> i]) \ {NULL}
Closed(h, head) == \E x \in Ring(h, head) : h.blk[x].next = head

Blocks(h) == {b \in Info : h.blk[b].role = "block"}
=============================================================================
