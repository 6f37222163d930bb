--------------------------------- MODULE Kmem ---------------------------------
(***************************************************************************)
(* kmem_malloc and kmem_free (memory_manage/memory_kmem.c) on the heap of  *)
(* BlockHeap: blocks of a page, slob_current and the circular list of      *)
(* slob_partial, are cut into caches.  The caches of a block are the       *)
(* sequence slob, in the order in which they were cut; the lists in which  *)
(* the owners of caches link them (work_next) are left out.                *)
(*                                                                         *)
(* A call of kmem_malloc is one step per block it looks at.  Calls are not *)
(* preempted by other calls.  A request of a page or more ends in          *)
(* "memset": line 119 puts KMEM_MASK into the size that line 122 clears.   *)
(***************************************************************************)
EXTENDS BlockHeap

CONSTANTS Requests,  \* the sizes asked for
          MaxLive    \* caches in use at a time: a bound of the models

RequestsAssumption == Requests \subseteq Nat \ {0} /\ MaxLive \in Nat

VARIABLES heap,
          call,     \* what kmem_malloc is about to do, for which size, where
          live,     \* the caches handed out and not yet freed
          refused   \* the sizes for which NULL was returned

vars == <<heap, call, live, refused>>

KmemMinSize == 64  \* KMEM_MIN_SIZE
Interval == 16     \* INTERVAL
Header == 32       \* sizeof(KERNEL_MEMORY_CACHE)

Taken(size) == size + Header + Interval

Idle == [pc |-> "idle", size |-> 0, at |-> NULL]
Sound == heap.torn = "no"

Init == /\ LET got == BlockCreate(EmptyHeap, Page)
           IN heap = [got.h EXCEPT !.cur = got.b]
        /\ call = Idle
        /\ live = {}
        /\ refused = {}

-----------------------------------------------------------------------------
\* kmem_get_from_block: [h, at], at is the cache or NULL.

Fitting(h, b, size) == {i \in DOMAIN h.blk[b].slob :
                          /\ h.blk[b].slob[i].size >= size
                          /\ ~h.blk[b].slob[i].used}

Reuse(h, b, i) == [h |-> [h EXCEPT !.blk[b].slob[i].used = TRUE,
                                   !.blk[b].ref = @ + 1],
                   at |-> h.blk[b].slob[i].at]

Cut(h, b, size) ==
  LET at == EndOf(h, b) - h.blk[b].avail + Interval
  IN [h |-> [h EXCEPT !.blk[b].ref = @ + 1,
                      !.blk[b].avail = @ - Taken(size),
                      !.blk[b].slob = Append(@, [at |-> at, size |-> size,
                                                 used |-> TRUE])],
      at |-> at]

\* The head of the partial list is replaced by its successor; the last block
\* but one that is left is given up together with it.
NextPartial(h) ==
  LET n == h.blk[h.partial].next
  IN [h EXCEPT !.partial = IF h.blk[n].next = n THEN NULL ELSE n]

\* slob_current is full: it becomes the head of the partial list, which stays
\* linked there, or a new block.
NewCurrent(h) ==
  LET n == h.blk[h.partial].next
      got == BlockGet(h, Page)
  IN IF h.partial # NULL
     THEN [h EXCEPT !.cur = h.partial,
                    !.partial = IF n = h.partial THEN NULL ELSE n]
     ELSE [got.h EXCEPT !.cur = got.b]

Drop(h, b) == LET out == Unlink(h, b)
              IN IF out.torn # "no" THEN out
                 ELSE IF b = h.cur THEN NewCurrent(out)
                 ELSE IF b = h.partial THEN NextPartial(out)
                 ELSE out

GetFromBlock(h, b, size) ==
  IF b = NULL THEN [h |-> Tear(h, "null"), at |-> NULL]
  ELSE IF Fitting(h, b, size) # {} THEN Reuse(h, b, Min(Fitting(h, b, size)))
  ELSE IF h.blk[b].avail >= Taken(size) THEN Cut(h, b, size)
  ELSE [h |-> IF h.blk[b].avail <= KmemMinSize THEN Drop(h, b) ELSE h,
        at |-> NULL]

-----------------------------------------------------------------------------
\* kmem_malloc

Return(b, at, size) == /\ call' = Idle
                       /\ live' = live \cup {[b |-> b, at |-> at,
                                              size |-> size]}
                       /\ UNCHANGED refused

Large(size) == size + Header >= Page

MallocLarge(size) == /\ Large(size)
                     /\ heap' = Tear(heap, "memset")
                     /\ UNCHANGED <<call, live, refused>>

\* slob_current first, which has answered got.  The head of the partial list
\* is read before that, at line 126, and not again.
AfterCurrent(size, got) ==
  /\ heap' = got.h
  /\ IF got.at # NULL THEN Return(heap.cur, got.at, size)
     ELSE /\ call' = [pc |-> IF got.h.partial # NULL THEN "scan" ELSE "refill",
                      size |-> size, at |-> heap.partial]
          /\ UNCHANGED <<live, refused>>

MallocCurrent(size) ==
  ~Large(size) /\ AfterCurrent(size, GetFromBlock(heap, heap.cur, size))

Malloc(size) == /\ Sound /\ call.pc = "idle" /\ Cardinality(live) < MaxLive
                /\ MallocLarge(size) \/ MallocCurrent(size)

\* Mutant: the loop does not move on.
NextToScanSame(h, b) == b

NextToScan(h, b) == h.blk[b].next

\* The loop over the partial list, until it is back at the head of the list.
AfterScanned(got) ==
  /\ heap' = got.h
  /\ IF got.at # NULL THEN Return(call.at, got.at, call.size)
     ELSE LET n == NextToScan(got.h, call.at)
          IN /\ call' = [call EXCEPT !.at = n,
                           !.pc = IF n = got.h.partial THEN "refill"
                                  ELSE "scan"]
             /\ UNCHANGED <<live, refused>>

Scan == /\ Sound /\ call.pc = "scan"
        /\ AfterScanned(GetFromBlock(heap, call.at, call.size))

\* A block b from the buddy system, which has answered got, joins the list.
AfterRefilled(b, got) ==
  LET h == got.h
  IN /\ heap' = IF h.torn # "no" THEN h
                ELSE IF h.partial # NULL THEN LinkBefore(h, b, h.partial)
                ELSE [SelfLinked(h, b) EXCEPT !.partial = b]
     /\ IF got.at # NULL THEN Return(b, got.at, call.size)
        ELSE /\ call' = Idle
             /\ refused' = IF h.torn = "no" THEN refused \cup {call.size}
                           ELSE refused
             /\ UNCHANGED live

Refill ==
  LET new == BlockGet(heap, Page)
  IN /\ Sound /\ call.pc = "refill"
     /\ AfterRefilled(new.b, GetFromBlock(new.h, new.b, call.size))

\* kmem_free of a cache l that is in use.
Release(h, l) ==
  [h EXCEPT !.blk[l.b].ref = @ - 1,
            !.blk[l.b].slob = [i \in DOMAIN @ |->
               IF @[i].at = l.at THEN [@[i] EXCEPT !.used = FALSE] ELSE @[i]]]

\* Mutant: the block does not go back to the buddy system.
ReleaseBlockKept(h, b) ==
  LET out == Unlink([h EXCEPT !.blk[b].slob = <<>>, !.blk[b].avail = Page], b)
  IN IF out.torn = "no" /\ b = h.partial /\ b # h.cur
     THEN NextPartial(out) ELSE out

\* The last cache of a block is gone: unless it is slob_current, the block
\* goes back to the buddy system.  slob_partial, which may be the same block
\* as slob_current, is then left pointing out of its list.
ReleaseBlock(h, b) ==
  LET out == Unlink([h EXCEPT !.blk[b].slob = <<>>, !.blk[b].avail = Page], b)
  IN IF out.torn # "no" THEN out
     ELSE IF b = h.cur
     THEN IF b = h.partial /\ h.blk[b].next # b THEN Tear(out, "links")
          ELSE out
     ELSE BlockInsert(IF b = h.partial THEN NextPartial(out) ELSE out, b)

Free(l) == LET h == Release(heap, l)
           IN /\ Sound /\ call.pc = "idle"
              /\ heap' = IF h.blk[l.b].ref = 0 THEN ReleaseBlock(h, l.b) ELSE h
              /\ live' = live \ {l}
              /\ UNCHANGED <<call, refused>>

\* memory_block_slob_recyc: the unused caches at the end of a block, except
\* the first cache, become available again.
Recycled(h, b) ==
  LET slob == h.blk[b].slob
      keep == Max({1} \cup {i \in DOMAIN slob : slob[i].used})
  IN IF b = NULL \/ slob = <<>> THEN h
     ELSE [h EXCEPT !.blk[b].slob = SubSeq(slob, 1, keep),
                    !.blk[b].avail = EndOf(h, b) - slob[keep].at - Header
                                       - slob[keep].size]

\* memory_manage_sort.  It does not return if slob_partial is not in the list
\* that it leads to.
Sort ==
  LET all == SetToSeq({heap.cur} \cup Ring(heap, heap.partial))
  IN /\ Sound /\ call.pc = "idle"
     /\ heap.partial = NULL \/ Closed(heap, heap.partial)
     /\ heap' = BlockSort(FoldLeft(Recycled, heap, all))
     /\ UNCHANGED <<call, live, refused>>

Next == \/ \E size \in Requests : Malloc(size)
        \/ Scan
        \/ Refill
        \/ \E l \in live : Free(l)
        \/ Sort

\* kmem_malloc runs to its end; nobody has to call it.
Fairness == WF_vars(Scan) /\ WF_vars(Refill)

Spec == Init /\ [][Next]_vars /\ Fairness

-----------------------------------------------------------------------------
CacheOf(l) == CHOOSE i \in DOMAIN heap.blk[l.b].slob :
                heap.blk[l.b].slob[i].at = l.at

EndOfCache(l) == l.at + Header + heap.blk[l.b].slob[CacheOf(l)].size

InBuddy == Ring(heap, heap.buddy[0])

TypeOK == /\ heap.torn \in {"no", "reused", "links", "null", "memset"}
          /\ heap.front \in 0 .. heap.back /\ heap.back \in 0 .. RamSize
          /\ call.pc \in {"idle", "scan", "refill"}
          /\ call.at \in Info \cup {NULL}
          /\ refused \subseteq Requests
          /\ Sound => \A l \in live : l.b \in Blocks(heap)

\* As long as the lists can be trusted, no memory is handed out twice: a cache
\* in use lies in its block, is as large as what was asked for, and shares no
\* byte with another one.  Reuse of freed caches, cutting and the recycling
\* of memory_manage_sort must agree on what is available
\* (memory_kmem.c:18-56, memory_manage.c:76-81).
LiveApart ==
  Sound => \A l \in live :
    /\ heap.blk[l.b].slob[CacheOf(l)].size >= l.size
    /\ l.at >= heap.blk[l.b].start /\ EndOfCache(l) <= EndOf(heap, l.b)
    /\ \A m \in live \ {l} : EndOfCache(l) <= m.at \/ EndOfCache(m) <= l.at

\* refered_number counts the caches in use, so a block goes back to the buddy
\* system with the last of them, whole and empty (memory_kmem.c:181-198).
BlocksCounted ==
  Sound => /\ \A b \in Blocks(heap) :
                heap.blk[b].ref = Cardinality({l \in live : l.b = b})
           /\ \A b \in InBuddy :
                /\ heap.blk[b].ref = 0 /\ heap.blk[b].slob = <<>>
                /\ heap.blk[b].avail = heap.blk[b].size

\* A block that nobody uses can be found again: it is slob_current, partial
\* or in the buddy system.  A request that was refused may leave an empty
\* block behind, which NextPartial then gives up (memory_kmem.c:81).
NoBlockLost ==
  Sound /\ call.pc = "idle" /\ refused = {} =>
    \A b \in Blocks(heap) :
      heap.blk[b].ref = 0 =>
        b \in {heap.cur} \cup Ring(heap, heap.partial) \cup InBuddy

\* What kmem_malloc refuses does not fit an empty block: with memory left, and
\* below that size, a call succeeds.
RefusedTooLarge == \A size \in refused : Taken(size) > Page

\* A call leaves the loop over the partial list, unless that list became NULL
\* under it: the loop waits for block_ptr to be slob_partial again
\* (memory_kmem.c:139).
ScanEnds == (call.pc = "scan")
              ~> (call.pc # "scan" \/ ~Sound \/ heap.partial = NULL)

\* "Take a block from the buddy system again and allocate from it"
\* (memory_kmem.c:141): a call that finds nothing in the partial list gets
\* there.
GoesToBuddy == (call.pc = "scan") ~> (call.pc # "scan" \/ ~Sound)
=============================================================================
