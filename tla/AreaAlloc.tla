------------------------------ MODULE AreaAlloc ------------------------------
(***************************************************************************)
(* The area allocator, memory_manage/memory.c and memory_tool.c.  An area  *)
(* begins with a header (HeadSize bytes and one record of InfoSize bytes   *)
(* per allocated block) and is filled from its end downwards:              *)
(*                                                                         *)
(*   info     ma_info; allocate_number is its length                       *)
(*   content  content_area_start, the lowest block taken from the top      *)
(*   frag     the list of fragments from max_fragment_offset on            *)
(*                                                                         *)
(* Offsets in info and frag count from the start of the area.  The header  *)
(* of a fragment lies in the free memory itself, the records lie below the *)
(* blocks, so a block that overlaps either of them destroys it: a          *)
(* behaviour ends there.  Areas are added before memory_manage_init.       *)
(*                                                                         *)
(* live (the blocks callers hold) and cause are bookkeeping: cause has the *)
(* events after which memory may be handed out twice or be lost.           *)
(***************************************************************************)
EXTENDS Integers, SequencesExt, FiniteSetsExt

CONSTANTS AreaAlign,   \* AREA_ALIGN
          MaxAreaNum,  \* MAX_MEMORY_AREA_NUM
          Ranges,      \* the memory offered: pairs of addresses
          Sizes,       \* the sizes asked for
          MaxLive,     \* blocks held at a time: a bound of the models
          MaxAlloc     \* alloc_size at most: a bound of the models

AlignAssumption == AreaAlign \in Nat \ {0} /\ MaxAreaNum \in Nat
InputAssumption == /\ Ranges \subseteq Nat \X Nat
                   /\ Sizes \subseteq Nat \ {0}
                   /\ MaxLive \in Nat /\ MaxAlloc \in Nat

VARIABLES area, ready, live, cause

vars == <<area, ready, live, cause>>

HeadSize == 8  \* memory_area_header without ma_info
InfoSize == 4  \* sizeof(struct memory_alloc_info)
NULL == -1

Short(x) == x % 65536
Align8(size) == ((size + 7) \div 8) * 8

Size(a) == a.end - a.start
Until(b) == b.at + b.size
Meet(b, c) == b.at < Until(c) /\ c.at < Until(b)

Init == area = <<>> /\ ready = FALSE /\ live = {} /\ cause = {}

-----------------------------------------------------------------------------
\* memory_manage_area_add

Clash(s, e, a) == s \in a.start .. a.end \/ e \in a.start .. a.end

AreaAdd(range) ==
  LET s == ((range[1] + AreaAlign - 1) \div AreaAlign) * AreaAlign
      e == (range[2] \div AreaAlign) * AreaAlign
  IN /\ ~ready
     /\ Len(area) < MaxAreaNum
     /\ e > s
     /\ \A i \in DOMAIN area : ~Clash(s, e, area[i])
     /\ area' = Append(area, [start |-> s, end |-> e, alloc |-> 0,
                              content |-> 0, info |-> <<>>, frag |-> <<>>])
     /\ UNCHANGED <<ready, live, cause>>

memory_manage_init ==
  /\ ~ready
  /\ ready' = TRUE
  /\ area' = [i \in DOMAIN area |-> [area[i] EXCEPT !.content = 0,
                                       !.info = <<>>, !.frag = <<>>]]
  /\ UNCHANGED <<live, cause>>

-----------------------------------------------------------------------------
\* memory_fragment_insert: behind the larger fragments.
FragmentInsert(a, at, size) ==
  LET larger == {i \in DOMAIN a.frag :
                   \A j \in 1 .. i : a.frag[j].size > size}
  IN IF at = 0 \/ size = 0 THEN a
     ELSE [a EXCEPT !.frag = InsertAt(@, Cardinality(larger) + 1,
                                      [at |-> at, size |-> size])]

\* memory_fragment_get: the smallest fragment of the list that is enough.
Enough(a, size) == {i \in DOMAIN a.frag :
                      \A j \in 1 .. i : a.frag[j].size >= size}

\* memory_fragment_divide
Divide(a, f, size) ==
  LET s == IF f.size - size < 8 THEN f.size ELSE size
  IN [a |-> FragmentInsert(a, f.at + s, f.size - s), size |-> s]

FreeSpace(a) ==
  LET free == (IF a.content = 0 THEN Size(a) ELSE a.content)
                - InfoSize * Len(a.info)
  IN IF free < 32 THEN 0 ELSE free

\* Mutant: content_area_start is only set by the first block.
FromTopKept(a, size) ==
  IF a.info = <<>>
  THEN [a |-> [a EXCEPT !.frag = <<>>, !.content = Short(Size(a) - size),
                 !.info = <<[at |-> Short(Size(a) - size), size |-> size]>>],
        at |-> a.end - size]
  ELSE IF FreeSpace(a) <= size + InfoSize THEN [a |-> a, at |-> NULL]
  ELSE [a |-> [a EXCEPT !.info = Append(@, [at |-> a.content - size,
                                            size |-> size])],
        at |-> a.start + a.content - size]

\* memory_alloc_from_page_top.  Line 112 refuses nothing: the first block of
\* an area is not compared with its size.
FromTop(a, size) ==
  LET at == IF a.info = <<>> THEN Short(Size(a) - size) ELSE a.content - size
  IN IF a.info # <<>> /\ FreeSpace(a) <= size + InfoSize
     THEN [a |-> a, at |-> NULL]
     ELSE [a |-> [a EXCEPT !.content = at,
                    !.frag = IF a.info = <<>> THEN <<>> ELSE @,
                    !.info = Append(@, [at |-> at, size |-> size])],
           at |-> IF a.info = <<>> THEN a.end - size ELSE a.start + at]

\* memory_alloc.  What comes from a fragment gets no record.
Alloc(a, size) ==
  LET k == Max(Enough(a, size))
      cut == Divide([a EXCEPT !.frag = RemoveAt(@, k)], a.frag[k], size)
  IN IF Enough(a, size) = {} THEN FromTop(a, size)
     ELSE [a |-> cut.a, at |-> a.start + a.frag[k].at]

-----------------------------------------------------------------------------
In(i, b) == [at |-> area[i].start + b.at, size |-> b.size]
HeaderOf(i) == [at |-> area[i].start,
            size |-> HeadSize + InfoSize * Len(area[i].info)]

\* The memory the allocator itself writes to is its own.
Intact == \A i \in DOMAIN area : \A b \in live :
            /\ ~Meet(b, HeaderOf(i))
            /\ \A f \in DOMAIN area[i].frag : ~Meet(b, In(i, area[i].frag[f]))

Because(event, why) == IF event THEN {why} ELSE {}

memory_manage_allocate(asked) ==
  LET size == Align8(asked)
      fit == {i \in DOMAIN area : Alloc(area[i], size).at # NULL}
      i == Min(fit)
      got == Alloc(area[i], size)
      b == [at |-> got.at, size |-> size]
  IN /\ ready /\ Intact /\ fit # {} /\ Cardinality(live) < MaxLive
     /\ area[i].alloc + size <= MaxAlloc
     /\ area' = [area EXCEPT ![i] = [got.a EXCEPT !.alloc = @ + size]]
     /\ live' = live \cup {b}
     /\ cause' = cause
          \cup Because(Enough(area[i], size) # {}, "untracked")
          \cup Because(got.at < area[i].start + HeadSize
                                + InfoSize * Len(got.a.info), "header")
     /\ UNCHANGED ready

Records(a, at) == {k \in DOMAIN a.info : a.start + a.info[k].at = at}

\* memory_free of the block of record k.
FreeIn(a, k) ==
  LET b == a.info[k]
      out == [a EXCEPT !.info = RemoveAt(@, k), !.alloc = @ - b.size]
  IN IF out.info = <<>> THEN [out EXCEPT !.frag = <<>>, !.content = Size(a)]
     ELSE IF a.content = b.at THEN [out EXCEPT !.content = Last(out.info).at]
     ELSE FragmentInsert(out, b.at, b.size)

\* A block without a record is not freed.  What lies below the new
\* content_area_start is not looked at, and with the last record the area
\* counts as empty.
memory_manage_free(b) ==
  LET home == {i \in DOMAIN area : b.at \in area[i].start .. area[i].end - 1}
      i == Min(home)
      known == Records(area[i], b.at)
      out == FreeIn(area[i], Min(known))
      others == {c \in live \ {b} : c.at \in out.start .. out.end - 1}
      below == \/ \E f \in DOMAIN out.frag : out.frag[f].at < out.content
               \/ \E c \in others : c.at < out.start + out.content
  IN /\ ready /\ Intact
     /\ live' = live \ {b}
     /\ IF home = {} \/ known = {}
        THEN /\ cause' = cause \cup {"leaked"}
             /\ UNCHANGED area
        ELSE /\ area' = [area EXCEPT ![i] = out]
             /\ cause' = cause \cup IF out.info = <<>>
                               THEN Because(others # {}, "reset")
                               ELSE Because(below, "stale")
     /\ UNCHANGED ready

\* memory_fragment_merge: the list of fragments is made again from the gaps
\* between the records; line 41 takes a gap for one if its size is negative.
Gap(a, k) ==
  LET end == Until(a.info[k])
      above == IF k = 1 THEN Size(a) ELSE a.info[k - 1].at
  IN IF (k = 1 /\ end < above) \/ (k > 1 /\ end > above)
     THEN FragmentInsert(a, end, Short(above - end)) ELSE a

memory_manage_sort_out(i) ==
  /\ ready /\ Intact /\ area[i].frag # <<>>
  /\ area' = [area EXCEPT ![i] =
                FoldLeft(Gap, [@ EXCEPT !.frag = <<>>],
                         [k \in DOMAIN area[i].info |-> k])]
  /\ cause' = cause \cup {"merged"}
  /\ UNCHANGED <<ready, live>>

Next == \/ \E range \in Ranges : AreaAdd(range)
        \/ memory_manage_init
        \/ \E size \in Sizes : memory_manage_allocate(size)
        \/ \E b \in live : memory_manage_free(b)
        \/ \E i \in DOMAIN area : memory_manage_sort_out(i)

Spec == Init /\ [][Next]_vars

-----------------------------------------------------------------------------
TypeOK == /\ Len(area) <= MaxAreaNum /\ ready \in BOOLEAN
          /\ cause \subseteq {"untracked", "header", "stale", "reset",
                            "merged", "leaked"}
          /\ \A i \in DOMAIN area :
               /\ area[i].start < area[i].end /\ area[i].alloc >= 0
               /\ area[i].content \in 0 .. 65535

\* The records of an area go downwards without meeting, and the last one is
\* content_area_start: memory_free relies on it (memory_tool.c:77), whatever
\* was freed in which order.
RecordsInOrder ==
  \A i \in DOMAIN area :
    LET info == area[i].info
    IN Intact /\ info # <<>> =>
         /\ area[i].content = Last(info).at
         /\ \A k \in 1 .. Len(info) - 1 : Until(info[k + 1]) <= info[k].at

\* "page offset of the largest fragment" (memory.h:51): the list goes from the
\* largest to the smallest, which memory_fragment_get relies on.
LargestFirst ==
  \A i \in DOMAIN area : \A k \in 2 .. Len(area[i].frag) :
    area[i].frag[k].size <= area[i].frag[k - 1].size

AreasApart == \A i, j \in DOMAIN area :
                i # j => \/ area[i].end <= area[j].start
                         \/ area[j].end <= area[i].start

\* In areas that do not overlap no memory is handed out twice, and none that
\* the allocator writes to, unless a block was placed onto the header
\* (memory_tool.c:112, 123), the lowest block was freed with a fragment or a
\* block without a record above it (77), the last record was deleted with
\* such blocks in use (71), or the fragments were collected after one was
\* handed out (41).
ApartUntilCause ==
  LET blamed == \/ cause \cap {"header", "stale", "reset"} # {}
                \/ {"merged", "untracked"} \subseteq cause
  IN AreasApart /\ ~blamed =>
       Intact /\ \A b, c \in live : b # c => ~Meet(b, c)

\* Until such an event no byte above content_area_start is lost: it belongs
\* to a block in use or to a fragment, and alloc_size is what the blocks in
\* use add up to.  A block without a record is lost when it is freed
\* (memory_tool.c:95), gaps when the list is rebuilt (41).
Tiled ==
  LET held(a) == MapThenSumSet(LAMBDA b : b.size,
                   {b \in live : b.at \in a.start .. a.end - 1})
      free(a) == FoldSeq(LAMBDA f, sum : f.size + sum, 0, a.frag)
  IN cause \subseteq {"untracked"} /\ AreasApart =>
       \A i \in DOMAIN area :
         /\ held(area[i]) = area[i].alloc
         /\ area[i].info # <<>> =>
              held(area[i]) + free(area[i]) = Size(area[i]) - area[i].content

\* Two areas can only overlap if the one added later lies around the other
\* one: its two ends are compared with the areas, theirs not with it
\* (memory.c:20-25).
OverlapOnlyAround ==
  \A i, j \in DOMAIN area :
    i < j => \/ area[i].end <= area[j].start \/ area[j].end <= area[i].start
             \/ area[j].start < area[i].start /\ area[i].end < area[j].end
=============================================================================
