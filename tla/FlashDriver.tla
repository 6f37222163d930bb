----------------------------- MODULE FlashDriver -----------------------------
(***************************************************************************)
(* driver_write to the flash of the F1 (Driver/driver.c, driver_FLASH.c):  *)
(* every page that the request touches is copied to flash_buf, changed     *)
(* there, erased and programmed again.  A reset may come at any time; it   *)
(* keeps the flash and loses flash_buf.                                    *)
(*                                                                         *)
(*   flash   the bytes: <<0, b>> at first, <<i, j>> for byte j of the      *)
(*           source of request i, <<>> when erased                         *)
(*   buf     flash_buf                                                     *)
(*   op      the request: its page, the offset in it, how much of the      *)
(*           source is used and left, half-words programmed, status        *)
(*   before  bookkeeping: the flash when the request began                 *)
(*   torn    bookkeeping: pages that were lost, losses their number        *)
(*                                                                         *)
(* The keys unlock the flash.  Whether the processor sees the flash busy   *)
(* while a page is erased depends on where the code is: busy is free.      *)
(***************************************************************************)
EXTENDS Integers, FiniteSetsExt

CONSTANTS Pages,        \* number of pages
          PageSize,     \* FLASH_BUF_SIZE
          Requests,     \* what is asked for: [at, size]
          MaxRequests   \* a bound of the models

SizeAssumption == /\ Pages \in Nat \ {0}
                  /\ PageSize \in Nat \ {0} /\ PageSize % 2 = 0
RequestAssumption ==
  MaxRequests \in Nat /\ \A r \in Requests : r.at \in Nat /\ r.size \in Nat

VARIABLES flash, buf, op, before, torn, losses

vars == <<flash, buf, op, before, torn, losses>>

End == Pages * PageSize  \* FLASH_END
Byte == 0 .. End - 1
Erased == <<>>
PageOf(b) == b \div PageSize
Cleared == [o \in 0 .. PageSize - 1 |-> <<0, 0>>]

Init == /\ flash = [b \in Byte |-> <<0, b>>]
        /\ buf = Cleared
        /\ op = [pc |-> "idle", id |-> 0, at |-> 0, asked |-> 0, size |-> 0,
                 page |-> 0, offset |-> 0, src |-> 0, left |-> 0, done |-> 0,
                 status |-> "error", lost |-> FALSE]
        /\ before = flash /\ torn = {} /\ losses = 0

Rounded(size) == size + (size % 2)

\* driver_write, and FLASH_driver up to line 71.  What starts outside of the
\* flash is refused, with DRIVER_UNINIT too.
Request(r) ==
  LET size == Rounded(r.size)
  IN /\ op.pc = "idle" /\ op.id < MaxRequests
     /\ op' = [pc |-> IF r.at \in Byte THEN "fill" ELSE "return",
               id |-> op.id + 1, at |-> r.at, asked |-> r.size, size |-> size,
               page |-> PageOf(r.at), offset |-> r.at % PageSize,
               src |-> 0, left |-> size, done |-> 0, status |-> "error",
               lost |-> FALSE]
     /\ before' = flash
     /\ UNCHANGED <<flash, buf, torn, losses>>

\* Lines 75-81.
Merged(page, offset, src, left) ==
  [o \in 0 .. PageSize - 1 |->
     IF o >= offset /\ o - offset < left THEN <<op.id, src + o - offset>>
     ELSE flash[page * PageSize + o]]

Used == Min({PageSize - op.offset, op.left})

Fill ==
  LET start == op.page * PageSize
  IN /\ op.pc = "fill"
     /\ IF start < End /\ start < op.at + op.size
        THEN /\ buf' = Merged(op.page, op.offset, op.src, op.left)
             /\ op' = [op EXCEPT !.pc = "erase", !.src = @ + Used,
                                 !.left = @ - Used]
        ELSE /\ op' = [op EXCEPT !.pc = "return", !.status = "success"]
             /\ UNCHANGED buf
     /\ UNCHANGED <<flash, before, torn, losses>>

ErasedPage(page) ==
  [b \in Byte |-> IF PageOf(b) = page THEN Erased ELSE flash[b]]

\* FLASH_ERASURE.  A flash that is seen busy is not waited for: the request
\* ends there, and driver_write turns its error into a success.
Erase(busy) ==
  /\ op.pc = "erase"
  /\ flash' = ErasedPage(op.page)
  /\ IF busy THEN /\ op' = [op EXCEPT !.pc = "return", !.status = "success",
                                      !.lost = TRUE]
                  /\ torn' = torn \cup {op.page} /\ losses' = losses + 1
     ELSE /\ op' = [op EXCEPT !.pc = "program", !.done = 0]
          /\ UNCHANGED <<torn, losses>>
  /\ UNCHANGED <<buf, before>>

LastHalf == PageSize \div 2

\* Mutant: the next page starts at the offset of the first one.
NextPageSameOffset == [op EXCEPT !.pc = "fill", !.page = @ + 1]

NextPage == [op EXCEPT !.pc = "fill", !.page = @ + 1, !.offset = 0]

\* One half-word of lines 84-87.
Program ==
  LET first == op.page * PageSize + 2 * op.done
      half == {first, first + 1}
  IN /\ op.pc = "program"
     /\ IF op.done < LastHalf
        THEN /\ flash' = [b \in Byte |-> IF b \in half
                            THEN buf[b - op.page * PageSize] ELSE flash[b]]
             /\ op' = [op EXCEPT !.done = @ + 1]
        ELSE /\ op' = NextPage
             /\ UNCHANGED flash
     /\ UNCHANGED <<buf, before, torn, losses>>

Return == /\ op.pc = "return"
          /\ op' = [op EXCEPT !.pc = "idle"]
          /\ UNCHANGED <<flash, buf, before, torn, losses>>

\* FLASH_INIT runs again.
Reset == /\ op.pc # "idle"
         /\ buf' = Cleared
         /\ op' = [op EXCEPT !.pc = "idle", !.lost = TRUE]
         /\ IF op.pc = "program"
            THEN torn' = torn \cup {op.page} /\ losses' = losses + 1
            ELSE UNCHANGED <<torn, losses>>
         /\ UNCHANGED <<flash, before>>

Next == \/ \E r \in Requests : Request(r)
        \/ Fill
        \/ \E busy \in BOOLEAN : Erase(busy)
        \/ Program
        \/ Return
        \/ Reset

Spec == Init /\ [][Next]_vars

-----------------------------------------------------------------------------
\* What a request asks for, the byte that rounds an odd size up included: it
\* is what lies behind the source.
Wanted(b) == IF b \in op.at .. op.at + op.asked + (op.asked % 2) - 1
             THEN <<op.id, b - op.at>> ELSE before[b]

TypeOK == /\ op.pc \in {"idle", "fill", "erase", "program", "return"}
          /\ op.status \in {"error", "success"}
          /\ op.done \in 0 .. PageSize \div 2 /\ op.page \in Nat
          /\ op.offset \in 0 .. PageSize - 1 /\ op.left \in Nat
          /\ \A b \in Byte : flash[b] = Erased \/ flash[b][1] \in 0 .. op.id
          /\ torn \subseteq 0 .. Pages - 1

\* Wherever a request is, or was when it was cut off: the pages it has passed
\* hold what it asks for and their other bytes, the pages before it and those
\* it has not reached are as they were.  Offset, source and remaining size
\* must agree over pages (driver_FLASH.c:72-89).
PagesInTurn ==
  op.id > 0 =>
    \A b \in Byte :
      LET p == PageOf(b)
      IN /\ p < op.page => flash[b] = Wanted(b)
         /\ p > op.page => flash[b] = before[b]
         /\ p = op.page /\ op.pc \in {"fill", "erase"} => flash[b] = before[b]

\* A reset, or a busy flash, loses the page that is being rewritten and no
\* other: what is erased when no request is running lies on such a page
\* (driver_FLASH.c:82).
LosesOnePage == /\ Cardinality(torn) <= losses
                /\ op.pc = "idle" => \A b \in Byte :
                     flash[b] = Erased => PageOf(b) \in torn

\* DRIVER_SUCCESS means that the flash holds what was written, up to its end;
\* unless the flash was seen busy, which is a success as well
\* (driver_FLASH.c:8, driver.c:72).
WrittenIfSuccess ==
  op.pc = "return" /\ op.status = "success" /\ ~op.lost =>
    \A b \in Byte : b \in op.at .. op.at + op.asked - 1 =>
                      flash[b] = <<op.id, b - op.at>>
=============================================================================
