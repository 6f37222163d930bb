------------------------------ MODULE UartPrint ------------------------------
(***************************************************************************)
(* printf_ on the F4 (F4/driver_UART.c) and stream 7 of DMA2, which sends  *)
(* what it prints (F4/driver_DMA.c).  Threads call printf_, and so do the  *)
(* handlers of TIM6 and TIM7 (F4/driver_TIM_BASE.c): all of them fill one  *)
(* print_buf0, from which the stream reads while it sends.  A received     *)
(* byte is echoed through the same data register.                          *)
(*                                                                         *)
(*   buf     print_buf0: byte k of message m is <<m, k>>                   *)
(*   offset  print_buf_offset                                              *)
(*   pr      the calls of printf_: id of the message, characters printed,  *)
(*           the offset a call has loaded, and the starts it has seen      *)
(*   cpu     the handler that is running, or "thread"                      *)
(*   stream  EN, the message it was started for, M0AR, NDTR, TCIF          *)
(*   dr      the data register: what is in it, and for which message       *)
(*   line    what has been sent, echoes left out                           *)
(*   count   messages, starts of the stream and echoes                     *)
(*   seen    bookkeeping: sizes of the messages whose transfer was started *)
(*           and bytes lost of each; mixed, raced, early (see Put, Program)*)
(*                                                                         *)
(* All handlers have one priority: a handler runs to its end, then the     *)
(* threads, which a time slice may switch anywhere.  What printf_ formats  *)
(* is its Length characters here; PrintFormat is about the formatting.     *)
(***************************************************************************)
EXTENDS Integers, Sequences, FiniteSets

CONSTANTS Threads, Handlers,
          Length,       \* characters of a message
          Size,         \* UART_BUFF_SIZE
          MaxMessages, MaxEchoes, \* bounds of the models
          None

\* A message that is printed alone fits the buffer: what the timer handlers
\* print takes 15 bytes of 512 (F4/driver_TIM_BASE.c:125).
PrintAssumption == /\ Size \in Nat /\ Length \in 1 .. Size
                   /\ MaxMessages \in Nat
                   /\ Threads \cap Handlers = {}
                   /\ None \notin (1 .. MaxMessages) \X (1 .. Length)

VARIABLES buf, offset, pr, cpu, stream, dr, line, count, seen

vars == <<buf, offset, pr, cpu, stream, dr, line, count, seen>>

Printers == Threads \cup Handlers
Message == 1 .. MaxMessages
Idle == [pc |-> "idle", id |-> 0, i |-> 0, tmp |-> 0, saw |-> 0]
Printing == {p \in Printers : pr[p].pc # "idle"}
MayRun(p) == IF p \in Threads THEN cpu = "thread" ELSE cpu = p

Init == /\ buf = [a \in 0 .. Size - 1 |-> None]
        /\ offset = 0
        /\ pr = [p \in Printers |-> Idle]
        /\ cpu = "thread"
        /\ stream = [en |-> FALSE, id |-> 0, at |-> 0, left |-> 0,
                     tcif |-> FALSE]
        /\ dr = None /\ line = <<>>
        /\ count = [messages |-> 0, starts |-> 0, echoes |-> 0]
        /\ seen = [size |-> [m \in Message |-> 0],
                   lost |-> [m \in Message |-> 0],
                   mixed |-> {}, raced |-> {}, early |-> {}]

\* The messages that a call disturbs, its own among them: those that are
\* printed and not yet handed to the stream.
Disturbed(id) ==
  IF Printing = {} THEN {}
  ELSE {id} \cup {pr[q].id : q \in {r \in Printing : pr[r].pc # "reset"}}

\* A thread calls printf_, or a timer handler does.
Call(p) ==
  /\ p \notin Printing /\ cpu = "thread" /\ count.messages < MaxMessages
  /\ cpu' = IF p \in Handlers THEN p ELSE cpu
  /\ count' = [count EXCEPT !.messages = @ + 1]
  /\ pr' = [pr EXCEPT ![p] = [Idle EXCEPT !.pc = "put",
                                          !.id = count.messages + 1]]
  /\ seen' = [seen EXCEPT !.mixed = @ \cup Disturbed(count.messages + 1)]
  /\ UNCHANGED <<buf, offset, stream, dr, line>>

\* print_current_buf[print_buf_offset] = fmt[i], under a stream that may be
\* sending.  A character behind the buffer is written there all the same, and
\* not followed.
Put(p) ==
  /\ pr[p].pc = "put" /\ MayRun(p)
  /\ buf' = IF offset < Size
            THEN [buf EXCEPT ![offset] = <<pr[p].id, pr[p].i + 1>>] ELSE buf
  /\ seen' = [seen EXCEPT
               !.mixed = IF stream.en THEN @ \cup {stream.id} ELSE @]
  /\ pr' = [pr EXCEPT ![p].pc = "load"]
  /\ UNCHANGED <<offset, cpu, stream, dr, line, count>>

\* print_buf_offset ++ is a load and a store.
Load(p) == /\ pr[p].pc = "load" /\ MayRun(p)
           /\ pr' = [pr EXCEPT ![p].pc = "store", ![p].tmp = offset]
           /\ UNCHANGED <<buf, offset, cpu, stream, dr, line, count, seen>>

Store(p) ==
  /\ pr[p].pc = "store" /\ MayRun(p)
  /\ offset' = pr[p].tmp + 1
  /\ pr' = [pr EXCEPT ![p].i = @ + 1, ![p].tmp = 0,
              ![p].pc = IF pr[p].i + 1 = Length THEN "test" ELSE "put"]
  /\ UNCHANGED <<buf, cpu, stream, dr, line, count, seen>>

Refused == stream.en \/ offset = 0

\* driver_UART.c:94 and driver_DMA.c:143.  What is refused is dropped: printf_
\* does not look at the answer.
Test(p) ==
  /\ pr[p].pc = "test" /\ MayRun(p)
  /\ pr' = [pr EXCEPT ![p].pc = IF Refused THEN "reset" ELSE "program",
                      ![p].tmp = offset, ![p].saw = count.starts]
  /\ UNCHANGED <<buf, offset, cpu, stream, dr, line, count, seen>>

\* NDTR and M0AR cannot be written while EN is set: a stream that has been
\* started since the test is stopped by the write to CR, which sets TCIF, and
\* goes on with what it had left.
Programmed(p, en) ==
  [en |-> en, id |-> pr[p].id, at |-> 0,
   left |-> IF stream.en THEN stream.left ELSE pr[p].tmp,
   tcif |-> stream.tcif \/ stream.en]

\* Lines 149-157.  With TCIF set it is open whether EN takes effect.
Program(p) ==
  /\ pr[p].pc = "program" /\ MayRun(p)
  /\ \E en \in BOOLEAN :
       /\ ~stream.tcif /\ ~stream.en => en
       /\ stream' = Programmed(p, en)
  /\ count' = [count EXCEPT !.starts = @ + 1]
  /\ seen' = [seen EXCEPT
       !.size[pr[p].id] = stream'.left,
       !.raced = IF count.starts # pr[p].saw
                 THEN @ \cup {pr[p].id, stream.id} ELSE @,
       !.early = IF stream.tcif THEN @ \cup {pr[p].id} ELSE @]
  /\ pr' = [pr EXCEPT ![p].pc = "reset"]
  /\ UNCHANGED <<buf, offset, cpu, dr, line>>

\* Mutant: the next message is printed behind this one.
CleanOffsetKept == offset

CleanOffset == 0

\* print_buf_offset = 0, and the return; of the handler too.
Reset(p) == /\ pr[p].pc = "reset" /\ MayRun(p)
            /\ offset' = CleanOffset
            /\ pr' = [pr EXCEPT ![p] = Idle]
            /\ cpu' = "thread"
            /\ UNCHANGED <<buf, stream, dr, line, count, seen>>

\* DMA_IRQHandler for the stream: TCIF is cleared, and CR with what it says
\* of a transfer that has been started since.
Irq == /\ stream.tcif /\ cpu = "thread"
       /\ stream' = [stream EXCEPT !.en = FALSE, !.tcif = FALSE]
       /\ UNCHANGED <<buf, offset, pr, cpu, dr, line, count, seen>>

\* The stream writes the next byte to the data register when that is empty.
Send ==
  /\ stream.en /\ dr = None
  /\ dr' = [carrier |-> stream.id,
            byte |-> IF stream.at < Size THEN buf[stream.at] ELSE None]
  /\ stream' = [stream EXCEPT !.at = @ + 1, !.left = @ - 1,
                              !.en = stream.left > 1,
                              !.tcif = @ \/ stream.left = 1]
  /\ UNCHANGED <<buf, offset, pr, cpu, line, count, seen>>

Shift == /\ dr # None /\ dr' = None
         /\ line' = IF dr.carrier # 0 THEN Append(line, dr) ELSE line
         /\ UNCHANGED <<buf, offset, pr, cpu, stream, count, seen>>

LostByte == IF dr # None /\ dr.carrier # 0
            THEN [seen EXCEPT !.lost[dr.carrier] = @ + 1] ELSE seen

\* USART1_IRQHandler sends back what it has received, into a data register
\* that may still hold a byte of the stream.
Echo == /\ cpu = "thread" /\ count.echoes < MaxEchoes
        /\ dr' = [carrier |-> 0, byte |-> None]
        /\ seen' = LostByte
        /\ count' = [count EXCEPT !.echoes = @ + 1]
        /\ UNCHANGED <<buf, offset, pr, cpu, stream, line>>

Step(p) == Put(p) \/ Load(p) \/ Store(p) \/ Test(p) \/ Program(p) \/ Reset(p)

Next == \/ \E p \in Printers : Call(p) \/ Step(p)
        \/ Irq \/ Send \/ Shift \/ Echo

\* The hardware sends; threads and handlers need not go on.
Spec == Init /\ [][Next]_vars /\ WF_vars(Send) /\ WF_vars(Shift)

-----------------------------------------------------------------------------
\* Where on the line the bytes of a message are.
SentOf(m) == {j \in DOMAIN line : line[j].carrier = m}

TypeOK == /\ buf \in [0 .. Size - 1 -> (Message \X (1 .. Length)) \cup {None}]
          /\ cpu \in {"thread"} \cup Handlers
          /\ stream.left \in 0 .. Size /\ stream.at \in 0 .. Size
          /\ stream.en => stream.left > 0
          /\ offset \in 0 .. Size
          /\ seen.mixed \subseteq Message

\* The buffer and its offset belong to the only printf_ that is running: what
\* it has printed stands at the start of the buffer, and nothing is left over
\* from messages before, mixed ones too (driver_UART.c:81-85).
AloneIsExact ==
  /\ Printing = {} => offset = 0
  /\ \A p \in Printing :
       pr[p].id \notin seen.mixed /\ pr[p].pc \in {"put", "test", "program"} =>
         /\ offset = pr[p].i
         /\ \A k \in 1 .. pr[p].i : buf[k - 1] = <<pr[p].id, k>>

\* What arrives of a message are its own characters in their order, with
\* gaps only where an echo has overwritten one, unless another printf_ has
\* printed while it was printed or sent, or started the stream between its
\* test and its start (driver_UART.c:81, driver_DMA.c:143).
WholeUnlessMixed ==
  \A m \in Message \ (seen.mixed \cup seen.raced) :
    /\ \A j \in SentOf(m) : line[j].byte # None /\ line[j].byte[1] = m
    /\ \A j, k \in SentOf(m) : j < k => line[j].byte[2] < line[k].byte[2]
    /\ Cardinality(SentOf(m)) + seen.lost[m] <= Length

\* A message whose transfer was started is sent to its last byte, but for
\* those that an echo overwrites; unless the transfer was started before the
\* interrupt of the one before it was handled, which then stops it, or two
\* printf_ started the stream together (driver_DMA.c:305, 143).
StartedIsSent ==
  \A m \in Message :
    seen.size[m] > 0 ~> \/ Cardinality(SentOf(m)) + seen.lost[m] = seen.size[m]
                        \/ m \in seen.raced \cup seen.early
=============================================================================
