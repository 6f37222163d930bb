---------------------------- MODULE MCF4Drivers ----------------------------
(***************************************************************************)
(* The drivers for F4 in one run.  They share no state, and part says      *)
(* which of them a behaviour is about; the others stay as they are         *)
(* initialised:                                                            *)
(*                                                                         *)
(*   "streams"   DmaStreams: two threads ask three times, for copies of    *)
(*               three units and for a message                             *)
(*   "requests"  the same, twice, with one byte in words, as many units as *)
(*               NDTR has values, a fill, and requests that end early      *)
(*   "threads"   UartPrint: two of two threads and the handler of TIM6     *)
(*               print two characters each                                 *)
(*   "echo"      UartPrint: two of them print one character each, while    *)
(*               the line is echoed                                        *)
(*   "receive"   UartReceive: two readers and one byte more than fits      *)
(*   "format"    PrintFormat: all formats of up to four characters, and    *)
(*               ints of five bits, the least one among them               *)
(***************************************************************************)
EXTENDS Integers

CONSTANTS Threads, t1, t2, Handlers, None,
          StreamCount, Bits,             \* of NDTR, of DmaStreams
          CopiesAndMessages, MoreCalls,  \* asked for in "streams"
          Anything, MaxCalls,            \* asked for in "requests"
          Length, EchoLength,            \* characters in "threads", "echo"
          PrintSize, MaxMessages,        \* of UartPrint
          MaxEchoes,                     \* in "echo"
          BufferSize, Sizes, MaxBytes    \* of UartReceive

VARIABLES part,
          req, call, stream, done, raced,                 \* of DmaStreams
          print_buf, offset, pr, cpu, uart, dr, line, count, seen,
          uart_buff, buff_offset, usart, reader, delivered, lost, together,
          fmt, args, i, k, text, text_offset, sent        \* of PrintFormat

Ask(kind, size, align) ==
  [kind |-> kind, size |-> size, align |-> align, null |-> FALSE]

FewRequests == {Ask("copy", 6, 1), Ask("send", 2, 0)}

AllRequests == FewRequests \cup
  {Ask("copy", 1, 2), Ask("copy", 4, 0), Ask("set", 1, 0), Ask("copy", 0, 0),
   [Ask("copy", 1, 0) EXCEPT !.null = TRUE],
   [Ask("send", 1, 0) EXCEPT !.null = TRUE]}

S == INSTANCE DmaStreams WITH Width <- Bits, Requests <- CopiesAndMessages,
       MaxCalls <- MoreCalls

R == INSTANCE DmaStreams WITH Width <- Bits, Requests <- Anything

T == INSTANCE UartPrint WITH Size <- PrintSize, MaxEchoes <- 0,
       buf <- print_buf, stream <- uart

E == INSTANCE UartPrint WITH Size <- PrintSize, Length <- EchoLength,
       buf <- print_buf, stream <- uart

U == INSTANCE UartReceive WITH Readers <- Threads, Size <- BufferSize,
       Asked <- Sizes

F == INSTANCE PrintFormat WITH
       Formats <- UNION {[1 .. n -> {"%", "d", "x", "s", "a"}] : n \in 1 .. 4},
       Values <- {-16, -1, 0, 9, 10, 15}, Str <- <<"S", "T", "R">>,
       Width <- 5, Room <- 16, buf <- text, offset <- text_offset

ASSUME StreamAssumption ==
  /\ S!StreamAssumption /\ R!StreamAssumption
  /\ MaxCalls \in Nat /\ MoreCalls \in Nat /\ MaxCalls <= MoreCalls
ASSUME UartAssumption ==
         T!PrintAssumption /\ E!PrintAssumption /\ U!ReceiveAssumption
ASSUME FormatAssumption == F!FormatAssumption

streamVars == <<req, call, stream, done, raced>>
printVars == <<print_buf, offset, pr, cpu, uart, dr, line, count, seen>>
receiveVars ==
  <<uart_buff, buff_offset, usart, reader, delivered, lost, together>>
formatVars == <<fmt, args, i, k, text, text_offset, sent>>
vars == <<part, streamVars, printVars, receiveVars, formatVars>>

Init == /\ part \in {"streams", "requests", "threads", "echo", "receive",
                     "format"}
        /\ \/ part = "format"
           \/ part # "format" /\ fmt = <<"a">>
        /\ S!Init
        /\ T!Init
        /\ U!Init
        /\ F!Init

Next ==
  /\ UNCHANGED part
  /\ \/ /\ \/ part = "streams" /\ S!Next
           \/ part = "requests" /\ R!Next
        /\ UNCHANGED <<printVars, receiveVars, formatVars>>
     \/ /\ \/ part = "threads" /\ T!Next
           \/ part = "echo" /\ E!Next
        /\ UNCHANGED <<streamVars, receiveVars, formatVars>>
     \/ /\ part = "receive" /\ U!Next
        /\ UNCHANGED <<streamVars, printVars, formatVars>>
     \/ /\ part = "format" /\ F!Next
        /\ UNCHANGED <<streamVars, printVars, receiveVars>>

\* The fairness of DmaStreams and of UartPrint: the hardware goes on.
Fairness ==
  /\ \A s \in S!Stream :
       WF_streamVars(part \in {"streams", "requests"} /\ S!End(s))
  /\ WF_printVars(part \in {"threads", "echo"} /\ T!Send)
  /\ WF_printVars(part \in {"threads", "echo"} /\ T!Shift)

Spec == Init /\ [][Next]_vars /\ Fairness

\* Bounds of the run: only t1 asks for less than the buffer holds; and of the
\* two threads, which are interchangeable, t1 prints and requests first.
T2AsksForAll == reader'[t2].asked # 1
T1First == /\ count.messages = 0 => pr'[t2] = pr[t2]
           /\ req = <<>> => call'[t2] = call[t2]

-----------------------------------------------------------------------------
\* The types of each driver.
TypesOK == R!TypeOK /\ T!TypeOK /\ U!TypeOK /\ F!TypeOK

\* A request moves its own data, once and all units of it, unless another one
\* took its stream between its test and its start; and a stream that is busy
\* for good was started by two requests, or for a number of units that NDTR
\* cannot count (F4/driver_DMA.c:54-97, 143-157).
ExactUnlessRaced == R!ExactUnlessRaced /\ R!StuckHasCause

\* What arrives of a message of printf_ is whole and in its order, unless
\* another printf_ ran while it was printed or sent, or started the stream
\* between its test and its start; and the next message starts in a clean
\* buffer, whatever was mixed before (driver_UART.c:81, driver_DMA.c:143).
WholeUnlessMixed ==
  /\ part = "threads" => T!WholeUnlessMixed /\ T!AloneIsExact
  /\ part = "echo" => E!WholeUnlessMixed /\ E!AloneIsExact

\* READs return the bytes in the order of their arrival and once, and a byte
\* that is lost has one of five causes, unless two READs were under way
\* together (driver_UART.c:104-110, 206-216).
LossHasCause == U!InOrderOnce /\ U!LossHasCause /\ U!LostIsNotDelivered

\* A format is printed as its reader expects, but for a conversion directly
\* behind another one and for the zero behind one at the end
\* (F4/driver_UART.c:53-83).
PrintedAsExpected == F!AsExpected

\* A transfer that was started ends complete, of a copy as of a message,
\* unless it was started in the middle of another one or before the end of
\* the last one was handled; and a copy that is not started has found every
\* stream busy, or lost the one it had found (F4/driver_DMA.c:69-76, 97, 143,
\* 305).
StartedIsDone ==
  S!StartedIsDone /\ T!StartedIsSent /\ R!RefusedHasCause
=============================================================================
