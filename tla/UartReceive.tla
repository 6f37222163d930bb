----------------------------- MODULE UartReceive -----------------------------
(***************************************************************************)
(* Receiving on the F4 (F4/driver_UART.c): USART1_IRQHandler collects the  *)
(* bytes in uart_buff, and a READ copies them out and starts the buffer    *)
(* again.  The interrupt may come between any two statements of a READ.    *)
(*                                                                         *)
(*   uart_buff, buff_offset   as in the code; bytes are numbered as they   *)
(*             arrive                                                      *)
(*   usart     RXNE with the byte in DR, IDLE, and the bytes arrived       *)
(*   reader    the READs under way: their size, the bytes copied, what  *)
(*             was stored when they began, and what they asked for            *)
(*   delivered what the READs that have ended have returned                *)
(*   lost      bookkeeping: the lost bytes by the cause of their loss      *)
(*   together  bookkeeping: two READs have been under way together         *)
(***************************************************************************)
EXTENDS Integers, SequencesExt, FiniteSetsExt

CONSTANTS Readers,      \* threads that read
          Size,         \* UART_BUFF_SIZE
          Asked,        \* sizes a READ asks for
          MaxBytes,     \* a bound of the models
          None

ReceiveAssumption == /\ Size \in Nat \ {0}
                     /\ Asked \subseteq Nat \ {0}
                     /\ MaxBytes \in Nat /\ None \notin Nat

VARIABLES uart_buff, buff_offset, usart, reader, delivered, lost, together

vars == <<uart_buff, buff_offset, usart, reader, delivered, lost, together>>

Causes == {"overrun", "idle", "full", "late", "short"}
Idle == [pc |-> "idle", size |-> 0, got |-> <<>>, newest |-> 0, asked |-> 0]

Init == /\ uart_buff = [k \in 0 .. Size - 1 |-> None]
        /\ buff_offset = 0
        /\ usart = [rxne |-> FALSE, dr |-> 0, idle |-> FALSE, arrived |-> 0]
        /\ reader = [r \in Readers |-> Idle]
        /\ delivered = <<>>
        /\ lost = [c \in Causes |-> {}]
        /\ together = FALSE

\* A byte arrives.  If DR has not been read it is lost.
Arrive ==
  LET byte == usart.arrived + 1
  IN /\ byte <= MaxBytes
     /\ usart' = [usart EXCEPT !.arrived = byte, !.rxne = TRUE,
                               !.dr = IF usart.rxne THEN @ ELSE byte]
     /\ lost' = IF usart.rxne THEN [lost EXCEPT !["overrun"] = @ \cup {byte}]
                ELSE lost
     /\ UNCHANGED <<uart_buff, buff_offset, reader, delivered, together>>

\* The line has been quiet for the time of a byte.
LineIdle ==
  /\ usart.arrived > 0 /\ ~usart.idle
  /\ usart' = [usart EXCEPT !.idle = TRUE]
  /\ UNCHANGED <<uart_buff, buff_offset, reader, delivered, lost, together>>

\* Mutant: a full buffer takes the byte in its first place.
ClampFirst == IF buff_offset >= Size THEN 0 ELSE buff_offset

Clamp == IF buff_offset >= Size THEN Size - 1 ELSE buff_offset

Taken == [usart EXCEPT !.rxne = FALSE, !.dr = 0, !.idle = FALSE]

\* USART1_IRQHandler: the idle line is acknowledged by reading DR, and with it
\* goes a byte that has arrived meanwhile.
IrqIdle ==
  /\ usart.idle
  /\ usart' = Taken
  /\ lost' = IF usart.rxne THEN [lost EXCEPT !["idle"] = @ \cup {usart.dr}]
             ELSE lost
  /\ UNCHANGED <<uart_buff, buff_offset, reader, delivered, together>>

\* USART1_IRQHandler: a full buffer takes the byte in its last place.
IrqReceive ==
  /\ ~usart.idle /\ usart.rxne
  /\ uart_buff' = [k \in DOMAIN uart_buff \cup {Clamp} |->
                     IF k = Clamp THEN usart.dr ELSE uart_buff[k]]
  /\ buff_offset' = Clamp + 1
  /\ usart' = Taken
  /\ lost' = IF buff_offset >= Size
             THEN [lost EXCEPT !["full"] = @ \cup {uart_buff[Size - 1]}]
             ELSE lost
  /\ UNCHANGED <<reader, delivered, together>>

Bounded(asked) == Min({asked, buff_offset})

\* The newest byte that is not in DR.
Newest == IF usart.rxne THEN usart.dr - 1 ELSE usart.arrived

Reading == {r \in Readers : reader[r].pc # "idle"}

\* UART_driver with READ, and with READ_ASYN, which runs on into READ.
Begin(r, asked) ==
  /\ r \notin Reading
  /\ reader' = [reader EXCEPT
       ![r] = [Idle EXCEPT !.pc = "copy", !.size = Bounded(asked),
                           !.newest = Newest, !.asked = asked]]
  /\ together' = (together \/ Reading # {})
  /\ UNCHANGED <<uart_buff, buff_offset, usart, delivered, lost>>

\* One byte of the memcpy.
Copy(r) ==
  LET k == Len(reader[r].got)
  IN /\ reader[r].pc = "copy"
     /\ reader' = IF k = reader[r].size
                  THEN [reader EXCEPT ![r].pc = "restart"]
                  ELSE [reader EXCEPT ![r].got = Append(@, uart_buff[k])]
     /\ UNCHANGED <<uart_buff, buff_offset, usart, delivered, lost, together>>

Stored == {uart_buff[k] : k \in 0 .. buff_offset - 1}

Restart == 0

\* buff_offset = 0: what is not copied goes.  Bytes that had arrived before
\* are lost if the READ asked for less than there were.
End(r) ==
  LET gone == Stored \ ToSet(reader[r].got)
      late == {b \in gone : b > reader[r].newest}
  IN /\ reader[r].pc = "restart"
     /\ buff_offset' = Restart
     /\ delivered' = delivered \o reader[r].got
     /\ lost' = [lost EXCEPT
          !["late"] = @ \cup late,
          !["short"] = IF reader[r].size = reader[r].asked
                       THEN @ \cup (gone \ late) ELSE @]
     /\ reader' = [reader EXCEPT ![r] = Idle]
     /\ UNCHANGED <<uart_buff, usart, together>>

Next == \/ Arrive \/ LineIdle \/ IrqIdle \/ IrqReceive
        \/ \E r \in Readers : \/ \E asked \in Asked : Begin(r, asked)
                              \/ Copy(r) \/ End(r)

Spec == Init /\ [][Next]_vars

-----------------------------------------------------------------------------
TypeOK == /\ uart_buff \in [0 .. Size - 1 -> (1 .. MaxBytes) \cup {None}]
          /\ buff_offset \in 0 .. Size
          /\ usart.dr \in 0 .. usart.arrived
          /\ \A r \in Readers : reader[r].size \in 0 .. Size

\* READs return the bytes in the order of their arrival, each once and none
\* that has not arrived, unless two READs were under way together: then the
\* second may return what the first has already taken (driver_UART.c:104-110).
InOrderOnce ==
  ~together =>
    \A r \in Readers :
      LET all == delivered \o reader[r].got
      IN \A j \in DOMAIN all : /\ all[j] # None
                               /\ \A k \in 1 .. j - 1 : all[k] < all[j]

\* A byte that is neither on its way nor delivered was lost to one of five
\* causes: it arrived before DR was read, or together with the idle line, it
\* was the last of a full buffer when the next one came, it came while a READ
\* was under way, or the READ asked for less than there was
\* (driver_UART.c:105-110, 206-216).
LossHasCause ==
  ~together =>
    1 .. usart.arrived =
      (IF usart.rxne THEN {usart.dr} ELSE {}) \cup Stored \cup ToSet(delivered)
      \cup (UNION {lost[c] : c \in Causes})
      \cup (UNION {ToSet(reader[r].got) : r \in Readers})

\* Nothing that is delivered is also counted as lost, but the last place of a
\* full buffer: a READ may have copied it when the next byte overwrites it.
LostIsNotDelivered ==
  ~together =>
    ToSet(delivered) \cap UNION {lost[c] : c \in Causes \ {"full"}} = {}
=============================================================================
