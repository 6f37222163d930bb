------------------------------- MODULE I2cDriver ------------------------------
(***************************************************************************)
(* A request to a peripheral, from driver.c through driver_I2C.c to        *)
(* driver_DMA.c and back by the interrupt of a DMA channel.  One thread    *)
(* makes requests to i2c1, another one copies memory by DMA; interrupts    *)
(* come between their statements.                                          *)
(*                                                                         *)
(*   per    peripheral_request and peripheral_status of i2c1               *)
(*   ch     the DMA channels: channel_status, whether used_peripheral is   *)
(*          i2c1, whether the hardware is enabled and for which request    *)
(*   call   where the thread is in driver_read, _write, _asyn              *)
(*   copy   where the other thread is in DMA_driver(NULL, ...)             *)
(*   log    bookkeeping: the requests so far, what they returned, and what *)
(*          happened to them                                               *)
(*                                                                         *)
(* A wait for the bus may time out.  The waits of one phase of a request   *)
(* are one step: each of them ends the request in the same way.            *)
(***************************************************************************)
EXTENDS Integers, Sequences, FiniteSetsExt

CONSTANTS Channels,     \* 0 .. DMA_CHANNEL_NUMBER - 1
          Rx, Tx,       \* the channels of i2c1
          Requests,     \* what the thread may ask for
          MaxRequests   \* requests in a behaviour: a bound of the models

ChannelAssumption ==
  Channels \subseteq Nat /\ {Rx, Tx} \subseteq Channels
RequestAssumption ==
  /\ MaxRequests \in Nat
  /\ Requests \subseteq [op : {"read", "write", "read_asyn", "write_asyn"},
                          short : BOOLEAN, null : BOOLEAN]

VARIABLES per, ch, call, copy, log

vars == <<per, ch, call, copy, log>>

Status == {"error", "busy", "success"}
NoRequest == 0
Asyn == {"read_asyn", "write_asyn"}

\* DMA1_init and I2C1_init.
Init == /\ per = [request |-> "init", status |-> "success"]
        /\ ch = [c \in Channels |-> [status |-> "error", used |-> FALSE,
                                     en |-> FALSE, job |-> NoRequest]]
        /\ call = [pc |-> "idle", id |-> NoRequest, req |-> "init",
                   second |-> FALSE, short |-> FALSE, null |-> FALSE]
        /\ copy = NoRequest
        /\ log = <<>>

\* The log with marks for one request.
Marked(l, id, marks) ==
  IF id = NoRequest THEN l ELSE [l EXCEPT ![id].marks = @ \cup marks]

Entry(op, told, marks) == [op |-> op, told |-> told, marks |-> marks]

Op == log[call.id].op
At(pc) == call.pc = pc
Goto(pc) == call' = [call EXCEPT !.pc = pc]
Out == IF call.second THEN "return" ELSE "after"

-----------------------------------------------------------------------------
\* DMA_driver.

\* Mutant: used_peripheral is not set.
StartedUnowned(c, id, used) == [ch EXCEPT ![c] = [status |-> "busy",
                                                  used |-> FALSE, en |-> TRUE,
                                                  job |-> id]]

\* The channel is set up for request id; what it was doing before is over.
Started(c, id, used) == [ch EXCEPT ![c] = [status |-> "busy", used |-> used,
                                           en |-> TRUE, job |-> id]]
Aborted(c) == IF ch[c].en THEN Marked(log, ch[c].job, {"aborted"}) ELSE log

\* A copy from memory to memory looks for a channel that is not busy ...
CopyFind ==
  LET idle == {c \in Channels : ch[c].status # "busy"}
  IN /\ copy = NoRequest /\ Len(log) < MaxRequests /\ idle # {}
     /\ copy' = Min(idle) + 1
     /\ UNCHANGED <<per, ch, call, log>>

\* ... and takes it, whatever became of it.
CopyTake ==
  LET c == copy - 1
  IN /\ copy # NoRequest /\ Len(log) < MaxRequests
     /\ ch' = Started(c, Len(log) + 1, FALSE)
     /\ log' = Append(Aborted(c), Entry("copy", "success", {}))
     /\ copy' = NoRequest
     /\ UNCHANGED <<per, call>>

\* The channel of the peripheral is not tested for being busy.  Without a
\* buffer nothing is started; a channel that still has a user notifies it.
Dma ==
  LET c == IF per.request = "read_asyn" THEN Rx ELSE Tx
      refused == call.null /\ c = Rx
  IN /\ At("start")
     /\ IF refused
        THEN /\ ch' = [ch EXCEPT ![c] = [status |-> "error", used |-> FALSE,
                                         en |-> FALSE, job |-> NoRequest]]
             /\ log' = Marked(Aborted(c), call.id,
                              IF ch[c].used THEN {"error"} ELSE {})
        ELSE /\ ch' = Started(c, call.id, TRUE)
             /\ log' = Aborted(c)
     /\ per' = [per EXCEPT !.status = IF refused THEN "error" ELSE "busy"]
     /\ Goto("leave")
     /\ UNCHANGED copy

-----------------------------------------------------------------------------
\* I2C_driver.

\* The branch of the switch, req, is chosen here once.
Switch(pc) == call' = [call EXCEPT !.pc = pc, !.req = per.request]

Short == call.short /\ per.request \in {"write", "write_asyn"}

Enter ==
  /\ At("enter")
  /\ \/ /\ per.status = "busy"
        /\ Goto(Out)
        /\ UNCHANGED per
     \/ /\ per.status # "busy" /\ per.request = "uninit"
        /\ per' = [per EXCEPT !.status = "success"]
        /\ Switch("leave")
     \/ /\ per.status # "busy" /\ per.request # "uninit"
        /\ per' = [per EXCEPT !.status = "busy"]
        /\ Switch(IF Short THEN "leave" ELSE "address")
  /\ UNCHANGED <<ch, copy, log>>

\* The waits for the start condition and the addresses.  After each of them
\* peripheral_status is read again.
Address(answered) ==
  /\ At("address")
  /\ IF answered /\ per.status # "error"
     THEN /\ Goto(IF call.req \in Asyn THEN "start" ELSE "data")
          /\ UNCHANGED per
     ELSE /\ Goto("leave")
          /\ per' = [per EXCEPT !.status = "error"]
  /\ UNCHANGED <<ch, copy, log>>

\* The status after the loop over the bytes: a read that was cut short is a
\* success.
AfterData(all) == IF all \/ call.req = "read" THEN "success" ELSE "error"

Data(answered) ==
  LET all == answered /\ per.status # "error"
  IN /\ At("data")
     /\ per' = [per EXCEPT !.status = AfterData(all)]
     /\ log' = Marked(log, call.id, IF all THEN {"moved"} ELSE {})
     /\ Goto("leave")
     /\ UNCHANGED <<ch, copy>>

\* The notifications of peripheral_status.
Note == CASE per.status = "error" -> {"error"}
          [] per.status = "success" -> {"complete"}
          [] OTHER -> {}

Leave == /\ At("leave")
         /\ log' = Marked(log, call.id, Note)
         /\ Goto(Out)
         /\ UNCHANGED <<per, ch, copy>>

-----------------------------------------------------------------------------
\* driver_read, driver_write, driver_read_asyn, driver_write_asyn.

Request(r) ==
  /\ At("idle") /\ Len(log) < MaxRequests
  /\ per' = [request |-> r.op, status |-> "error"]
  /\ call' = [call EXCEPT !.pc = "enter", !.id = Len(log) + 1,
                          !.second = FALSE, !.short = r.short,
                          !.null = r.null]
  /\ log' = Append(log, Entry(r.op, "none", {}))
  /\ UNCHANGED <<ch, copy>>

Retries == IF Op \in {"read", "read_asyn"} THEN per.status = "error"
           ELSE per.status # "success"

After == /\ At("after")
         /\ IF Retries
            THEN /\ per' = [request |-> "uninit", status |-> "error"]
                 /\ log' = Marked(log, call.id, {"again"})
                 /\ call' = [call EXCEPT !.pc = "enter", !.second = TRUE]
            ELSE /\ Goto("return")
                 /\ UNCHANGED <<per, log>>
         /\ UNCHANGED <<ch, copy>>

Return == /\ At("return")
          /\ log' = [log EXCEPT ![call.id].told = per.status]
          /\ Goto("idle")
          /\ UNCHANGED <<per, ch, copy>>

-----------------------------------------------------------------------------
\* DMA1_IRQHandler.

\* Mutant: the status is the flag of the controller.
ResultFlag(ok) == IF ok THEN "transfer complete" ELSE "transfer error"

Result(ok) == IF ok THEN "success" ELSE "error"

\* What the handler leaves in the log: the transfer is over; a request that
\* is being made finds the status changed.
Over(c, ok) ==
  LET done == Marked(log, ch[c].job,
                (IF ok THEN {"moved"} ELSE {})
                  \cup (IF ~ch[c].used THEN {"ended"}
                        ELSE {IF ok THEN "complete" ELSE "error"}))
  IN IF ch[c].used /\ ~At("idle") THEN Marked(done, call.id, {"hit"}) ELSE done

Stopped(c, ok) == [ch EXCEPT ![c].en = FALSE, ![c].status = Result(ok),
                             ![c].used = FALSE]

Irq(c, ok) ==
  /\ ch[c].en
  /\ ch' = Stopped(c, ok)
  /\ per' = IF ch[c].used THEN [per EXCEPT !.status = Result(ok)] ELSE per
  /\ log' = Over(c, ok)
  /\ UNCHANGED <<call, copy>>

\* peripheral_complete_notify makes the next request: an asynchronous read
\* runs inside the handler, which then clears used_peripheral of the channel
\* it was entered for.
IrqRestarts(c) ==
  /\ ch[c].en /\ ch[c].used /\ Len(log) < MaxRequests
  /\ LET id == Len(log) + 1
         stopped == Stopped(c, TRUE)
     IN /\ ch' = [stopped EXCEPT ![Rx] =
                    [status |-> "busy", used |-> Rx # c, en |-> TRUE,
                     job |-> id]]
        /\ log' = Append(IF c # Rx /\ ch[Rx].en
                         THEN Marked(Over(c, TRUE), ch[Rx].job, {"aborted"})
                         ELSE Over(c, TRUE),
                         Entry("read_asyn", "busy",
                               IF Rx = c THEN {"nested"} ELSE {}))
  /\ per' = [request |-> "read_asyn", status |-> "busy"]
  /\ UNCHANGED <<call, copy>>

Interrupt == \E c \in Channels : \/ \E ok \in BOOLEAN : Irq(c, ok)
                                 \/ IrqRestarts(c)

Caller == \/ Enter
          \/ \E answered \in BOOLEAN : Address(answered) \/ Data(answered)
          \/ Dma
          \/ Leave
          \/ After
          \/ Return

Next == \/ \E r \in Requests : Request(r)
        \/ Caller
        \/ CopyFind
        \/ CopyTake
        \/ Interrupt

\* The thread gets the processor, and a transfer of the hardware ends.
Spec == Init /\ [][Next]_vars
        /\ WF_vars(Caller)
        /\ \A c \in Channels : WF_vars(\E ok \in BOOLEAN : Irq(c, ok))

-----------------------------------------------------------------------------
Asked == DOMAIN log
Has(i, mark) == mark \in log[i].marks

TypeOK ==
  /\ per.status \in Status
  /\ per.request \in {"init", "uninit", "read", "write"} \cup Asyn
  /\ \A c \in Channels : /\ ch[c].status \in Status
                         /\ ch[c].job \in Asked \cup {NoRequest}
  /\ call.pc \in {"idle", "enter", "address", "data", "start", "leave",
                  "after", "return"}
  /\ ~At("idle") => call.id \in Asked

\* A channel that is transferring is marked busy, which is all that a copy
\* looks at (driver_DMA.c:147): the handler sets the status before it calls
\* the notification that may use the channel again (310-319).
BusyWhileTransferring == \A c \in Channels : ch[c].en <=> ch[c].status = "busy"

\* The transfer of a peripheral knows its peripheral until it ends, unless it
\* was started by the notification of the transfer before it: line 342 of
\* driver_DMA.c clears used_peripheral behind the back of the new one.
OwnerWhileTransferring ==
  \A c \in Channels :
    LET id == ch[c].job
    IN ch[c].en => (ch[c].used <=> log[id].op # "copy" /\ ~Has(id, "nested"))

\* A request is reported as failed only if the interrupt of an earlier
\* transfer came during the call: what failed is repeated with DRIVER_UNINIT,
\* and that succeeds (driver.c:48, 77, 109, 138).
FailureIsHidden == \A i \in Asked : log[i].told = "error" => Has(i, "hit")

\* With no interrupt during the call, a write that returns DRIVER_SUCCESS has
\* sent all its bytes if and only if that was at the first attempt
\* (driver_I2C.c:224, driver.c:77).
WrittenIfSuccess ==
  \A i \in Asked :
    log[i].op = "write" /\ log[i].told = "success" /\ ~Has(i, "hit") =>
      Has(i, "moved") <=> ~Has(i, "again")

\* An asynchronous read is reported complete when its bytes are there; a
\* second attempt reports it at once (driver_I2C.c:319, 334).
CompleteIfRead ==
  \A i \in Asked :
    log[i].op = "read_asyn" /\ Has(i, "complete") =>
      Has(i, "moved") \/ Has(i, "again") \/ Has(i, "hit")

\* An asynchronous read that is under way is answered: its caller is notified,
\* unless somebody else takes the channel (driver_DMA.c:147, 182) or the read
\* was started inside a notification (342).
UnderWay(i) == \E c \in Channels : ch[c].en /\ ch[c].job = i

EveryReadAnswered ==
  \A i \in 1 .. MaxRequests :
    (UnderWay(i) /\ log[i].op = "read_asyn")
      ~> (i \in Asked
          /\ log[i].marks \cap {"complete", "error", "aborted", "nested"} # {})
=============================================================================
