----------------------------- MODULE DeviceDriver -----------------------------
(***************************************************************************)
(* The devices of the F1 (Driver/F1/driver.c, driver_DMA.c and the         *)
(* asynchronous half of UART_driver): devices share a peripheral and its   *)
(* two DMA channels, and each has a function for complete transfers and    *)
(* one for errors.  A device is used by one thread; printf_, the Printer,  *)
(* uses the channel for writing without a device.  Interrupts and switches *)
(* of threads come between the statements of a request.                    *)
(*                                                                         *)
(*   dev   which functions a device has                                    *)
(*   ch    the channels: the functions to call, named by their device,     *)
(*         the enable bit and the request that is transferred              *)
(*   at    where a request is                                              *)
(*   log   bookkeeping: the requests, how they ended, which functions were *)
(*         called for them, whether somebody else changed the functions    *)
(***************************************************************************)
EXTENDS Integers, Sequences, FiniteSetsExt

CONSTANTS Devices, Printer,
          NONE,         \* the function that is NULL
          MaxRequests   \* requests in a behaviour: a bound of the models

DevicesAssumption == {Printer, NONE} \cap Devices = {}
BoundAssumption == MaxRequests \in Nat

VARIABLES dev, ch, at, log

vars == <<dev, ch, at, log>>

Users == Devices \cup {Printer}
Channels == {"rx", "tx"}
Kinds == {"complete", "error"}
Idle == [pc |-> "idle", id |-> 0]

Init == /\ dev = [d \in Devices |-> [k \in Kinds |-> FALSE]]
        /\ ch = [c \in Channels |-> [call |-> [k \in Kinds |-> NONE],
                                     en |-> FALSE, job |-> 0]]
        /\ at = [u \in Users |-> Idle]
        /\ log = <<>>

Entry(u, c, how, state) == [by |-> u, on |-> c, how |-> how, state |-> state,
                            notes |-> {}, taken |-> FALSE,
                            wants |-> IF u = Printer THEN {}
                                      ELSE {k \in Kinds : dev[u][k]}]

\* The log after the function of device d for k was called for request id.
Called(l, id, d, k) ==
  IF d = NONE THEN l
  ELSE [l EXCEPT ![id].notes = @ \cup {[to |-> d, kind |-> k]}]

Functions(d) == [k \in Kinds |-> IF dev[d][k] THEN d ELSE NONE]

-----------------------------------------------------------------------------
driver_func_set(d, kinds) ==
  /\ at[d] = Idle /\ kinds # {}
  /\ dev' = [dev EXCEPT ![d] = [k \in Kinds |-> @[k] \/ k \in kinds]]
  /\ UNCHANGED <<ch, at, log>>

\* driver_close clears both functions, like driver_open; the channels keep
\* theirs.
driver_func_clear(d, kinds) ==
  /\ at[d] = Idle /\ kinds # {}
  /\ dev' = [dev EXCEPT ![d] = [k \in Kinds |-> @[k] /\ k \notin kinds]]
  /\ UNCHANGED <<ch, at, log>>

\* Mutant: the functions are called for the wrong result.
KindOfSwapped(d, ok) == IF ok THEN "error" ELSE "complete"

\* The function a synchronous request calls: the one for errors also after a
\* success, if there is none for complete transfers.
KindOf(d, ok) == IF ok /\ dev[d]["complete"] THEN "complete" ELSE "error"

\* driver_read and driver_write.  The peripheral may time out.
Sync(d, ok) ==
  /\ at[d] = Idle /\ Len(log) < MaxRequests
  /\ log' = Called(Append(log, Entry(d, "none", "sync", IF ok THEN "ok" ELSE "failed")),
                   Len(log) + 1, Functions(d)[KindOf(d, ok)], KindOf(d, ok))
  /\ UNCHANGED <<dev, ch, at>>

-----------------------------------------------------------------------------
\* The requests whose functions a Begin replaces with others.
Replaced(c, functions) ==
  IF functions = ch[c].call THEN {}
  ELSE {i \in DOMAIN log : /\ log[i].on = c /\ log[i].how = "asyn"
                           /\ log[i].state \in {"asked", "running"}}

Installed(d, c) == Functions(d)

\* driver_read_asyn and driver_write_asyn: the channel gets the functions of
\* the device, whatever it is doing.
Begin(d, c) ==
  LET gone == Replaced(c, Functions(d))
      marked == [i \in DOMAIN log |->
                   [log[i] EXCEPT !.taken = @ \/ i \in gone]]
  IN /\ at[d] = Idle /\ Len(log) < MaxRequests
     /\ ch' = [ch EXCEPT ![c].call = Installed(d, c)]
     /\ at' = [at EXCEPT ![d] = [pc |-> "test", id |-> Len(log) + 1]]
     /\ log' = Append(marked, Entry(d, c, "asyn", "asked"))
     /\ UNCHANGED dev

\* printf_ calls the peripheral driver itself.
PrintDirectly ==
  /\ at[Printer] = Idle /\ Len(log) < MaxRequests
  /\ at' = [at EXCEPT ![Printer] = [pc |-> "test", id |-> Len(log) + 1]]
  /\ log' = Append(log, Entry(Printer, "tx", "asyn", "asked"))
  /\ UNCHANGED <<dev, ch>>

Go(u, pc) == at' = [at EXCEPT ![u].pc = pc]

On(u) == log[at[u].id].on

\* UART_driver looks whether the bus is quiet, DMA_peripheral_driver whether
\* the channel is enabled.
Test(u, quiet) ==
  /\ at[u].pc = "test"
  /\ Go(u, IF quiet /\ ~ch[On(u)].en THEN "claim" ELSE "refused")
  /\ UNCHANGED <<dev, ch, log>>

\* Mutant: the enable bit is not set.
ClaimNotEnabled(u) ==
  LET c == On(u)
      id == at[u].id
      last == ch[c].job
      lost == IF ch[c].en THEN [log EXCEPT ![last].state = "lost"] ELSE log
  IN /\ at[u].pc = "claim"
     /\ ch' = [ch EXCEPT ![c].en = FALSE, ![c].job = id]
     /\ log' = [lost EXCEPT ![id].state = "running"]
     /\ at' = [at EXCEPT ![u] = Idle]
     /\ UNCHANGED dev

\* What was transferred on the channel is over; the functions are those of the
\* last Begin.
Claim(u) ==
  LET c == On(u)
      id == at[u].id
      last == ch[c].job
      lost == IF ch[c].en THEN [log EXCEPT ![last].state = "lost"] ELSE log
  IN /\ at[u].pc = "claim"
     /\ ch' = [ch EXCEPT ![c].en = TRUE, ![c].job = id]
     /\ log' = [lost EXCEPT ![id].state = "running"]
     /\ at' = [at EXCEPT ![u] = Idle]
     /\ UNCHANGED dev

\* What the result of the driver means to the caller.
Refused(u) ==
  LET id == at[u].id
      told == [log EXCEPT ![id].state = "refused"]
  IN /\ at[u].pc = "refused"
     /\ log' = IF u = Printer THEN told
               ELSE Called(told, id, Functions(u)["error"], "error")
     /\ at' = [at EXCEPT ![u] = Idle]
     /\ UNCHANGED <<dev, ch>>

Stopped(c) == [ch EXCEPT ![c].en = FALSE]

\* DMA1_IRQHandler
Irq(c, ok) ==
  LET k == IF ok THEN "complete" ELSE "error"
      id == ch[c].job
  IN /\ ch[c].en /\ log[id].state = "running"
     /\ ch' = Stopped(c)
     /\ log' = Called([log EXCEPT ![id].state = IF ok THEN "ok" ELSE "failed"],
                      id, ch[c].call[k], k)
     /\ UNCHANGED <<dev, at>>

Interrupt(c) == \E ok \in BOOLEAN : Irq(c, ok)

Step(u) == \/ \E quiet \in BOOLEAN : Test(u, quiet)
           \/ Claim(u)
           \/ Refused(u)

Next == \/ \E d \in Devices : \E kinds \in SUBSET Kinds :
             driver_func_set(d, kinds) \/ driver_func_clear(d, kinds)
        \/ \E d \in Devices : \/ \E c \in Channels : Begin(d, c)
                               \/ \E ok \in BOOLEAN : Sync(d, ok)
        \/ PrintDirectly
        \/ \E u \in Users : Step(u)
        \/ \E c \in Channels : Interrupt(c)

\* A request under way goes on, and a transfer of the hardware ends.
Fairness == /\ \A u \in Users : WF_vars(Step(u))
            /\ \A c \in Channels : WF_vars(Interrupt(c))

Spec == Init /\ [][Next]_vars /\ Fairness

-----------------------------------------------------------------------------
Asked == DOMAIN log

TypeOK ==
  /\ \A c \in Channels : \A k \in Kinds : ch[c].call[k] \in Devices \cup {NONE}
  /\ \A c \in Channels : ch[c].job \in Asked \cup {0}
  /\ \A u \in Users : at[u].pc \in {"idle", "test", "claim", "refused"}
  /\ \A i \in Asked : log[i].by \in Users

\* An enabled channel transfers one request, and no other one is under way on
\* it: a second request is refused or ends the first.  The interrupt handler
\* finds the request its channel was enabled for (F1/driver_DMA.c:45, 123).
OneTransferPerChannel ==
  \A i \in Asked :
    log[i].state = "running" <=> \E c \in Channels : ch[c].en /\ ch[c].job = i

\* A function is only called for a request of its own device, unless another
\* request put its functions into the channel meanwhile (F1/driver.c:146) or
\* printf_ used the channel, which keeps those of the last device.
CalledForOwn ==
  \A i \in Asked : \A n \in log[i].notes :
    n.to = log[i].by \/ log[i].taken \/ log[i].by = Printer

\* A request is told once at most, complete only if it was, and failed only if
\* it was not; but a synchronous success of a device that has no function for
\* complete transfers is told as an error (F1/driver.c:89-95).
ToldOnceAsIs ==
  \A i \in Asked :
    /\ Cardinality(log[i].notes) <= 1
    /\ \A n \in log[i].notes :
         n.kind = "complete" <=>
           log[i].state = "ok"
             /\ ~(log[i].how = "sync" /\ "complete" \notin log[i].wants)

\* A transfer under way ends, and a device that has both functions is told,
\* unless they were replaced or another transfer took the channel.
EveryTransferTold ==
  \A i \in 1 .. MaxRequests :
    (i \in Asked /\ log[i].state = "running" /\ log[i].wants = Kinds) ~>
      (i \in Asked /\ (\/ log[i].state = "lost" \/ log[i].taken
                       \/ log[i].notes # {}))
=============================================================================
