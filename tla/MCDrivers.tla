----------------------------- MODULE MCDrivers -----------------------------
(***************************************************************************)
(* The drivers for F1 and the generic ones in one run.  They share no      *)
(* state, and part says which of them a behaviour is about; the others     *)
(* stay as they are initialised:                                           *)
(*                                                                         *)
(*   "i2c"     I2cDriver with three channels, the last two of i2c1         *)
(*   "device"  DeviceDriver with two devices and printf_                   *)
(*   "flash"   FlashDriver with pages of four bytes: requests within a     *)
(*             page, over two and three of them, over the end, behind it,  *)
(*             and of an odd size                                          *)
(***************************************************************************)
EXTENDS Integers, Sequences

CONSTANTS I2cChannels, Rx, Tx, I2cRequests, I2cMaxRequests,
          Devices, Printer, NONE, DeviceMaxRequests,
          Pages, PageSize, FlashRequests, FlashMaxRequests

VARIABLES part,
          per, ch, call, copy, log,             \* of I2cDriver
          dev, channel, at, requests,           \* of DeviceDriver
          flash, buf, op, before, torn, losses  \* of FlashDriver

Kind(name, short, null) == [op |-> name, short |-> short, null |-> null]

Transfers == {Kind("read", FALSE, FALSE), Kind("write", FALSE, FALSE),
              Kind("write", TRUE, FALSE),
              Kind("read_asyn", FALSE, FALSE), Kind("read_asyn", FALSE, TRUE),
              Kind("write_asyn", FALSE, FALSE),
              Kind("write_asyn", TRUE, FALSE)}

I == INSTANCE I2cDriver WITH Channels <- I2cChannels,
       MaxRequests <- I2cMaxRequests, Requests <- I2cRequests

D == INSTANCE DeviceDriver WITH MaxRequests <- DeviceMaxRequests,
       ch <- channel, log <- requests

At(address, size) == [at |-> address, size |-> size]

Writes == {At(0, 4), At(1, 2), At(2, 3), At(3, 7), At(2, 8), At(10, 5),
           At(12, 2), At(5, 0)}

F == INSTANCE FlashDriver WITH MaxRequests <- FlashMaxRequests,
       Requests <- FlashRequests

ASSUME I2cAssumption == I!ChannelAssumption /\ I!RequestAssumption
ASSUME DeviceAssumption == D!DevicesAssumption /\ D!BoundAssumption
ASSUME FlashAssumption == F!SizeAssumption /\ F!RequestAssumption

i2cVars == <<per, ch, call, copy, log>>
deviceVars == <<dev, channel, at, requests>>
flashVars == <<flash, buf, op, before, torn, losses>>
vars == <<part, i2cVars, deviceVars, flashVars>>

Init == /\ part \in {"i2c", "device", "flash"}
        /\ I!Init
        /\ D!Init
        /\ F!Init

Next ==
  /\ UNCHANGED part
  /\ \/ part = "i2c" /\ I!Next /\ UNCHANGED <<deviceVars, flashVars>>
     \/ part = "device" /\ D!Next /\ UNCHANGED <<i2cVars, flashVars>>
     \/ part = "flash" /\ F!Next /\ UNCHANGED <<i2cVars, deviceVars>>

\* The fairness of I2cDriver and of DeviceDriver.
Fairness ==
  /\ WF_i2cVars(part = "i2c" /\ I!Caller)
  /\ \A c \in I2cChannels :
       WF_i2cVars(part = "i2c" /\ \E ok \in BOOLEAN : I!Irq(c, ok))
  /\ \A u \in D!Users : WF_deviceVars(part = "device" /\ D!Step(u))
  /\ \A c \in D!Channels : WF_deviceVars(part = "device" /\ D!Interrupt(c))

Spec == Init /\ [][Next]_vars /\ Fairness

\* Bounds of the run: of three requests to the I2C driver the last one is not
\* synchronous; functions of devices change before the second request.
FewRequests ==
  /\ Len(log') = 3 /\ Len(log) = 2 => log'[3].op \notin {"read", "write"}
  /\ dev' # dev => Len(requests) < 2

-----------------------------------------------------------------------------
\* The types of each driver.
TypesOK == I!TypeOK /\ D!TypeOK /\ F!TypeOK

\* A channel that transfers is known to be busy, by whoever looks for a free
\* one, and knows whose request it transfers, unless the transfer was started
\* in the notification of the one before it (driver_DMA.c:147, 342;
\* F1/driver_DMA.c:45, 123).
OneOwnerPerTransfer == /\ I!BusyWhileTransferring
                       /\ I!OwnerWhileTransferring
                       /\ D!OneTransferPerChannel

\* What a caller is told is what happened, but for the known cases: a failure
\* that a second attempt hides, an interrupt during the call, functions that
\* were replaced or are not set, a flash that was seen busy (driver.c:48-138,
\* driver_I2C.c:191-334, F1/driver.c:89-146, driver_FLASH.c:8).
ToldAsIs == /\ I!FailureIsHidden /\ I!WrittenIfSuccess /\ I!CompleteIfRead
            /\ D!CalledForOwn /\ D!ToldOnceAsIs
            /\ F!WrittenIfSuccess

\* A reset or a busy flash at any step of a write loses the page that is being
\* rewritten and no other; the pages before it hold what was asked for, those
\* behind it are as they were (driver_FLASH.c:72-89).
LosesOnePage == F!LosesOnePage /\ F!PagesInTurn

\* A transfer that is under way is answered: the I2C caller and the device are
\* told its end, unless the channel was taken, the functions were replaced or
\* the transfer was started in a notification.
EveryTransferAnswered == I!EveryReadAnswered /\ D!EveryTransferTold
=============================================================================
