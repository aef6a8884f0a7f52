------------------------------ MODULE DataPath ------------------------------
(***************************************************************************)
(* The packet-RAM data path (data.rs) and the firmware on the other side   *)
(* of its queues.  RX descriptors are lent to the firmware through a queue *)
(* and come back in receive events; TX tokens go out with a command and    *)
(* come back in transmit-done events.  The host may not touch a packet     *)
(* slot the firmware owns, and it learns what the firmware owns only from  *)
(* its own bookkeeping: rx_posted and tx_in_flight.                        *)
(*                                                                         *)
(* Every operation takes the driver by &mut, so the host has one at a time *)
(* (pc).  An operation advances one bus transfer at a time; the firmware   *)
(* moves in between, the transfer may fail, and the future may be dropped  *)
(* while it waits.  A queue write that fails, or is dropped, may or may    *)
(* not have reached the hardware.                                          *)
(*                                                                         *)
(* Abstractions: a frame is not represented, only who owns the slot it is  *)
(* in; a receive event has one packet (the code handles the packets of an  *)
(* event one call at a time); the several transfers that write one packet, *)
(* or one descriptor, are one step, and so are the steps of recover that   *)
(* touch no state of this module; operations that are refused before they  *)
(* change anything are not steps.                                          *)
(***************************************************************************)
EXTENDS PacketRam

CONSTANTS
  Careful,    \* the caller hands each packet of an event in once, and none
              \* from before a reset
  MaxFaults   \* bound on failed transfers and dropped futures

ASSUME DataAssumption ==
  /\ ValidLayout
  /\ MaxFaults \in Nat
  /\ Careful \in BOOLEAN

Descriptors == 0 .. RX - 1
Tokens      == 0 .. TX - 1

VARIABLES
  posted,     \* rx_posted: the descriptors for which it is true
  inFlight,   \* tx_in_flight: the tokens for which it is true
  nextTx,     \* next_tx
  queues,     \* Device.queues is Some
  drv,        \* DriverState: "Down" is Cold, Recovering or Fault
  pc,         \* the next transfer of the host's operation
  id,         \* the descriptor or token of the operation
  result,     \* what receive_packet returns once it has reposted
  goal,       \* why post_rx is called: a packet, post_all_rx, or recover
  fw,         \* the firmware: "down", "booted" or "running"
  fwRx, fwTx, \* the descriptors and tokens the firmware owns
  rxEv, txEv, \* receive and transmit-done events in the event queue
  wrapped,    \* MissionCriticalDriver is used, not NativeDriver or DataPath
  dropped,    \* a future was dropped since the last reset
  held,       \* packets of dispatched events the caller has yet to receive
  faults      \* failures so far

host     == <<pc, id, result, goal>>
books    == <<posted, inFlight, nextTx>>
firmware == <<fw, fwRx, fwTx, rxEv, txEv>>
usage    == <<wrapped, dropped>>
vars     == <<books, queues, drv, host, firmware, usage, held, faults>>

Awaits  == {"packet", "command", "enqueueTx", "trigger", "read", "prepare",
            "enqueueRx", "reset", "boot", "init"}
Results == {"ok", "small", "large", "convert", "rpu", "protocol", "device",
            "uncertain"}

(* Every variable has its type. *)
TypeOK ==
  /\ posted \subseteq Descriptors
  /\ inFlight \subseteq Tokens
  /\ nextTx \in Tokens
  /\ queues \in BOOLEAN
  /\ drv \in {"Down", "Waiting", "Ready"}
  /\ pc \in Awaits \cup {"idle", "postNext"}
  /\ id \in Descriptors \cup Tokens
  /\ result \in Results
  /\ goal \in {"packet", "all", "boot"}
  /\ fw \in {"down", "booted", "running"}
  /\ fwRx \subseteq Descriptors
  /\ fwTx \subseteq Tokens
  /\ rxEv \subseteq Descriptors
  /\ txEv \subseteq Tokens
  /\ wrapped \in BOOLEAN /\ dropped \in BOOLEAN
  /\ held \subseteq Descriptors
  /\ faults \in 0 .. MaxFaults

Init ==
  /\ posted = {} /\ inFlight = {} /\ nextTx = 0
  /\ queues = FALSE
  /\ drv = "Down"
  /\ pc = "idle" /\ id = 0 /\ result = "ok" /\ goal = "packet"
  /\ fw = "down" /\ fwRx = {} /\ fwTx = {} /\ rxEv = {} /\ txEv = {}
  /\ wrapped \in BOOLEAN /\ dropped = FALSE
  /\ held = {}
  /\ faults = 0

-----------------------------------------------------------------------------
(* Steps of an operation *)

Goto(p) == pc' = p /\ UNCHANGED <<id, result, goal>>

Idle == pc' = "idle" /\ id' = 0 /\ result' = "ok" /\ goal' = "packet"

(* Fault: the recovery policy forgets uncertain queue ownership. *)
FatalForgetsUncertain(r) == r \in {"large", "convert", "rpu", "protocol", "device"}

(* data_error_requires_recovery for receive_packet: not for a buffer of    *)
(* the caller that is too small.                                           *)
Fatal(r) == r \in {"large", "convert", "rpu", "protocol", "device", "uncertain"}

(* The operation returns r; the wrapper enters recovery if it has to.      *)
Return(r) ==
  /\ Idle
  /\ drv' = IF wrapped /\ Fatal(r) THEN "Down" ELSE drv

Ok == faults' = faults
Failure == faults < MaxFaults /\ faults' = faults + 1

(* The firmware takes what is written to one of its queues, if it runs. *)
Taken(S) == IF fw = "down" THEN S ELSE S \cup {id}

-----------------------------------------------------------------------------
(* transmit *)

(* Fault: the rotation does not wrap. *)
ReserveTxNoWrap(t) ==
  /\ t \notin inFlight
  /\ \E offset \in 0 .. TX - 1 :
       /\ t = (nextTx + offset) % TX
       /\ \A o \in 0 .. offset - 1 : (nextTx + o) % TX \in inFlight
  /\ inFlight' = inFlight \cup {t}
  /\ nextTx' = t + 1

(* The first free token from next_tx on *)
ReserveTx(t) ==
  /\ t \notin inFlight
  /\ \E offset \in 0 .. TX - 1 :
       /\ t = (nextTx + offset) % TX
       /\ \A o \in 0 .. offset - 1 : (nextTx + o) % TX \in inFlight
  /\ inFlight' = inFlight \cup {t}
  /\ nextTx' = (t + 1) % TX

TransmitStart ==
  /\ pc = "idle"
  /\ wrapped => drv = "Ready"
  /\ \E t \in Tokens :
       /\ ReserveTx(t)
       /\ pc' = "packet" /\ id' = t /\ UNCHANGED <<result, goal>>
  /\ UNCHANGED <<posted, queues, drv, firmware, held, faults, usage>>

(* The failed operation gives its token back. *)
ReleaseToken == inFlight' = inFlight \ {id} /\ UNCHANGED <<posted, nextTx>>

WritePacket ==
  /\ pc = "packet"
  /\ \/ Ok /\ Goto("command") /\ UNCHANGED <<books, drv>>
     \/ Failure /\ ReleaseToken /\ Return("rpu")
  /\ UNCHANGED <<queues, firmware, held, usage>>

(* Without a queue map the operation ends here, and keeps its token. *)
WriteCommand ==
  /\ pc = "command"
  /\ \/ ~queues /\ Ok /\ Return("device") /\ UNCHANGED books
     \/ queues /\ Ok /\ Goto("enqueueTx") /\ UNCHANGED <<books, drv>>
     \/ queues /\ Failure /\ ReleaseToken /\ Return("rpu")
  /\ UNCHANGED <<queues, firmware, held, usage>>

(* Fault: a token is free again when its queue write fails. *)
EnqueueTxReleases ==
  /\ pc = "enqueueTx"
  /\ \/ Ok /\ Goto("trigger") /\ fwTx' = Taken(fwTx) /\ UNCHANGED <<books, drv>>
     \/ Failure /\ Return("uncertain") /\ fwTx' \in {fwTx, Taken(fwTx)}
        /\ ReleaseToken
  /\ UNCHANGED <<queues, fw, fwRx, rxEv, txEv, held, usage>>

EnqueueTx ==
  /\ pc = "enqueueTx"
  /\ \/ Ok /\ Goto("trigger") /\ fwTx' = Taken(fwTx) /\ UNCHANGED drv
     \/ Failure /\ Return("uncertain") /\ fwTx' \in {fwTx, Taken(fwTx)}
  /\ UNCHANGED <<books, queues, fw, fwRx, rxEv, txEv, held, usage>>

Trigger ==
  /\ pc = "trigger"
  /\ \/ Ok /\ Return("ok")
     \/ Failure /\ Return("uncertain")
  /\ UNCHANGED <<books, queues, firmware, held, usage>>

-----------------------------------------------------------------------------
(* receive_packet and post_rx *)

(* take_rx_descriptor and ensure_receive_capacity.  The packet's           *)
(* description may be invalid even for a posted descriptor.  A caller that *)
(* is not careful may come back with a larger buffer.                      *)
ReceiveStart(d) ==
  /\ pc = "idle"
  /\ wrapped => drv = "Ready"
  /\ d \in held
  /\ \/ /\ d \in posted
        /\ posted' = posted \ {d}
        /\ \/ pc' = "read" /\ result' = "ok"
           \/ pc' = "prepare" /\ result' \in {"large", "small"}
        /\ id' = d
        /\ goal' = "packet"
        /\ held' = IF ~Careful /\ result' = "small" THEN held ELSE held \ {d}
        /\ UNCHANGED drv
     \/ Return("protocol") /\ held' = held \ {d} /\ UNCHANGED posted
  /\ UNCHANGED <<inFlight, nextTx, queues, firmware, faults, usage>>

(* convert_to_ethernet succeeds or rejects the packet: ConvertToEthernet   *)
(* of Messages says which.  (For a packet that LacksFrameControl it        *)
(* panics, which ends the program and is no step here.)                    *)
ConversionResults == {"ok", "convert"}

(* read_rx_or_repost, and the conversion of what was read.  All three      *)
(* outcomes repost.                                                        *)
ReadPacket ==
  /\ pc = "read"
  /\ \/ Ok /\ result' \in ConversionResults
     \/ Failure /\ result' = "rpu"
  /\ pc' = "prepare"
  /\ UNCHANGED <<id, goal, books, queues, drv, firmware, held, usage>>

(* post_rx up to the queue write *)
PrepareRx ==
  /\ pc = "prepare"
  /\ \/ ~queues /\ Ok /\ Return("device")
     \/ queues /\ Ok /\ Goto("enqueueRx") /\ UNCHANGED drv
     \/ queues /\ Failure /\ Return("rpu")
  /\ UNCHANGED <<books, queues, firmware, held, usage>>

(* The descriptor counts as posted before the outcome is known. *)
EnqueueRx ==
  /\ pc = "enqueueRx"
  /\ posted' = posted \cup {id}
  /\ \/ /\ Ok
        /\ fwRx' = Taken(fwRx)
        /\ \/ goal = "packet" /\ Return(result)
           \/ goal # "packet" /\ Goto("postNext") /\ UNCHANGED drv
     \/ Failure /\ Return("uncertain") /\ fwRx' \in {fwRx, Taken(fwRx)}
  /\ UNCHANGED <<inFlight, nextTx, queues, fw, fwTx, rxEv, txEv, held, usage>>

(* post_all_rx called by the application, as docs/PORTING.md says *)
PostAllStart ==
  /\ pc = "idle"
  /\ ~wrapped
  /\ pc' = "postNext" /\ goal' = "all" /\ UNCHANGED <<id, result>>
  /\ UNCHANGED <<books, queues, drv, firmware, held, faults, usage>>

(* The loop of post_all_rx *)
PostNext ==
  /\ pc = "postNext"
  /\ \/ \E d \in Descriptors \ posted :
          /\ \A e \in Descriptors \ posted : d <= e
          /\ pc' = "prepare" /\ id' = d /\ UNCHANGED <<result, goal>>
     \/ posted = Descriptors /\ goal = "all" /\ Idle
     \/ posted = Descriptors /\ goal = "boot" /\ Goto("init")
  /\ UNCHANGED <<books, queues, drv, firmware, held, faults, usage>>

-----------------------------------------------------------------------------
(* recover *)

RecoverStart ==
  /\ pc = "idle"
  /\ drv' = "Down"
  /\ pc' = "reset" /\ UNCHANGED <<id, result, goal>>
  /\ UNCHANGED <<books, queues, firmware, held, faults, usage>>

(* A reset takes everything from the firmware. *)
FirmwareReset ==
  fw' = "down" /\ fwRx' = {} /\ fwTx' = {} /\ rxEv' = {} /\ txEv' = {}

(* Fault: the bookkeeping is cleared before the reset is known to be done. *)
HardResetEager ==
  /\ pc = "reset"
  /\ posted' = {} /\ inFlight' = {} /\ nextTx' = 0
  /\ \/ /\ Ok
        /\ FirmwareReset
        /\ queues' = FALSE
        /\ held' = IF Careful THEN {} ELSE held
        /\ dropped' = FALSE
        /\ Goto("boot")
        /\ UNCHANGED drv
     \/ /\ Failure
        /\ FirmwareReset \/ UNCHANGED firmware
        /\ Return("device")
        /\ UNCHANGED <<queues, dropped, held>>
  /\ UNCHANGED wrapped

(* hard_reset, then reset_queue_state and reset_after_rpu_reset *)
HardReset ==
  /\ pc = "reset"
  /\ \/ /\ Ok
        /\ FirmwareReset
        /\ queues' = FALSE
        /\ posted' = {} /\ inFlight' = {} /\ nextTx' = 0
        /\ held' = IF Careful THEN {} ELSE held
        /\ dropped' = FALSE
        /\ Goto("boot")
        /\ UNCHANGED drv
     \/ /\ Failure
        /\ FirmwareReset \/ UNCHANGED firmware
        /\ Return("device")
        /\ UNCHANGED <<books, queues, dropped, held>>
  /\ UNCHANGED wrapped

(* The bus wakes, the firmware is loaded, initialize_queues reads its map. *)
Boot ==
  /\ pc = "boot"
  /\ \/ /\ Ok
        /\ fw' = "booted"
        /\ queues' = TRUE
        /\ pc' = "postNext" /\ goal' = "boot" /\ UNCHANGED <<id, result>>
        /\ UNCHANGED drv
     \/ Failure /\ fw' \in {"down", "booted"} /\ Return("device") /\ UNCHANGED queues
  /\ UNCHANGED <<books, fwRx, fwTx, rxEv, txEv, held, usage>>

(* Interrupts are enabled, the system initialization is sent. *)
SystemInit ==
  /\ pc = "init"
  /\ \/ Ok /\ Idle /\ drv' = "Waiting"
     \/ Failure /\ Return("device")
  /\ UNCHANGED <<books, queues, firmware, held, usage>>

(* Data events concern an interface, which only a ready driver creates: the *)
(* firmware handles packets from here on.                                   *)
InitDone ==
  /\ pc = "idle"
  /\ drv = "Waiting"
  /\ drv' = "Ready"
  /\ fw' = "running"
  /\ UNCHANGED <<books, queues, host, fwRx, fwTx, rxEv, txEv, held, faults, usage>>

(* The driver enters recovery for another reason than the data path. *)
EnterRecovery ==
  /\ pc = "idle"
  /\ drv # "Down"
  /\ drv' = "Down"
  /\ UNCHANGED <<books, queues, host, firmware, held, faults, usage>>

-----------------------------------------------------------------------------
(* The firmware, and the events the host polls *)

FirmwareReceives(d) ==
  /\ fw = "running"
  /\ d \in fwRx
  /\ fwRx' = fwRx \ {d}
  /\ rxEv' = rxEv \cup {d}
  /\ UNCHANGED <<books, queues, drv, host, fw, fwTx, txEv, held, faults, usage>>

FirmwareSends(t) ==
  /\ fw = "running"
  /\ t \in fwTx
  /\ fwTx' = fwTx \ {t}
  /\ txEv' = txEv \cup {t}
  /\ UNCHANGED <<books, queues, drv, host, fw, fwRx, rxEv, held, faults, usage>>

(* A driver that is not ready refuses data events; they are gone. *)
PollReceive(d) ==
  /\ pc = "idle"
  /\ d \in rxEv
  /\ rxEv' = rxEv \ {d}
  /\ held' = IF drv = "Ready" THEN held \cup {d} ELSE held
  /\ UNCHANGED <<books, queues, drv, host, fw, fwRx, fwTx, txEv, faults, usage>>

(* Fault: transmit-done releases no token. *)
PollTransmitDoneKeeps(t) ==
  /\ pc = "idle"
  /\ t \in txEv
  /\ txEv' = txEv \ {t}
  /\ UNCHANGED <<books, queues, drv, host, fw, fwRx, fwTx, rxEv, held, faults, usage>>

(* complete_tx; the event of a token that is not in flight is an error *)
PollTransmitDone(t) ==
  /\ pc = "idle"
  /\ t \in txEv
  /\ txEv' = txEv \ {t}
  /\ inFlight' = IF drv = "Ready" THEN inFlight \ {t} ELSE inFlight
  /\ drv' = IF wrapped /\ drv = "Ready" /\ t \notin inFlight THEN "Down" ELSE drv
  /\ UNCHANGED <<posted, nextTx, queues, host, fw, fwRx, fwTx, rxEv, held, faults, usage>>

(* The caller drops the future while it waits for a transfer: no error     *)
(* handling runs.                                                          *)
DropFuture ==
  /\ pc \in Awaits
  /\ Failure
  /\ dropped' = TRUE
  /\ Idle
  /\ posted' = IF pc = "enqueueRx" THEN posted \cup {id} ELSE posted
  /\ \/ UNCHANGED firmware
     \/ pc = "enqueueRx" /\ fwRx' = Taken(fwRx) /\ UNCHANGED <<fw, fwTx, rxEv, txEv>>
     \/ pc = "enqueueTx" /\ fwTx' = Taken(fwTx) /\ UNCHANGED <<fw, fwRx, rxEv, txEv>>
     \/ pc = "reset" /\ FirmwareReset
     \/ pc = "boot" /\ fw' = "booted" /\ UNCHANGED <<fwRx, fwTx, rxEv, txEv>>
  /\ UNCHANGED <<inFlight, nextTx, queues, drv, wrapped, held>>

HostStep ==
  \/ WritePacket \/ WriteCommand \/ EnqueueTx \/ Trigger
  \/ ReadPacket \/ PrepareRx \/ EnqueueRx \/ PostNext
  \/ HardReset \/ Boot \/ SystemInit

Next ==
  \/ TransmitStart \/ PostAllStart \/ RecoverStart
  \/ \E d \in Descriptors : ReceiveStart(d) \/ PollReceive(d) \/ FirmwareReceives(d)
  \/ \E t \in Tokens : PollTransmitDone(t) \/ FirmwareSends(t)
  \/ HostStep \/ InitDone \/ EnterRecovery \/ DropFuture

Spec == Init /\ [][Next]_vars

(* Transfers end, the firmware sends what it was given, the event loop     *)
(* comes back to the queue whatever else the host does, and a driver that  *)
(* is down is recovered.                                                   *)
FairSpec ==
  /\ Spec
  /\ WF_vars(HostStep)
  /\ WF_vars(drv = "Down" /\ RecoverStart)
  /\ WF_vars(InitDone)
  /\ \A t \in Tokens : WF_vars(FirmwareSends(t)) /\ SF_vars(PollTransmitDone(t))

-----------------------------------------------------------------------------
(* Properties *)

SendsToken      == pc \in {"packet", "command", "enqueueTx"}
HoldsDescriptor == pc \in {"read", "prepare", "enqueueRx"}

(* The bytes the host may write or read, and those the firmware may *)
HostSpans ==
  (IF SendsToken THEN {TxSpan(id), TxCommandSpan(id)} ELSE {}) \cup
  (IF HoldsDescriptor THEN {RxSpan(id)} ELSE {})

FirmwareSpans ==
  {RxSpan(d) : d \in fwRx} \cup {TxSpan(t) : t \in fwTx} \cup
  {TxCommandSpan(t) : t \in fwTx}

(* The host writes or reads no byte of packet RAM that the firmware may    *)
(* use: no RX descriptor or TX token is reused while firmware can still    *)
(* own it, whichever transfer failed before, and no slot reaches into      *)
(* another.                                                                *)
Exclusive == \A h \in HostSpans, f \in FirmwareSpans : Apart(h, f)

(* An event of the firmware names a descriptor that is posted or a token   *)
(* that is in flight, so take_rx_descriptor and complete_tx never refuse a *)
(* genuine event and never apply an old one to a new owner.                *)
EventsKnown ==
  /\ rxEv \cup held \subseteq posted
  /\ txEv \subseteq inFlight
  /\ rxEv \cap fwRx = {}
  /\ txEv \cap fwTx = {}

(* Under the wrapper nothing leaks, unless a future is dropped: whenever a *)
(* ready driver is between two operations, every RX descriptor is with the *)
(* firmware, in an event or in the caller's hands, and every token that is *)
(* in flight will come back.                                               *)
NothingLost ==
  wrapped /\ ~dropped /\ drv = "Ready" /\ pc = "idle" =>
    /\ posted = Descriptors
    /\ posted \subseteq fwRx \cup rxEv \cup held
    /\ inFlight \subseteq fwTx \cup txEv

(* Under the wrapper a token in flight is released in the end, by its      *)
(* transmit-done event, a failure before it was handed over, or a          *)
(* recovery, unless a future is dropped.                                   *)
TokensReturn ==
  \A t \in Tokens :
    wrapped /\ t \in inFlight ~> t \notin inFlight \/ dropped
=============================================================================
