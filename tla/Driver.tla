------------------------------- MODULE Driver -------------------------------
(***************************************************************************)
(* The driver lifecycle (runtime.rs) with its station controller and, when *)
(* mission is TRUE, the fail-closed wrapper of production.rs, which sends  *)
(* every hardware and station error to recovery.                           *)
(*                                                                         *)
(* Every operation takes &mut self, so an operation is one step however    *)
(* many awaits it has; its future can be dropped, which Recover shows.     *)
(* The firmware is external: any event may follow any other, in any order, *)
(* any number of times, which covers lost, late and repeated answers.      *)
(***************************************************************************)
EXTENDS Station

CONSTANT
  MaxRearms      \* bound on the calls of set_station_timeouts

ASSUME DriverAssumption == MaxRearms \in Nat

DriverStates ==
  {"Cold", "Recovering", "WaitingForSystemInit", "Ready", "Fault"}

VARIABLES
  mission,     \* TRUE: MissionCriticalDriver; FALSE: NativeDriver alone
  early,       \* the firmware may report carrier before association
  drv,         \* NativeDriver.state
  st,          \* NativeDriver.station
  configured,  \* NativeDriver.configured_mac is Some
  uncertain,   \* Device.recovery_required
  rearms,      \* calls of set_station_timeouts so far
  hist         \* history: what happened for the current connection

mode == <<mission, early>>   \* chosen once: the build and the firmware
vars == <<mode, drv, st, configured, uncertain, rearms, hist>>

(* assoc: the peer whose association response was accepted.  grant: the    *)
(* peer for which the firmware accepted SetStation.  closing: disconnect   *)
(* or bring_down was sent for this connection.                             *)
NoHistory == [assoc |-> NoPeer, grant |-> NoPeer, closing |-> FALSE]

HistoryType == [assoc : Peers \cup {NoPeer}, grant : Peers \cup {NoPeer},
                closing : BOOLEAN]

TypeOK ==
  /\ mission \in BOOLEAN
  /\ early \in BOOLEAN
  /\ drv \in DriverStates
  /\ st \in StationType
  /\ configured \in BOOLEAN
  /\ uncertain \in BOOLEAN
  /\ rearms \in 0 .. MaxRearms
  /\ hist \in HistoryType

Init ==
  /\ mission \in BOOLEAN
  /\ early \in BOOLEAN
  /\ drv = "Cold"
  /\ \E vif0 \in BOOLEAN : st = NewStation(vif0)
  /\ configured = FALSE
  /\ uncertain = FALSE
  /\ rearms = 0
  /\ hist = NoHistory

-----------------------------------------------------------------------------
EnterRecovery ==
  /\ st' = BeginRecovery(st)
  /\ drv' = "Recovering"
  /\ configured' = FALSE
  /\ hist' = NoHistory
  /\ UNCHANGED <<mode, rearms>>

(* The station becomes s; the history h ends with the connection. *)
Become(s, h) ==
  /\ st' = s
  /\ hist' = IF s.peer = NoPeer THEN NoHistory ELSE h
  /\ UNCHANGED mode

(* A station command: the driver is ready and the device took the message. *)
Command(guard, s, h) ==
  /\ drv = "Ready"
  /\ ~uncertain
  /\ guard
  /\ Become(s, h)
  /\ UNCHANGED <<drv, configured, uncertain, rearms>>

DoCreateInterface ==
  /\ drv = "Ready"
  /\ mission \/ configured
  /\ st.vif0 \/ ~uncertain
  /\ CanCreateInterface(st)
  /\ Become(CreateInterface(st), hist)
  /\ UNCHANGED <<drv, configured, uncertain, rearms>>

DoSetRegulatory == Command(CanSetRegulatory(st), SetRegulatory(st), hist)
DoBringUp       == Command(CanBringUp(st), BringUp(st), hist)
DoStartScan     == Command(CanStartScan(st), StartScan(st), hist)
DoRequestScanResults ==
  Command(CanRequestScanResults(st), RequestScanResults(st), hist)
DoAuthenticate ==
  \E bssid \in Peers :
    Command(CanAuthenticate(st), Authenticate(st, bssid), NoHistory)
DoAssociate ==
  \E bssid \in Peers, secure \in BOOLEAN :
    Command(CanAssociate(st) /\ ~AssociateMismatch(st, bssid),
            Associate(st, secure), NoHistory)
DoKeyCommand ==
  \E command \in KeyCommands \ {"SetKey"}, pairwise \in BOOLEAN :
    Command(CanKeyCommand(st, pairwise), KeyCommand(st, command), hist)
DoSetKey    == Command(CanSetKey(st), SetKey(st), hist)
DoAuthorize == Command(CanAuthorize(st), Authorize(st), hist)
DoSetPowerSave ==
  \E command \in PowerSaveCommands :
    Command(CanSetPowerSave(st), SetPowerSave(st, command), hist)
DoBringDown ==
  Command(CanBringDown(st), BringDown(st), [hist EXCEPT !.closing = TRUE])
DoDisconnect ==
  Command(CanDisconnect(st), Disconnect(st), [hist EXCEPT !.closing = TRUE])

(* associate for an access point that was not authenticated *)
AssociateOther ==
  /\ drv = "Ready"
  /\ CanAssociate(st)
  /\ \E bssid \in Peers : AssociateMismatch(st, bssid)
  /\ \/ mission /\ EnterRecovery
     \/ /\ ~mission
        /\ Become(Fail(st).st, hist)
        /\ UNCHANGED <<drv, configured, rearms>>
  /\ UNCHANGED uncertain

CanCommand(s) ==
  \/ CanCreateInterface(s) /\ ~s.vif0
  \/ CanSetRegulatory(s) \/ CanBringUp(s) \/ CanBringDown(s)
  \/ CanRequestScanResults(s) \/ CanAssociate(s) \/ CanDisconnect(s)

(* The send of a command fails on the bus, or waits in vain after a        *)
(* fragment was posted: the device can no longer tell whether the firmware *)
(* has the command, and takes no other.  The station keeps its state.      *)
(* (A wait in vain before the first fragment changes nothing.)             *)
CommandFailed ==
  /\ drv = "Ready"
  /\ CanCommand(st)
  /\ \/ mission /\ EnterRecovery
     \/ ~mission /\ UNCHANGED <<mode, drv, st, configured, rearms, hist>>
  /\ uncertain' = TRUE

DoSetTimeouts ==
  /\ rearms < MaxRearms
  /\ rearms' = rearms + 1
  /\ Become(SetTimeouts(st), hist)
  /\ UNCHANGED <<drv, configured, uncertain>>

DoAdvanceTime ==
  /\ st.remaining > 0
  /\ \E elapsed \in 1 .. Deadline :
       LET r == AdvanceTime(st, elapsed) IN
       \/ /\ r.ok
          /\ Become(r.st, hist)
          /\ UNCHANGED <<drv, configured, rearms>>
       \/ ~r.ok /\ EnterRecovery
  /\ UNCHANGED uncertain

-----------------------------------------------------------------------------
(* poll_event.  It looks at the device's flag before it reads anything, and *)
(* a cold device has no queues to read.                                    *)
PollUncertain ==
  /\ uncertain
  /\ EnterRecovery
  /\ UNCHANGED uncertain

InitDone ==
  /\ drv # "Cold"
  /\ ~uncertain
  /\ \/ /\ drv = "WaitingForSystemInit"
        /\ drv' = "Ready"
        /\ Become(RecoveryComplete(st), hist)
        /\ UNCHANGED <<configured, rearms>>
     \/ drv # "WaitingForSystemInit" /\ EnterRecovery
  /\ UNCHANGED uncertain

DeinitDone ==
  /\ drv # "Cold"
  /\ ~uncertain
  /\ EnterRecovery
  /\ UNCHANGED uncertain

(* What an accepted event adds to the history. *)
Observed(e) ==
  IF e.kind = "Association" THEN [hist EXCEPT !.assoc = e.peer]
  ELSE IF e.kind = "CommandStatus" /\ e.command = "SetStation"
          /\ st.state = "Authorizing"
  THEN [hist EXCEPT !.grant = st.peer]
  ELSE hist

(* A control event or a carrier event reaches the station. *)
StationEvent(e) ==
  /\ drv = "Ready"
  /\ ~uncertain
  /\ e.kind = "CarrierOn" => early \/ hist.assoc # NoPeer
  /\ LET r == HandleEvent(st, e) IN
     \/ /\ r.ok
        /\ Become(r.st, Observed(e))
        /\ UNCHANGED <<drv, configured, rearms>>
     \/ ~r.ok /\ EnterRecovery
  /\ UNCHANGED uncertain

(* A bus error or an event that does not parse (poll_event of the wrapper; *)
(* NativeDriver only reports them).                                        *)
PollEventFault ==
  /\ mission
  /\ EnterRecovery
  /\ UNCHANGED uncertain

(* receive_packet or transmit: a packet for another interface, and, under  *)
(* the wrapper, every bus error and uncertain queue ownership.             *)
DataFault ==
  /\ mission => drv = "Ready"
  /\ EnterRecovery
  /\ UNCHANGED uncertain

(* Ten sentinel reads of the watchdog status *)
WatchdogSentinel ==
  /\ \/ mission /\ EnterRecovery
     \/ /\ ~mission
        /\ drv' = "Fault"
        /\ UNCHANGED <<mode, st, configured, rearms, hist>>
  /\ UNCHANGED uncertain

AcknowledgeWatchdog ==
  /\ EnterRecovery
  /\ UNCHANGED uncertain

(* recover: it completes, fails at one of its steps, or is dropped.  The   *)
(* reset clears the device's flag; the last step, a send, can set it again.*)
Recover ==
  /\ st' = BeginRecovery(st)
  /\ hist' = NoHistory
  /\ \/ /\ drv' = "WaitingForSystemInit"
        /\ configured' = TRUE
        /\ uncertain' = FALSE
     \/ /\ drv' \in {"Fault", "Recovering"}
        /\ configured' = FALSE
        /\ uncertain' \in BOOLEAN
  /\ UNCHANGED <<mode, rearms>>

Next ==
  \/ DoCreateInterface \/ DoSetRegulatory \/ DoBringUp \/ DoBringDown
  \/ DoStartScan \/ DoRequestScanResults \/ DoAuthenticate \/ DoAssociate
  \/ DoKeyCommand \/ DoSetKey \/ DoAuthorize \/ DoSetPowerSave \/ DoDisconnect
  \/ AssociateOther \/ CommandFailed \/ DoSetTimeouts \/ DoAdvanceTime
  \/ PollUncertain \/ InitDone \/ DeinitDone
  \/ \E e \in Events : StationEvent(e)
  \/ PollEventFault \/ DataFault \/ WatchdogSentinel \/ AcknowledgeWatchdog
  \/ Recover

Spec == Init /\ [][Next]_vars

(* The caller's timer path runs (advance_time must be called from one). *)
FairSpec == Spec /\ WF_vars(DoAdvanceTime)

-----------------------------------------------------------------------------
(* Properties *)

(* States before a connection and states that have chosen a peer *)
Unjoined == {"Down", "InterfaceCreatePending", "Idle", "RegulatoryPending",
             "InterfaceUpPending", "Scanning", "ScanComplete",
             "ReadingScanResults", "Authenticating", "Authenticated",
             "Recovering"}
AtPeer   == {"Authenticating", "Authenticated", "Associating", "Securing",
             "Authorizing", "AwaitingCarrier", "Connected", "Disconnecting"}
NoInterface == {"Down", "InterfaceCreatePending", "RegulatoryPending",
                "Recovering"}

(* What a station s with history h keeps consistent. *)
Sound(s, h) ==
  /\ s.state \notin NoInterface => s.created
  /\ s.peer # NoPeer => s.created
  /\ s.authorized => s.peer # NoPeer
  /\ s.authorized /\ s.secure => h.grant = s.peer /\ h.assoc = s.peer
  /\ s.state \in Unjoined => ~s.authorized
  /\ s.state \in AtPeer => s.peer # NoPeer
  /\ s.state = "Connected" => s.authorized
  /\ s.state \in {"Securing", "Authorizing"} /\ s.secure =>
       h.assoc = s.peer
  /\ s.state = "RegulatoryPending" =>
       s.ret = "Down" \/ (s.ret = "Idle" /\ s.created)
  /\ s.state = "PowerSavePending" =>
       (s.ret = "Connected" /\ s.authorized)
         \/ (s.ret = "Idle" /\ ~s.authorized)
  /\ s.pending \in KeyCommands => s.state \in {"Securing", "Connected"}

(* The flags of the station agree with its state and with what happened,   *)
(* whatever the order of commands, events, deadlines and recoveries: no    *)
(* authorization without a peer and an interface, none before an           *)
(* association, and a pending operation always knows where to return.      *)
Consistent == Sound(st, hist)

(* Under the wrapper normal traffic flows only through a ready driver, on  *)
(* an interface the firmware has, with a known peer: controlled_port_open  *)
(* of station.rs against the lifecycle of runtime.rs.                      *)
PortOnlyWhenReady ==
  mission /\ ControlledPortOpen(st) =>
    drv = "Ready" /\ st.created /\ st.peer # NoPeer

(* A secure port is open only for a peer that accepted the association and *)
(* for which the firmware accepted SetStation, both since the last         *)
(* associate: nothing left from an earlier connection opens it.            *)
SecurePortNeedsGrant ==
  ControlledPortOpen(st) /\ st.secure =>
    hist.grant = st.peer /\ hist.assoc = st.peer

(* With firmware that reports carrier after association, the port of any   *)
(* network is open only for a peer that accepted the association.          *)
PortNeedsAssociation ==
  ~early /\ ControlledPortOpen(st) => hist.assoc = st.peer

(* Under the wrapper a faulted station never waits for the caller: the     *)
(* step that faults it also enters recovery (begin_recovery of station.rs  *)
(* under enter_recovery of runtime.rs).  Nothing of a connection survives  *)
(* the start of recovery, and no event, command or deadline changes that   *)
(* before the firmware reports InitDone.                                   *)
Forgotten(s) ==
  /\ s.state = "Recovering" /\ s.remaining = 0
  /\ s.pending = "None" /\ s.ret = "None"
  /\ s.peer = NoPeer
  /\ ~s.created /\ ~s.secure /\ ~s.authorized /\ ~s.carrier
Forgets == mission /\ drv \notin {"Cold", "Ready"} => Forgotten(st)
RecoveryForgets == (mission => st.state # "Fault") /\ Forgets

(* A connected station that loses its carrier faults (carrier_off); the    *)
(* one way to be Connected without a carrier is to lose it while a         *)
(* power-save command is pending, whose answer returns to Connected.  The  *)
(* port is closed there, and no deadline runs.                             *)
CarrierWatched ==
  [][st'.state = "Connected" /\ ~st'.carrier =>
       ~st.carrier /\ st.state \in {"Connected", "PowerSavePending"}]_vars

(* Once disconnect or bring_down was sent, the port stays closed until a   *)
(* new connection, under the wrapper and with carrier reported in order:   *)
(* the fail-closed claim of station.rs for a connection the caller ends.   *)
ClosingPortStaysClosed ==
  mission /\ ~early /\ hist.closing => ~ControlledPortOpen(st)

(* Every waiting state ends: by its answer or by its deadline.  Securing   *)
(* and ReadingScanResults are left out, for each key command and each scan *)
(* result starts their deadline again.                                     *)
WaitingEnds ==
  \A x \in TimedStates \ {"Securing", "ReadingScanResults"} :
    (st.state = x) ~> (st.state # x)
=============================================================================
