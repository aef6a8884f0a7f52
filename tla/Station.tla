------------------------------- MODULE Station -------------------------------
(***************************************************************************)
(* The station connection controller (station.rs) as operators on its      *)
(* state, a record.  An operation that can report an error returns a       *)
(* Result; a command has a guard, Can..., which is the controller's own    *)
(* check, and an effect, which is what the controller does once            *)
(* Device::send_control_reliable has accepted the message.  The modules    *)
(* that own a station (Driver, Wpa2Session) turn these into actions.       *)
(*                                                                         *)
(* Abstractions: addresses are members of Peers; a deadline is counted in  *)
(* ticks and is the same for every timed state; last_fault, which only     *)
(* the caller reads, is left out; event identifiers reduce to "for this    *)
(* interface or not", and status words to "zero or not".                   *)
(***************************************************************************)
EXTENDS Naturals

CONSTANTS
  Peers,        \* access point addresses
  NoPeer,       \* the None of Option<[u8; 6]>
  Deadline      \* ticks a timed state may last; StationTimeouts, .max(1)

ASSUME NoPeerAssumption   == NoPeer \notin Peers
ASSUME DeadlineAssumption == Deadline \in Nat \ {0}

(* StationState *)
UntimedStates == {"Down", "Idle", "Connected", "Recovering", "Fault"}

TimedStates ==
  {"InterfaceCreatePending", "RegulatoryPending", "InterfaceUpPending",
   "Scanning", "ScanComplete", "ReadingScanResults", "Authenticating",
   "Authenticated", "Associating", "Securing", "Authorizing",
   "AwaitingCarrier", "PowerSavePending", "Disconnecting",
   "InterfaceDownPending"}

StationStates == UntimedStates \cup TimedStates

(* The UmacCommand values that can be pending. *)
KeyCommands       == {"NewKey", "DeleteKey", "SetKey"}
PowerSaveCommands == {"SetPowerSave", "SetPowerSaveTimeout"}
Commands ==
  KeyCommands \cup PowerSaveCommands \cup
  {"NewInterface", "RequestSetRegulatory", "SetInterfaceFlags", "TriggerScan",
   "GetScanResults", "Authenticate", "Associate", "SetStation",
   "Deauthenticate"}

(* The fields of StationController.  remaining = 0 is remaining_ms = None. *)
StationType ==
  [state      : StationStates,
   vif0       : BOOLEAN,                   \* wdev_id == 0
   created    : BOOLEAN,                   \* interface_created
   peer       : Peers \cup {NoPeer},
   secure     : BOOLEAN,                   \* secure_connection
   authorized : BOOLEAN,                   \* controlled_port_authorized
   carrier    : BOOLEAN,                   \* carrier_on
   pending    : Commands \cup {"None"},    \* pending_command
   ret        : StationStates \cup {"None"},  \* pending_return_state
   remaining  : 0 .. Deadline]

NewStation(vif0) ==
  [state |-> "Down", vif0 |-> vif0, created |-> FALSE, peer |-> NoPeer,
   secure |-> FALSE, authorized |-> FALSE, carrier |-> FALSE,
   pending |-> "None", ret |-> "None", remaining |-> 0]

-----------------------------------------------------------------------------
(* Helpers *)

Ok(s)  == [st |-> s, ok |-> TRUE]
Err(s) == [st |-> s, ok |-> FALSE]

(* Fault: no deadline while the carrier is awaited *)
TimeoutForNoCarrier(x) ==
  IF x \in TimedStates \ {"AwaitingCarrier"} THEN Deadline ELSE 0
TimeoutFor(x) == IF x \in TimedStates THEN Deadline ELSE 0

Transition(s, x) == [s EXCEPT !.state = x, !.remaining = TimeoutFor(x)]

ClearPending(s) == [s EXCEPT !.pending = "None", !.ret = "None"]

ClearConnection(s) ==
  [s EXCEPT !.peer = NoPeer, !.secure = FALSE, !.authorized = FALSE,
            !.carrier = FALSE]

Fail(s) == Err(Transition(ClearPending(s), "Fault"))

RefreshConnected(s) ==
  IF s.carrier /\ s.authorized THEN Transition(s, "Connected") ELSE s

ControlledPortOpen(s) == s.state = "Connected" /\ s.authorized /\ s.carrier

EapolRequired(s) ==
  s.secure /\ s.state \in {"Securing", "Authorizing", "AwaitingCarrier",
                           "Connected"}

SetTimeouts(s) == [s EXCEPT !.remaining = TimeoutFor(s.state)]

(* Fault: the deadline passes unnoticed *)
AdvanceTimePast(s, elapsed) ==
  IF s.remaining = 0 THEN Ok(s)
  ELSE Ok([s EXCEPT !.remaining = @ - elapsed])

(* The deadline passes, or it comes nearer. *)
AdvanceTime(s, elapsed) ==
  IF s.remaining = 0 THEN Ok(s)
  ELSE IF elapsed < s.remaining
       THEN Ok([s EXCEPT !.remaining = @ - elapsed])
       ELSE Fail(s)

(* Fault: recovery keeps the connection *)
BeginRecoveryKeeps(s) ==
  Transition(ClearPending([s EXCEPT !.created = FALSE]), "Recovering")
BeginRecovery(s) ==
  Transition(ClearPending(ClearConnection([s EXCEPT !.created = FALSE])),
             "Recovering")

RecoveryComplete(s) ==
  Transition(ClearPending(ClearConnection([s EXCEPT !.created = FALSE])),
             "Down")

CompleteGroupRekey(s) ==
  IF s.secure /\ s.authorized
  THEN Ok(Transition(s, IF s.carrier THEN "Connected" ELSE "AwaitingCarrier"))
  ELSE Err(Transition(s, "Fault"))

-----------------------------------------------------------------------------
(* Commands.  Submit is what every command does after the send: remember   *)
(* the command and enter the state that waits for its answer.              *)

Submit(s, command, x) == Transition([s EXCEPT !.pending = command], x)

CanCreateInterface(s) == s.state = "Down" /\ ~s.created
CreateInterface(s) ==
  IF s.vif0
  THEN Transition(ClearPending([s EXCEPT !.created = TRUE]), "Down")
  ELSE Submit(s, "NewInterface", "InterfaceCreatePending")

CanSetRegulatory(s) == s.state \in {"Down", "Idle"}
SetRegulatory(s) ==
  Submit([s EXCEPT !.ret = s.state], "RequestSetRegulatory",
         "RegulatoryPending")

CanBringUp(s) == s.state = "Down" /\ s.created
BringUp(s) == Submit(s, "SetInterfaceFlags", "InterfaceUpPending")

CanBringDown(s) == s.state \in {"Idle", "Connected", "Fault"} /\ s.created
BringDown(s) ==
  Submit([s EXCEPT !.ret = "None"], "SetInterfaceFlags",
         "InterfaceDownPending")

CanStartScan(s) == s.state = "Idle"
StartScan(s) == Submit(s, "TriggerScan", "Scanning")

CanRequestScanResults(s) == s.state = "ScanComplete"
RequestScanResults(s) == Submit(s, "GetScanResults", "ReadingScanResults")

CanAuthenticate(s) == s.state = "Idle"
Authenticate(s, bssid) ==
  Submit([s EXCEPT !.peer = bssid], "Authenticate", "Authenticating")

(* A request for another access point than the authenticated one fails     *)
(* before anything is sent.                                                *)
CanAssociate(s) == s.state = "Authenticated"
AssociateMismatch(s, bssid) == s.peer # bssid
(* Fault: the port of a secure network starts authorized *)
AssociateOpens(s, secure) ==
  Submit([s EXCEPT !.secure = secure, !.authorized = TRUE], "Associate",
         "Associating")
Associate(s, secure) ==
  Submit([s EXCEPT !.secure = secure, !.authorized = ~secure], "Associate",
         "Associating")

(* Without a peer a pairwise command, authorize and disconnect report an   *)
(* error; Driver's Consistent shows that none of their states lacks one.   *)
CanKeyCommand(s, pairwise) ==
  /\ s.state \in {"Securing", "Authorizing", "Connected"}
  /\ pairwise => s.peer # NoPeer
KeyCommand(s, command) == Submit(s, command, "Securing")

CanSetKey(s) == s.state = "Securing"
SetKey(s) == Submit(s, "SetKey", "Securing")

CanAuthorize(s) == s.state = "Securing" /\ s.peer # NoPeer
Authorize(s) == Submit(s, "SetStation", "Authorizing")

CanSetPowerSave(s) == s.state \in {"Idle", "Connected"}
SetPowerSave(s, command) ==
  Submit([s EXCEPT !.ret = s.state], command, "PowerSavePending")

CanDisconnect(s) ==
  /\ s.state \in {"Authenticated", "Associating", "Securing", "Authorizing",
                  "AwaitingCarrier", "Connected"}
  /\ s.peer # NoPeer
Disconnect(s) ==
  Submit([s EXCEPT !.ret = "None"], "Deauthenticate", "Disconnecting")

-----------------------------------------------------------------------------
(* Firmware events.  An event is a record with its kind, whether its       *)
(* header names this interface (mine), whether its status word is zero     *)
(* (good), and what its kind adds.  An MLME frame has an address or none   *)
(* (NoPeer) and may report a timeout.                                      *)

(* apply_successful_command, reached with the pending command cleared *)
ApplySuccessfulCommand(s, command) ==
  CASE command \in KeyCommands -> Transition(s, "Securing")
    [] command = "SetStation" /\ s.state = "Authorizing" ->
         RefreshConnected(
           Transition([s EXCEPT !.authorized = TRUE], "AwaitingCarrier"))
    [] command \in PowerSaveCommands /\ s.state = "PowerSavePending" ->
         Transition([s EXCEPT !.ret = "None"],
                    IF s.ret = "None" THEN "Fault" ELSE s.ret)
    [] OTHER -> s

IsDefaultInterfaceStatus(s, command) ==
  command = "NewInterface" /\ s.created /\ s.pending = "None"

HandleCommandStatus(s, command, good) ==
  IF IsDefaultInterfaceStatus(s, command)
  THEN IF good THEN Ok(s) ELSE Fail(s)
  ELSE IF s.pending # command \/ ~good THEN Fail(s)
  ELSE IF command = "NewInterface" THEN Ok(s)
  ELSE Ok(ApplySuccessfulCommand([s EXCEPT !.pending = "None"], command))

(* Fault: an interface that went down keeps its connection *)
InterfaceStateKeeps(s, good) ==
  CASE good /\ s.state = "InterfaceUpPending" ->
         Ok(Transition([s EXCEPT !.pending = "None"], "Idle"))
    [] good /\ s.state = "InterfaceDownPending" ->
         Ok(Transition([s EXCEPT !.pending = "None"], "Down"))
    [] OTHER -> Fail(s)

HandleInterfaceState(s, good) ==
  CASE good /\ s.state = "InterfaceUpPending" ->
         Ok(Transition([s EXCEPT !.pending = "None"], "Idle"))
    [] good /\ s.state = "InterfaceDownPending" ->
         Ok(Transition(ClearConnection([s EXCEPT !.pending = "None"]), "Down"))
    [] OTHER -> Fail(s)

HandleRegulatoryChange(s) ==
  IF s.state = "RegulatoryPending"
  THEN Ok(Transition(ClearPending(s),
                     IF s.ret = "None" THEN "Down" ELSE s.ret))
  ELSE Ok(s)

HandleInterfaceCreated(s, good) ==
  CASE good /\ s.state = "InterfaceCreatePending"
            /\ s.pending = "NewInterface" ->
         Ok(Transition([s EXCEPT !.created = TRUE, !.pending = "None"],
                       "Down"))
    [] good /\ s.created /\ s.state = "Down" -> Ok(s)
    [] OTHER -> Fail(s)

HandleScanDone(s, good) ==
  IF s.state = "Scanning" /\ good
  THEN Ok(Transition([s EXCEPT !.pending = "None"], "ScanComplete"))
  ELSE Fail(s)

HandleScanResult(s, last) ==
  IF s.state # "ReadingScanResults" THEN Fail(s)
  ELSE IF last THEN Ok(Transition([s EXCEPT !.pending = "None"], "Idle"))
  ELSE Ok(Transition(s, "ReadingScanResults"))

(* The frame has an address (mlme_frame_address) and it is the peer's.     *)
FromPeer(s, e) == e.peer # NoPeer /\ e.peer = s.peer

(* A reported MLME timeout, or a frame too short to hold its status, is an *)
(* error that leaves the state as it is.                                   *)
HandleAuthentication(s, e) ==
  IF s.state # "Authenticating" \/ ~FromPeer(s, e) THEN Fail(s)
  ELSE IF e.timedOut THEN Err(s)
  ELSE IF ~e.good THEN Fail(s)
  ELSE Ok(Transition([s EXCEPT !.pending = "None"], "Authenticated"))

(* Fault: the answer of any access point counts *)
HandleAssociationAny(s, e) ==
  IF s.state # "Associating" THEN Fail(s)
  ELSE IF e.timedOut THEN Err(s)
  ELSE IF ~e.good THEN Fail(s)
  ELSE Ok(RefreshConnected(
            Transition([s EXCEPT !.pending = "None"],
                       IF s.secure THEN "Securing" ELSE "AwaitingCarrier")))

HandleAssociation(s, e) ==
  IF s.state # "Associating" \/ ~FromPeer(s, e) THEN Fail(s)
  ELSE IF e.timedOut THEN Err(s)
  ELSE IF ~e.good THEN Fail(s)
  ELSE Ok(RefreshConnected(
            Transition([s EXCEPT !.pending = "None"],
                       IF s.secure THEN "Securing" ELSE "AwaitingCarrier")))

(* Fault: only the peer is forgotten *)
DisconnectEventKeeps(s, e) ==
  IF s.peer = NoPeer THEN Ok(s)
  ELSE IF ~FromPeer(s, e) THEN Fail(s)
  ELSE Ok([s EXCEPT !.peer = NoPeer])

(* Deauthentication and disassociation *)
HandleDisconnectEvent(s, e) ==
  IF s.peer = NoPeer THEN Ok(s)
  ELSE IF ~FromPeer(s, e) THEN Fail(s)
  ELSE Ok(Transition(ClearPending(ClearConnection(s)), "Idle"))

HandleCarrierOn(s) == Ok(RefreshConnected([s EXCEPT !.carrier = TRUE]))

(* Fault: the loss is only noted, whatever the state *)
CarrierOffQuiet(s) == Ok([s EXCEPT !.carrier = FALSE])
HandleCarrierOff(s) ==
  IF s.state = "Connected"
  THEN Fail(ClearConnection(s))
  ELSE Ok([s EXCEPT !.carrier = FALSE])

PlainEvents == {"InterfaceState", "RegulatoryChange", "NewInterface",
                "ScanDone", "Other", "CarrierOn", "CarrierOff"}
MlmeEvents  == {"Authentication", "Association", "Disconnect"}

Events ==
  [kind : PlainEvents, mine : BOOLEAN, good : BOOLEAN]
    \cup [kind : {"CommandStatus"}, mine : BOOLEAN, good : BOOLEAN,
          command : Commands]
    \cup [kind : {"ScanResult"}, mine : BOOLEAN, good : BOOLEAN,
          last : BOOLEAN]
    \cup [kind : MlmeEvents, mine : BOOLEAN, good : BOOLEAN,
          peer : Peers \cup {NoPeer}, timedOut : BOOLEAN]

(* handle_control_event and handle_data_event *)
HandleEvent(s, e) ==
  IF ~e.mine THEN Fail(s)
  ELSE CASE e.kind = "CommandStatus"  ->
              HandleCommandStatus(s, e.command, e.good)
         [] e.kind = "InterfaceState"   -> HandleInterfaceState(s, e.good)
         [] e.kind = "RegulatoryChange" -> HandleRegulatoryChange(s)
         [] e.kind = "NewInterface"     -> HandleInterfaceCreated(s, e.good)
         [] e.kind = "ScanDone"         -> HandleScanDone(s, e.good)
         [] e.kind = "ScanResult"       -> HandleScanResult(s, e.last)
         [] e.kind = "Authentication"   -> HandleAuthentication(s, e)
         [] e.kind = "Association"      -> HandleAssociation(s, e)
         [] e.kind = "Disconnect"       -> HandleDisconnectEvent(s, e)
         [] e.kind = "CarrierOn"        -> HandleCarrierOn(s)
         [] e.kind = "CarrierOff"       -> HandleCarrierOff(s)
         [] OTHER                       -> Ok(s)
=============================================================================
