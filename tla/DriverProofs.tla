---------------------------- MODULE DriverProofs ----------------------------
(***************************************************************************)
(* Proofs about Driver, for every set of access points, every deadline and *)
(* both kinds of driver.                                                   *)
(*                                                                         *)
(* The argument: Good, which is the type of a station and its history with *)
(* Sound and Joined, is kept by every operator of Station, one lemma each, *)
(* as long as the operator's guard holds.  Every action of Driver is one   *)
(* of these operators or EnterRecovery, so Good is inductive.              *)
(***************************************************************************)
EXTENDS Driver, StationProofs, TLAPS

(* With firmware that reports carrier after association: a connection that *)
(* has carrier has an accepted association, and no state before the        *)
(* association response has one.                                           *)
Joined(s, h) ==
  IF s.peer = NoPeer THEN ~s.carrier
  ELSE /\ s.carrier => h.assoc # NoPeer
       /\ h.assoc # NoPeer => /\ h.assoc = s.peer
                              /\ s.state \notin Unjoined \cup {"Associating"}
       /\ s.state = "PowerSavePending" /\ s.ret = "Idle" => h.assoc = NoPeer

Good(s, h) ==
  /\ s \in StationType
  /\ h \in HistoryType
  /\ Sound(s, h)
  /\ mission => s.state # "Fault"
  /\ ~early => Joined(s, h)

-----------------------------------------------------------------------------
(* Commands keep Good *)
LEMMA CreateInterfaceGood ==
  ASSUME NEW s, NEW h, Good(s, h), CanCreateInterface(s)
  PROVE  Good(CreateInterface(s), h)
<1> DEFINE c == [s EXCEPT !.created = TRUE]
<1>1. c \in StationType
  BY DEF Good, StationType
<1>2. CreateInterface(s) \in StationType
  BY <1>1, StateNames, ClearFields, TransitionFields, SubmitFields
     DEF Good, CreateInterface
<1> QED
  BY <1>2 DEF Good, CanCreateInterface, CreateInterface, Submit, Transition,
     ClearPending, Sound, Joined, StationType, Unjoined, AtPeer, NoInterface,
     KeyCommands

(* set_regulatory remembers Down or Idle, whichever it leaves. *)
LEMMA SetRegulatoryGood ==
  ASSUME NEW s, NEW h, Good(s, h), CanSetRegulatory(s)
  PROVE  Good(SetRegulatory(s), h)
<1>1. [s EXCEPT !.ret = s.state] \in StationType
  BY StateNames DEF Good, StationType
<1>2. SetRegulatory(s) \in StationType
  BY <1>1, StateNames, SubmitFields DEF Good, SetRegulatory
<1> QED
  BY <1>2, NoPeerAssumption DEF Good, CanSetRegulatory, SetRegulatory, Submit,
     Transition, Sound, Joined, StationType, Unjoined, AtPeer,
     NoInterface, KeyCommands

(* bring_up needs the interface. *)
LEMMA BringUpGood ==
  ASSUME NEW s, NEW h, Good(s, h), CanBringUp(s)
  PROVE  Good(BringUp(s), h)
<1>2. BringUp(s) \in StationType
  BY StateNames, SubmitFields DEF Good, BringUp
<1> QED
  BY <1>2, NoPeerAssumption DEF Good, CanBringUp, BringUp, Submit,
     Transition, Sound, Joined, StationType, Unjoined, AtPeer,
     NoInterface, KeyCommands

(* bring_down may leave a faulted or connected station. *)
LEMMA BringDownGood ==
  ASSUME NEW s, NEW h, Good(s, h), CanBringDown(s)
  PROVE  Good(BringDown(s), [h EXCEPT !.closing = TRUE])
<1>1. [s EXCEPT !.ret = "None"] \in StationType
  BY StateNames DEF Good, StationType
<1>2. BringDown(s) \in StationType
  BY <1>1, StateNames, SubmitFields DEF Good, BringDown
<1>3. [h EXCEPT !.closing = TRUE] \in HistoryType
  BY DEF Good, HistoryType, NoHistory
<1> QED
  BY <1>2, <1>3, NoPeerAssumption DEF Good, CanBringDown, BringDown, Submit,
     Transition, Sound, Joined, StationType, Unjoined, AtPeer,
     NoInterface, KeyCommands, HistoryType

(* start_scan *)
LEMMA StartScanGood ==
  ASSUME NEW s, NEW h, Good(s, h), CanStartScan(s)
  PROVE  Good(StartScan(s), h)
<1>2. StartScan(s) \in StationType
  BY StateNames, SubmitFields DEF Good, StartScan
<1> QED
  BY <1>2, NoPeerAssumption DEF Good, CanStartScan, StartScan, Submit,
     Transition, Sound, Joined, StationType, Unjoined, AtPeer,
     NoInterface, KeyCommands

(* request_scan_results *)
LEMMA RequestScanResultsGood ==
  ASSUME NEW s, NEW h, Good(s, h), CanRequestScanResults(s)
  PROVE  Good(RequestScanResults(s), h)
<1>2. RequestScanResults(s) \in StationType
  BY StateNames, SubmitFields DEF Good, RequestScanResults
<1> QED
  BY <1>2, NoPeerAssumption DEF Good, CanRequestScanResults, RequestScanResults, Submit,
     Transition, Sound, Joined, StationType, Unjoined, AtPeer,
     NoInterface, KeyCommands

(* authenticate chooses the peer and starts a new history. *)
LEMMA AuthenticateGood ==
  ASSUME NEW s, NEW h, NEW b \in Peers, Good(s, h), CanAuthenticate(s)
  PROVE  Good(Authenticate(s, b), NoHistory)
<1>1. [s EXCEPT !.peer = b] \in StationType
  BY StateNames DEF Good, StationType
<1>2. Authenticate(s, b) \in StationType
  BY <1>1, StateNames, SubmitFields DEF Good, Authenticate
<1>3. NoHistory \in HistoryType
  BY DEF Good, HistoryType, NoHistory
<1> QED
  BY <1>2, <1>3, NoPeerAssumption DEF Good, CanAuthenticate, NoHistory, Authenticate, Submit,
     Transition, Sound, Joined, StationType, Unjoined, AtPeer,
     NoInterface, KeyCommands, HistoryType

(* associate authorizes an open network at once, a secure one never. *)
LEMMA AssociateGood ==
  ASSUME NEW s, NEW h, NEW secure \in BOOLEAN, Good(s, h), CanAssociate(s)
  PROVE  Good(Associate(s, secure), NoHistory)
<1>1. [s EXCEPT !.secure = secure, !.authorized = ~secure] \in StationType
  BY StateNames DEF Good, StationType
<1>2. Associate(s, secure) \in StationType
  BY <1>1, StateNames, SubmitFields DEF Good, Associate
<1>3. NoHistory \in HistoryType
  BY DEF Good, HistoryType, NoHistory
<1> QED
  BY <1>2, <1>3, NoPeerAssumption DEF Good, CanAssociate, NoHistory, Associate, Submit,
     Transition, Sound, Joined, StationType, Unjoined, AtPeer,
     NoInterface, KeyCommands, HistoryType

(* key_command and set_key move to Securing, from Connected too. *)
LEMMA KeyCommandGood ==
  ASSUME NEW s, NEW h, NEW c \in KeyCommands, NEW p, Good(s, h), CanKeyCommand(s, p)
  PROVE  Good(KeyCommand(s, c), h)
<1>2. KeyCommand(s, c) \in StationType
  BY StateNames, SubmitFields DEF Good, KeyCommand
<1> QED
  BY <1>2, NoPeerAssumption DEF Good, CanKeyCommand, KeyCommand, Submit,
     Transition, Sound, Joined, StationType, Unjoined, AtPeer,
     NoInterface, KeyCommands

(* set_key *)
LEMMA SetKeyGood ==
  ASSUME NEW s, NEW h, Good(s, h), CanSetKey(s)
  PROVE  Good(SetKey(s), h)
<1>2. SetKey(s) \in StationType
  BY StateNames, SubmitFields DEF Good, SetKey
<1> QED
  BY <1>2, NoPeerAssumption DEF Good, CanSetKey, SetKey, Submit,
     Transition, Sound, Joined, StationType, Unjoined, AtPeer,
     NoInterface, KeyCommands

(* authorize *)
LEMMA AuthorizeGood ==
  ASSUME NEW s, NEW h, Good(s, h), CanAuthorize(s)
  PROVE  Good(Authorize(s), h)
<1>2. Authorize(s) \in StationType
  BY StateNames, SubmitFields DEF Good, Authorize
<1> QED
  BY <1>2, NoPeerAssumption DEF Good, CanAuthorize, Authorize, Submit,
     Transition, Sound, Joined, StationType, Unjoined, AtPeer,
     NoInterface, KeyCommands

(* set_power_save remembers the state it leaves. *)
LEMMA SetPowerSaveGood ==
  ASSUME NEW s, NEW h, NEW c \in PowerSaveCommands, Good(s, h), CanSetPowerSave(s)
  PROVE  Good(SetPowerSave(s, c), h)
<1>1. [s EXCEPT !.ret = s.state] \in StationType
  BY StateNames DEF Good, StationType
<1>2. SetPowerSave(s, c) \in StationType
  BY <1>1, StateNames, SubmitFields DEF Good, SetPowerSave
<1> QED
  BY <1>2, NoPeerAssumption DEF Good, CanSetPowerSave, PowerSaveCommands, SetPowerSave, Submit,
     Transition, Sound, Joined, StationType, Unjoined, AtPeer,
     NoInterface, KeyCommands

(* disconnect *)
LEMMA DisconnectGood ==
  ASSUME NEW s, NEW h, Good(s, h), CanDisconnect(s)
  PROVE  Good(Disconnect(s), [h EXCEPT !.closing = TRUE])
<1>1. [s EXCEPT !.ret = "None"] \in StationType
  BY StateNames DEF Good, StationType
<1>2. Disconnect(s) \in StationType
  BY <1>1, StateNames, SubmitFields DEF Good, Disconnect
<1>3. [h EXCEPT !.closing = TRUE] \in HistoryType
  BY DEF Good, HistoryType, NoHistory
<1> QED
  BY <1>2, <1>3, NoPeerAssumption DEF Good, CanDisconnect, Disconnect, Submit,
     Transition, Sound, Joined, StationType, Unjoined, AtPeer,
     NoInterface, KeyCommands, HistoryType

-----------------------------------------------------------------------------
(* Events that the station accepts keep Good *)

(* A fault keeps the connection of an interface that exists. *)
LEMMA FailGood ==
  ASSUME ~mission, NEW s, NEW h, Good(s, h), s.created
  PROVE  Good(Fail(s).st, h)
<1>1. Fail(s).st = Transition(ClearPending(s), "Fault")
  BY DEF Fail, Err
<1>2. Transition(ClearPending(s), "Fault") \in StationType
  BY StateNames, ClearFields, TransitionFields DEF Good
<1> QED
  BY <1>1, <1>2 DEF Good, ClearPending, Transition, Sound, Joined, StationType,
     Unjoined, AtPeer, NoInterface, KeyCommands

(* refresh_connected opens the port only of an authorized station. *)
LEMMA RefreshConnectedGood ==
  ASSUME NEW s, NEW h, Good(s, h)
  PROVE  Good(RefreshConnected(s), h)
<1>1. RefreshConnected(s) \in StationType
  BY StateNames, TransitionFields DEF Good, RefreshConnected
<1> QED
  BY <1>1 DEF Good, RefreshConnected, Transition, Sound, Joined, StationType,
     Unjoined, AtPeer, NoInterface, KeyCommands

(* The status of a command: keys, authorization and power save move on. *)
LEMMA HandleCommandStatusGood ==
  ASSUME NEW s, NEW h, Good(s, h), NEW c \in Commands, NEW good \in BOOLEAN,
         HandleCommandStatus(s, c, good).ok
  PROVE  Good(HandleCommandStatus(s, c, good).st,
              IF c = "SetStation" /\ s.state = "Authorizing"
              THEN [h EXCEPT !.grant = s.peer] ELSE h)
<1> DEFINE p == [s EXCEPT !.pending = "None"]
           g == IF c = "SetStation" /\ s.state = "Authorizing"
                THEN [h EXCEPT !.grant = s.peer] ELSE h
<1>1. p \in StationType
  BY DEF Good, StationType
<1>2. g \in HistoryType
  BY DEF Good, StationType, HistoryType
<1>3. CASE HandleCommandStatus(s, c, good).st = s /\ c = "NewInterface"
  BY <1>3 DEF Good
<1>4. CASE /\ HandleCommandStatus(s, c, good).st = ApplySuccessfulCommand(p, c)
           /\ s.pending = c
  <2>1. CASE c \in KeyCommands
    <3>1. ApplySuccessfulCommand(p, c) = Transition(p, "Securing")
      BY <2>1 DEF ApplySuccessfulCommand, KeyCommands, PowerSaveCommands
    <3>2. Transition(p, "Securing") \in StationType
      BY <1>1, StateNames, TransitionFields
    <3>3. g = h
      BY <2>1 DEF KeyCommands
    <3>4. Sound(Transition(p, "Securing"), h) /\ (~early => Joined(Transition(p, "Securing"), h))
      BY <1>4, <2>1 DEF Good, Transition, Sound, Joined, StationType, Unjoined,
         AtPeer, NoInterface, KeyCommands
    <3>5. Transition(p, "Securing").state = "Securing"
      BY <1>1, StateNames, TransitionFields
    <3> QED
      BY <1>4, <3>1, <3>2, <3>3, <3>4, <3>5 DEF Good
  <2>2. CASE c = "SetStation" /\ s.state = "Authorizing"
    <3> DEFINE a == [p EXCEPT !.authorized = TRUE]
               w == Transition(a, "AwaitingCarrier")
    <3>1. a \in StationType
      BY <1>1 DEF StationType
    <3>2. w \in StationType
      BY <3>1, StateNames, TransitionFields
    <3>3. ApplySuccessfulCommand(p, c) = RefreshConnected(w)
      BY <2>2, <1>1 DEF ApplySuccessfulCommand, KeyCommands,
         PowerSaveCommands, Good, StationType
    <3>4. Sound(w, g) /\ (~early => Joined(w, g))
      BY <1>2, <2>2, <3>1 DEF Good, Transition, Sound, Joined, StationType, HistoryType,
         Unjoined, AtPeer, NoInterface, KeyCommands
    <3> HIDE DEF p, a, g
    <3>5. w.state = "AwaitingCarrier"
      BY <3>1, StateNames, TransitionFields
    <3> HIDE DEF w
    <3>6. Good(w, g)
      BY <1>2, <3>2, <3>4, <3>5 DEF Good
    <3> USE DEF p, g
    <3> QED
      BY <1>4, <2>2, <3>3, <3>6, RefreshConnectedGood
         DEF Good
  <2>3. CASE c \in PowerSaveCommands /\ s.state = "PowerSavePending"
    <3> DEFINE n == [p EXCEPT !.ret = "None"]
    <3>1. n \in StationType
      BY <1>1 DEF StationType
    <3>2. s.ret \in {"Connected", "Idle"} /\ s.ret \in StationStates
      BY <2>3, StateNames DEF Good, Sound
    <3>3. ApplySuccessfulCommand(p, c) = Transition(n, s.ret)
      BY <2>3, <1>1, <3>2 DEF ApplySuccessfulCommand, KeyCommands,
         PowerSaveCommands, Good, StationType
    <3>4. Transition(n, s.ret) \in StationType
      BY <3>1, <3>2, TransitionFields
    <3>5. g = h
      BY <2>3 DEF PowerSaveCommands
    <3>6. Sound(Transition(n, s.ret), h) /\ (~early => Joined(Transition(n, s.ret), h))
      BY <1>4, <2>3, <3>2 DEF Good, Transition, Sound, Joined, StationType, Unjoined,
         AtPeer, NoInterface, KeyCommands, PowerSaveCommands
    <3> QED
      BY <1>4, <3>1, <3>2, <3>3, <3>4, <3>5, <3>6, TransitionFields DEF Good
  <2>4. CASE /\ c \notin KeyCommands
             /\ ~(c = "SetStation" /\ s.state = "Authorizing")
             /\ ~(c \in PowerSaveCommands /\ s.state = "PowerSavePending")
    <3>1. ApplySuccessfulCommand(p, c) = p
      BY <2>4, <1>1 DEF ApplySuccessfulCommand, Good, StationType
    <3> QED
      BY <1>1, <1>2, <1>4, <2>4, <3>1 DEF Good, Sound, Joined, StationType, Unjoined,
         AtPeer, NoInterface, KeyCommands
  <2> QED
    BY <2>1, <2>2, <2>3, <2>4
<1> QED
  BY <1>3, <1>4 DEF HandleCommandStatus, IsDefaultInterfaceStatus, Ok, Err, Fail

(* The interface comes up, or goes down with its connection. *)
LEMMA HandleInterfaceStateGood ==
  ASSUME NEW s, NEW h, Good(s, h), NEW good \in BOOLEAN,
         HandleInterfaceState(s, good).ok
  PROVE  Good(HandleInterfaceState(s, good).st, h)
<1> DEFINE p == [s EXCEPT !.pending = "None"]
<1>1. p \in StationType
  BY DEF Good, StationType
<1>2. CASE s.state = "InterfaceUpPending"
  <2>1. HandleInterfaceState(s, good).st = Transition(p, "Idle")
    BY <1>2 DEF HandleInterfaceState, Ok, Fail, Err
  <2>2. Transition(p, "Idle") \in StationType
    BY <1>1, StateNames, TransitionFields
  <2> QED
    BY <1>2, <2>1, <2>2 DEF Good, Transition, Sound, Joined, StationType, Unjoined,
       AtPeer, NoInterface, KeyCommands
<1>3. CASE s.state = "InterfaceDownPending"
  <2>1. HandleInterfaceState(s, good).st =
          Transition(ClearConnection(p), "Down")
    BY <1>3 DEF HandleInterfaceState, Ok, Fail, Err
  <2>2. Transition(ClearConnection(p), "Down") \in StationType
    BY <1>1, StateNames, ClearFields, TransitionFields
  <2> QED
    BY <1>3, <2>1, <2>2 DEF Good, Transition, ClearConnection, Sound, Joined,
       StationType, Unjoined, AtPeer, NoInterface, KeyCommands
<1> QED
  BY <1>2, <1>3 DEF HandleInterfaceState, Fail, Err

(* A regulatory change returns to the state set_regulatory left. *)
LEMMA HandleRegulatoryChangeGood ==
  ASSUME NEW s, NEW h, Good(s, h)
  PROVE  Good(HandleRegulatoryChange(s).st, h)
<1>1. CASE s.state = "RegulatoryPending"
  <2>1. s.ret \in {"Down", "Idle"} /\ s.ret \in StationStates
    BY <1>1, StateNames DEF Good, Sound
  <2>2. HandleRegulatoryChange(s).st = Transition(ClearPending(s), s.ret)
    BY <1>1, <2>1 DEF HandleRegulatoryChange, Ok
  <2>3. Transition(ClearPending(s), s.ret) \in StationType
    BY <2>1, ClearFields, TransitionFields DEF Good
  <2> QED
    BY <1>1, <2>1, <2>2, <2>3 DEF Good, Transition, ClearPending, Sound, Joined,
       StationType, Unjoined, AtPeer, NoInterface, KeyCommands
<1>2. CASE s.state # "RegulatoryPending"
  BY <1>2 DEF HandleRegulatoryChange, Ok
<1> QED
  BY <1>1, <1>2

(* The firmware reports the interface it was asked for. *)
LEMMA HandleInterfaceCreatedGood ==
  ASSUME NEW s, NEW h, Good(s, h), NEW good \in BOOLEAN,
         HandleInterfaceCreated(s, good).ok
  PROVE  Good(HandleInterfaceCreated(s, good).st, h)
<1> DEFINE p == [s EXCEPT !.created = TRUE, !.pending = "None"]
<1>1. p \in StationType
  BY DEF Good, StationType
<1>2. CASE s.state = "InterfaceCreatePending"
  <2>1. HandleInterfaceCreated(s, good).st = Transition(p, "Down")
    BY <1>2 DEF HandleInterfaceCreated, Ok, Fail, Err
  <2>2. Transition(p, "Down") \in StationType
    BY <1>1, StateNames, TransitionFields
  <2> QED
    BY <1>2, <2>1, <2>2 DEF Good, Transition, Sound, Joined, StationType, Unjoined,
       AtPeer, NoInterface, KeyCommands
<1>3. CASE s.state # "InterfaceCreatePending"
  BY <1>3 DEF HandleInterfaceCreated, Ok, Fail, Err
<1> QED
  BY <1>2, <1>3

(* Scan events *)
LEMMA HandleScanDoneGood ==
  ASSUME NEW s, NEW h, Good(s, h), NEW good \in BOOLEAN,
         HandleScanDone(s, good).ok
  PROVE  Good(HandleScanDone(s, good).st, h)
<1> DEFINE p == [s EXCEPT !.pending = "None"]
<1>1. p \in StationType
  BY DEF Good, StationType
<1>2. /\ HandleScanDone(s, good).st = Transition(p, "ScanComplete")
      /\ s.state = "Scanning"
  BY DEF HandleScanDone, Ok, Fail, Err
<1>3. Transition(p, "ScanComplete") \in StationType
  BY <1>1, StateNames, TransitionFields
<1> QED
  BY <1>2, <1>3 DEF Good, Transition, Sound, Joined, StationType, Unjoined,
     AtPeer, NoInterface, KeyCommands

(* The last scan result ends the scan, another one waits for more. *)
LEMMA HandleScanResultGood ==
  ASSUME NEW s, NEW h, Good(s, h), NEW last \in BOOLEAN,
         HandleScanResult(s, last).ok
  PROVE  Good(HandleScanResult(s, last).st, h)
<1> DEFINE p == [s EXCEPT !.pending = "None"]
<1>1. p \in StationType
  BY DEF Good, StationType
<1>2. s.state = "ReadingScanResults"
  BY DEF HandleScanResult, Fail, Err
<1>3. CASE last
  <2>1. HandleScanResult(s, last).st = Transition(p, "Idle")
    BY <1>2, <1>3 DEF HandleScanResult, Ok
  <2>2. Transition(p, "Idle") \in StationType
    BY <1>1, StateNames, TransitionFields
  <2> QED
    BY <1>2, <2>1, <2>2 DEF Good, Transition, Sound, Joined, StationType, Unjoined,
       AtPeer, NoInterface, KeyCommands
<1>4. CASE ~last
  <2>1. HandleScanResult(s, last).st = Transition(s, "ReadingScanResults")
    BY <1>2, <1>4 DEF HandleScanResult, Ok
  <2>2. Transition(s, "ReadingScanResults") \in StationType
    BY StateNames, TransitionFields DEF Good
  <2> QED
    BY <1>2, <2>1, <2>2 DEF Good, Transition, Sound, Joined, StationType, Unjoined,
       AtPeer, NoInterface, KeyCommands
<1> QED
  BY <1>3, <1>4

(* The peer accepts the authentication. *)
LEMMA HandleAuthenticationGood ==
  ASSUME NEW s, NEW h, Good(s, h), NEW e, HandleAuthentication(s, e).ok
  PROVE  Good(HandleAuthentication(s, e).st, h)
<1> DEFINE p == [s EXCEPT !.pending = "None"]
<1>1. p \in StationType
  BY DEF Good, StationType
<1>2. /\ HandleAuthentication(s, e).st = Transition(p, "Authenticated")
      /\ s.state = "Authenticating"
  BY DEF HandleAuthentication, Ok, Fail, Err
<1>3. Transition(p, "Authenticated") \in StationType
  BY <1>1, StateNames, TransitionFields
<1> QED
  BY <1>2, <1>3 DEF Good, Transition, Sound, Joined, StationType, Unjoined,
     AtPeer, NoInterface, KeyCommands

(* The peer accepts the association, which the history records. *)
LEMMA HandleAssociationGood ==
  ASSUME NEW s, NEW h, Good(s, h), NEW e, HandleAssociation(s, e).ok
  PROVE  Good(HandleAssociation(s, e).st, [h EXCEPT !.assoc = e.peer])
<1> DEFINE p == [s EXCEPT !.pending = "None"]
           x == IF s.secure THEN "Securing" ELSE "AwaitingCarrier"
           g == [h EXCEPT !.assoc = e.peer]
           w == Transition(p, x)
<1>1. p \in StationType
  BY DEF Good, StationType
<1>2. /\ HandleAssociation(s, e).st = RefreshConnected(w)
      /\ s.state = "Associating"
      /\ e.peer = s.peer
  BY DEF HandleAssociation, FromPeer, Ok, Fail, Err
<1>3. w \in StationType
  BY <1>1, StateNames, TransitionFields
<1>4. g \in HistoryType
  BY <1>2 DEF Good, StationType, HistoryType
<1>5. Sound(w, g) /\ (~early => Joined(w, g))
  BY <1>2, <1>4 DEF Good, Transition, Sound, Joined, StationType, HistoryType,
     Unjoined, AtPeer, NoInterface, KeyCommands
<1>6. w.state # "Fault"
  <2>1. x \in StationStates /\ x # "Fault"
    BY StateNames
  <2>2. w.state = x
    BY <1>1, <2>1, TransitionFields
  <2> QED
    BY <2>1, <2>2
<1> QED
  BY <1>2, <1>3, <1>4, <1>5, <1>6, RefreshConnectedGood DEF Good

(* The peer ends the connection. *)
LEMMA HandleDisconnectEventGood ==
  ASSUME NEW s, NEW h, Good(s, h), NEW e, HandleDisconnectEvent(s, e).ok
  PROVE  Good(HandleDisconnectEvent(s, e).st, h)
<1> DEFINE w == Transition(ClearPending(ClearConnection(s)), "Idle")
<1>1. CASE s.peer = NoPeer
  BY <1>1 DEF HandleDisconnectEvent, Ok
<1>2. CASE s.peer # NoPeer
  <2>1. HandleDisconnectEvent(s, e).st = w
    BY <1>2 DEF HandleDisconnectEvent, Ok, Fail, Err
  <2>2. w \in StationType
    BY StateNames, ClearFields, TransitionFields DEF Good
  <2> QED
    BY <1>2, <2>1, <2>2 DEF Good, Transition, ClearPending, ClearConnection,
       Sound, Joined, StationType, Unjoined, AtPeer, NoInterface, KeyCommands
<1> QED
  BY <1>1, <1>2

(* Carrier events *)
LEMMA HandleCarrierGood ==
  ASSUME NEW s, NEW h, Good(s, h)
  PROVE  /\ early \/ (s.peer # NoPeer /\ h.assoc # NoPeer) =>
              Good(HandleCarrierOn(s).st, h)
         /\ HandleCarrierOff(s).ok => Good(HandleCarrierOff(s).st, h)
<1>1. \A b \in BOOLEAN : [s EXCEPT !.carrier = b] \in StationType
  BY DEF Good, StationType
<1>2. \A b \in BOOLEAN : Sound([s EXCEPT !.carrier = b], h)
  BY DEF Good, Sound, StationType
<1>0. \A b \in BOOLEAN : [s EXCEPT !.carrier = b].state = s.state
  BY DEF Good, StationType
<1>3. ASSUME early \/ (s.peer # NoPeer /\ h.assoc # NoPeer)
      PROVE  Good(HandleCarrierOn(s).st, h)
  <2>1. ~early => Joined([s EXCEPT !.carrier = TRUE], h)
    BY <1>3 DEF Good, Joined, StationType
  <2> QED
    BY <1>0, <1>1, <1>2, <2>1, RefreshConnectedGood
       DEF Good, HandleCarrierOn, Ok
<1>4. ASSUME HandleCarrierOff(s).ok
      PROVE  Good(HandleCarrierOff(s).st, h)
  <2>1. ~early => Joined([s EXCEPT !.carrier = FALSE], h)
    BY DEF Good, Joined, StationType
  <2>2. HandleCarrierOff(s).st = [s EXCEPT !.carrier = FALSE]
    BY <1>4 DEF HandleCarrierOff, Ok, Fail, Err
  <2> QED
    BY <1>0, <1>1, <1>2, <2>1, <2>2 DEF Good
<1> QED
  BY <1>3, <1>4

(* Whatever event the station accepts, the history that Observed gives     *)
(* keeps Good.                                                             *)
LEMMA HandleEventGood ==
  ASSUME Good(st, hist), NEW e \in Events, HandleEvent(st, e).ok,
         e.kind = "CarrierOn" =>
           early \/ (st.peer # NoPeer /\ hist.assoc # NoPeer)
  PROVE  Good(HandleEvent(st, e).st, Observed(e))
<1>0. e.mine
  BY DEF HandleEvent, Fail, Err
<1>1. CASE e.kind = "CommandStatus"
  <2>1. e.command \in Commands /\ e.good \in BOOLEAN
    BY <1>1 DEF Events, PlainEvents, MlmeEvents
  <2>2. HandleEvent(st, e) = HandleCommandStatus(st, e.command, e.good)
    BY <1>0, <1>1 DEF HandleEvent
  <2>3. Observed(e) = IF e.command = "SetStation" /\ st.state = "Authorizing"
                      THEN [hist EXCEPT !.grant = st.peer] ELSE hist
    BY <1>1 DEF Observed
  <2> QED
    BY <2>1, <2>2, <2>3, HandleCommandStatusGood
<1>2. CASE e.kind = "Association"
  <2>1. HandleEvent(st, e) = HandleAssociation(st, e)
    BY <1>0, <1>2 DEF HandleEvent
  <2>2. Observed(e) = [hist EXCEPT !.assoc = e.peer]
    BY <1>2 DEF Observed
  <2> QED
    BY <2>1, <2>2, HandleAssociationGood
<1>3. CASE e.kind \notin {"CommandStatus", "Association"}
  <2>1. Observed(e) = hist
    BY <1>3 DEF Observed
  <2>2. CASE e.kind = "InterfaceState"
    <3>1. e.good \in BOOLEAN
      BY <2>2 DEF Events, PlainEvents, MlmeEvents
    <3> QED
      BY <1>0, <2>1, <2>2, <3>1, HandleInterfaceStateGood DEF HandleEvent
  <2>3. CASE e.kind = "RegulatoryChange"
    BY <1>0, <2>1, <2>3, HandleRegulatoryChangeGood DEF HandleEvent
  <2>4. CASE e.kind = "NewInterface"
    <3>1. e.good \in BOOLEAN
      BY <2>4 DEF Events, PlainEvents, MlmeEvents
    <3> QED
      BY <1>0, <2>1, <2>4, <3>1, HandleInterfaceCreatedGood DEF HandleEvent
  <2>5. CASE e.kind = "ScanDone"
    <3>1. e.good \in BOOLEAN
      BY <2>5 DEF Events, PlainEvents, MlmeEvents
    <3> QED
      BY <1>0, <2>1, <2>5, <3>1, HandleScanDoneGood DEF HandleEvent
  <2>6. CASE e.kind = "ScanResult"
    <3>1. e.last \in BOOLEAN
      BY <2>6 DEF Events, PlainEvents, MlmeEvents
    <3> QED
      BY <1>0, <2>1, <2>6, <3>1, HandleScanResultGood DEF HandleEvent
  <2>7. CASE e.kind = "Authentication"
    BY <1>0, <2>1, <2>7, HandleAuthenticationGood DEF HandleEvent
  <2>8. CASE e.kind = "Disconnect"
    BY <1>0, <2>1, <2>8, HandleDisconnectEventGood DEF HandleEvent
  <2>9. CASE e.kind = "CarrierOn"
    BY <1>0, <2>1, <2>9, HandleCarrierGood DEF HandleEvent
  <2>10. CASE e.kind = "CarrierOff"
    BY <1>0, <2>1, <2>10, HandleCarrierGood DEF HandleEvent
  <2>11. CASE e.kind = "Other"
    BY <1>0, <2>1, <2>11 DEF HandleEvent, Ok
  <2> QED
    BY <1>3, <2>2, <2>3, <2>4, <2>5, <2>6, <2>7, <2>8, <2>9, <2>10, <2>11
       DEF Events, PlainEvents, MlmeEvents
<1> QED
  BY <1>1, <1>2, <1>3

-----------------------------------------------------------------------------
(* The actions of Driver *)

(* The mode never changes, so the next station may be judged by it. *)
LEMMA GoodNext ==
  ASSUME UNCHANGED mode, Good(st', hist')
  PROVE  Good(st, hist)'
  BY DEF Good, mode

(* A station without a peer needs no history. *)
LEMMA BecomeGood ==
  ASSUME NEW s, NEW h, Good(s, h), Become(s, h)
  PROVE  /\ UNCHANGED mode
         /\ Good(st, hist)'
         /\ st'.peer = NoPeer => hist' = NoHistory
<1>0. UNCHANGED mode
  BY DEF Become
<1>1. CASE s.peer = NoPeer
  <2>1. st' = s /\ hist' = NoHistory
    BY <1>1 DEF Become
  <2>2. NoHistory \in HistoryType
    BY DEF HistoryType, NoHistory
  <2>3. Sound(s, NoHistory) /\ (~early => Joined(s, NoHistory))
    BY <1>1 DEF Good, Sound, Joined, StationType, AtPeer
  <2> QED
    BY <1>0, <2>1, <2>2, <2>3, GoodNext DEF Good
<1>2. CASE s.peer # NoPeer
  BY <1>0, <1>2, GoodNext DEF Become
<1> QED
  BY <1>0, <1>1, <1>2

(* Recovery starts from any station of the right type. *)
LEMMA BeginRecoveryGood ==
  ASSUME NEW s \in StationType
  PROVE  /\ Good(BeginRecovery(s), NoHistory)
         /\ Forgotten(BeginRecovery(s))
         /\ Good(RecoveryComplete(s), NoHistory)
<1> DEFINE c == [s EXCEPT !.created = FALSE]
<1>1. c \in StationType
  BY DEF StationType
<1>2. BeginRecovery(s) \in StationType /\ RecoveryComplete(s) \in StationType
  BY <1>1, StateNames, ClearFields, TransitionFields
     DEF BeginRecovery, RecoveryComplete
<1>3. NoHistory \in HistoryType
  BY DEF HistoryType, NoHistory
<1>4. /\ Sound(BeginRecovery(s), NoHistory)
      /\ Joined(BeginRecovery(s), NoHistory)
  BY <1>2 DEF BeginRecovery, Transition, ClearPending, ClearConnection, Sound, Joined,
     StationType, Unjoined, AtPeer, NoInterface, KeyCommands, NoHistory
<1>5. /\ Sound(RecoveryComplete(s), NoHistory)
      /\ Joined(RecoveryComplete(s), NoHistory)
  BY <1>2 DEF RecoveryComplete, Transition, ClearPending, ClearConnection,
     Sound, Joined, StationType, Unjoined, AtPeer, NoInterface, KeyCommands, NoHistory
<1>6. /\ BeginRecovery(s).state = "Recovering"
      /\ RecoveryComplete(s).state = "Down"
  BY DEF BeginRecovery, RecoveryComplete, Transition, ClearPending,
     ClearConnection, StationType
<1>7. TimeoutFor("Recovering") = 0
  BY DEF TimeoutFor, TimedStates
<1>8. Forgotten(BeginRecovery(s))
  BY <1>7 DEF BeginRecovery, Transition, ClearPending, ClearConnection,
     Forgotten, StationType
<1> QED
  BY <1>2, <1>3, <1>4, <1>5, <1>6, <1>8 DEF Good

(* A new deadline, or a nearer one, changes nothing else. *)
LEMMA DeadlineGood ==
  ASSUME NEW s, NEW h, Good(s, h), NEW r \in 0 .. Deadline
  PROVE  Good([s EXCEPT !.remaining = r], h)
<1>1. [s EXCEPT !.remaining = r] \in StationType
  BY DEF Good, StationType
<1> QED
  BY <1>1 DEF Good, Sound, Joined, StationType

-----------------------------------------------------------------------------
(* The inductive invariant: Good, and, under the wrapper, that a driver    *)
(* which is not ready has a station without a connection.                  *)
Lifecycle ==
  Forgets /\ (mission /\ drv = "Cold" => st.state = "Down")

IInv ==
  /\ mission \in BOOLEAN /\ early \in BOOLEAN
  /\ drv \in DriverStates
  /\ configured \in BOOLEAN
  /\ uncertain \in BOOLEAN
  /\ rearms \in 0 .. MaxRearms
  /\ Good(st, hist)
  /\ st.peer = NoPeer => hist = NoHistory
  /\ Lifecycle

(* The initial state satisfies it. *)
LEMMA InitIInv == Init => IInv
<1> SUFFICES ASSUME Init PROVE IInv
  OBVIOUS
<1>1. PICK vif0 \in BOOLEAN : st = NewStation(vif0)
  BY DEF Init
<1>2. 0 \in 0 .. Deadline
  BY DeadlineAssumption
<1>3. st \in StationType
  BY <1>1, <1>2, StateNames DEF NewStation, StationType
<1>4. hist \in HistoryType
  BY DEF Init, NoHistory, HistoryType
<1>5. Sound(st, hist) /\ Joined(st, hist)
  BY <1>1 DEF NewStation, Sound, Joined, Unjoined, AtPeer, NoInterface, KeyCommands
<1>6. st.state = "Down"
  BY <1>1 DEF NewStation
<1>7. rearms \in 0 .. MaxRearms
  BY DriverAssumption DEF Init
<1>8. /\ drv \in DriverStates /\ configured \in BOOLEAN
      /\ uncertain \in BOOLEAN /\ hist = NoHistory
  BY DEF Init, DriverStates
<1>9. Lifecycle
  BY <1>6 DEF Init, Lifecycle, Forgets
<1> QED
  BY <1>3, <1>4, <1>5, <1>6, <1>7, <1>8, <1>9 DEF IInv, Good, Init

(* The start of recovery establishes it. *)
LEMMA EnterRecoveryIInv ==
  ASSUME IInv, EnterRecovery, uncertain' \in BOOLEAN
  PROVE  IInv'
<1>0. UNCHANGED mode
  BY DEF EnterRecovery
<1>1. Good(st, hist)' /\ Forgotten(st')
  BY <1>0, BeginRecoveryGood, GoodNext DEF IInv, Good, EnterRecovery
<1>2. /\ drv' = "Recovering" /\ configured' = FALSE
      /\ rearms' \in 0 .. MaxRearms /\ hist' = NoHistory
  BY DEF EnterRecovery, IInv
<1>3. Lifecycle'
  BY <1>1, <1>2 DEF Lifecycle, Forgets
<1> QED
  BY <1>0, <1>1, <1>2, <1>3 DEF IInv, DriverStates, mode

(* A ready driver that stays ready may give its station any Good value. *)
LEMMA ReadyStep ==
  ASSUME IInv, NEW s, NEW h, Good(s, h), Become(s, h), drv = "Ready",
         UNCHANGED <<drv, configured, rearms>>, uncertain' \in BOOLEAN
  PROVE  IInv'
<1>1. /\ UNCHANGED mode /\ Good(st, hist)'
      /\ st'.peer = NoPeer => hist' = NoHistory
  BY BecomeGood
<1>2. /\ drv' \in DriverStates /\ configured' \in BOOLEAN
      /\ rearms' \in 0 .. MaxRearms
  BY DEF IInv
<1>3. Lifecycle'
  BY DEF Lifecycle, Forgets
<1> QED
  BY <1>1, <1>2, <1>3 DEF IInv, mode

(* The commands: each is ReadyStep with its own lemma. *)
LEMMA CommandIInv ==
  ASSUME IInv,
         \/ DoCreateInterface \/ DoSetRegulatory \/ DoBringUp \/ DoBringDown
         \/ DoStartScan \/ DoRequestScanResults \/ DoAuthenticate
         \/ DoAssociate \/ DoKeyCommand \/ DoSetKey \/ DoAuthorize
         \/ DoSetPowerSave \/ DoDisconnect
  PROVE  IInv'
<1>0. Good(st, hist) /\ uncertain \in BOOLEAN
  BY DEF IInv
<1>1. CASE DoCreateInterface
  BY <1>0, <1>1, CreateInterfaceGood, ReadyStep DEF DoCreateInterface
<1>2. CASE DoSetRegulatory
  BY <1>0, <1>2, SetRegulatoryGood, ReadyStep DEF DoSetRegulatory, Command
<1>3. CASE DoBringUp
  BY <1>0, <1>3, BringUpGood, ReadyStep DEF DoBringUp, Command
<1>4. CASE DoBringDown
  BY <1>0, <1>4, BringDownGood, ReadyStep DEF DoBringDown, Command
<1>5. CASE DoStartScan
  BY <1>0, <1>5, StartScanGood, ReadyStep DEF DoStartScan, Command
<1>6. CASE DoRequestScanResults
  BY <1>0, <1>6, RequestScanResultsGood, ReadyStep
     DEF DoRequestScanResults, Command
<1>7. CASE DoAuthenticate
  BY <1>0, <1>7, AuthenticateGood, ReadyStep DEF DoAuthenticate, Command
<1>8. CASE DoAssociate
  BY <1>0, <1>8, AssociateGood, ReadyStep DEF DoAssociate, Command
<1>9. CASE DoKeyCommand
  BY <1>0, <1>9, KeyCommandGood, ReadyStep DEF DoKeyCommand, Command
<1>10. CASE DoSetKey
  BY <1>0, <1>10, SetKeyGood, ReadyStep DEF DoSetKey, Command
<1>11. CASE DoAuthorize
  BY <1>0, <1>11, AuthorizeGood, ReadyStep DEF DoAuthorize, Command
<1>12. CASE DoSetPowerSave
  BY <1>0, <1>12, SetPowerSaveGood, ReadyStep DEF DoSetPowerSave, Command
<1>13. CASE DoDisconnect
  BY <1>0, <1>13, DisconnectGood, ReadyStep DEF DoDisconnect, Command
<1> QED
  BY <1>1, <1>2, <1>3, <1>4, <1>5, <1>6, <1>7, <1>8, <1>9, <1>10, <1>11,
     <1>12, <1>13

(* set_timeouts and advance_time change the deadline only, or recover. *)
LEMMA TimeIInv ==
  ASSUME IInv, DoSetTimeouts \/ DoAdvanceTime
  PROVE  IInv'
<1>0. /\ Good(st, hist) /\ st \in StationType /\ uncertain \in BOOLEAN
      /\ st.remaining \in 0 .. Deadline
  BY DEF IInv, Good, StationType
<1>1. CASE DoSetTimeouts
  <2>1. Become(SetTimeouts(st), hist) /\ UNCHANGED <<drv, configured, uncertain>>
    BY <1>1 DEF DoSetTimeouts
  <2>2. rearms' \in 0 .. MaxRearms
    BY <1>1, DriverAssumption DEF DoSetTimeouts, IInv
  <2>3. Good(SetTimeouts(st), hist)
    BY <1>0, TimeoutType, DeadlineGood DEF SetTimeouts
  <2>4. /\ UNCHANGED mode /\ Good(st, hist)'
        /\ st'.peer = NoPeer => hist' = NoHistory
    BY <2>1, <2>3, BecomeGood
  <2>5. /\ st' = SetTimeouts(st)
        /\ st'.state = st.state
    BY <1>0, <2>1 DEF Become, SetTimeouts, StationType
  <2>6. TimeoutFor("Recovering") = 0
    BY DEF TimeoutFor, TimedStates
  <2>7. Forgotten(st) => Forgotten(st')
    BY <1>0, <2>5, <2>6 DEF Forgotten, SetTimeouts, StationType
  <2>8. Lifecycle'
    BY <2>1, <2>4, <2>5, <2>7 DEF Lifecycle, Forgets, IInv, mode
  <2> QED
    BY <2>1, <2>2, <2>4, <2>8 DEF IInv, mode
<1>2. CASE DoAdvanceTime
  <2>1. PICK elapsed \in 1 .. Deadline :
          LET r == AdvanceTime(st, elapsed) IN
          \/ /\ r.ok
             /\ Become(r.st, hist)
             /\ UNCHANGED <<drv, configured, rearms>>
          \/ ~r.ok /\ EnterRecovery
    BY <1>2 DEF DoAdvanceTime
  <2>2. st.remaining > 0 /\ uncertain' = uncertain
    BY <1>2 DEF DoAdvanceTime
  <2>3. CASE ~AdvanceTime(st, elapsed).ok
    BY <1>0, <2>1, <2>2, <2>3, EnterRecoveryIInv
  <2>4. CASE AdvanceTime(st, elapsed).ok
    <3> DEFINE left == st.remaining - elapsed
               s == [st EXCEPT !.remaining = left]
    <3>1. elapsed < st.remaining
      BY <2>2, <2>4, <1>0 DEF AdvanceTime, Fail, Err
    <3>2. left \in 0 .. Deadline
      BY <1>0, <3>1, DeadlineAssumption
    <3>3. AdvanceTime(st, elapsed).st = s
      BY <1>0, <2>2, <3>1 DEF AdvanceTime, Ok
    <3>4. /\ Become(s, hist)
          /\ UNCHANGED <<drv, configured, rearms>>
      BY <2>1, <2>4, <3>3
    <3>5. /\ UNCHANGED mode /\ Good(st, hist)'
          /\ st'.peer = NoPeer => hist' = NoHistory
      BY <1>0, <3>2, <3>4, DeadlineGood, BecomeGood
    <3>6. st'.state = st.state
      BY <1>0, <3>4 DEF Become, StationType
    <3>7. ~Forgotten(st)
      BY <2>2, <1>0 DEF Forgotten
    <3>8. Lifecycle'
      BY <3>4, <3>5, <3>6, <3>7 DEF Lifecycle, Forgets, IInv, mode
    <3> QED
      BY <1>0, <2>2, <3>4, <3>5, <3>8 DEF IInv, mode
  <2> QED
    BY <2>3, <2>4
<1> QED
  BY <1>1, <1>2

(* Everything else: a failed command, the events and the recovery. *)
LEMMA EventIInv ==
  ASSUME IInv,
         \/ AssociateOther \/ CommandFailed
         \/ PollUncertain \/ InitDone \/ DeinitDone
         \/ \E e \in Events : StationEvent(e)
         \/ PollEventFault \/ DataFault \/ WatchdogSentinel
         \/ AcknowledgeWatchdog \/ Recover
  PROVE  IInv'
<1>0. Good(st, hist) /\ st \in StationType /\ uncertain \in BOOLEAN
  BY DEF IInv, Good
<1>1. CASE AssociateOther
  <2>1. CASE mission
    BY <1>0, <1>1, <2>1, EnterRecoveryIInv DEF AssociateOther
  <2>2. CASE ~mission
    <3>1. /\ Become(Fail(st).st, hist) /\ drv = "Ready"
          /\ UNCHANGED <<drv, configured, rearms>> /\ uncertain' = uncertain
      BY <1>1, <2>2 DEF AssociateOther
    <3>2. st.created
      BY <1>0, <1>1 DEF AssociateOther, CanAssociate, Good, Sound, Joined, NoInterface
    <3> QED
      BY <1>0, <2>2, <3>1, <3>2, FailGood, ReadyStep
  <2> QED
    BY <2>1, <2>2
<1>2. CASE CommandFailed
  <2>1. CASE mission
    BY <1>2, <2>1, EnterRecoveryIInv DEF CommandFailed
  <2>2. CASE ~mission
    <3>1. UNCHANGED <<mode, drv, st, configured, rearms, hist>>
          /\ uncertain' = TRUE
      BY <1>2, <2>2 DEF CommandFailed
    <3>2. Good(st, hist)'
      BY <1>0, <3>1, GoodNext
    <3> QED
      BY <3>1, <3>2 DEF IInv, Lifecycle, Forgets, mode
  <2> QED
    BY <2>1, <2>2
<1>3. CASE PollUncertain \/ DeinitDone \/ PollEventFault \/ DataFault
           \/ AcknowledgeWatchdog
  BY <1>0, <1>3, EnterRecoveryIInv
     DEF PollUncertain, DeinitDone, PollEventFault, DataFault,
         AcknowledgeWatchdog
<1>4. CASE InitDone
  <2>1. CASE drv # "WaitingForSystemInit"
    BY <1>0, <1>4, <2>1, EnterRecoveryIInv DEF InitDone
  <2>2. CASE drv = "WaitingForSystemInit"
    <3>1. /\ drv' = "Ready" /\ Become(RecoveryComplete(st), hist)
          /\ UNCHANGED mode
          /\ UNCHANGED <<configured, rearms, uncertain>>
      BY <1>4, <2>2 DEF InitDone, Become
    <3>2. RecoveryComplete(st).peer = NoPeer
      BY <1>0 DEF RecoveryComplete, Transition, ClearPending,
         ClearConnection, StationType
    <3>3. Good(st, hist)' /\ hist' = NoHistory
      BY <1>0, <3>1, <3>2, BeginRecoveryGood, GoodNext DEF Become
    <3>4. Lifecycle'
      BY <3>1 DEF Lifecycle, Forgets
    <3> QED
      BY <1>0, <3>1, <3>3, <3>4 DEF IInv, DriverStates, mode
  <2> QED
    BY <2>1, <2>2
<1>5. ASSUME NEW e \in Events, StationEvent(e)
      PROVE  IInv'
  <2>1. CASE HandleEvent(st, e).ok
    <3>1. /\ drv = "Ready" /\ Become(HandleEvent(st, e).st, Observed(e))
          /\ UNCHANGED <<drv, configured, rearms, uncertain>>
          /\ e.kind = "CarrierOn" => early \/ hist.assoc # NoPeer
      BY <1>5, <2>1 DEF StationEvent
    <3>2. hist.assoc # NoPeer => st.peer # NoPeer
      BY DEF IInv, NoHistory
    <3> QED
      BY <1>0, <2>1, <3>1, <3>2, HandleEventGood, ReadyStep
  <2>2. CASE ~HandleEvent(st, e).ok
    BY <1>0, <1>5, <2>2, EnterRecoveryIInv DEF StationEvent
  <2> QED
    BY <2>1, <2>2
<1>6. CASE WatchdogSentinel
  <2>1. CASE mission
    BY <1>0, <1>6, <2>1, EnterRecoveryIInv DEF WatchdogSentinel
  <2>2. CASE ~mission
    <3>1. /\ UNCHANGED <<mode, st, configured, rearms, hist, uncertain>>
          /\ drv' = "Fault"
      BY <1>6, <2>2 DEF WatchdogSentinel
    <3>2. Good(st, hist)'
      BY <1>0, <3>1, GoodNext
    <3> QED
      BY <2>2, <3>1, <3>2
         DEF IInv, Lifecycle, Forgets, DriverStates, mode
  <2> QED
    BY <2>1, <2>2
<1>7. CASE Recover
  <2>1. UNCHANGED mode /\ Good(st, hist)' /\ Forgotten(st')
    BY <1>0, <1>7, BeginRecoveryGood, GoodNext DEF Recover
  <2>2. /\ drv' \in {"WaitingForSystemInit", "Fault", "Recovering"}
        /\ configured' \in BOOLEAN /\ uncertain' \in BOOLEAN
        /\ rearms' = rearms /\ hist' = NoHistory
    BY <1>7 DEF Recover
  <2>3. Lifecycle'
    BY <2>1, <2>2 DEF Lifecycle, Forgets
  <2> QED
    BY <2>1, <2>2, <2>3 DEF IInv, DriverStates, mode
<1> QED
  BY <1>1, <1>2, <1>3, <1>4, <1>5, <1>6, <1>7

(* Every step of the specification keeps the invariant. *)
LEMMA NextIInv == IInv /\ [Next]_vars => IInv'
<1> SUFFICES ASSUME IInv, [Next]_vars PROVE IInv'
  OBVIOUS
<1>1. CASE Next
  BY <1>1, CommandIInv, TimeIInv, EventIInv DEF Next
<1>2. CASE UNCHANGED vars
  <2>1. UNCHANGED <<mode, drv, st, configured, uncertain, rearms, hist>>
    BY <1>2 DEF vars
  <2>2. Good(st, hist)'
    BY <2>1, GoodNext DEF IInv
  <2> QED
    BY <2>1, <2>2 DEF IInv, Lifecycle, Forgets, mode
<1> QED
  BY <1>1, <1>2

(* The inductive invariant holds in every reachable state. *)
THEOREM Invariance == Spec => []IInv
  BY InitIInv, NextIInv, PTL DEF Spec

-----------------------------------------------------------------------------
(* What follows from it *)

(* Every variable keeps its type, for every set of access points. *)
THEOREM TypeCorrect == Spec => []TypeOK
<1>1. IInv => TypeOK
  BY DEF IInv, Good, TypeOK
<1> QED
  BY <1>1, Invariance, PTL

(* The flags of the station agree with its state and its history in every  *)
(* order of commands, events, deadlines and recoveries.                    *)
THEOREM StationConsistent == Spec => []Consistent
<1>1. IInv => Consistent
  BY DEF IInv, Good, Consistent
<1> QED
  BY <1>1, Invariance, PTL

(* A secure port is open only for a peer that was associated and granted   *)
(* since the last associate.                                               *)
THEOREM SecurePort == Spec => []SecurePortNeedsGrant
<1>1. IInv => SecurePortNeedsGrant
  BY DEF IInv, Good, Sound, Joined, SecurePortNeedsGrant, ControlledPortOpen
<1> QED
  BY <1>1, Invariance, PTL

(* Under the wrapper recovery forgets the connection, nothing before       *)
(* InitDone brings any of it back, and no faulted station is left behind.  *)
THEOREM ConnectionForgotten == Spec => []RecoveryForgets
<1>1. IInv => RecoveryForgets
  BY DEF IInv, Lifecycle, Good, RecoveryForgets
<1> QED
  BY <1>1, Invariance, PTL

(* Under the wrapper only a ready driver has an open port. *)
THEOREM FailClosed == Spec => []PortOnlyWhenReady
<1>1. IInv => PortOnlyWhenReady
  <2> SUFFICES ASSUME IInv, mission, ControlledPortOpen(st)
               PROVE  drv = "Ready" /\ st.created /\ st.peer # NoPeer
    BY DEF PortOnlyWhenReady
  <2>1. st.state = "Connected" /\ st.created /\ st.peer # NoPeer
    BY DEF IInv, Good, Sound, Joined, ControlledPortOpen, NoInterface, AtPeer
  <2>2. drv # "Cold" /\ ~Forgotten(st)
    BY <2>1 DEF IInv, Lifecycle, Forgotten
  <2> QED
    BY <2>1, <2>2 DEF IInv, Lifecycle, Forgets
<1> QED
  BY <1>1, Invariance, PTL

(* With firmware that reports carrier only after association, any open     *)
(* port, of an open network too, belongs to a peer that accepted the       *)
(* association.                                                            *)
THEOREM PortAssociated == Spec => []PortNeedsAssociation
<1>1. IInv => PortNeedsAssociation
  BY DEF IInv, Good, Joined, PortNeedsAssociation, ControlledPortOpen
<1> QED
  BY <1>1, Invariance, PTL

-----------------------------------------------------------------------------
(* CarrierWatched: what a station s may become *)
Watched(s, t) ==
  t.state = "Connected" /\ ~t.carrier =>
    ~s.carrier /\ s.state \in {"Connected", "PowerSavePending"}

(* Only carrier_on, an accepted association and an accepted SetStation     *)
(* connect a station, all three through refresh_connected; the answer of a *)
(* power-save command brings a connected one back.                         *)
LEMMA HandleEventWatched ==
  ASSUME Good(st, hist), NEW e \in Events, HandleEvent(st, e).ok
  PROVE  Watched(st, HandleEvent(st, e).st)
<1> DEFINE p == [st EXCEPT !.pending = "None"]
<1>0. /\ e.mine /\ st \in StationType /\ p \in StationType
      /\ p.state = st.state /\ p.carrier = st.carrier /\ p.ret = st.ret
  <2>1. e.mine
    BY DEF HandleEvent, Fail, Err
  <2>2. st \in StationType
    BY DEF Good
  <2> QED
    BY <2>1, <2>2 DEF StationType
<1>1. ASSUME NEW s \in StationType, NEW x \in StationStates \ {"Connected"}
      PROVE  /\ Watched(st, Transition(s, x))
             /\ Watched(st, RefreshConnected(Transition(s, x)))
  <2> DEFINE t == Transition(s, x)
  <2>1. t \in StationType /\ t.state # "Connected"
    BY TransitionFields
  <2> HIDE DEF t
  <2>2. t.carrier => Transition(t, "Connected").carrier
    BY <2>1, StateNames, TransitionFields
  <2>3. Watched(st, t) /\ Watched(st, RefreshConnected(t))
    BY <2>1, <2>2 DEF Watched, RefreshConnected
  <2> QED
    BY <2>3 DEF t
<1>2. CASE e.kind = "CommandStatus"
  <2>1. HandleEvent(st, e) = HandleCommandStatus(st, e.command, e.good)
    BY <1>0, <1>2 DEF HandleEvent
  <2>2. HandleEvent(st, e).st \in {st, ApplySuccessfulCommand(p, e.command)}
    BY <2>1 DEF HandleCommandStatus, Ok, Fail, Err
  <2>3. CASE e.command \in KeyCommands
    <3>1. ApplySuccessfulCommand(p, e.command) = Transition(p, "Securing")
      BY <2>3 DEF ApplySuccessfulCommand, KeyCommands, PowerSaveCommands
    <3> QED
      BY <1>0, <1>1, <2>2, <3>1, StateNames DEF Watched
  <2>4. CASE e.command = "SetStation" /\ st.state = "Authorizing"
    <3>1. [p EXCEPT !.authorized = TRUE] \in StationType
      BY <1>0 DEF StationType
    <3>2. ApplySuccessfulCommand(p, e.command) =
            RefreshConnected(Transition([p EXCEPT !.authorized = TRUE],
                                        "AwaitingCarrier"))
      BY <1>0, <2>4
         DEF ApplySuccessfulCommand, KeyCommands, PowerSaveCommands
    <3> QED
      BY <1>1, <2>2, <3>1, <3>2, StateNames DEF Watched
  <2>5. CASE e.command \in PowerSaveCommands /\ st.state = "PowerSavePending"
    <3> DEFINE n == [p EXCEPT !.ret = "None"]
    <3>1. n \in StationType /\ n.carrier = st.carrier
      BY <1>0 DEF StationType
    <3>2. st.ret \in {"Connected", "Idle"}
      BY <2>5 DEF Good, Sound
    <3>3. ApplySuccessfulCommand(p, e.command) = Transition(n, st.ret)
      BY <1>0, <2>5, <3>2
         DEF ApplySuccessfulCommand, KeyCommands, PowerSaveCommands
    <3>4. Transition(n, st.ret).carrier = st.carrier
      <4>1. st.ret \in StationStates
        BY <3>2, StateNames
      <4> HIDE DEF n
      <4> QED
        BY <3>1, <4>1, TransitionFields
    <3>5. Watched(st, Transition(n, st.ret)) /\ Watched(st, st)
      BY <2>5, <3>4 DEF Watched
    <3> QED
      BY <2>2, <3>3, <3>5
  <2>6. CASE /\ e.command \notin KeyCommands
             /\ ~(e.command = "SetStation" /\ st.state = "Authorizing")
             /\ ~(e.command \in PowerSaveCommands
                    /\ st.state = "PowerSavePending")
    <3>1. ApplySuccessfulCommand(p, e.command) = p
      BY <1>0, <2>6 DEF ApplySuccessfulCommand
    <3> QED
      BY <1>0, <2>2, <3>1 DEF Watched
  <2> QED
    BY <2>3, <2>4, <2>5, <2>6
<1>3. CASE e.kind = "Association"
  <2> DEFINE x == IF st.secure THEN "Securing" ELSE "AwaitingCarrier"
  <2>1. HandleEvent(st, e).st = RefreshConnected(Transition(p, x))
    BY <1>0, <1>3 DEF HandleEvent, HandleAssociation, Ok, Fail, Err
  <2>2. x \in StationStates /\ x # "Connected"
    BY StateNames
  <2> HIDE DEF x
  <2> QED
    BY <1>0, <1>1, <2>1, <2>2
<1>4. CASE e.kind = "CarrierOn"
  <2> DEFINE c == [st EXCEPT !.carrier = TRUE]
  <2>1. c \in StationType /\ c.carrier
    BY <1>0 DEF StationType
  <2>2. HandleEvent(st, e).st = RefreshConnected(c)
    BY <1>0, <1>4 DEF HandleEvent, HandleCarrierOn, Ok
  <2> HIDE DEF c
  <2>3. Transition(c, "Connected").carrier
    BY <2>1, StateNames, TransitionFields
  <2> QED
    BY <2>1, <2>2, <2>3 DEF Watched, RefreshConnected
<1>5. CASE e.kind = "CarrierOff"
  BY <1>0, <1>5
     DEF HandleEvent, HandleCarrierOff, Ok, Fail, Err, Watched, StationType
<1>6. CASE e.kind \in {"InterfaceState", "NewInterface", "ScanDone",
                       "ScanResult", "Authentication", "Disconnect"}
  <2>1. [st EXCEPT !.created = TRUE, !.pending = "None"] \in StationType
        /\ ClearConnection(p) \in StationType
        /\ ClearPending(ClearConnection(st)) \in StationType
    BY <1>0, ClearFields DEF StationType
  <2>2. \/ HandleEvent(st, e).st = st
        \/ \E s \in {p, ClearConnection(p),
                     [st EXCEPT !.created = TRUE, !.pending = "None"],
                     ClearPending(ClearConnection(st)), st},
              x \in {"Idle", "Down", "ScanComplete", "ReadingScanResults",
                     "Authenticated"} :
             HandleEvent(st, e).st = Transition(s, x)
    <3>1. CASE e.kind = "InterfaceState"
      BY <1>0, <3>1 DEF HandleEvent, HandleInterfaceState, Ok, Fail, Err
    <3>2. CASE e.kind = "NewInterface"
      BY <1>0, <3>2 DEF HandleEvent, HandleInterfaceCreated, Ok, Fail, Err
    <3>3. CASE e.kind = "ScanDone"
      BY <1>0, <3>3 DEF HandleEvent, HandleScanDone, Ok, Fail, Err
    <3>4. CASE e.kind = "ScanResult"
      BY <1>0, <3>4 DEF HandleEvent, HandleScanResult, Ok, Fail, Err
    <3>5. CASE e.kind = "Authentication"
      BY <1>0, <3>5 DEF HandleEvent, HandleAuthentication, Ok, Fail, Err
    <3>6. CASE e.kind = "Disconnect"
      BY <1>0, <3>6 DEF HandleEvent, HandleDisconnectEvent, Ok, Fail, Err
    <3> QED
      BY <1>6, <3>1, <3>2, <3>3, <3>4, <3>5, <3>6
  <2>3. Watched(st, st)
    BY DEF Watched
  <2> QED
    BY <1>0, <1>1, <2>1, <2>2, <2>3, StateNames
<1>7. CASE e.kind = "RegulatoryChange"
  <2>1. ClearPending(st) \in StationType
    BY <1>0, ClearFields
  <2>2. st.state = "RegulatoryPending" => st.ret \in {"Down", "Idle"}
    BY DEF Good, Sound
  <2>3. HandleEvent(st, e).st = st
        \/ \E x \in {"Down", "Idle"} :
             HandleEvent(st, e).st = Transition(ClearPending(st), x)
    BY <1>0, <1>7, <2>2 DEF HandleEvent, HandleRegulatoryChange, Ok
  <2> QED
    BY <1>1, <2>1, <2>3, StateNames DEF Watched
<1>8. CASE e.kind = "Other"
  BY <1>0, <1>8 DEF HandleEvent, Ok, Watched
<1> QED
  BY <1>2, <1>3, <1>4, <1>5, <1>6, <1>7, <1>8
     DEF Events, PlainEvents, MlmeEvents

(* Every step of the driver watches the carrier. *)
LEMMA NextWatched == IInv /\ [Next]_vars => Watched(st, st')
<1> SUFFICES ASSUME IInv, [Next]_vars PROVE Watched(st, st')
  OBVIOUS
<1>0. Good(st, hist) /\ st \in StationType /\ st.remaining \in 0 .. Deadline
  BY DEF IInv, Good, StationType
<1>1. st' = st => Watched(st, st')
  BY DEF Watched
<1>2. ASSUME NEW s \in StationType, NEW x \in StationStates \ {"Connected"},
             st' = Transition(s, x)
      PROVE  Watched(st, st')
  BY <1>2, TransitionFields DEF Watched
<1>3. ASSUME NEW s \in StationType, NEW x \in StationStates \ {"Connected"},
             NEW c \in Commands, st' = Submit(s, c, x)
      PROVE  Watched(st, st')
  BY <1>3, SubmitFields DEF Watched
<1>4. ASSUME st' = BeginRecovery(st)
      PROVE  Watched(st, st')
  BY <1>0, <1>4, BeginRecoveryGood DEF Watched, Forgotten
<1>5. ASSUME EnterRecovery
      PROVE  Watched(st, st')
  BY <1>4, <1>5 DEF EnterRecovery
<1>6. CASE DoCreateInterface
  <2> DEFINE c == [st EXCEPT !.created = TRUE]
  <2>1. c \in StationType
    BY <1>0 DEF StationType
  <2>2. \/ st' = Transition(ClearPending(c), "Down")
        \/ st' = Submit(st, "NewInterface", "InterfaceCreatePending")
    BY <1>6 DEF DoCreateInterface, Become, CreateInterface
  <2> HIDE DEF c
  <2> QED
    BY <1>0, <1>2, <1>3, <2>1, <2>2, ClearFields, StateNames
<1>7. CASE \/ DoSetRegulatory \/ DoBringUp \/ DoBringDown \/ DoStartScan
           \/ DoRequestScanResults \/ DoSetPowerSave \/ DoDisconnect
  <2>1. [st EXCEPT !.ret = st.state] \in StationType
        /\ [st EXCEPT !.ret = "None"] \in StationType
    BY <1>0 DEF StationType
  <2> QED
    BY <1>0, <1>3, <1>7, <2>1, StateNames
       DEF DoSetRegulatory, DoBringUp, DoBringDown, DoStartScan,
           DoRequestScanResults, DoSetPowerSave, DoDisconnect, Command,
           Become, SetRegulatory, BringUp, BringDown, StartScan,
           RequestScanResults, SetPowerSave, Disconnect
<1>8. CASE DoAuthenticate \/ DoAssociate \/ DoKeyCommand \/ DoSetKey
           \/ DoAuthorize
  <2>1. /\ \A b \in Peers : [st EXCEPT !.peer = b] \in StationType
        /\ \A b \in BOOLEAN :
             [st EXCEPT !.secure = b, !.authorized = ~b] \in StationType
    BY <1>0 DEF StationType
  <2> QED
    BY <1>0, <1>3, <1>8, <2>1, StateNames
       DEF DoAuthenticate, DoAssociate, DoKeyCommand, DoSetKey, DoAuthorize,
           Command, Become, Authenticate, Associate, KeyCommand, SetKey,
           Authorize
<1>9. CASE AssociateOther
  BY <1>0, <1>2, <1>5, <1>9, ClearFields, StateNames
     DEF AssociateOther, Become, Fail, Err
<1>10. CASE CommandFailed \/ WatchdogSentinel
  BY <1>1, <1>5, <1>10 DEF CommandFailed, WatchdogSentinel
<1>11. CASE DoSetTimeouts
  BY <1>0, <1>11 DEF DoSetTimeouts, Become, SetTimeouts, Watched, StationType
<1>12. CASE DoAdvanceTime
  <2>1. PICK elapsed \in 1 .. Deadline :
          LET r == AdvanceTime(st, elapsed) IN
          (r.ok /\ st' = r.st) \/ EnterRecovery
    BY <1>12 DEF DoAdvanceTime, Become
  <2>2. AdvanceTime(st, elapsed).ok =>
          /\ AdvanceTime(st, elapsed).st.state = st.state
          /\ AdvanceTime(st, elapsed).st.carrier = st.carrier
    BY <1>0 DEF AdvanceTime, Ok, Fail, Err, StationType
  <2> QED
    BY <1>5, <2>1, <2>2 DEF Watched
<1>13. CASE \/ PollUncertain \/ DeinitDone \/ PollEventFault \/ DataFault
            \/ AcknowledgeWatchdog
  BY <1>5, <1>13
     DEF PollUncertain, DeinitDone, PollEventFault, DataFault,
         AcknowledgeWatchdog
<1>14. CASE InitDone
  <2> DEFINE c == [st EXCEPT !.created = FALSE]
  <2>1. c \in StationType
    BY <1>0 DEF StationType
  <2>2. EnterRecovery
        \/ st' = Transition(ClearPending(ClearConnection(c)), "Down")
    BY <1>14 DEF InitDone, Become, RecoveryComplete
  <2> HIDE DEF c
  <2>3. ClearPending(ClearConnection(c)) \in StationType
    BY <2>1, ClearFields
  <2> QED
    BY <1>2, <1>5, <2>2, <2>3, StateNames
<1>15. ASSUME NEW e \in Events, StationEvent(e)
       PROVE  Watched(st, st')
  BY <1>0, <1>5, <1>15, HandleEventWatched DEF StationEvent, Become
<1>16. CASE Recover
  BY <1>4, <1>16 DEF Recover
<1>17. CASE UNCHANGED vars
  BY <1>1, <1>17 DEF vars
<1> QED
  BY <1>6, <1>7, <1>8, <1>9, <1>10, <1>11, <1>12, <1>13, <1>14, <1>15, <1>16,
     <1>17 DEF Next

(* A station becomes Connected without a carrier only when a power-save    *)
(* command returns to a connection that lost it meanwhile.                 *)
THEOREM CarrierIsWatched == Spec => CarrierWatched
<1>1. IInv /\ [Next]_vars =>
        [st'.state = "Connected" /\ ~st'.carrier =>
           ~st.carrier /\ st.state \in {"Connected", "PowerSavePending"}]_vars
  BY NextWatched DEF Watched
<1> QED
  BY <1>1, Invariance, PTL DEF Spec, CarrierWatched

-----------------------------------------------------------------------------
(* Deadlines: what WaitingEnds needs beside the fairness of the timer      *)

(* A deadline runs in exactly the states that wait for the firmware. *)
Ticking(s) == s.state \in TimedStates <=> s.remaining > 0

(* The waits that one command or one event begins and that nothing extends *)
SingleWaits == TimedStates \ {"Securing", "ReadingScanResults"}

(* A station that stays in such a wait does not gain time. *)
Nearer(s, t) ==
  s.state \in SingleWaits /\ t.state = s.state => t.remaining <= s.remaining

(* Every transition sets the deadline of the state it enters. *)
LEMMA TransitionTicks ==
  ASSUME NEW s \in StationType, NEW x \in StationStates
  PROVE  /\ Ticking(Transition(s, x))
         /\ x \notin SingleWaits \/ x # st.state => Nearer(st, Transition(s, x))
<1>1. Transition(s, x).state = x /\ Transition(s, x).remaining = TimeoutFor(x)
  BY DEF Transition, StationType
<1>2. x \in TimedStates <=> TimeoutFor(x) > 0
  BY DeadlineAssumption DEF TimeoutFor
<1> HIDE DEF Transition
<1> QED
  BY <1>1, <1>2 DEF Ticking, Nearer

(* A command enters the state that waits for its answer. *)
LEMMA SubmitTicks ==
  ASSUME NEW s \in StationType, NEW x \in StationStates, NEW c \in Commands,
         x \notin SingleWaits \/ x # st.state
  PROVE  Ticking(Submit(s, c, x)) /\ Nearer(st, Submit(s, c, x))
<1>1. [s EXCEPT !.pending = c] \in StationType
  BY DEF StationType
<1> QED
  BY <1>1, TransitionTicks DEF Submit

(* refresh_connected only enters Connected, which has no deadline. *)
LEMMA RefreshTicks ==
  ASSUME NEW s \in StationType, Ticking(s), Nearer(st, s)
  PROVE  Ticking(RefreshConnected(s)) /\ Nearer(st, RefreshConnected(s))
<1>1. "Connected" \notin SingleWaits
  BY DEF SingleWaits, TimedStates
<1> QED
  BY <1>1, StateNames, TransitionTicks DEF RefreshConnected

(* A field other than the state and the deadline does not matter. *)
LEMMA SameTicks ==
  ASSUME NEW s, s.state = st.state, s.remaining = st.remaining,
         st \in StationType, Ticking(st)
  PROVE  Ticking(s) /\ Nearer(st, s)
<1>1. st.remaining \in Nat
  BY DEF StationType
<1> QED
  BY <1>1 DEF Ticking, Nearer

(* No event of the firmware extends a wait, and none enters a waiting      *)
(* state without its deadline.                                             *)
LEMMA HandleEventTicks ==
  ASSUME Good(st, hist), Ticking(st), NEW e \in Events, HandleEvent(st, e).ok
  PROVE  /\ Ticking(HandleEvent(st, e).st)
         /\ Nearer(st, HandleEvent(st, e).st)
<1> DEFINE p == [st EXCEPT !.pending = "None"]
<1> DEFINE Fine(t) == Ticking(t) /\ Nearer(st, t)
<1>0. /\ e.mine /\ st \in StationType /\ p \in StationType
      /\ p.state = st.state /\ p.ret = st.ret /\ p.remaining = st.remaining
  <2>1. e.mine
    BY DEF HandleEvent, Fail, Err
  <2>2. st \in StationType
    BY DEF Good
  <2> QED
    BY <2>1, <2>2 DEF StationType
<1>1. Fine(st) /\ Fine(p)
  BY <1>0, SameTicks
<1>2. ASSUME NEW s \in StationType,
             NEW x \in {"Idle", "Down", "Connected", "Securing",
                        "ReadingScanResults"}
      PROVE  Fine(Transition(s, x))
  <2>1. x \in StationStates /\ x \notin SingleWaits
    BY StateNames DEF SingleWaits, TimedStates
  <2> QED
    BY <2>1, TransitionTicks
<1>3. ASSUME NEW s \in StationType, NEW x \in StationStates, x # st.state
      PROVE  Fine(Transition(s, x)) /\ Fine(RefreshConnected(Transition(s, x)))
  BY <1>3, TransitionTicks, TransitionFields, RefreshTicks
<1> HIDE DEF Fine
<1>4. CASE e.kind = "CommandStatus"
  <2>1. HandleEvent(st, e) = HandleCommandStatus(st, e.command, e.good)
    BY <1>0, <1>4 DEF HandleEvent
  <2>2. HandleEvent(st, e).st \in {st, ApplySuccessfulCommand(p, e.command)}
    BY <2>1 DEF HandleCommandStatus, Ok, Fail, Err
  <2>3. CASE e.command \in KeyCommands
    <3>1. ApplySuccessfulCommand(p, e.command) = Transition(p, "Securing")
      BY <2>3 DEF ApplySuccessfulCommand, KeyCommands, PowerSaveCommands
    <3> QED
      BY <1>0, <1>1, <1>2, <2>2, <3>1 DEF Fine
  <2>4. CASE e.command = "SetStation" /\ st.state = "Authorizing"
    <3>1. [p EXCEPT !.authorized = TRUE] \in StationType
      BY <1>0 DEF StationType
    <3>2. ApplySuccessfulCommand(p, e.command) =
            RefreshConnected(Transition([p EXCEPT !.authorized = TRUE],
                                        "AwaitingCarrier"))
      BY <1>0, <2>4
         DEF ApplySuccessfulCommand, KeyCommands, PowerSaveCommands
    <3>3. Fine(ApplySuccessfulCommand(p, e.command))
      BY <1>3, <2>4, <3>1, <3>2, StateNames
    <3> QED
      BY <1>1, <2>2, <3>3 DEF Fine
  <2>5. CASE e.command \in PowerSaveCommands /\ st.state = "PowerSavePending"
    <3> DEFINE n == [p EXCEPT !.ret = "None"]
    <3>1. n \in StationType
      BY <1>0 DEF StationType
    <3>2. st.ret \in {"Connected", "Idle"}
      BY <2>5 DEF Good, Sound
    <3>3. ApplySuccessfulCommand(p, e.command) = Transition(n, st.ret)
      BY <1>0, <2>5, <3>2
         DEF ApplySuccessfulCommand, KeyCommands, PowerSaveCommands
    <3> HIDE DEF n
    <3>4. Fine(Transition(n, st.ret))
      BY <1>2, <3>1, <3>2
    <3> QED
      BY <1>1, <2>2, <3>3, <3>4 DEF Fine
  <2>6. CASE /\ e.command \notin KeyCommands
             /\ ~(e.command = "SetStation" /\ st.state = "Authorizing")
             /\ ~(e.command \in PowerSaveCommands
                    /\ st.state = "PowerSavePending")
    <3>1. ApplySuccessfulCommand(p, e.command) = p
      BY <1>0, <2>6 DEF ApplySuccessfulCommand
    <3> QED
      BY <1>1, <2>2, <3>1 DEF Fine
  <2> QED
    BY <2>3, <2>4, <2>5, <2>6
<1>5. CASE e.kind = "Association"
  <2> DEFINE x == IF st.secure THEN "Securing" ELSE "AwaitingCarrier"
  <2>1. HandleEvent(st, e).st = RefreshConnected(Transition(p, x))
        /\ st.state = "Associating"
    BY <1>0, <1>5 DEF HandleEvent, HandleAssociation, Ok, Fail, Err
  <2>2. x \in StationStates /\ x # "Associating"
    BY StateNames
  <2> HIDE DEF x
  <2> QED
    BY <1>0, <1>3, <2>1, <2>2 DEF Fine
<1>6. CASE e.kind = "CarrierOn"
  <2> DEFINE c == [st EXCEPT !.carrier = TRUE]
  <2>1. c \in StationType /\ c.state = st.state /\ c.remaining = st.remaining
    BY <1>0 DEF StationType
  <2>2. HandleEvent(st, e).st = RefreshConnected(c)
    BY <1>0, <1>6 DEF HandleEvent, HandleCarrierOn, Ok
  <2> HIDE DEF c
  <2> QED
    BY <1>0, <2>1, <2>2, SameTicks, RefreshTicks
<1>7. CASE e.kind = "CarrierOff"
  <2> DEFINE c == [st EXCEPT !.carrier = FALSE]
  <2>1. c.state = st.state /\ c.remaining = st.remaining
    BY <1>0 DEF StationType
  <2>2. HandleEvent(st, e).st = c
    BY <1>0, <1>7 DEF HandleEvent, HandleCarrierOff, Ok, Fail, Err
  <2> HIDE DEF c
  <2> QED
    BY <1>0, <2>1, <2>2, SameTicks
<1>8. CASE e.kind \in {"ScanDone", "Authentication"}
  <2>1. \/ /\ st.state = "Scanning"
           /\ HandleEvent(st, e).st = Transition(p, "ScanComplete")
        \/ /\ st.state = "Authenticating"
           /\ HandleEvent(st, e).st = Transition(p, "Authenticated")
    <3>1. CASE e.kind = "ScanDone"
      BY <1>0, <3>1 DEF HandleEvent, HandleScanDone, Ok, Fail, Err
    <3>2. CASE e.kind = "Authentication"
      BY <1>0, <3>2 DEF HandleEvent, HandleAuthentication, Ok, Fail, Err
    <3> QED
      BY <1>8, <3>1, <3>2
  <2> QED
    BY <1>0, <1>3, <2>1, StateNames DEF Fine
<1>9. CASE e.kind \in {"InterfaceState", "NewInterface", "ScanResult",
                       "Disconnect"}
  <2>1. [st EXCEPT !.created = TRUE, !.pending = "None"] \in StationType
        /\ ClearConnection(p) \in StationType
        /\ ClearPending(ClearConnection(st)) \in StationType
    BY <1>0, ClearFields DEF StationType
  <2>2. \/ HandleEvent(st, e).st = st
        \/ \E s \in {p, ClearConnection(p),
                     [st EXCEPT !.created = TRUE, !.pending = "None"],
                     ClearPending(ClearConnection(st)), st},
              x \in {"Idle", "Down", "ReadingScanResults"} :
             HandleEvent(st, e).st = Transition(s, x)
    <3>1. CASE e.kind = "InterfaceState"
      BY <1>0, <3>1 DEF HandleEvent, HandleInterfaceState, Ok, Fail, Err
    <3>2. CASE e.kind = "NewInterface"
      BY <1>0, <3>2 DEF HandleEvent, HandleInterfaceCreated, Ok, Fail, Err
    <3>3. CASE e.kind = "ScanResult"
      BY <1>0, <3>3 DEF HandleEvent, HandleScanResult, Ok, Fail, Err
    <3>4. CASE e.kind = "Disconnect"
      BY <1>0, <3>4 DEF HandleEvent, HandleDisconnectEvent, Ok, Fail, Err
    <3> QED
      BY <1>9, <3>1, <3>2, <3>3, <3>4
  <2> QED
    BY <1>0, <1>1, <1>2, <2>1, <2>2 DEF Fine
<1>10. CASE e.kind = "RegulatoryChange"
  <2>1. ClearPending(st) \in StationType
    BY <1>0, ClearFields
  <2>2. st.state = "RegulatoryPending" => st.ret \in {"Down", "Idle"}
    BY DEF Good, Sound
  <2>3. HandleEvent(st, e).st = st
        \/ \E x \in {"Down", "Idle"} :
             HandleEvent(st, e).st = Transition(ClearPending(st), x)
    BY <1>0, <1>10, <2>2 DEF HandleEvent, HandleRegulatoryChange, Ok
  <2> QED
    BY <1>1, <1>2, <2>1, <2>3 DEF Fine
<1>11. CASE e.kind = "Other"
  BY <1>0, <1>1, <1>11 DEF HandleEvent, Ok, Fine
<1> QED
  BY <1>4, <1>5, <1>6, <1>7, <1>8, <1>9, <1>10, <1>11
     DEF Events, PlainEvents, MlmeEvents

(* What one step of the driver does to the deadline *)
DeadlineNears ==
  /\ rearms' = rearms => Nearer(st, st')
  /\ DoAdvanceTime /\ st'.state = st.state => st'.remaining < st.remaining

(* Every step of the driver gives a waiting state its deadline, and only   *)
(* set_station_timeouts extends it.                                        *)
LEMMA NextTicks ==
  IInv /\ Ticking(st) /\ [Next]_vars =>
    Ticking(st') /\ (rearms' = rearms => Nearer(st, st'))
<1> SUFFICES ASSUME IInv, Ticking(st), [Next]_vars
             PROVE  Ticking(st') /\ (rearms' = rearms => Nearer(st, st'))
  OBVIOUS
<1> DEFINE Fine == Ticking(st') /\ (rearms' = rearms => Nearer(st, st'))
<1>0. /\ Good(st, hist) /\ st \in StationType /\ rearms \in Nat
      /\ st.remaining \in 0 .. Deadline
  BY DEF IInv, Good, StationType
<1>1. st' = st => Fine
  BY <1>0, SameTicks
<1>2. ASSUME NEW s \in StationType,
             NEW x \in {"Idle", "Down", "Recovering", "Fault"},
             st' = Transition(s, x)
      PROVE  Fine
  <2>1. x \in StationStates /\ x \notin SingleWaits
    BY StateNames DEF SingleWaits, TimedStates
  <2> QED
    BY <1>2, <2>1, TransitionTicks
<1>3. ASSUME NEW s \in StationType, NEW x \in StationStates,
             NEW c \in Commands, x = "Securing" \/ x # st.state,
             st' = Submit(s, c, x)
      PROVE  Fine
  <2>1. x \notin SingleWaits \/ x # st.state
    BY <1>3 DEF SingleWaits
  <2> QED
    BY <1>3, <2>1, SubmitTicks
<1>4. ASSUME st' = BeginRecovery(st)
      PROVE  Fine
  <2> DEFINE c == [st EXCEPT !.created = FALSE]
  <2>1. c \in StationType
    BY <1>0 DEF StationType
  <2>2. st' = Transition(ClearPending(ClearConnection(c)), "Recovering")
    BY <1>4 DEF BeginRecovery
  <2> HIDE DEF c
  <2> QED
    BY <1>2, <2>1, <2>2, ClearFields
<1>5. ASSUME EnterRecovery
      PROVE  Fine
  BY <1>4, <1>5 DEF EnterRecovery
<1> SUFFICES Fine
  OBVIOUS
<1> HIDE DEF Fine
<1>6. CASE DoCreateInterface
  <2> DEFINE c == [st EXCEPT !.created = TRUE]
  <2>1. c \in StationType
    BY <1>0 DEF StationType
  <2>2. /\ st.state = "Down"
        /\ \/ st' = Transition(ClearPending(c), "Down")
           \/ st' = Submit(st, "NewInterface", "InterfaceCreatePending")
    BY <1>6 DEF DoCreateInterface, Become, CreateInterface, CanCreateInterface
  <2> HIDE DEF c
  <2> QED
    BY <1>0, <1>2, <1>3, <2>1, <2>2, ClearFields, StateNames
<1>7. CASE \/ DoSetRegulatory \/ DoBringUp \/ DoBringDown \/ DoStartScan
           \/ DoRequestScanResults \/ DoSetPowerSave \/ DoDisconnect
  <2>1. [st EXCEPT !.ret = st.state] \in StationType
        /\ [st EXCEPT !.ret = "None"] \in StationType
    BY <1>0 DEF StationType
  <2>2. CASE DoSetRegulatory
    <3>1. /\ st.state \in {"Down", "Idle"}
          /\ st' = Submit([st EXCEPT !.ret = st.state], "RequestSetRegulatory",
                          "RegulatoryPending")
      BY <2>2 DEF DoSetRegulatory, Command, Become, SetRegulatory, CanSetRegulatory
    <3> QED
      BY <1>0, <1>3, <2>1, <3>1, StateNames
  <2>3. CASE DoBringUp
    <3>1. /\ st.state = "Down"
          /\ st' = Submit(st, "SetInterfaceFlags",
                          "InterfaceUpPending")
      BY <2>3 DEF DoBringUp, Command, Become, BringUp, CanBringUp
    <3> QED
      BY <1>0, <1>3, <2>1, <3>1, StateNames
  <2>4. CASE DoBringDown
    <3>1. /\ st.state \in {"Idle", "Connected", "Fault"}
          /\ st' = Submit([st EXCEPT !.ret = "None"], "SetInterfaceFlags",
                          "InterfaceDownPending")
      BY <2>4 DEF DoBringDown, Command, Become, BringDown, CanBringDown
    <3> QED
      BY <1>0, <1>3, <2>1, <3>1, StateNames
  <2>5. CASE DoStartScan
    <3>1. /\ st.state = "Idle"
          /\ st' = Submit(st, "TriggerScan",
                          "Scanning")
      BY <2>5 DEF DoStartScan, Command, Become, StartScan, CanStartScan
    <3> QED
      BY <1>0, <1>3, <2>1, <3>1, StateNames
  <2>6. CASE DoRequestScanResults
    <3>1. /\ st.state = "ScanComplete"
          /\ st' = Submit(st, "GetScanResults",
                          "ReadingScanResults")
      BY <2>6 DEF DoRequestScanResults, Command, Become, RequestScanResults, CanRequestScanResults
    <3> QED
      BY <1>0, <1>3, <2>1, <3>1, StateNames
  <2>7. CASE DoSetPowerSave
    <3>1. /\ st.state \in {"Idle", "Connected"}
          /\ \E c \in PowerSaveCommands :
               st' = Submit([st EXCEPT !.ret = st.state], c,
                            "PowerSavePending")
      BY <2>7 DEF DoSetPowerSave, Command, Become, SetPowerSave, CanSetPowerSave
    <3> QED
      BY <1>0, <1>3, <2>1, <3>1, StateNames
  <2>8. CASE DoDisconnect
    <3>1. /\ st.state # "Disconnecting"
          /\ st' = Submit([st EXCEPT !.ret = "None"], "Deauthenticate",
                          "Disconnecting")
      BY <2>8 DEF DoDisconnect, Command, Become, Disconnect, CanDisconnect
    <3> QED
      BY <1>0, <1>3, <2>1, <3>1, StateNames
  <2> QED
    BY <1>7, <2>2, <2>3, <2>4, <2>5, <2>6, <2>7, <2>8
<1>8. CASE DoAuthenticate \/ DoAssociate \/ DoKeyCommand \/ DoSetKey
           \/ DoAuthorize
  <2>1. /\ \A b \in Peers : [st EXCEPT !.peer = b] \in StationType
        /\ \A b \in BOOLEAN :
             [st EXCEPT !.secure = b, !.authorized = ~b] \in StationType
    BY <1>0 DEF StationType
  <2>2. CASE DoAuthenticate
    <3>1. /\ st.state = "Idle"
          /\ \E b \in Peers :
               st' = Submit([st EXCEPT !.peer = b], "Authenticate",
                            "Authenticating")
      BY <2>2
         DEF DoAuthenticate, Command, Become, Authenticate, CanAuthenticate
    <3> QED
      BY <1>3, <2>1, <3>1, StateNames
  <2>3. CASE DoAssociate
    <3>1. /\ st.state = "Authenticated"
          /\ \E b \in BOOLEAN :
               st' = Submit([st EXCEPT !.secure = b, !.authorized = ~b],
                            "Associate", "Associating")
      BY <2>3 DEF DoAssociate, Command, Become, Associate, CanAssociate
    <3> QED
      BY <1>3, <2>1, <3>1, StateNames
  <2>4. CASE DoKeyCommand \/ DoSetKey
    <3>1. \E c \in Commands : st' = Submit(st, c, "Securing")
      BY <2>4, StateNames
         DEF DoKeyCommand, DoSetKey, Command, Become, KeyCommand, SetKey
    <3> QED
      BY <1>0, <1>3, <3>1, StateNames
  <2>5. CASE DoAuthorize
    <3>1. /\ st.state = "Securing"
          /\ st' = Submit(st, "SetStation", "Authorizing")
      BY <2>5 DEF DoAuthorize, Command, Become, Authorize, CanAuthorize
    <3> QED
      BY <1>0, <1>3, <3>1, StateNames
  <2> QED
    BY <1>8, <2>2, <2>3, <2>4, <2>5
<1>9. CASE AssociateOther
  BY <1>0, <1>2, <1>5, <1>9, ClearFields
     DEF AssociateOther, Become, Fail, Err
<1>10. CASE CommandFailed \/ WatchdogSentinel
  BY <1>1, <1>5, <1>10 DEF CommandFailed, WatchdogSentinel
<1>11. CASE DoSetTimeouts
  <2>1. st'.state = st.state /\ st'.remaining = TimeoutFor(st.state)
    BY <1>0, <1>11 DEF DoSetTimeouts, Become, SetTimeouts, StationType
  <2>2. rearms' # rearms
    BY <1>0, <1>11 DEF DoSetTimeouts
  <2>3. Ticking(st')
    BY <2>1, DeadlineAssumption DEF Ticking, TimeoutFor
  <2> QED
    BY <2>2, <2>3 DEF Fine
<1>12. CASE DoAdvanceTime
  <2>1. PICK elapsed \in 1 .. Deadline :
          LET r == AdvanceTime(st, elapsed) IN
          (r.ok /\ st' = r.st) \/ EnterRecovery
    BY <1>12 DEF DoAdvanceTime, Become
  <2>2. CASE AdvanceTime(st, elapsed).ok /\ st' = AdvanceTime(st, elapsed).st
    <3>1. st.remaining > 0
      BY <1>12 DEF DoAdvanceTime
    <3>2. /\ st'.state = st.state
          /\ st'.remaining = st.remaining - elapsed
          /\ elapsed < st.remaining
      BY <1>0, <2>2, <3>1 DEF AdvanceTime, Ok, Fail, Err, StationType
    <3>3. Ticking(st') /\ Nearer(st, st')
      BY <1>0, <3>1, <3>2, DeadlineAssumption DEF Ticking, Nearer
    <3> QED
      BY <3>3 DEF Fine
  <2> QED
    BY <1>5, <2>1, <2>2
<1>13. CASE \/ PollUncertain \/ DeinitDone \/ PollEventFault \/ DataFault
            \/ AcknowledgeWatchdog
  BY <1>5, <1>13
     DEF PollUncertain, DeinitDone, PollEventFault, DataFault,
         AcknowledgeWatchdog
<1>14. CASE InitDone
  <2> DEFINE c == [st EXCEPT !.created = FALSE]
  <2>1. c \in StationType
    BY <1>0 DEF StationType
  <2>2. EnterRecovery
        \/ st' = Transition(ClearPending(ClearConnection(c)), "Down")
    BY <1>14 DEF InitDone, Become, RecoveryComplete
  <2> HIDE DEF c
  <2>3. ClearPending(ClearConnection(c)) \in StationType
    BY <2>1, ClearFields
  <2> QED
    BY <1>2, <1>5, <2>2, <2>3
<1>15. ASSUME NEW e \in Events, StationEvent(e)
       PROVE  Fine
  <2>1. \/ HandleEvent(st, e).ok /\ st' = HandleEvent(st, e).st
        \/ EnterRecovery
    BY <1>15 DEF StationEvent, Become
  <2>2. CASE HandleEvent(st, e).ok /\ st' = HandleEvent(st, e).st
    BY <1>0, <2>2, HandleEventTicks DEF Fine
  <2> QED
    BY <1>5, <2>1, <2>2
<1>16. CASE Recover
  BY <1>4, <1>16 DEF Recover
<1>17. CASE UNCHANGED vars
  BY <1>1, <1>17 DEF vars
<1> QED
  BY <1>6, <1>7, <1>8, <1>9, <1>10, <1>11, <1>12, <1>13, <1>14, <1>15, <1>16,
     <1>17 DEF Next

(* The timer brings a deadline nearer or ends the wait. *)
LEMMA TimeNears ==
  IInv /\ Ticking(st) /\ DoAdvanceTime /\ st'.state = st.state =>
    st'.remaining < st.remaining
<1> SUFFICES ASSUME IInv, Ticking(st), DoAdvanceTime, st'.state = st.state
             PROVE  st'.remaining < st.remaining
  OBVIOUS
<1>1. /\ st \in StationType /\ st.remaining \in 0 .. Deadline
      /\ st.remaining > 0 /\ Deadline \in Nat
  BY DeadlineAssumption DEF IInv, Good, StationType, DoAdvanceTime
<1>2. PICK elapsed \in 1 .. Deadline :
        LET r == AdvanceTime(st, elapsed) IN
        (r.ok /\ st' = r.st) \/ EnterRecovery
  BY DEF DoAdvanceTime, Become
<1>3. ~EnterRecovery
  <2>1. st.state # "Recovering"
    BY <1>1 DEF Ticking, TimedStates
  <2>2. BeginRecovery(st).state = "Recovering"
    BY <1>1, BeginRecoveryGood DEF Forgotten
  <2> QED
    BY <2>1, <2>2 DEF EnterRecovery
<1>4. st'.remaining = st.remaining - elapsed
  BY <1>1, <1>2, <1>3 DEF AdvanceTime, Ok, Fail, Err, StationType
<1> QED
  BY <1>1, <1>2, <1>4

(* A state that waits for the firmware always has a deadline that still    *)
(* runs, and no other state has one: the timer path of advance_time cannot *)
(* find a waiting station it would leave alone.                            *)
THEOREM WaitingHasDeadline == Spec => []Ticking(st)
<1>1. Init => Ticking(st)
  BY DEF Init, NewStation, Ticking, TimedStates
<1>2. IInv /\ Ticking(st) /\ [Next]_vars => Ticking(st)'
  BY NextTicks
<1> QED
  BY <1>1, <1>2, Invariance, PTL DEF Spec

(* No command, event or failure gives a wait more time: until the caller   *)
(* sets new timeouts a station that stays in a single wait only loses      *)
(* time, and every call of advance_time takes some or ends the wait.  With *)
(* WaitingHasDeadline this is the decreasing measure behind WaitingEnds.   *)
THEOREM DeadlinesOnlyNear == Spec => [][DeadlineNears]_vars
<1>1. IInv /\ Ticking(st) /\ [Next]_vars => [DeadlineNears]_vars
  BY NextTicks, TimeNears DEF DeadlineNears
<1> QED
  BY <1>1, Invariance, WaitingHasDeadline, PTL DEF Spec

-----------------------------------------------------------------------------
(* A connection the caller ends: ClosingPortStaysClosed fails, and late    *)
(* carrier is the only way it fails.                                       *)

(* The firmware reports carrier of this interface after disconnect or      *)
(* bring_down was sent and before its answer.                              *)
CarrierWhileClosing ==
  /\ hist.closing
  /\ \E e \in Events : e.kind = "CarrierOn" /\ e.mine /\ StationEvent(e)

(* The driver with firmware that reports no carrier then *)
NoLateCarrierSpec == Init /\ [][Next /\ ~CarrierWhileClosing]_vars

(* A connection that is being ended waits for the firmware to say so. *)
ClosingStates == {"Disconnecting", "InterfaceDownPending"}
Closing == hist.closing => st.state \in ClosingStates

(* Every other event leaves such a station waiting or without a peer: the  *)
(* pending command is neither a key command, nor SetStation of Authorizing,*)
(* nor a power-save command of PowerSavePending, and the frames that would *)
(* move another state fail here.                                           *)
LEMMA HandleEventCloses ==
  ASSUME Good(st, hist), st.state \in ClosingStates,
         NEW e \in Events, e.kind # "CarrierOn", HandleEvent(st, e).ok
  PROVE  \/ HandleEvent(st, e).st.state = st.state
         \/ HandleEvent(st, e).st.peer = NoPeer
<1> DEFINE p == [st EXCEPT !.pending = "None"]
<1>0. /\ st \in StationType /\ p \in StationType
      /\ p.state = st.state /\ p.pending = "None"
  BY DEF Good, StationType
<1>1. e.mine
  BY DEF HandleEvent, Fail, Err
<1>2. CASE e.kind = "CommandStatus"
  <2>1. HandleEvent(st, e) = HandleCommandStatus(st, e.command, e.good)
    BY <1>1, <1>2 DEF HandleEvent
  <2>2. \/ HandleEvent(st, e).st = st
        \/ /\ HandleEvent(st, e).st = ApplySuccessfulCommand(p, e.command)
           /\ st.pending = e.command
    BY <2>1 DEF HandleCommandStatus, Ok, Fail, Err
  <2>3. st.pending \notin KeyCommands
    BY DEF Good, Sound, ClosingStates
  <2>4. st.pending = e.command => ApplySuccessfulCommand(p, e.command) = p
    BY <1>0, <2>3 DEF ApplySuccessfulCommand, ClosingStates
  <2> QED
    BY <1>0, <2>2, <2>4
<1>3. CASE e.kind \in {"InterfaceState", "Disconnect"}
  <2>1. /\ ClearConnection(p) \in StationType
        /\ ClearPending(ClearConnection(st)) \in StationType
        /\ ClearConnection(p).peer = NoPeer
        /\ ClearPending(ClearConnection(st)).peer = NoPeer
    BY <1>0, ClearFields DEF StationType, ClearConnection, ClearPending
  <2>2. \/ HandleEvent(st, e).st = st
        \/ HandleEvent(st, e).st = Transition(ClearConnection(p), "Down")
        \/ HandleEvent(st, e).st =
             Transition(ClearPending(ClearConnection(st)), "Idle")
    <3>1. CASE e.kind = "InterfaceState"
      BY <1>1, <3>1
         DEF HandleEvent, HandleInterfaceState, Ok, Fail, Err, ClosingStates
    <3>2. CASE e.kind = "Disconnect"
      BY <1>1, <3>2 DEF HandleEvent, HandleDisconnectEvent, Ok, Fail, Err
    <3> QED
      BY <1>3, <3>1, <3>2
  <2>3. ASSUME NEW s \in StationType, NEW x \in {"Down", "Idle"}
        PROVE  Transition(s, x).peer = s.peer
    <3>1. x \in StationStates
      BY StateNames
    <3> QED
      BY <3>1, TransitionFields
  <2> QED
    BY <2>1, <2>2, <2>3
<1>4. CASE e.kind = "CarrierOff"
  BY <1>0, <1>1, <1>4
     DEF HandleEvent, HandleCarrierOff, Ok, Fail, Err, StationType
<1>5. CASE e.kind \in {"RegulatoryChange", "Other"}
  BY <1>1, <1>5
     DEF HandleEvent, HandleRegulatoryChange, Ok, ClosingStates
<1>6. CASE e.kind \in {"NewInterface", "ScanDone", "ScanResult",
                       "Authentication", "Association"}
  <2>1. CASE e.kind = "NewInterface"
    BY <1>1, <2>1
       DEF HandleEvent, HandleInterfaceCreated, Ok, Fail, Err, ClosingStates
  <2>2. CASE e.kind = "ScanDone"
    BY <1>1, <2>2
       DEF HandleEvent, HandleScanDone, Ok, Fail, Err, ClosingStates
  <2>3. CASE e.kind = "ScanResult"
    BY <1>1, <2>3
       DEF HandleEvent, HandleScanResult, Ok, Fail, Err, ClosingStates
  <2>4. CASE e.kind = "Authentication"
    BY <1>1, <2>4
       DEF HandleEvent, HandleAuthentication, Ok, Fail, Err, ClosingStates
  <2>5. CASE e.kind = "Association"
    BY <1>1, <2>5
       DEF HandleEvent, HandleAssociation, Ok, Fail, Err, ClosingStates
  <2> QED
    BY <1>6, <2>1, <2>2, <2>3, <2>4, <2>5
<1> QED
  BY <1>2, <1>3, <1>4, <1>5, <1>6 DEF Events, PlainEvents, MlmeEvents

(* No step but late carrier takes a connection out of its closing states   *)
(* with its peer.                                                          *)
LEMMA NextCloses ==
  IInv /\ Closing /\ [Next /\ ~CarrierWhileClosing]_vars => Closing'
<1> SUFFICES ASSUME IInv, Closing, [Next /\ ~CarrierWhileClosing]_vars,
                    hist'.closing
             PROVE  st'.state \in ClosingStates
  BY DEF Closing
<1>0. Good(st, hist) /\ st \in StationType /\ hist \in HistoryType
  BY DEF IInv, Good
<1>1. ~NoHistory.closing
  BY DEF NoHistory
<1>2. ASSUME NEW s, NEW h, Become(s, h)
      PROVE  st' = s /\ h.closing /\ s.peer # NoPeer
  BY <1>1, <1>2 DEF Become
<1>3. ~EnterRecovery /\ ~Recover
  BY <1>1 DEF EnterRecovery, Recover
<1>4. hist.closing => st.state \in ClosingStates
  BY DEF Closing
<1>5. CASE \/ DoCreateInterface \/ DoSetRegulatory \/ DoBringUp
           \/ DoStartScan \/ DoRequestScanResults \/ DoKeyCommand \/ DoSetKey
           \/ DoAuthorize \/ DoSetPowerSave
  <2>1. hist.closing
    BY <1>2, <1>5
       DEF DoCreateInterface, DoSetRegulatory, DoBringUp, DoStartScan,
           DoRequestScanResults, DoKeyCommand, DoSetKey, DoAuthorize,
           DoSetPowerSave, Command
  <2> QED
    BY <1>4, <1>5, <2>1
       DEF DoCreateInterface, DoSetRegulatory, DoBringUp, DoStartScan,
           DoRequestScanResults, DoKeyCommand, DoSetKey, DoAuthorize,
           DoSetPowerSave, Command, CanCreateInterface, CanSetRegulatory,
           CanBringUp, CanStartScan, CanRequestScanResults, CanKeyCommand,
           CanSetKey, CanAuthorize, CanSetPowerSave, ClosingStates
<1>6. CASE DoAuthenticate \/ DoAssociate
  BY <1>1, <1>2, <1>6 DEF DoAuthenticate, DoAssociate, Command
<1>7. CASE DoBringDown \/ DoDisconnect
  <2>1. [st EXCEPT !.ret = "None"] \in StationType
    BY <1>0 DEF StationType
  <2>2. \/ st' = Submit([st EXCEPT !.ret = "None"], "SetInterfaceFlags",
                        "InterfaceDownPending")
        \/ st' = Submit([st EXCEPT !.ret = "None"], "Deauthenticate",
                        "Disconnecting")
    BY <1>2, <1>7 DEF DoBringDown, DoDisconnect, Command, BringDown,
                      Disconnect
  <2>3. ASSUME NEW s \in StationType, NEW x \in ClosingStates,
               NEW c \in {"SetInterfaceFlags", "Deauthenticate"}
        PROVE  Submit(s, c, x).state = x
    <3>1. x \in StationStates /\ c \in Commands
      BY StateNames DEF ClosingStates
    <3> QED
      BY <3>1, SubmitFields
  <2> QED
    BY <2>1, <2>2, <2>3 DEF ClosingStates
<1>8. CASE AssociateOther
  BY <1>2, <1>3, <1>4, <1>8 DEF AssociateOther, CanAssociate, ClosingStates
<1>9. CASE CommandFailed \/ WatchdogSentinel
  BY <1>3, <1>4, <1>9 DEF CommandFailed, WatchdogSentinel
<1>10. CASE DoSetTimeouts
  <2>1. Become(SetTimeouts(st), hist)
    BY <1>10 DEF DoSetTimeouts
  <2>2. SetTimeouts(st).state = st.state
    BY <1>0 DEF SetTimeouts, StationType
  <2> QED
    BY <1>2, <1>4, <2>1, <2>2
<1>11. CASE DoAdvanceTime
  <2>1. PICK elapsed \in 1 .. Deadline :
          LET r == AdvanceTime(st, elapsed) IN r.ok /\ Become(r.st, hist)
    BY <1>3, <1>11 DEF DoAdvanceTime
  <2>2. AdvanceTime(st, elapsed).st.state = st.state
    BY <1>0, <2>1 DEF AdvanceTime, Ok, Fail, Err, StationType
  <2> QED
    BY <1>2, <1>4, <2>1, <2>2
<1>12. CASE \/ PollUncertain \/ DeinitDone \/ PollEventFault \/ DataFault
            \/ AcknowledgeWatchdog \/ Recover
  BY <1>3, <1>12
     DEF PollUncertain, DeinitDone, PollEventFault, DataFault,
         AcknowledgeWatchdog
<1>13. CASE InitDone
  <2>1. Become(RecoveryComplete(st), hist)
    BY <1>3, <1>13 DEF InitDone
  <2>2. RecoveryComplete(st).peer = NoPeer
    <3> DEFINE c == [st EXCEPT !.created = FALSE]
    <3>1. c \in StationType
      BY <1>0 DEF StationType
    <3>2. RecoveryComplete(st) =
            Transition(ClearPending(ClearConnection(c)), "Down")
      BY DEF RecoveryComplete
    <3> HIDE DEF c
    <3>3. ClearPending(ClearConnection(c)) \in StationType
          /\ ClearPending(ClearConnection(c)).peer = NoPeer
      BY <3>1, ClearFields DEF StationType, ClearPending, ClearConnection
    <3>4. "Down" \in StationStates
      BY StateNames
    <3> QED
      BY <3>2, <3>3, <3>4, TransitionFields
  <2> QED
    BY <1>2, <2>1, <2>2
<1>14. ASSUME NEW e \in Events, StationEvent(e), ~CarrierWhileClosing
       PROVE  st'.state \in ClosingStates
  <2>1. HandleEvent(st, e).ok /\ Become(HandleEvent(st, e).st, Observed(e))
    BY <1>3, <1>14 DEF StationEvent
  <2>2. Observed(e).closing = hist.closing
    BY <1>0 DEF Observed, HistoryType
  <2>3. st.state \in ClosingStates /\ hist.closing
    BY <1>2, <1>4, <2>1, <2>2
  <2>4. e.kind # "CarrierOn"
    <3>1. e.mine
      BY <2>1 DEF HandleEvent, Fail, Err
    <3> QED
      BY <1>14, <2>3, <3>1 DEF CarrierWhileClosing
  <2> QED
    BY <1>0, <1>2, <2>1, <2>3, <2>4, HandleEventCloses
<1>15. CASE UNCHANGED vars
  BY <1>4, <1>15 DEF vars
<1> QED
  BY <1>5, <1>6, <1>7, <1>8, <1>9, <1>10, <1>11, <1>12, <1>13, <1>14, <1>15
     DEF Next

(* Firmware that reports no carrier between the end of a connection and    *)
(* its confirmation keeps the port closed, under either driver and with    *)
(* carrier reported early or not: no other event, deadline, failed command *)
(* or recovery reopens a port that disconnect or bring_down closed.  The   *)
(* run driver_closing shows that this one event does.                      *)
THEOREM OnlyCarrierReopens ==
  NoLateCarrierSpec => [](hist.closing => ~ControlledPortOpen(st))
<1>1. NoLateCarrierSpec => []IInv
  <2>1. IInv /\ [Next /\ ~CarrierWhileClosing]_vars => IInv'
    BY NextIInv
  <2> QED
    BY <2>1, InitIInv, PTL DEF NoLateCarrierSpec
<1>2. Init => Closing
  BY DEF Init, NoHistory, Closing
<1>3. Closing => (hist.closing => ~ControlledPortOpen(st))
  BY DEF Closing, ClosingStates, ControlledPortOpen
<1> QED
  BY <1>1, <1>2, <1>3, NextCloses, PTL DEF NoLateCarrierSpec
=============================================================================
