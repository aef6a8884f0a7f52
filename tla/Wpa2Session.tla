----------------------------- MODULE Wpa2Session -----------------------------
(***************************************************************************)
(* A WPA2 station session: the supplicant (wpa2.rs), the coordinator that  *)
(* turns its actions into key commands, EAPOL frames and the authorization *)
(* of the port (wpa2_runtime.rs), and Wpa2StationDriver (production.rs),   *)
(* which feeds it the events of the driver.  Supplicant, coordinator and   *)
(* station each keep their own view of one connection, and the session may *)
(* outlive the connection.                                                 *)
(*                                                                         *)
(* A frame stands for its digest.  Its tag is the nonce of a Message 1     *)
(* (0: all zero), and for the others the handshake under whose pairwise    *)
(* key the MIC and the nonce verify (0: none).  A handshake is numbered by *)
(* its supplicant nonce, which the caller takes from a CSPRNG, so that it  *)
(* never repeats.  Install tickets reduce to the frame that asked for the  *)
(* keys: one request at a time is outstanding.                             *)
(*                                                                         *)
(* The driver is ready or down; Driver has the states in between, and the  *)
(* commands that neither start nor end a connection.  Any good event may   *)
(* come at any time; a bad one takes the driver down, as DriverFault does. *)
(* Every send may fail.                                                    *)
(***************************************************************************)
EXTENDS Station, EapolKey

CONSTANTS
  WireFrames,     \* the frames an authenticator may send, see EapolKey
  Authenticator,  \* the peer the supplicant was made for
  Tokens,         \* TX tokens
  MaxReplay,      \* bound on the replay counters
  MaxHandshakes,  \* bound on the supplicant nonces
  MaxElapsed,     \* the most ticks one call of advance_time passes on
  Careful         \* the caller makes a new session, or restarts the old one,
                  \* before each association

ASSUME SessionAssumption ==
  /\ Authenticator \in Peers
  /\ MaxReplay \in Nat /\ MaxHandshakes \in Nat \ {0}
  /\ MaxElapsed \in Nat \ {0}
  /\ Careful \in BOOLEAN

ASSUME WireAssumption ==
  \A w \in WireFrames :
    /\ w.replay \in 0 .. MaxReplay /\ w.tag \in 0 .. MaxHandshakes
    /\ w.info \subseteq Flags
    /\ w.keyData \in Nat
    /\ w.data.elements \in Seq(Elements)

Handshakes == 1 .. MaxHandshakes

(* What the supplicant reads.  Invalid is a frame with an unsupported      *)
(* descriptor version or key length.  The key data is absent, or it does   *)
(* not unwrap to a group key, or it does.                                  *)
Frames == {Read(w) : w \in {w \in WireFrames : Parses(w)}}
NoFrame == [msg |-> "none", replay |-> 0, tag |-> 0, data |-> "none"]

Purposes == {"Message2", "Message4", "GroupMessage2", "Retransmission"}

KeyStatusStates ==
  {"AwaitingPairwiseKeyStatus", "AwaitingGroupKeyStatus",
   "AwaitingDefaultGroupKeyStatus", "AwaitingGroupRekeyStatus",
   "AwaitingDefaultGroupRekeyStatus"}
PendingStates ==
  KeyStatusStates \cup {"AwaitingEapolTransmit", "AwaitingAuthorizationStatus"}
TimedRuntimeStates == PendingStates \cup {"AwaitingAuthenticator", "AwaitingCarrier"}
RuntimeStates == TimedRuntimeStates \cup {"Complete", "Failed"}

VARIABLES
  drv,         \* DriverState: "Ready" or "Down"
  st,          \* the station
  sup,         \* Wpa2Supplicant
  rt,          \* Wpa2Runtime
  flight,      \* the tokens of the EAPOL frames in flight
  handshakes,  \* supplicant nonces used so far
  installed,   \* history: handshakes whose pairwise key went to the firmware
  hist         \* history: what succeeded for the current association

vars == <<drv, st, sup, rt, flight, handshakes, installed, hist>>

(* ptk is Some as long as message1_digest is. *)
SupplicantType ==
  [phase : {"AwaitingMessage1", "AwaitingMessage3", "InstallingKeys",
            "Complete", "Failed"},
   nonce     : 0 .. MaxHandshakes,        \* supplicant_nonce
   m1        : Frames \cup {NoFrame},     \* message1_digest, replay, nonce
   completed : 0 .. MaxReplay,            \* completed_replay
   m3        : Frames \cup {NoFrame},     \* completed_message3_digest
   g1        : Frames \cup {NoFrame},     \* last_group_message1_digest, replay
   ticket    : Frames \cup {NoFrame}]     \* pending_ticket, pending_frame_digest

RuntimeType ==
  [state     : RuntimeStates,
   token     : Tokens \cup {"None"},
   purpose   : Purposes \cup {"None"},
   pair      : Frames \cup {NoFrame},     \* pairwise_install
   group     : Frames \cup {NoFrame},     \* group_install
   last      : Frames \cup {NoFrame},     \* last_input_digest
   remaining : 0 .. Deadline]

(* keys: the keys whose commands the firmware acknowledged.  m4: Message 4 *)
(* was sent.  sent: the tokens of this association's frames.               *)
NoHistory == [keys |-> {}, m4 |-> FALSE, sent |-> {}]

(* Every variable has its type. *)
TypeOK ==
  /\ drv \in {"Ready", "Down"}
  /\ st \in StationType
  /\ sup \in SupplicantType
  /\ rt \in RuntimeType
  /\ flight \subseteq Tokens
  /\ handshakes \in 0 .. MaxHandshakes
  /\ installed \subseteq Handshakes
  /\ hist \in [keys : SUBSET {"pairwise", "group", "default"}, m4 : BOOLEAN,
               sent : SUBSET Tokens]

-----------------------------------------------------------------------------
(* The supplicant: operators that return its new state, whether the input  *)
(* was accepted, and the action it asks for.                               *)

Accept(u, action) == [sup |-> u, ok |-> TRUE, action |-> action]
Reject(u) == [sup |-> u, ok |-> FALSE, action |-> "None"]

(* clear_transient_state *)
Cleared(u) ==
  [u EXCEPT !.nonce = 0, !.m1 = NoFrame, !.completed = 0, !.m3 = NoFrame,
            !.g1 = NoFrame, !.ticket = NoFrame]

SupplicantFailed(u) == [Cleared(u) EXCEPT !.phase = "Failed"]
SupFail(u) == Reject(SupplicantFailed(u))

NewSupplicant(nonce) ==
  [phase |-> "AwaitingMessage1", nonce |-> nonce, m1 |-> NoFrame,
   completed |-> 0, m3 |-> NoFrame, g1 |-> NoFrame, ticket |-> NoFrame]

(* on_message1, handle_message1_after_completion, handle_repeated_message1 *)
OnMessage1(u, f) ==
  IF f.data # "none" \/ f.tag = 0 THEN SupFail(u)
  ELSE IF u.phase = "Complete"
  THEN IF u.completed = f.replay /\ u.m1.tag = f.tag THEN SupFail(u) ELSE Reject(u)
  ELSE IF u.phase \notin {"AwaitingMessage1", "AwaitingMessage3"} THEN SupFail(u)
  ELSE IF u.m1 = NoFrame
  THEN Accept([u EXCEPT !.m1 = f, !.phase = "AwaitingMessage3"], "Transmit")
  ELSE IF f.replay > u.m1.replay THEN Reject(u)
  ELSE IF f # u.m1 THEN SupFail(u)
  ELSE Accept(u, "Transmit")

(* handle_completed_message3: only the very frame is answered again. *)
OnCompletedMessage3(u, f) ==
  IF u.completed = f.replay /\ u.m3 = f THEN Accept(u, "Transmit") ELSE SupFail(u)

(* on_message3, validate_new_message3 *)
OnMessage3(u, f) ==
  IF u.m1 = NoFrame THEN Reject(u)
  ELSE IF f.tag # u.nonce THEN SupFail(u)
  ELSE IF u.phase = "Complete" THEN OnCompletedMessage3(u, f)
  ELSE IF u.phase # "AwaitingMessage3" \/ f.replay <= u.m1.replay \/ f.data = "none"
  THEN SupFail(u)
  ELSE IF f.data = "bad" THEN Reject(u)
  ELSE Accept([u EXCEPT !.ticket = f, !.phase = "InstallingKeys"], "InstallKeys")

(* on_group_message1, handle_repeated_group_message1,                      *)
(* validate_new_group_message1                                             *)
OnGroupMessage1(u, f) ==
  IF u.phase # "Complete" THEN SupFail(u)
  ELSE IF u.g1.replay = f.replay
  THEN IF f.tag = u.nonce /\ f = u.g1 THEN Accept(u, "Transmit") ELSE SupFail(u)
  ELSE IF f.replay <= u.completed \/ f.tag # u.nonce \/ f.data = "none" THEN SupFail(u)
  ELSE IF f.data = "bad" THEN Reject(u)
  ELSE Accept([u EXCEPT !.ticket = f], "InstallGroupKey")

(* on_eapol, validate_frame, handle_pending_frame, dispatch_message *)
OnEapol(u, f) ==
  IF f.msg = "Invalid" THEN SupFail(u)
  ELSE IF u.ticket # NoFrame
  THEN IF f.replay # u.ticket.replay THEN Reject(u)
       ELSE IF f = u.ticket THEN Accept(u, "None")
       ELSE SupFail(u)
  ELSE CASE f.msg = "Message1"      -> OnMessage1(u, f)
         [] f.msg = "Message3"      -> OnMessage3(u, f)
         [] f.msg = "GroupMessage1" -> OnGroupMessage1(u, f)
         [] OTHER                   -> SupFail(u)

(* Fault: the replay counter of the next message is expected *)
CompleteKeyInstallNext(u, request) ==
  Accept([u EXCEPT !.ticket = NoFrame, !.completed = request.replay + 1,
                   !.m3 = request, !.phase = "Complete"], "Transmit")

(* complete_key_install, complete_group_key_install and                    *)
(* accept_key_completion, for keys that were installed                     *)
CompleteKeyInstall(u, request) ==
  IF u.ticket # request THEN SupFail(u)
  ELSE Accept([u EXCEPT !.ticket = NoFrame, !.completed = request.replay,
                        !.m3 = request, !.phase = "Complete"], "Transmit")

CompleteGroupKeyInstall(u, request) ==
  IF u.ticket # request THEN SupFail(u)
  ELSE Accept([u EXCEPT !.ticket = NoFrame, !.completed = request.replay,
                        !.g1 = request, !.phase = "Complete"], "Transmit")

-----------------------------------------------------------------------------
(* The coordinator *)

RuntimeTimeout(x) == IF x \in TimedRuntimeStates THEN Deadline ELSE 0

GoTo(r, x) ==
  [r EXCEPT !.state = x, !.remaining = RuntimeTimeout(x), !.token = "None",
            !.purpose = "None"]

NewRuntime ==
  [state |-> "AwaitingAuthenticator", token |-> "None", purpose |-> "None",
   pair |-> NoFrame, group |-> NoFrame, last |-> NoFrame,
   remaining |-> RuntimeTimeout("AwaitingAuthenticator")]

(* NativeDriver::enter_recovery *)
EnterRecovery ==
  /\ drv' = "Down"
  /\ st' = BeginRecovery(st)
  /\ hist' = NoHistory

(* Fault: the requests stay with the coordinator *)
RuntimeFailKeeps(r, u) ==
  /\ EnterRecovery
  /\ sup' = IF r.pair # NoFrame \/ r.group # NoFrame THEN SupplicantFailed(u) ELSE u
  /\ rt' = GoTo([r EXCEPT !.last = NoFrame], "Failed")
  /\ UNCHANGED <<flight, handshakes, installed>>

(* fail: requests are completed as not installed, which fails the          *)
(* supplicant too.  (Tokens do not matter on a driver that is down.)       *)
RuntimeFail(r, u) ==
  /\ EnterRecovery
  /\ sup' = IF r.pair # NoFrame \/ r.group # NoFrame THEN SupplicantFailed(u) ELSE u
  /\ rt' = GoTo([r EXCEPT !.pair = NoFrame, !.group = NoFrame, !.last = NoFrame],
                "Failed")
  /\ UNCHANGED <<flight, handshakes, installed>>

(* The station becomes s, the coordinator r, the supplicant u. *)
Become(s, r, u, h) ==
  /\ st' = s /\ rt' = r /\ sup' = u
  /\ hist' = IF s.peer = NoPeer THEN NoHistory ELSE h
  /\ UNCHANGED <<drv, handshakes>>

(* submit_eapol: transmit takes the frame, or it fails. *)
EapolSubmitted(s, r, u, h, purpose) ==
  /\ EapolRequired(s)
  /\ \E t \in Tokens \ flight :
       /\ flight' = flight \cup {t}
       /\ Become(s, [GoTo(r, "AwaitingEapolTransmit") EXCEPT
                       !.token = t, !.purpose = purpose],
                 u, [h EXCEPT !.sent = @ \cup {t}])
  /\ UNCHANGED installed
SubmitEapol(s, r, u, h, purpose) ==
  EapolSubmitted(s, r, u, h, purpose) \/ RuntimeFail(r, u)

(* submit_key with a new key, and with the default key *)
SubmitNewKey(s, r, u, h, pairwise, next) ==
  \/ /\ CanKeyCommand(s, pairwise)
     /\ Become(KeyCommand(s, "NewKey"), GoTo(r, next), u, h)
     /\ installed' = IF pairwise THEN installed \cup {u.nonce} ELSE installed
     /\ UNCHANGED flight
  \/ RuntimeFail(r, u)

SubmitDefaultKey(s, r, u, h, next) ==
  \/ /\ CanSetKey(s)
     /\ Become(SetKey(s), GoTo(r, next), u, h)
     /\ UNCHANGED <<flight, installed>>
  \/ RuntimeFail(r, u)

-----------------------------------------------------------------------------
(* receive_packet of an EAPOL frame *)

(* dispatch_wpa2_action after the supplicant took f; u is its new state. *)
DispatchAction(f, u, action) ==
  LET r == [rt EXCEPT !.last = f] IN
  \/ action = "None" /\ Become(st, r, u, hist) /\ UNCHANGED <<flight, installed>>
  \/ /\ action = "Transmit"
     /\ SubmitEapol(st, r, u, hist,
                    IF sup.phase = "Complete" THEN "Retransmission" ELSE "Message2")
  \/ /\ action = "InstallKeys"
     /\ \/ /\ rt.state = "AwaitingAuthenticator"
           /\ SubmitNewKey(st, [r EXCEPT !.pair = f], u, hist, TRUE,
                           "AwaitingPairwiseKeyStatus")
        \/ rt.state # "AwaitingAuthenticator" /\ RuntimeFail(r, u)
  \/ /\ action = "InstallGroupKey"
     /\ \/ /\ rt.state = "Complete"
           /\ SubmitNewKey(st, [r EXCEPT !.group = f], u, hist, FALSE,
                           "AwaitingGroupRekeyStatus")
        \/ rt.state # "Complete" /\ RuntimeFail(r, u)

(* Fault: a repetition starts the deadline again *)
PendingInputRearms(r) == [r EXCEPT !.remaining = Deadline]
(* pending_input for a repetition of the last input: nothing changes. *)
PendingInput(r) == r

(* on_ethernet_frame *)
ReceiveEapol(f) ==
  /\ drv = "Ready"
  /\ EapolRequired(st)
  /\ \/ /\ rt.state \in PendingStates
        /\ f = rt.last
        /\ Become(st, PendingInput(rt), sup, hist)
        /\ UNCHANGED <<flight, installed>>
     \/ rt.state \in PendingStates /\ f # rt.last /\ RuntimeFail(rt, sup)
     \/ /\ rt.state \notin PendingStates
        /\ LET result == OnEapol(sup, f) IN
           \/ result.ok /\ DispatchAction(f, result.sup, result.action)
           \/ ~result.ok /\ RuntimeFail(rt, result.sup)

(* A frame of another source, or one that does not parse *)
ReceiveOther ==
  /\ drv = "Ready"
  /\ EapolRequired(st)
  /\ RuntimeFail(rt, sup)

-----------------------------------------------------------------------------
(* poll_event *)

(* expected_security_command *)
ExpectedCommand(x) ==
  CASE x \in {"AwaitingPairwiseKeyStatus", "AwaitingGroupKeyStatus",
              "AwaitingGroupRekeyStatus"} -> "NewKey"
    [] x \in {"AwaitingDefaultGroupKeyStatus",
              "AwaitingDefaultGroupRekeyStatus"} -> "SetKey"
    [] x = "AwaitingAuthorizationStatus" -> "SetStation"
    [] OTHER -> "None"

(* complete_key_install of the coordinator: result is what the supplicant  *)
(* says; r is without the request.                                         *)
FinishKeyInstall(s, r, result, h, purpose) ==
  \/ result.ok /\ EapolSubmitted(s, r, result.sup, h, purpose)
  \/ RuntimeFail(r, result.sup)

(* The firmware has the key, and the history notes it. *)
WithKey(key) == [hist EXCEPT !.keys = @ \cup {key}]

(* dispatch_command_status; the station s has already seen the status.     *)
(* submit_key always finds its request: RequestPending.                    *)
OnCommandStatus(s) ==
  \/ /\ rt.state = "AwaitingPairwiseKeyStatus"
     /\ SubmitNewKey(s, rt, sup, WithKey("pairwise"), FALSE,
                     "AwaitingGroupKeyStatus")
  \/ /\ rt.state = "AwaitingGroupKeyStatus"
     /\ SubmitDefaultKey(s, rt, sup, WithKey("group"),
                         "AwaitingDefaultGroupKeyStatus")
  \/ /\ rt.state = "AwaitingDefaultGroupKeyStatus"
     /\ FinishKeyInstall(s, [rt EXCEPT !.pair = NoFrame],
                         CompleteKeyInstall(sup, rt.pair), WithKey("default"),
                         "Message4")
  \/ /\ rt.state = "AwaitingAuthorizationStatus"
     /\ Become(s, GoTo(rt, IF s.state = "Connected" THEN "Complete"
                           ELSE "AwaitingCarrier"), sup, hist)
     /\ UNCHANGED <<flight, installed>>
  \/ /\ rt.state = "AwaitingGroupRekeyStatus"
     /\ SubmitDefaultKey(s, rt, sup, hist, "AwaitingDefaultGroupRekeyStatus")
  \/ /\ rt.state = "AwaitingDefaultGroupRekeyStatus"
     /\ FinishKeyInstall(s, [rt EXCEPT !.group = NoFrame],
                         CompleteGroupKeyInstall(sup, rt.group), hist,
                         "GroupMessage2")

(* refresh_carrier *)
RefreshCarrier(s) == IF s.state = "Connected" THEN GoTo(rt, "Complete") ELSE rt

(* apply_security_event; an event the station refuses takes the driver     *)
(* down before the coordinator hears of it.                                *)
StationEvent(e) ==
  LET r        == HandleEvent(st, e)
      expected == /\ e.kind = "CommandStatus"
                  /\ e.command = ExpectedCommand(rt.state)
      data     == e.kind \in {"CarrierOn", "CarrierOff", "Other"}
  IN
  /\ drv = "Ready"
  /\ \/ /\ ~r.ok
        /\ EnterRecovery
        /\ UNCHANGED <<sup, rt, flight, handshakes, installed>>
     \/ r.ok /\ expected /\ OnCommandStatus(r.st)
     \/ /\ r.ok
        /\ ~expected
        /\ Become(r.st, IF data THEN RefreshCarrier(r.st) ELSE rt, sup, hist)
        /\ UNCHANGED <<flight, installed>>

(* Fault: any frame of the handshake is followed by the authorization *)
TransmittedEarly(t, purpose, freed) ==
  LET h == [hist EXCEPT !.m4 = @ \/ (purpose = "Message4" /\ t \in hist.sent)] IN
  \/ /\ CanAuthorize(st)
     /\ Become(Authorize(st), GoTo(rt, "AwaitingAuthorizationStatus"), sup, h)
     /\ flight' = freed
     /\ UNCHANGED installed
  \/ RuntimeFail(rt, sup)

(* dispatch_transmit_purpose; freed: the tokens in flight without this one *)
Transmitted(t, purpose, freed) ==
  LET h == [hist EXCEPT !.m4 = @ \/ (purpose = "Message4" /\ t \in hist.sent)] IN
  \/ /\ \/ /\ purpose = "Message2"
           /\ Become(st, GoTo(rt, "AwaitingAuthenticator"), sup, h)
        \/ /\ purpose = "Message4"
           /\ CanAuthorize(st)
           /\ Become(Authorize(st), GoTo(rt, "AwaitingAuthorizationStatus"), sup, h)
        \/ /\ purpose = "GroupMessage2"
           /\ CompleteGroupRekey(st).ok
           /\ Become(CompleteGroupRekey(st).st, GoTo(rt, "Complete"), sup, h)
        \/ /\ purpose = "Retransmission"
           /\ Become(st, GoTo(rt, "Complete"), sup, h)
     /\ flight' = freed
     /\ UNCHANGED installed
  \/ purpose = "Message4" /\ RuntimeFail(rt, sup)
  \/ /\ purpose = "GroupMessage2"
     /\ ~CompleteGroupRekey(st).ok
     /\ RuntimeFail(rt, sup)

(* A TX-done event for an EAPOL frame: the token is free again, and if the *)
(* coordinator waits for it (transmit_done_is_expected), it goes on.       *)
TransmitDone(t) ==
  LET expected == rt.state = "AwaitingEapolTransmit" /\ rt.token = t
      freed    == flight \ {t}
  IN
  /\ drv = "Ready"
  /\ t \in flight
  /\ \/ /\ ~expected
        /\ flight' = freed
        /\ UNCHANGED <<drv, st, sup, rt, handshakes, installed, hist>>
     \/ expected /\ Transmitted(t, rt.purpose, freed)

(* The access point did not acknowledge the frame. *)
TransmitFailed(t) ==
  /\ drv = "Ready"
  /\ rt.state = "AwaitingEapolTransmit" /\ rt.token = t
  /\ t \in flight
  /\ RuntimeFail(rt, sup)

-----------------------------------------------------------------------------
(* The caller *)

(* Fault: a restart goes on with the old nonce *)
RestartKeepsNonce ==
  /\ handshakes < MaxHandshakes
  /\ handshakes' = handshakes + 1
  /\ sup' = NewSupplicant(sup.nonce)
  /\ rt' = NewRuntime
  /\ UNCHANGED <<drv, st, flight, installed, hist>>

(* restart_pairwise, and into_driver followed by a new session *)
Restart ==
  /\ handshakes < MaxHandshakes
  /\ handshakes' = handshakes + 1
  /\ sup' = NewSupplicant(handshakes')
  /\ rt' = NewRuntime
  /\ UNCHANGED <<drv, st, flight, installed, hist>>
RestartPairwise == sup.ticket = NoFrame /\ Restart
NewSession == Restart

(* advance_time.  A deadline of the station that passes ends the call      *)
(* before the coordinator's is looked at.                                  *)
PassTime ==
  /\ st.remaining > 0 \/ rt.remaining > 0
  /\ \E elapsed \in 1 .. MaxElapsed :
       LET s == AdvanceTime(st, elapsed) IN
       \/ /\ ~s.ok
          /\ EnterRecovery
          /\ UNCHANGED <<sup, rt, flight, handshakes, installed>>
       \/ /\ s.ok
          /\ \/ /\ rt.remaining = 0 \/ elapsed < rt.remaining
                /\ Become(s.st, [rt EXCEPT !.remaining =
                                   IF @ = 0 THEN 0 ELSE @ - elapsed], sup, hist)
                /\ UNCHANGED <<flight, installed>>
             \/ /\ rt.remaining > 0 /\ elapsed >= rt.remaining
                /\ RuntimeFail(rt, sup)

(* Whatever else takes the driver down: bus errors, bad events, watchdog.  *)
(* The session is not told.                                                *)
DriverFault ==
  /\ drv = "Ready"
  /\ EnterRecovery
  /\ UNCHANGED <<sup, rt, flight, handshakes, installed>>

(* recover, up to the firmware's InitDone: the data path starts afresh. *)
Recover ==
  /\ drv = "Down"
  /\ drv' = "Ready"
  /\ st' = RecoveryComplete(st)
  /\ flight' = {}
  /\ UNCHANGED <<sup, rt, handshakes, installed, hist>>

(* The commands of driver_mut; those that fail are DriverFault. *)
Command(guard, s, h) ==
  /\ drv = "Ready"
  /\ guard
  /\ Become(s, rt, sup, h)
  /\ UNCHANGED <<flight, installed>>

DoCreateInterface == Command(CanCreateInterface(st), CreateInterface(st), hist)
DoBringUp      == Command(CanBringUp(st), BringUp(st), hist)
DoAuthenticate == Command(CanAuthenticate(st), Authenticate(st, Authenticator), NoHistory)
DoAssociate ==
  \E secure \in BOOLEAN :
    /\ Careful /\ secure => rt.state = "AwaitingAuthenticator"
                            /\ sup.phase = "AwaitingMessage1"
    /\ Command(CanAssociate(st), Associate(st, secure), NoHistory)
DoSetPowerSave == Command(CanSetPowerSave(st), SetPowerSave(st, "SetPowerSave"), hist)
DoDisconnect   == Command(CanDisconnect(st), Disconnect(st), hist)
DoBringDown    == Command(CanBringDown(st), BringDown(st), hist)

Init ==
  /\ drv = "Ready"
  /\ st = NewStation(TRUE)
  /\ sup = NewSupplicant(1)
  /\ rt = NewRuntime
  /\ flight = {}
  /\ handshakes = 1
  /\ installed = {}
  /\ hist = NoHistory

Next ==
  \/ \E f \in Frames : ReceiveEapol(f)
  \/ ReceiveOther
  \/ \E e \in {e \in Events : e.mine /\ e.good} : StationEvent(e)
  \/ \E t \in Tokens : TransmitDone(t) \/ TransmitFailed(t)
  \/ RestartPairwise \/ NewSession \/ PassTime \/ DriverFault \/ Recover
  \/ DoCreateInterface \/ DoBringUp \/ DoAuthenticate \/ DoAssociate
  \/ DoSetPowerSave \/ DoDisconnect \/ DoBringDown

Spec == Init /\ [][Next]_vars

(* The caller's timer path runs (advance_time must be called from one). *)
FairSpec == Spec /\ WF_vars(PassTime)

-----------------------------------------------------------------------------
(* Properties *)

(* The port of a secure network is open only after the firmware accepted   *)
(* all three keys and Message 4 went out, all since the last associate:    *)
(* authorize_after_message4 may not serve a handshake of an earlier one.   *)
PortNeedsHandshake ==
  ControlledPortOpen(st) /\ st.secure =>
    hist.keys = {"pairwise", "group", "default"} /\ hist.m4

(* The pairwise key of a handshake goes to the firmware at most once,      *)
(* however often Message 3 is repeated, before or after the installation:  *)
(* a second time would reset its packet numbers.                           *)
NoReinstall ==
  [][/\ rt'.state = "AwaitingPairwiseKeyStatus"
     /\ rt.state # "AwaitingPairwiseKeyStatus"
     => sup.nonce \notin installed]_vars

(* Frames that may not ask for keys, as the supplicant reads them *)
Unfit == {Read(w) : w \in {w \in WireFrames : Parses(w) /\ ~AsksForKeys(w)}}

(* A request that the coordinator holds is the one the supplicant waits    *)
(* for, whatever frames, carrier events and failures come between: its     *)
(* completion is never stale (accept_key_completion), and while a key      *)
(* status is awaited there is one.  And it came from a frame that may ask  *)
(* for keys: no length field, key information or element of the key data   *)
(* leads the parser to a key that is not all there.                        *)
RequestPending ==
  /\ {rt.pair, rt.group} \cap Unfit = {}
  /\ rt.pair # NoFrame => sup.ticket = rt.pair /\ rt.group = NoFrame
  /\ rt.group # NoFrame => sup.ticket = rt.group
  /\ rt.state \in KeyStatusStates => rt.pair # NoFrame \/ rt.group # NoFrame

(* An EAPOL transmission, a key command and an authorization end, by their *)
(* answer or by their deadline; no repetition of a handshake message puts  *)
(* the deadline off (pending_input).                                       *)
OperationEnds ==
  \A x \in PendingStates : (rt.state = x) ~> (rt.state # x)
=============================================================================
