---------------------------- MODULE StationProofs ----------------------------
(***************************************************************************)
(* Lemmas about the operators that Station is built from, for every set of *)
(* access points and every deadline.  The proofs about Driver and about    *)
(* Wpa2Session, which both own a station, rest on them.                    *)
(***************************************************************************)
EXTENDS Station, TLAPS

(* TimeoutFor gives a deadline of the range remaining may hold. *)
LEMMA TimeoutType == \A x : TimeoutFor(x) \in 0 .. Deadline
  BY DeadlineAssumption DEF TimeoutFor

(* Transition sets the state and the deadline and keeps all other fields. *)
LEMMA TransitionFields ==
  ASSUME NEW s \in StationType, NEW x \in StationStates
  PROVE  /\ Transition(s, x) \in StationType
         /\ Transition(s, x).state = x
         /\ Transition(s, x).vif0 = s.vif0
         /\ Transition(s, x).created = s.created
         /\ Transition(s, x).peer = s.peer
         /\ Transition(s, x).secure = s.secure
         /\ Transition(s, x).authorized = s.authorized
         /\ Transition(s, x).carrier = s.carrier
         /\ Transition(s, x).pending = s.pending
         /\ Transition(s, x).ret = s.ret
  BY TimeoutType DEF StationType, Transition

(* Submit is Transition, and it remembers the command. *)
LEMMA SubmitFields ==
  ASSUME NEW s \in StationType, NEW x \in StationStates, NEW c \in Commands
  PROVE  /\ Submit(s, c, x) \in StationType
         /\ Submit(s, c, x).state = x
         /\ Submit(s, c, x).created = s.created
         /\ Submit(s, c, x).peer = s.peer
         /\ Submit(s, c, x).secure = s.secure
         /\ Submit(s, c, x).authorized = s.authorized
         /\ Submit(s, c, x).pending = c
         /\ Submit(s, c, x).ret = s.ret
<1>1. [s EXCEPT !.pending = c] \in StationType
  BY DEF StationType
<1> QED
  BY <1>1, TransitionFields DEF Submit, StationType

(* What ClearPending, ClearConnection and their composition leave *)
LEMMA ClearFields ==
  ASSUME NEW s \in StationType
  PROVE  /\ ClearPending(s) \in StationType
         /\ ClearConnection(s) \in StationType
         /\ ClearPending(s).secure = s.secure
         /\ ~ClearConnection(s).secure
  BY DEF StationType, ClearPending, ClearConnection

(* Every state name is a state of the station. *)
LEMMA StateNames ==
  /\ {"Down", "Idle", "Connected", "Recovering", "Fault",
      "InterfaceCreatePending", "RegulatoryPending", "InterfaceUpPending",
      "Scanning", "ScanComplete", "ReadingScanResults", "Authenticating",
      "Authenticated", "Associating", "Securing", "Authorizing",
      "AwaitingCarrier", "PowerSavePending", "Disconnecting",
      "InterfaceDownPending"} \subseteq StationStates
  /\ KeyCommands \subseteq Commands
  /\ PowerSaveCommands \subseteq Commands
  /\ {"NewInterface", "RequestSetRegulatory", "SetInterfaceFlags",
      "TriggerScan", "GetScanResults", "Authenticate", "Associate",
      "SetStation", "Deauthenticate", "SetKey"} \subseteq Commands
  BY DEF StationStates, UntimedStates, TimedStates, Commands, KeyCommands,
         PowerSaveCommands
=============================================================================
