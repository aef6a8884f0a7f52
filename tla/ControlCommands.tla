-------------------------- MODULE ControlCommands ---------------------------
(***************************************************************************)
(* The encoders of control commands (control.rs, protocol.rs), by the      *)
(* lengths of what they write.  A body is laid out by writer calls whose   *)
(* widths must add up to the length the encoder declares beforehand; a     *)
(* value goes into a field of fixed width, or is refused.                  *)
(*                                                                         *)
(* A request is its operation and the lengths of its variable parts; what  *)
(* the parts say is left out.  An absent key is shorter than an empty one. *)
(***************************************************************************)
EXTENDS Integers

HeaderLen               == 12 + 36    \* host header and UMAC header
MAX_STATION_MESSAGE_LEN == 2048
MAX_UMAC_INNER_LEN      == 1024 - 12
KEY_INFO_LEN            == 535
AUTH_INFO_LEN           == 1672
CONNECT_COMMON_INFO_LEN == 1563
CHANGE_STATION_INFO_LEN == 789
SYSTEM_INIT_LEN         == 366
MAX_SSID_LEN            == 32
MAX_IE_LEN              == 400
MAX_SAE_LEN             == 256
MAX_KEY_LEN             == 256
NoKey                   == -1

Operations ==
  {"authenticate", "associate", "newKey", "setKey", "interfaceState",
   "regulatory", "powerSave", "powerSaveTimeout", "authorize", "newInterface",
   "scan", "scanResults", "deauthenticate", "systemInit"}

(* Only an authentication may come without a key. *)
RequestType ==
  {r \in [op : Operations, ssid : Nat, ie : Nat, bss : Nat, sae : Nat,
          key : Nat \cup {NoKey}, seq : Nat, index : Nat, secure : BOOLEAN,
          pairwise : Nat, akm : Nat, frequencies : Nat, ssids : Nat, name : Nat,
          room : Nat] :
    r.key = NoKey => r.op = "authenticate"}

-----------------------------------------------------------------------------
(* Writer: plain bytes, and Writer::fixed, Writer::ssid, Writer::ie.  A    *)
(* call moves the end of the message by the width of its field; one call   *)
(* after the other moves it by both.                                       *)
Bytes(n)        == [width |-> n, fits |-> TRUE]
Fixed(n, width) == [width |-> width, fits |-> n <= width]
Ssid(n)         == [width |-> 1 + MAX_SSID_LEN, fits |-> n <= MAX_SSID_LEN]
Ie(n)           == [width |-> 2 + MAX_IE_LEN, fits |-> n <= MAX_IE_LEN]
a ++ b          == [width |-> a.width + b.width, fits |-> a.fits /\ b.fits]

(* write_key_info: header, key, sequence, index *)
KeyInfo(r) ==
  IF r.key = NoKey THEN Bytes(KEY_INFO_LEN)
  ELSE Bytes(4 + 4 + 2 + 4) ++ Bytes(4) ++ Fixed(r.key, MAX_KEY_LEN)
         ++ Bytes(4) ++ Fixed(r.seq, 256) ++ Bytes(1)

(* write_default_key_info: no key, no sequence *)
DefaultKeyInfo ==
  Bytes(4 + 4 + 2 + 4) ++ Bytes(4 + MAX_KEY_LEN) ++ Bytes(4 + 256) ++ Bytes(1)

AuthenticationBody(r) ==
  Bytes(4 + 4 + 2 + 4) ++ KeyInfo(r) ++ Ssid(r.ssid) ++ Ie(r.ie)
    ++ Bytes(4) ++ Fixed(r.sae, MAX_SAE_LEN) ++ Bytes(6)
    ++ Bytes(4 + 4 + 4) ++ Ie(r.bss) ++ Bytes(2 + 2 + 8)

AssociationBody(r) ==
  LET count(n) == IF r.secure THEN n ELSE 0 IN
  Bytes(4 + 4 + 4 + 4 + 4)
    ++ Bytes(4) ++ Fixed(4 * count(r.pairwise), 4 * 7)
    ++ Bytes(4 + 4) ++ Fixed(4 * count(r.akm), 4 * 2) ++ Bytes(4)
    ++ Bytes(4 + 2 + 6 + 6) ++ Ssid(r.ssid) ++ Ie(count(r.ie))
    ++ Bytes(4 + 2 + 4 * 256 + 2 + 1 + 1) ++ Bytes(6 + 2 + 6)

ScanBody(r) ==
  LET ssid(i) == IF i < r.ssids THEN r.ssid ELSE 0 IN
  Bytes(4 + 2 + 1)
    ++ Bytes(1) ++ Fixed(ssid(0), MAX_SSID_LEN)
    ++ Bytes(1) ++ Fixed(ssid(1), MAX_SSID_LEN)
    ++ Bytes(1 + 1 + 2) ++ Fixed(r.ie, 400) ++ Bytes(6) ++ Bytes(2 + 2 + 2 + 1)
    ++ Bytes(4 * r.frequencies)

(* write_system_init_body: identity, timing, radio, RX pools; data rates   *)
(* and limits, calibration, thresholds; network, power, scan policy,       *)
(* coexistence                                                             *)
SystemInitBody ==
  Bytes(4 * 4) ++ Bytes(4 * 4) ++ Bytes(4 + 6 + 200 + 1) ++ Bytes(3 * (2 + 2))
    ++ Bytes(4) ++ Bytes(3 + 4) ++ Bytes(4 * 4) ++ Bytes(5 * 4)
    ++ Bytes(1 + 2 + 4 + 1 + 4) ++ Bytes(4 + 4 + 1 + 4)
    ++ Bytes(1 + 4 + 4 + 4 + 1 + 4) ++ Bytes(5 * 4 + 1)

KeyCommandBody(r) == Bytes(4) ++ KeyInfo(r) ++ Bytes(6)

(* encode_station_authorized *)
AuthorizeBody == Bytes(4 + 260 + 4 + 4) ++ Bytes(512 + 6 + 3)

NewInterfaceBody(r) == Bytes(4 + 4 + 4 + 4 + 6) ++ Fixed(r.name, 16)

DeauthenticateBody == Bytes(4 + 2 + 2) ++ Bytes(6)

Body(r) ==
  CASE r.op = "authenticate"     -> AuthenticationBody(r)
    [] r.op = "associate"        -> AssociationBody(r)
    [] r.op = "newKey"           -> KeyCommandBody(r)
    [] r.op = "setKey"           -> DefaultKeyInfo
    [] r.op = "interfaceState"   -> Bytes(4 + 1)
    [] r.op = "regulatory"       -> Bytes(4 + 4 + 2)
    [] r.op = "powerSave"        -> Bytes(4)
    [] r.op = "powerSaveTimeout" -> Bytes(4)
    [] r.op = "authorize"        -> AuthorizeBody
    [] r.op = "newInterface"     -> NewInterfaceBody(r)
    [] r.op = "scan"             -> ScanBody(r)
    [] r.op = "scanResults"      -> Bytes(4)
    [] r.op = "deauthenticate"   -> DeauthenticateBody
    [] r.op = "systemInit"       -> SystemInitBody

(* Fault: the word of valid bits in front of a body is forgotten. *)
BodyLenWithoutBits(r) ==
  CASE r.op = "authenticate" -> AUTH_INFO_LEN
    [] OTHER -> Body(r).width

(* The length of the body an encoder declares *)
BodyLen(r) ==
  CASE r.op = "authenticate"     -> 4 + AUTH_INFO_LEN
    [] r.op = "associate"        -> 4 + CONNECT_COMMON_INFO_LEN + 6
    [] r.op = "newKey"           -> 4 + KEY_INFO_LEN + 6
    [] r.op = "setKey"           -> KEY_INFO_LEN
    [] r.op = "interfaceState"   -> 5
    [] r.op = "regulatory"       -> 10
    [] r.op = "powerSave"        -> 4
    [] r.op = "powerSaveTimeout" -> 4
    [] r.op = "authorize"        -> 4 + CHANGE_STATION_INFO_LEN
    [] r.op = "newInterface"     -> 38
    [] r.op = "scan"             -> 4 + 486 + 4 * r.frequencies
    [] r.op = "scanResults"      -> 4
    [] r.op = "deauthenticate"   -> 14
    [] r.op = "systemInit"       -> SYSTEM_INIT_LEN

-----------------------------------------------------------------------------
(* What the encoders refuse before they write *)

ValidateKey(r) == r.key <= MAX_KEY_LEN /\ r.seq <= 256 /\ r.index <= 3

ValidateAuthentication(r) ==
  /\ r.ssid <= MAX_SSID_LEN /\ r.ie <= MAX_IE_LEN /\ r.bss <= MAX_IE_LEN
  /\ r.sae <= MAX_SAE_LEN
  /\ r.key # NoKey => ValidateKey(r)

ValidateAssociation(r) ==
  /\ r.ssid <= MAX_SSID_LEN
  /\ r.secure => r.ie <= MAX_IE_LEN /\ r.pairwise \in 1 .. 7 /\ r.akm \in 1 .. 2

ValidateScan(r) ==
  /\ r.ssids <= 2 /\ r.frequencies <= 64 /\ r.ie <= 400
  /\ r.ssids > 0 => r.ssid <= MAX_SSID_LEN

Validate(r) ==
  CASE r.op = "authenticate"           -> ValidateAuthentication(r)
    [] r.op = "associate"              -> ValidateAssociation(r)
    [] r.op \in {"newKey", "setKey"}   -> ValidateKey(r)
    [] r.op = "newInterface"           -> r.name <= 16
    [] r.op = "scan"                   -> ValidateScan(r)
    [] OTHER                           -> TRUE

(* The two envelopes: encode_umac_command has a buffer of its own for the  *)
(* body, encode_umac (validated_station_message_len) writes in place.      *)
InnerBuffered == {"newInterface", "scan", "scanResults", "deauthenticate"}

Total(r) == BodyLen(r) + IF r.op = "systemInit" THEN 12 ELSE HeaderLen

Room(r) ==
  /\ Total(r) <= r.room
  /\ r.op \in InnerBuffered => Total(r) - 12 <= MAX_UMAC_INNER_LEN
  /\ r.op \notin InnerBuffered => Total(r) <= MAX_STATION_MESSAGE_LEN

Width(r) == Body(r).width
Fits(r)  == Body(r).fits

(* Validate, then write; the writer must end where the body ends *)
Encode(r) ==
  CASE ~Validate(r)             -> "limit"
    [] Validate(r) /\ ~Room(r)  -> "small"
    [] Validate(r) /\ Room(r) /\ ~Fits(r) -> "field"
    [] Validate(r) /\ Room(r) /\ Fits(r) /\ Width(r) # BodyLen(r) -> "length"
    [] OTHER -> "ok"

(* What a request may be, whatever the encoders say: each part fits its    *)
(* field, a key has an index, a secure association has cipher suites       *)
Admissible(r) ==
  /\ Fits(r)
  /\ r.op = "setKey" => r.key <= 256 /\ r.seq <= 256
  /\ r.op \in {"newKey", "setKey"} \/ (r.op = "authenticate" /\ r.key # NoKey) => r.index <= 3
  /\ r.op = "associate" /\ r.secure => r.pairwise > 0 /\ r.akm > 0
  /\ r.op = "scan" => r.ssids <= 2 /\ r.frequencies <= 64

(* A request is sent exactly if it is admissible and there is room for it, *)
(* and what is sent is filled to its end.                                  *)
EncodesRight(r) ==
  /\ (Encode(r) = "ok") <=> (Admissible(r) /\ Width(r) + Total(r) - BodyLen(r) <= r.room)
  /\ Encode(r) \in {"ok", "limit", "small"}
=============================================================================
