------------------------------- MODULE EapolKey ------------------------------
(***************************************************************************)
(* What the supplicant makes of an EAPOL-Key frame (wpa2.rs): the lengths  *)
(* it insists on, the message its key information stands for, and whether  *)
(* its key data holds a group key.                                         *)
(*                                                                         *)
(* A frame on the wire is a record: header (protocol version, packet type  *)
(* and descriptor type are supported), len, body and keyData (the length   *)
(* received and the two length fields), version (the descriptor version),  *)
(* keyLength, info (the flags), replay, tag (see Wpa2Session) and data.    *)
(* data is the plain key data: the key unwraps (intact), its elements as   *)
(* they lie one behind the other, by their id, the length they claim, and  *)
(* their body: "gtk" starts with GTK_KDE_OUI_TYPE, "gtkReserved" has a     *)
(* reserved bit set as well, "other" is another.                           *)
(***************************************************************************)
EXTENDS Integers, Sequences

MAX_EAPOL_FRAME_LEN      == 512
EAPOL_HEADER_LEN         == 4
EAPOL_KEY_FIXED_BODY_LEN == 95
KEY_DATA_OFFSET          == EAPOL_HEADER_LEN + EAPOL_KEY_FIXED_BODY_LEN
CCMP_KEY_LEN             == 16
VENDOR                   == 221   \* 0xdd

Flags == {"Pairwise", "Install", "Ack", "Mic", "Secure", "Encrypted", "Error"}

(* EapolKeyFrame::parse *)
Parses(w) ==
  /\ w.header
  /\ w.len \in KEY_DATA_OFFSET .. MAX_EAPOL_FRAME_LEN
  /\ EAPOL_HEADER_LEN + w.body = w.len
  /\ KEY_DATA_OFFSET + w.keyData = w.len

(* EapolKeyInfo::classify; "Error" is one of error, request and SMK.  What *)
(* a station sends is as good as any other unexpected message.             *)
Classify(info) ==
  LET bits == info \cap {"Ack", "Mic", "Install", "Secure"} IN
  CASE "Error" \in info -> "Other"
    [] "Error" \notin info /\ "Pairwise" \in info ->
         (CASE bits = {"Ack"}                              -> "Message1"
            [] bits = {"Ack", "Mic", "Install", "Secure"}  -> "Message3"
            [] OTHER                                       -> "Other")
    [] OTHER ->
         IF bits \ {"Install"} = {"Ack", "Mic", "Secure"} THEN "GroupMessage1"
         ELSE "Other"

(* validate_frame: the descriptor version, and the key length of a         *)
(* pairwise message                                                        *)
Message(w) ==
  IF w.version # 2 THEN "Invalid"
  ELSE IF /\ Classify(w.info) \in {"Message1", "Message3"}
          /\ w.keyLength # CCMP_KEY_LEN
       THEN "Invalid"
  ELSE Classify(w.info)

(* The elements of key data as they may lie on the wire *)
Elements == [id : 0 .. 255, len : 0 .. 255, body : {"gtk", "gtkReserved", "other"}]

(* parse_gtk_body *)
ParseGtkBody(e) == e.len = 22 /\ e.body = "gtk"

(* The loop of parse_gtk_kde with its take_kde, over plainLen bytes.  x is *)
(* where it stands: the offset, and the verdict once it has one.           *)
TakeKde(x, e, plainLen) ==
  IF x.verdict # "go on" THEN x
  ELSE IF \/ x.offset >= plainLen
          \/ e.id = 0
          \/ plainLen - x.offset < 2
          \/ e.len = 0
          \/ e.len > plainLen - (x.offset + 2)
       THEN [x EXCEPT !.verdict = "missing"]
  ELSE IF e.id = VENDOR /\ e.body \in {"gtk", "gtkReserved"}
       THEN [x EXCEPT !.verdict = IF ParseGtkBody(e) THEN "found" ELSE "invalid"]
  ELSE [x EXCEPT !.offset = x.offset + 2 + e.len]

KdeLoop(data, plainLen) ==
  LET loop[i \in 0 .. Len(data.elements)] ==
        IF i = 0 THEN [offset |-> 0, verdict |-> "go on"]
        ELSE TakeKde(loop[i - 1], data.elements[i], plainLen)
  IN loop

ParseGtkKde(data, plainLen) ==
  KdeLoop(data, plainLen)[Len(data.elements)].verdict = "found"

(* group_key_install: aes_key_unwrap, then parse_gtk_kde *)
GroupKeyInstall(w) ==
  /\ w.keyData >= 24 /\ w.keyData % 8 = 0
  /\ w.data.intact
  /\ ParseGtkKde(w.data, w.keyData - 8)

(* Key data as the handlers see it.  Message 1 may have none at all; the   *)
(* others must have some, encrypted (require_encrypted_key_data).          *)
KeyData(w) ==
  IF w.keyData = 0 \/ (Message(w) # "Message1" /\ "Encrypted" \notin w.info)
  THEN "none"
  ELSE IF GroupKeyInstall(w) THEN "gtk" ELSE "bad"

(* The frame the supplicant works on *)
Read(w) ==
  IF Message(w) \in {"Other", "Invalid"}
  THEN [msg |-> Message(w), replay |-> w.replay, tag |-> 0, data |-> "none"]
  ELSE [msg |-> Message(w), replay |-> w.replay, tag |-> w.tag, data |-> KeyData(w)]

-----------------------------------------------------------------------------
(* What may ask for keys, said without the parser: an authenticated and    *)
(* acknowledged message of a completed exchange, its key data encrypted,   *)
(* and in it a whole group key behind whole elements.  Offsets is where    *)
(* each element ends.                                                      *)
Offsets(data) ==
  LET end[i \in 0 .. Len(data.elements)] ==
        IF i = 0 THEN 0 ELSE end[i - 1] + 2 + data.elements[i].len
  IN end

HasGroupKey(data, plainLen) ==
  \E i \in 1 .. Len(data.elements) :
    /\ data.elements[i] = [id |-> VENDOR, len |-> 22, body |-> "gtk"]
    /\ Offsets(data)[i - 1] + 24 <= plainLen
    /\ \A j \in 1 .. i - 1 : data.elements[j].id # 0 /\ data.elements[j].len > 0

AsksForKeys(w) ==
  /\ {"Ack", "Mic", "Secure", "Encrypted"} \subseteq w.info
  /\ "Error" \notin w.info
  /\ "Pairwise" \in w.info => "Install" \in w.info /\ w.keyLength = CCMP_KEY_LEN
  /\ w.version = 2
  /\ KEY_DATA_OFFSET + w.keyData = w.len
  /\ w.data.intact /\ HasGroupKey(w.data, w.keyData - 8)
=============================================================================
