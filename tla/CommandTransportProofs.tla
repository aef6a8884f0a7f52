----------------------- MODULE CommandTransportProofs -----------------------
(***************************************************************************)
(* Proofs about the command transport.  The encoders come first: what the  *)
(* writer calls of each add up to is a sum that the provers do.  The rest  *)
(* is about the stream of fragments that the sender has posted and the     *)
(* firmware has not put together yet.  Within a command its fragments are  *)
(* consecutive and commands are in order, torn or not (Ordered, Current);  *)
(* that is enough for a command to be received once and not before all of  *)
(* it was posted.  Unless torn, the stream is one of whole commands but    *)
(* for the last (Whole): a send that ends with only a part of its command  *)
(* posted has marked the device, so nothing follows it before a recovery.  *)
(***************************************************************************)
EXTENDS CommandTransport, TLAPS

-----------------------------------------------------------------------------
(* The encoders *)

(* What the calls of a writer come to, one after the other *)
LEMMA JoinedWidth == ASSUME NEW a, NEW b PROVE (a ++ b).width = a.width + b.width BY DEF ++
LEMMA JoinedFits == ASSUME NEW a, NEW b PROVE (a ++ b).fits <=> (a.fits /\ b.fits) BY DEF ++
LEMMA BytesWidth == ASSUME NEW n PROVE Bytes(n).width = n BY DEF Bytes
LEMMA BytesFit == ASSUME NEW n PROVE Bytes(n).fits BY DEF Bytes
LEMMA FixedWidth == ASSUME NEW n, NEW w PROVE Fixed(n, w).width = w BY DEF Fixed
LEMMA FixedFits == ASSUME NEW n, NEW w PROVE Fixed(n, w).fits <=> (n <= w) BY DEF Fixed
LEMMA SsidWidth == ASSUME NEW n PROVE Ssid(n).width = 33 BY DEF Ssid, MAX_SSID_LEN
LEMMA SsidFits == ASSUME NEW n PROVE Ssid(n).fits <=> (n <= 32) BY DEF Ssid, MAX_SSID_LEN
LEMMA IeWidth == ASSUME NEW n PROVE Ie(n).width = 402 BY DEF Ie, MAX_IE_LEN
LEMMA IeFits == ASSUME NEW n PROVE Ie(n).fits <=> (n <= 400) BY DEF Ie, MAX_IE_LEN

(* What a request may be, member by member *)
LEMMA RequestParts ==
  ASSUME NEW r \in RequestType
  PROVE  /\ r.op \in Operations
         /\ r.ssid \in Nat /\ r.ie \in Nat /\ r.bss \in Nat /\ r.sae \in Nat
         /\ r.key \in Nat \cup {NoKey} /\ r.seq \in Nat /\ r.index \in Nat
         /\ r.secure \in BOOLEAN /\ r.pairwise \in Nat /\ r.akm \in Nat
         /\ r.frequencies \in Nat /\ r.ssids \in Nat /\ r.name \in Nat
         /\ r.room \in Nat
         /\ r.key = NoKey => r.op = "authenticate"
  BY DEF RequestType

LEMMA KeyInfoRight ==
  ASSUME NEW r \in RequestType
  PROVE  /\ KeyInfo(r).width = KEY_INFO_LEN
         /\ KeyInfo(r).fits <=> (r.key # NoKey => r.key <= 256 /\ r.seq <= 256)
<1> USE DEF KeyInfo, KEY_INFO_LEN, MAX_KEY_LEN
<1>1. CASE r.key = NoKey BY <1>1, BytesWidth, BytesFit
<1>2. CASE r.key # NoKey
  <2>1. KeyInfo(r).width = KEY_INFO_LEN
    BY <1>2, JoinedWidth, BytesWidth, FixedWidth
  <2>2. KeyInfo(r).fits <=> r.key <= 256 /\ r.seq <= 256
    BY <1>2, JoinedFits, BytesFit, FixedFits
  <2> QED BY <1>2, <2>1, <2>2
<1> QED BY <1>1, <1>2

LEMMA AuthenticationRight ==
  ASSUME NEW r \in RequestType
  PROVE  /\ AuthenticationBody(r).width = 4 + AUTH_INFO_LEN
         /\ AuthenticationBody(r).fits <=>
              /\ r.ssid <= 32 /\ r.ie <= 400 /\ r.bss <= 400 /\ r.sae <= 256
              /\ r.key # NoKey => r.key <= 256 /\ r.seq <= 256
<1>1. AuthenticationBody(r).width = 4 + AUTH_INFO_LEN
  BY KeyInfoRight, JoinedWidth, BytesWidth, FixedWidth, SsidWidth, IeWidth
  DEF AuthenticationBody, AUTH_INFO_LEN, KEY_INFO_LEN, MAX_SAE_LEN
<1>2. AuthenticationBody(r).fits <=>
        /\ KeyInfo(r).fits
        /\ r.ssid <= 32 /\ r.ie <= 400 /\ r.bss <= 400 /\ r.sae <= 256
  BY JoinedFits, BytesFit, FixedFits, SsidFits, IeFits DEF AuthenticationBody, MAX_SAE_LEN
<1> QED BY <1>1, <1>2, KeyInfoRight

LEMMA AssociationRight ==
  ASSUME NEW r \in RequestType
  PROVE  /\ AssociationBody(r).width = 4 + CONNECT_COMMON_INFO_LEN + 6
         /\ AssociationBody(r).fits <=>
              /\ r.ssid <= 32
              /\ r.secure => r.ie <= 400 /\ r.pairwise <= 7 /\ r.akm <= 2
<1>1. AssociationBody(r).width = 4 + CONNECT_COMMON_INFO_LEN + 6
  BY JoinedWidth, BytesWidth, FixedWidth, SsidWidth, IeWidth
  DEF AssociationBody, CONNECT_COMMON_INFO_LEN
<1>2. CASE r.secure
  BY <1>1, <1>2, RequestParts, JoinedFits, BytesFit, FixedFits, SsidFits, IeFits DEF AssociationBody
<1>3. CASE ~r.secure
  BY <1>1, <1>3, RequestParts, JoinedFits, BytesFit, FixedFits, SsidFits, IeFits DEF AssociationBody
<1> QED BY <1>2, <1>3

LEMMA ScanRight ==
  ASSUME NEW r \in RequestType
  PROVE  /\ ScanBody(r).width = 4 + 486 + 4 * r.frequencies
         /\ ScanBody(r).fits <=>
              /\ r.ie <= 400
              /\ r.ssids > 0 => r.ssid <= 32
<1>1. ScanBody(r).width = 4 + 486 + 4 * r.frequencies
  BY RequestParts, JoinedWidth, BytesWidth, FixedWidth DEF ScanBody, MAX_SSID_LEN
<1>2. ScanBody(r).fits <=>
        /\ (IF 0 < r.ssids THEN r.ssid ELSE 0) <= 32
        /\ (IF 1 < r.ssids THEN r.ssid ELSE 0) <= 32
        /\ r.ie <= 400
  BY JoinedFits, BytesFit, FixedFits DEF ScanBody, MAX_SSID_LEN
<1> QED BY <1>1, <1>2, RequestParts

LEMMA SystemInitRight == SystemInitBody.width = SYSTEM_INIT_LEN /\ SystemInitBody.fits
<1>1. SystemInitBody.width = SYSTEM_INIT_LEN
  BY JoinedWidth, BytesWidth DEF SystemInitBody, SYSTEM_INIT_LEN
<1>2. SystemInitBody.fits BY JoinedFits, BytesFit DEF SystemInitBody
<1> QED BY <1>1, <1>2

LEMMA FixedBodiesRight ==
  /\ DefaultKeyInfo.width = KEY_INFO_LEN /\ DefaultKeyInfo.fits
  /\ AuthorizeBody.width = 4 + CHANGE_STATION_INFO_LEN /\ AuthorizeBody.fits
  /\ DeauthenticateBody.width = 14 /\ DeauthenticateBody.fits
<1> USE JoinedWidth, JoinedFits, BytesWidth, BytesFit
<1>1. DefaultKeyInfo.width = KEY_INFO_LEN /\ DefaultKeyInfo.fits
  BY DEF DefaultKeyInfo, KEY_INFO_LEN, MAX_KEY_LEN
<1>2. AuthorizeBody.width = 4 + CHANGE_STATION_INFO_LEN /\ AuthorizeBody.fits
  BY DEF AuthorizeBody, CHANGE_STATION_INFO_LEN
<1>3. DeauthenticateBody.width = 14 /\ DeauthenticateBody.fits
  BY DEF DeauthenticateBody
<1> QED BY <1>1, <1>2, <1>3

LEMMA SmallBodiesRight ==
  ASSUME NEW r \in RequestType
  PROVE  /\ KeyCommandBody(r).width = 4 + KEY_INFO_LEN + 6
         /\ KeyCommandBody(r).fits <=> KeyInfo(r).fits
         /\ NewInterfaceBody(r).width = 38
         /\ NewInterfaceBody(r).fits <=> r.name <= 16
<1>1. KeyCommandBody(r).width = 4 + KEY_INFO_LEN + 6
  BY KeyInfoRight, JoinedWidth, BytesWidth DEF KeyCommandBody, KEY_INFO_LEN
<1>2. KeyCommandBody(r).fits <=> KeyInfo(r).fits
  BY JoinedFits, BytesFit DEF KeyCommandBody
<1>3. NewInterfaceBody(r).width = 38
  BY JoinedWidth, BytesWidth, FixedWidth DEF NewInterfaceBody
<1>4. NewInterfaceBody(r).fits <=> r.name <= 16
  BY JoinedFits, BytesFit, FixedFits DEF NewInterfaceBody
<1> QED BY <1>1, <1>2, <1>3, <1>4

(* What the envelope allows a body *)
Enveloped(r) ==
  /\ r.op \in InnerBuffered => BodyLen(r) <= 1024 - HeaderLen
  /\ r.op \notin InnerBuffered => BodyLen(r) <= MAX_STATION_MESSAGE_LEN - HeaderLen

(* An encoder fills its body to the end, what it checks beforehand is what *)
(* the fields can hold, and a body it accepts is small enough for the      *)
(* envelope.                                                               *)
LEMMA BodyRight ==
  ASSUME NEW r \in RequestType
  PROVE  /\ BodyLen(r) \in Nat \ {0}
         /\ Width(r) = BodyLen(r)
         /\ Validate(r) <=> Admissible(r)
         /\ Validate(r) => Enveloped(r)
<1> USE DEF Width, Fits, Admissible, Enveloped, MAX_SSID_LEN,
            MAX_IE_LEN, MAX_SAE_LEN, MAX_KEY_LEN, NoKey, KEY_INFO_LEN,
            AUTH_INFO_LEN, CONNECT_COMMON_INFO_LEN, CHANGE_STATION_INFO_LEN,
            SYSTEM_INIT_LEN, HeaderLen, MAX_STATION_MESSAGE_LEN, InnerBuffered
<1>1. CASE r.op = "authenticate"
  <2>1. Validate(r) <=> ValidateAuthentication(r) BY <1>1 DEF Validate
  <2>2. Body(r) = AuthenticationBody(r) BY <1>1 DEF Body
  <2>3. BodyLen(r) = 4 + AUTH_INFO_LEN BY <1>1 DEF BodyLen
  <2> QED BY <1>1, <2>1, <2>2, <2>3, RequestParts, AuthenticationRight
      DEF ValidateAuthentication, ValidateKey
<1>2. CASE r.op = "associate"
  <2>1. Validate(r) <=> ValidateAssociation(r) BY <1>2 DEF Validate
  <2>2. Body(r) = AssociationBody(r) BY <1>2 DEF Body
  <2>3. BodyLen(r) = 4 + CONNECT_COMMON_INFO_LEN + 6 BY <1>2 DEF BodyLen
  <2> QED BY <1>2, <2>1, <2>2, <2>3, RequestParts, AssociationRight DEF ValidateAssociation
<1>3. CASE r.op = "newKey"
  <2>1. Validate(r) <=> ValidateKey(r) BY <1>3 DEF Validate
  <2>2. Body(r) = KeyCommandBody(r) BY <1>3 DEF Body
  <2>3. BodyLen(r) = 4 + KEY_INFO_LEN + 6 BY <1>3 DEF BodyLen
  <2> QED BY <1>3, <2>1, <2>2, <2>3, RequestParts, SmallBodiesRight, KeyInfoRight DEF ValidateKey
<1>4. CASE r.op = "setKey"
  <2>1. Validate(r) <=> ValidateKey(r) BY <1>4 DEF Validate
  <2>2. Body(r) = DefaultKeyInfo BY <1>4 DEF Body
  <2>3. BodyLen(r) = KEY_INFO_LEN BY <1>4 DEF BodyLen
  <2> QED BY <1>4, <2>1, <2>2, <2>3, RequestParts, FixedBodiesRight DEF ValidateKey
<1>5. CASE r.op = "interfaceState"
  <2>1. Validate(r) <=> TRUE BY <1>5 DEF Validate
  <2>2. Body(r) = Bytes(4 + 1) BY <1>5 DEF Body
  <2>3. BodyLen(r) = 5 BY <1>5 DEF BodyLen
  <2> QED BY <1>5, <2>1, <2>2, <2>3, RequestParts, BytesWidth, BytesFit
<1>6. CASE r.op = "regulatory"
  <2>1. Validate(r) <=> TRUE BY <1>6 DEF Validate
  <2>2. Body(r) = Bytes(4 + 4 + 2) BY <1>6 DEF Body
  <2>3. BodyLen(r) = 10 BY <1>6 DEF BodyLen
  <2> QED BY <1>6, <2>1, <2>2, <2>3, RequestParts, BytesWidth, BytesFit
<1>7. CASE r.op = "powerSave"
  <2>1. Validate(r) <=> TRUE BY <1>7 DEF Validate
  <2>2. Body(r) = Bytes(4) BY <1>7 DEF Body
  <2>3. BodyLen(r) = 4 BY <1>7 DEF BodyLen
  <2> QED BY <1>7, <2>1, <2>2, <2>3, RequestParts, BytesWidth, BytesFit
<1>8. CASE r.op = "powerSaveTimeout"
  <2>1. Validate(r) <=> TRUE BY <1>8 DEF Validate
  <2>2. Body(r) = Bytes(4) BY <1>8 DEF Body
  <2>3. BodyLen(r) = 4 BY <1>8 DEF BodyLen
  <2> QED BY <1>8, <2>1, <2>2, <2>3, RequestParts, BytesWidth, BytesFit
<1>9. CASE r.op = "authorize"
  <2>1. Validate(r) <=> TRUE BY <1>9 DEF Validate
  <2>2. Body(r) = AuthorizeBody BY <1>9 DEF Body
  <2>3. BodyLen(r) = 4 + CHANGE_STATION_INFO_LEN BY <1>9 DEF BodyLen
  <2> QED BY <1>9, <2>1, <2>2, <2>3, RequestParts, FixedBodiesRight
<1>10. CASE r.op = "newInterface"
  <2>1. Validate(r) <=> r.name <= 16 BY <1>10 DEF Validate
  <2>2. Body(r) = NewInterfaceBody(r) BY <1>10 DEF Body
  <2>3. BodyLen(r) = 38 BY <1>10 DEF BodyLen
  <2> QED BY <1>10, <2>1, <2>2, <2>3, RequestParts, SmallBodiesRight
<1>11. CASE r.op = "scan"
  <2>1. Validate(r) <=> ValidateScan(r) BY <1>11 DEF Validate
  <2>2. Body(r) = ScanBody(r) BY <1>11 DEF Body
  <2>3. BodyLen(r) = 4 + 486 + 4 * r.frequencies BY <1>11 DEF BodyLen
  <2> QED BY <1>11, <2>1, <2>2, <2>3, RequestParts, ScanRight DEF ValidateScan
<1>12. CASE r.op = "scanResults"
  <2>1. Validate(r) <=> TRUE BY <1>12 DEF Validate
  <2>2. Body(r) = Bytes(4) BY <1>12 DEF Body
  <2>3. BodyLen(r) = 4 BY <1>12 DEF BodyLen
  <2> QED BY <1>12, <2>1, <2>2, <2>3, RequestParts, BytesWidth, BytesFit
<1>13. CASE r.op = "deauthenticate"
  <2>1. Validate(r) <=> TRUE BY <1>13 DEF Validate
  <2>2. Body(r) = DeauthenticateBody BY <1>13 DEF Body
  <2>3. BodyLen(r) = 14 BY <1>13 DEF BodyLen
  <2> QED BY <1>13, <2>1, <2>2, <2>3, RequestParts, FixedBodiesRight
<1>14. CASE r.op = "systemInit"
  <2>1. Validate(r) <=> TRUE BY <1>14 DEF Validate
  <2>2. Body(r) = SystemInitBody BY <1>14 DEF Body
  <2>3. BodyLen(r) = SYSTEM_INIT_LEN BY <1>14 DEF BodyLen
  <2> QED BY <1>14, <2>1, <2>2, <2>3, RequestParts, SystemInitRight
<1> QED BY <1>1, <1>2, <1>3, <1>4, <1>5, <1>6, <1>7, <1>8, <1>9, <1>10, <1>11, <1>12,
           <1>13, <1>14, RequestParts DEF Operations

(* The encoders do what they should with every request there is. *)
LEMMA AlwaysEncodesRight == ASSUME NEW r \in RequestType PROVE EncodesRight(r)
<1>1. /\ BodyLen(r) \in Nat \ {0} /\ r.room \in Nat
      /\ Width(r) = BodyLen(r)
      /\ Validate(r) <=> Admissible(r)
      /\ Validate(r) => Enveloped(r)
  BY BodyRight, RequestParts
<1>2. Validate(r) => Fits(r) BY <1>1 DEF Admissible
<1>3. Validate(r) => (Room(r) <=> Total(r) <= r.room)
  BY <1>1 DEF Room, Total, Enveloped, HeaderLen, MAX_STATION_MESSAGE_LEN, MAX_UMAC_INNER_LEN
<1>4. CASE ~Validate(r) BY <1>1, <1>4 DEF EncodesRight, Encode
<1>5. CASE Validate(r) /\ ~Room(r)
  <2>1. Encode(r) = "small" BY <1>5 DEF Encode
  <2>2. ~ (Width(r) + Total(r) - BodyLen(r) <= r.room)
    BY <1>1, <1>3, <1>5 DEF Total, HeaderLen
  <2> QED BY <2>1, <2>2 DEF EncodesRight
<1>6. CASE Validate(r) /\ Room(r)
  <2>1. Encode(r) = "ok" BY <1>1, <1>2, <1>6 DEF Encode
  <2>2. Width(r) + Total(r) - BodyLen(r) <= r.room
    BY <1>1, <1>3, <1>6 DEF Total, HeaderLen
  <2> QED BY <1>1, <1>6, <2>1, <2>2 DEF EncodesRight
<1> QED BY <1>4, <1>5, <1>6

(* What is sent is of a length the envelope allows. *)
LEMMA SentLength ==
  ASSUME NEW r \in RequestType, Encode(r) = "ok"
  PROVE  Total(r) \in 1 .. MAX_STATION_MESSAGE_LEN
<1>1. Validate(r) /\ Room(r)
  <2>1. CASE ~Validate(r) BY <2>1 DEF Encode
  <2>2. CASE Validate(r) /\ ~Room(r) BY <2>2 DEF Encode
  <2> QED BY <2>1, <2>2
<1>2. Total(r) \in Nat \ {0} BY BodyRight DEF Total, HeaderLen
<1>3. CASE r.op \in InnerBuffered
  BY <1>1, <1>2, <1>3 DEF Room, MAX_STATION_MESSAGE_LEN, MAX_UMAC_INNER_LEN
<1>4. CASE r.op \notin InnerBuffered
  BY <1>1, <1>2, <1>4 DEF Room, MAX_STATION_MESSAGE_LEN
<1> QED BY <1>3, <1>4

LEMMA ChunksRight ==
  ASSUME NEW n \in 1 .. MAX_STATION_MESSAGE_LEN
  PROVE  Chunks(n) \in 1 .. MaxLen
  BY CommandAssumption, SMTT(20) DEF Chunks, MaxLen, MAX_STATION_MESSAGE_LEN

LEMMA EncodingsRight ==
  ASSUME NEW e \in Encodings
  PROVE  e.right /\ (e.sent => e.len \in 1 .. MaxLen)
<1>1. PICK r \in Requests :
        e = [sent |-> Encode(r) = "ok", len |-> Chunks(Total(r)), right |-> EncodesRight(r)]
  BY DEF Encodings
<1>2. r \in RequestType BY CommandAssumption
<1>3. e.right BY <1>1, <1>2, AlwaysEncodesRight
<1>4. e.sent => Encode(r) = "ok" BY <1>1
<1>5. e.len = Chunks(Total(r)) BY <1>1
<1> QED BY <1>2, <1>3, <1>4, <1>5, SentLength, ChunksRight

-----------------------------------------------------------------------------
(* The inductive invariant *)

(* The fragments the firmware has not put together yet, in order: those of *)
(* the command in assembly, then those in its queue                        *)
Queued == Len(assembly) + Len(busy)
Stream ==
  [k \in 1 .. Queued |->
    IF k <= Len(assembly) THEN assembly[k] ELSE busy[k - Len(assembly)]]

(* The fragments of the current command that have been posted *)
Posted == IF pc = "trigger" THEN index ELSE index - 1

Active == pc # "idle"

(* The sender: it is at a fragment of a command, of an operational device, *)
(* and has a poll left when it looks for a buffer.                         *)
SendInv ==
  /\ index <= len
  /\ Active => cmd \in Commands /\ ~required
  /\ pc = "buffer" => tries > 0

(* Buffers are free, in the queue or in the hands of the sender; a failed  *)
(* transfer can lose one, nothing makes one.                               *)
BufferInv == free + Len(busy) + (IF pc \in {"write", "enqueue"} THEN 1 ELSE 0) <= Pool

(* Commands are sent in the order of their numbers, one at a time. *)
StatusInv ==
  \A c \in Commands :
    /\ status[c] = "new" <=> c > cmd
    /\ status[c] = "sending" <=> (c = cmd /\ Active)
    /\ status[c] = "uncertain" => required

Assembling == assembly # <<>> => Len(assembly) < assembly[1].len

(* Each fragment is of a command that was sent and not received yet. *)
Pieces ==
  \A k \in 1 .. Queued :
    /\ Stream[k].index <= Stream[k].len
    /\ Stream[k].command <= cmd
    /\ status[Stream[k].command] \in {"sending", "ok", "uncertain", "dropped"}
    /\ \A x \in received : x < Stream[k].command

(* Commands keep their order, and the fragments of a command theirs. *)
Ordered ==
  \A j, k \in 1 .. Queued :
    j <= k =>
      /\ Stream[j].command <= Stream[k].command
      /\ Stream[j].command = Stream[k].command =>
           Stream[j].len = Stream[k].len /\ Stream[k].index - Stream[j].index = k - j

(* The fragments of the current command are the last ones, up to the last  *)
(* one posted.                                                             *)
Current ==
  Active =>
    \A k \in 1 .. Queued :
      Stream[k].command = cmd =>
        Stream[k].len = len /\ Posted - Stream[k].index = Queued - k

(* A command is received no earlier than all of it was posted. *)
ReceivedInv ==
  /\ \A x \in received : x <= cmd
  /\ Active /\ cmd \in received => Posted = len

(* Unless a dropped send has torn it, the stream is one of whole commands  *)
(* but for the one being sent, and every accepted command is in it until   *)
(* it is received.                                                         *)
Whole ==
  /\ Queued > 0 => Stream[1].index = 1
  /\ \A k \in 2 .. Queued :
       Stream[k - 1].command # Stream[k].command =>
         Stream[k].index = 1 /\ Stream[k - 1].index = Stream[k - 1].len
  /\ Queued > 0 =>
       \/ Stream[Queued].index = Stream[Queued].len
       \/ required
       \/ Active /\ Stream[Queued].command = cmd
  /\ Active /\ Posted > 0 =>
       \/ Queued > 0 /\ Stream[Queued].command = cmd
       \/ cmd \in received
  /\ \A b \in Commands :
       status[b] = "ok" /\ b \notin received =>
         \E k \in 1 .. Queued : Stream[k].command = b

WholeInv == torn \/ Whole

IInv ==
  /\ TypeOK /\ SendInv /\ BufferInv /\ StatusInv /\ Assembling /\ Pieces
  /\ Ordered /\ Current /\ ReceivedInv /\ WholeInv /\ NoSplice /\ EncodedRight

-----------------------------------------------------------------------------
(* The stream *)

LEMMA StreamType ==
  ASSUME TypeOK
  PROVE  /\ Queued \in Nat
         /\ DOMAIN Stream = 1 .. Queued
         /\ \A k \in 1 .. Queued :
              /\ Stream[k] \in Fragments
              /\ Stream[k].command \in Commands /\ Stream[k].command \in Nat
              /\ Stream[k].index \in Nat \ {0} /\ Stream[k].len \in Nat \ {0}
<1>1. Len(assembly) \in Nat /\ Len(busy) \in Nat BY DEF TypeOK
<1>2. Queued \in Nat BY <1>1 DEF Queued
<1>3. ASSUME NEW k \in 1 .. Queued PROVE Stream[k] \in Fragments
  <2>1. CASE k <= Len(assembly) BY <1>1, <1>2, <2>1 DEF TypeOK, Stream
  <2>2. CASE k > Len(assembly)
    <3>1. k - Len(assembly) \in 1 .. Len(busy) BY <1>1, <1>2, <2>2 DEF Queued
    <3> QED BY <1>1, <1>2, <2>2, <3>1 DEF TypeOK, Stream
  <2> QED BY <1>1, <1>2, <2>1, <2>2
<1>4. MaxCommands \in Nat BY CommandAssumption
<1>5. ASSUME NEW f \in Fragments
      PROVE  /\ f.command \in Commands /\ f.command \in Nat
             /\ f.index \in Nat \ {0} /\ f.len \in Nat \ {0}
  BY <1>4 DEF Fragments, Commands
<1> QED BY <1>2, <1>3, <1>5 DEF Stream

(* The fragment at a place, before and after a step *)
LEMMA Place ==
  ASSUME NEW k \in 1 .. Queued
  PROVE  Stream[k] = IF k <= Len(assembly) THEN assembly[k] ELSE busy[k - Len(assembly)]
  BY DEF Stream

LEMMA PlaceNext ==
  ASSUME NEW k \in 1 .. Queued'
  PROVE  Stream'[k] =
           IF k <= Len(assembly') THEN assembly'[k] ELSE busy'[k - Len(assembly')]
  BY DEF Stream

(* What a step does to the stream *)
Kept  == Queued' = Queued /\ Stream' = Stream
Grown ==
  /\ Queued' = Queued + 1
  /\ \A k \in 1 .. Queued : Stream'[k] = Stream[k]
  /\ Stream'[Queued + 1] = Piece
Cut(n) ==
  /\ n <= Queued
  /\ Queued' = Queued - n
  /\ \A k \in 1 .. Queued - n : Stream'[k] = Stream[k + n]

LEMMA Keeps == ASSUME UNCHANGED <<assembly, busy>> PROVE Kept
  BY DEF Kept, Stream, Queued

LEMMA Grows ==
  ASSUME TypeOK, Piece \in Fragments, busy' = Append(busy, Piece), UNCHANGED assembly
  PROVE  Grown
<1>1. /\ Len(assembly) \in Nat /\ Len(busy) \in Nat
      /\ Len(busy') = Len(busy) + 1
      /\ \A k \in 1 .. Len(busy) : busy'[k] = busy[k]
      /\ busy'[Len(busy) + 1] = Piece
  BY DEF TypeOK
<1>2. Queued' = Queued + 1 BY <1>1 DEF Queued
<1>3. ASSUME NEW k \in 1 .. Queued PROVE Stream'[k] = Stream[k]
  <2>1. k \in 1 .. Queued' BY <1>1, <1>2 DEF Queued
  <2>2. CASE k <= Len(assembly) BY <1>1, <2>1, <2>2 DEF Stream
  <2>3. CASE k > Len(assembly)
    <3>1. k - Len(assembly) \in 1 .. Len(busy) BY <1>1, <2>3 DEF Queued
    <3> QED BY <1>1, <2>1, <2>3, <3>1 DEF Stream
  <2> QED BY <1>1, <2>2, <2>3 DEF Queued
<1>4. Stream'[Queued + 1] = Piece
  <2>1. Queued + 1 \in 1 .. Queued' BY <1>1, <1>2 DEF Queued
  <2>2. Queued + 1 > Len(assembly') BY <1>1 DEF Queued
  <2>3. (Queued + 1) - Len(assembly') = Len(busy) + 1 BY <1>1 DEF Queued
  <2>4. Stream'[Queued + 1] = busy'[(Queued + 1) - Len(assembly')]
    <3> DEFINE j == Queued + 1
    <3>1. j \in 1 .. Queued' /\ ~ (j <= Len(assembly')) BY <1>1, <2>1, <2>2 DEF Queued
    <3> HIDE DEF j
    <3>2. Stream'[j] = busy'[j - Len(assembly')] BY <3>1, PlaceNext
    <3> QED BY <3>2 DEF j
  <2> QED BY <1>1, <2>3, <2>4
<1> QED BY <1>2, <1>3, <1>4 DEF Grown

(* The firmware takes a fragment: the stream stays, or loses a command. *)
LEMMA Takes ==
  ASSUME TypeOK, busy # <<>>, busy' = Tail(busy),
         assembly' = Append(assembly, Head(busy))
  PROVE  /\ Queued' = Queued
         /\ \A k \in 1 .. Queued : Stream'[k] = Stream[k]
<1>1. /\ Len(assembly) \in Nat /\ Len(busy) \in Nat /\ Len(busy) > 0
      /\ Head(busy) = busy[1] /\ Head(busy) \in Fragments
      /\ Len(busy') = Len(busy) - 1
      /\ \A k \in 1 .. Len(busy) - 1 : busy'[k] = busy[k + 1]
      /\ Len(assembly') = Len(assembly) + 1
      /\ \A k \in 1 .. Len(assembly) : assembly'[k] = assembly[k]
      /\ assembly'[Len(assembly) + 1] = busy[1]
  BY DEF TypeOK
<1>2. Queued' = Queued BY <1>1 DEF Queued
<1>3. ASSUME NEW k \in 1 .. Queued PROVE Stream'[k] = Stream[k]
  <2>1. k \in 1 .. Queued' /\ k \in Int BY <1>1, <1>2 DEF Queued
  <2>2. CASE k <= Len(assembly) BY <1>1, <2>1, <2>2 DEF Stream
  <2>3. CASE k = Len(assembly) + 1 BY <1>1, <2>1, <2>3 DEF Stream
  <2>4. CASE k > Len(assembly) + 1
    <3>1. Stream'[k] = busy'[k - Len(assembly')]
      <4>1. ~ (k <= Len(assembly')) BY <1>1, <2>1, <2>4
      <4> QED BY <2>1, <4>1, PlaceNext
    <3>2. Stream[k] = busy[k - Len(assembly)] BY <1>1, <2>4 DEF Stream
    <3>3. k - Len(assembly') \in 1 .. Len(busy) - 1 BY <1>1, <2>4 DEF Queued
    <3>4. k - Len(assembly') + 1 = k - Len(assembly) BY <1>1, <2>1
    <3> QED BY <1>1, <3>1, <3>2, <3>3, <3>4
  <2> QED BY <1>1, <2>1, <2>2, <2>3, <2>4
<1> QED BY <1>2, <1>3

LEMMA Cuts ==
  ASSUME TypeOK, busy # <<>>, busy' = Tail(busy), assembly' = <<>>
  PROVE  Cut(Len(assembly) + 1)
<1>1. /\ Len(assembly) \in Nat /\ Len(busy) \in Nat /\ Len(busy) > 0
      /\ Len(busy') = Len(busy) - 1
      /\ \A k \in 1 .. Len(busy) - 1 : busy'[k] = busy[k + 1]
      /\ Len(assembly') = 0
  BY DEF TypeOK
<1> DEFINE n == Len(assembly) + 1
<1>2. n \in Nat /\ n <= Queued /\ Queued' = Queued - n BY <1>1 DEF Queued
<1>3. ASSUME NEW k \in 1 .. Queued - n PROVE Stream'[k] = Stream[k + n]
  <2>1. k \in 1 .. Queued' /\ k + n \in 1 .. Queued /\ k \in Int BY <1>1, <1>2 DEF Queued
  <2>2. Stream'[k] = busy'[k]
    <3>1. ~ (k <= Len(assembly')) /\ k - Len(assembly') = k BY <1>1, <2>1
    <3> QED BY <2>1, <3>1, PlaceNext
  <2>3. k + n > Len(assembly) /\ k + n - Len(assembly) = k + 1 BY <1>1, <2>1
  <2>4. Stream[k + n] = busy[k + 1] BY <2>1, <2>3 DEF Stream
  <2>5. k \in 1 .. Len(busy) - 1 BY <1>1, <2>1 DEF Queued
  <2> QED BY <1>1, <2>2, <2>4, <2>5
<1> QED BY <1>2, <1>3 DEF Cut

-----------------------------------------------------------------------------
(* Facts of every state *)

LEMMA PieceType == ASSUME IInv, Active PROVE Piece \in Fragments
  BY CommandAssumption DEF IInv, TypeOK, SendInv, Active, Piece, Fragments, Commands

LEMMA PostedType ==
  ASSUME IInv
  PROVE  /\ Posted \in Nat /\ len \in Nat \ {0} /\ index \in Nat \ {0}
         /\ Posted <= len /\ cmd \in Nat /\ index <= len
         /\ pc = "trigger" => Posted = index
         /\ pc # "trigger" => Posted = index - 1
<1>1. MaxLen \in Nat
  BY CommandAssumption DEF MaxLen, Chunks, MAX_STATION_MESSAGE_LEN
<1> QED BY <1>1, CommandAssumption DEF IInv, TypeOK, SendInv, Posted

LEMMA Unposted ==
  ASSUME IInv, Active, Posted = 0
  PROVE  \A k \in 1 .. Queued : Stream[k].command # cmd
<1> SUFFICES ASSUME NEW k \in 1 .. Queued, Stream[k].command = cmd PROVE FALSE
  OBVIOUS
<1>1. Posted - Stream[k].index = Queued - k BY DEF IInv, Current
<1> QED BY <1>1, StreamType DEF IInv

LEMMA LastPosted ==
  ASSUME IInv, Active, Queued > 0, Stream[Queued].command = cmd
  PROVE  Stream[Queued].index = Posted /\ Stream[Queued].len = len
<1>1. Queued \in 1 .. Queued /\ Stream[Queued].index \in Nat BY StreamType DEF IInv
<1>2. Posted - Stream[Queued].index = Queued - Queued /\ Stream[Queued].len = len
  BY <1>1 DEF IInv, Current
<1> QED BY <1>1, <1>2, PostedType, StreamType DEF IInv

LEMMA NotReceived ==
  ASSUME IInv, Active, Posted < len
  PROVE  cmd \notin received /\ \A x \in received : x < cmd
<1>1. cmd \notin received BY PostedType DEF IInv, ReceivedInv
<1>2. received \subseteq Nat BY CommandAssumption DEF IInv, TypeOK, Commands
<1>3. \A x \in received : x <= cmd BY DEF IInv, ReceivedInv
<1> QED BY <1>1, <1>2, <1>3, PostedType

-----------------------------------------------------------------------------
(* A fragment is posted *)

LEMMA GrownPlaces ==
  ASSUME IInv, Grown, NEW k \in 1 .. Queued'
  PROVE  /\ k \in Nat /\ Queued \in Nat
         /\ \/ k \in 1 .. Queued /\ Stream'[k] = Stream[k]
            \/ k = Queued + 1 /\ Stream'[k] = Piece
<1>1. Queued \in Nat BY StreamType DEF IInv
<1> QED BY <1>1 DEF Grown

LEMMA PieceMembers == Piece.command = cmd /\ Piece.index = index /\ Piece.len = len
  BY DEF Piece

LEMMA GrownOrdered ==
  ASSUME IInv, pc = "enqueue", Grown
  PROVE  Ordered'
<1> USE DEF Active
<1>1. Queued \in Nat BY StreamType DEF IInv
<1> SUFFICES ASSUME NEW j \in 1 .. Queued', NEW k \in 1 .. Queued', j <= k
             PROVE  /\ Stream'[j].command <= Stream'[k].command
                    /\ Stream'[j].command = Stream'[k].command =>
                         /\ Stream'[j].len = Stream'[k].len
                         /\ Stream'[k].index - Stream'[j].index = k - j
  BY DEF Ordered
<1>2. CASE k \in 1 .. Queued
  <2>1. j \in 1 .. Queued BY <1>1, <1>2, GrownPlaces
  <2> QED BY <1>2, <2>1 DEF Grown, IInv, Ordered
<1>3. CASE k = Queued + 1 /\ j \in 1 .. Queued
  <2>1. Stream'[j] = Stream[j] /\ Stream'[k] = Piece BY <1>3 DEF Grown
  <2>2. Stream[j].command <= cmd BY <1>3 DEF IInv, Pieces
  <2>3. Stream[j].command = cmd =>
          Stream[j].len = len /\ Posted - Stream[j].index = Queued - j
    BY <1>3 DEF IInv, Current
  <2>4. Stream[j].index \in Nat BY <1>3, StreamType DEF IInv
  <2> QED BY <1>1, <1>3, <2>1, <2>2, <2>3, <2>4, PieceMembers, PostedType
<1>4. CASE k = Queued + 1 /\ j = Queued + 1
  <2>1. Stream'[j] = Piece /\ Stream'[k] = Piece BY <1>4 DEF Grown
  <2> QED BY <1>1, <1>4, <2>1, PieceMembers, PostedType
<1> QED BY <1>1, <1>2, <1>3, <1>4, GrownPlaces

(* Commands stay whole when the next fragment follows. *)
LEMMA GrownWhole ==
  ASSUME IInv, pc = "enqueue", Grown, Whole
  PROVE  /\ Stream'[1].index = 1
         /\ \A k \in 2 .. Queued' :
              Stream'[k - 1].command # Stream'[k].command =>
                Stream'[k].index = 1 /\ Stream'[k - 1].index = Stream'[k - 1].len
<1>1. Queued \in Nat BY StreamType DEF IInv
<1>2. Active /\ cmd \notin received /\ ~required
  BY PostedType, NotReceived DEF Active, IInv, SendInv
<1>3. (Queued = 0 \/ Stream[Queued].command # cmd) => index = 1
  BY <1>2, PostedType, <1>1 DEF Whole
<1>4. Stream'[1].index = 1
  <2>1. CASE Queued = 0 BY <1>1, <1>3, <2>1, PieceMembers DEF Grown
  <2>2. CASE Queued > 0 BY <1>1, <2>2 DEF Grown, Whole
  <2> QED BY <1>1, <2>1, <2>2
<1>5. ASSUME NEW k \in 2 .. Queued', Stream'[k - 1].command # Stream'[k].command
      PROVE  Stream'[k].index = 1 /\ Stream'[k - 1].index = Stream'[k - 1].len
  <2>1. k \in 1 .. Queued' /\ k - 1 \in 1 .. Queued' /\ k - 1 \in 1 .. Queued
    BY <1>1 DEF Grown
  <2>2. Stream'[k - 1] = Stream[k - 1] BY <2>1 DEF Grown
  <2>3. CASE k \in 1 .. Queued
    <3>1. k \in 2 .. Queued /\ Stream'[k] = Stream[k] BY <1>1, <2>1, <2>3 DEF Grown
    <3> QED BY <1>5, <2>2, <3>1 DEF Whole
  <2>4. CASE k = Queued + 1
    <3>1. Stream'[k] = Piece /\ k - 1 = Queued BY <1>1, <2>4 DEF Grown
    <3>2. Stream[Queued].command # cmd /\ Queued > 0
      BY <1>5, <2>1, <2>2, <3>1, PieceMembers
    <3>3. Stream[Queued].index = Stream[Queued].len BY <1>2, <3>2 DEF Whole
    <3> QED BY <1>3, <2>2, <3>1, <3>2, <3>3, PieceMembers
  <2> QED BY <1>1, <2>1, <2>3, <2>4, GrownPlaces
<1> QED BY <1>4, <1>5

-----------------------------------------------------------------------------
(* The kinds of step, by what they do to the invariant *)

(* The sender goes on to its next transfer. *)
LEMMA Advances ==
  ASSUME IInv, Active, Active', Kept, Posted' = Posted, TypeOK', SendInv', BufferInv',
         UNCHANGED <<cmd, len, status, required, assembly, received, torn, garbled>>
  PROVE  IInv'
<1>1. StatusInv' BY DEF IInv, StatusInv
<1>2. Assembling' BY DEF IInv, Assembling
<1>3. Pieces' BY DEF IInv, Pieces, Kept
<1>4. Ordered' BY DEF IInv, Ordered, Kept
<1>5. Current' BY DEF IInv, Current, Kept
<1>6. ReceivedInv' BY DEF IInv, ReceivedInv
<1>7. WholeInv' BY DEF IInv, WholeInv, Whole, Kept
<1>8. NoSplice' /\ EncodedRight' BY DEF IInv, NoSplice, EncodedRight
<1> QED BY <1>1, <1>2, <1>3, <1>4, <1>5, <1>6, <1>7, <1>8 DEF IInv

(* The sender posts a fragment and goes on. *)
LEMMA Posts ==
  ASSUME IInv, pc = "enqueue", pc' = "trigger", Grown, TypeOK', SendInv', BufferInv',
         UNCHANGED <<cmd, len, index, status, required, assembly, received, torn, garbled>>
  PROVE  IInv'
<1> USE DEF Active
<1>0. Queued \in Nat /\ Posted' = index /\ Posted = index - 1
  BY StreamType DEF IInv, Posted
<1>1. StatusInv' BY DEF IInv, StatusInv
<1>2. Assembling' BY DEF IInv, Assembling
<1>3. Pieces'
  <2> SUFFICES ASSUME NEW k \in 1 .. Queued'
               PROVE  /\ Stream'[k].index <= Stream'[k].len
                      /\ Stream'[k].command <= cmd'
                      /\ status'[Stream'[k].command] \in {"sending", "ok", "uncertain", "dropped"}
                      /\ \A x \in received' : x < Stream'[k].command
    BY DEF Pieces
  <2>1. CASE k \in 1 .. Queued /\ Stream'[k] = Stream[k] BY <2>1 DEF IInv, Pieces
  <2>2. CASE k = Queued + 1 /\ Stream'[k] = Piece
    <3>1. status[cmd] = "sending" /\ cmd \in Commands BY DEF IInv, StatusInv, SendInv
    <3>2. \A x \in received : x < cmd BY PostedType, NotReceived
    <3> QED BY <2>2, <3>1, <3>2, PieceMembers, PostedType
  <2> QED BY <2>1, <2>2, GrownPlaces
<1>4. Ordered' BY GrownOrdered
<1>5. Current'
  <2> SUFFICES ASSUME NEW k \in 1 .. Queued', Stream'[k].command = cmd'
               PROVE  Stream'[k].len = len' /\ Posted' - Stream'[k].index = Queued' - k
    BY DEF Current
  <2>1. CASE k \in 1 .. Queued /\ Stream'[k] = Stream[k]
    <3>1. Stream[k].len = len /\ Posted - Stream[k].index = Queued - k
      BY <2>1 DEF IInv, Current
    <3>2. Stream[k].index \in Nat BY <2>1, StreamType DEF IInv
    <3> QED BY <1>0, <2>1, <3>1, <3>2, PostedType DEF Grown
  <2>2. CASE k = Queued + 1 /\ Stream'[k] = Piece
    BY <1>0, <2>2, PieceMembers, PostedType DEF Grown
  <2> QED BY <2>1, <2>2, GrownPlaces
<1>6. ReceivedInv' BY PostedType, NotReceived DEF IInv, ReceivedInv
<1>7. WholeInv'
  <2> SUFFICES ASSUME ~torn' PROVE Whole' BY DEF WholeInv
  <2>1. Whole BY DEF IInv, WholeInv
  <2>2. Stream'[Queued'] = Piece /\ Queued' > 0 BY <1>0 DEF Grown
  <2>3. ASSUME NEW b \in Commands, status'[b] = "ok", b \notin received'
        PROVE  \E k \in 1 .. Queued' : Stream'[k].command = b
    <3>1. PICK k \in 1 .. Queued : Stream[k].command = b BY <2>1, <2>3 DEF Whole
    <3>2. k \in 1 .. Queued' /\ Stream'[k] = Stream[k] BY <1>0 DEF Grown
    <3> QED BY <3>1, <3>2
  <2>4. Queued' > 0 =>
          \/ Stream'[Queued'].index = Stream'[Queued'].len
          \/ required'
          \/ Active' /\ Stream'[Queued'].command = cmd'
    BY <2>2, PieceMembers
  <2>5. Active' /\ Posted' > 0 =>
          \/ Queued' > 0 /\ Stream'[Queued'].command = cmd'
          \/ cmd' \in received'
    BY <2>2, PieceMembers
  <2> QED BY <2>1, <2>3, <2>4, <2>5, GrownWhole DEF Whole
<1>8. NoSplice' /\ EncodedRight' BY DEF IInv, NoSplice, EncodedRight
<1> QED BY <1>1, <1>2, <1>3, <1>4, <1>5, <1>6, <1>7, <1>8 DEF IInv

(* The send ends.  The fragment at hand may have been posted; a command    *)
(* that was posted in part leaves the device marked or torn.               *)
LEMMA Ends ==
  ASSUME IInv, Active, NEW v \in {"ok", "refused", "uncertain", "dropped"}, End(v),
         TypeOK', BufferInv', UNCHANGED <<assembly, received, garbled>>,
         Kept \/ (pc = "enqueue" /\ Grown),
         v = "refused" => Kept /\ Posted = 0,
         v = "ok" => Kept /\ Posted = len,
         v = "uncertain" => required',
         torn => torn',
         \/ torn'
         \/ required'
         \/ Kept /\ Posted \in {0, len}
         \/ Grown /\ index = len
  PROVE  IInv'
<1>0. /\ cmd \in Commands /\ ~required /\ status[cmd] = "sending"
      /\ status' = [status EXCEPT ![cmd] = v] /\ cmd' = cmd /\ pc' = "idle"
      /\ ~Active' /\ Queued \in Nat /\ status \in [Commands -> Statuses]
  BY StreamType DEF IInv, SendInv, StatusInv, Active, End, TypeOK
<1>1. SendInv'
  BY DEF End, SendInv, Active
<1>2. StatusInv'
  <2> SUFFICES ASSUME NEW c \in Commands
               PROVE  /\ status'[c] = "new" <=> c > cmd'
                      /\ status'[c] # "sending"
                      /\ status'[c] = "uncertain" => required'
    BY <1>0 DEF StatusInv
  <2>1. CASE c = cmd BY <1>0, <2>1, PostedType
  <2>2. CASE c # cmd BY <1>0, <2>2 DEF IInv, StatusInv
  <2> QED BY <2>1, <2>2
<1>3. Assembling' BY DEF IInv, Assembling
<1>4. Pieces'
  <2>1. ASSUME NEW k \in 1 .. Queued
        PROVE  /\ Stream[k].index <= Stream[k].len
               /\ Stream[k].command <= cmd
               /\ status'[Stream[k].command] \in {"sending", "ok", "uncertain", "dropped"}
               /\ \A x \in received : x < Stream[k].command
    <3>1. Stream[k].command = cmd => v # "refused" BY Unposted
    <3>2. Stream[k].command \in Commands BY StreamType DEF IInv
    <3> QED BY <1>0, <3>1, <3>2 DEF IInv, Pieces
  <2>2. CASE Kept BY <1>0, <2>1, <2>2 DEF Kept, Pieces
  <2>3. CASE pc = "enqueue" /\ Grown
    <3> SUFFICES ASSUME NEW k \in 1 .. Queued'
                 PROVE  /\ Stream'[k].index <= Stream'[k].len
                        /\ Stream'[k].command <= cmd'
                        /\ status'[Stream'[k].command] \in {"sending", "ok", "uncertain", "dropped"}
                        /\ \A x \in received' : x < Stream'[k].command
      BY DEF Pieces
    <3>1. CASE k \in 1 .. Queued /\ Stream'[k] = Stream[k] BY <1>0, <2>1, <3>1
    <3>2. CASE k = Queued + 1 /\ Stream'[k] = Piece
      <4>1. \A x \in received : x < cmd BY <2>3, PostedType, NotReceived
      <4>2. v # "refused" BY <1>0, <2>3 DEF Kept, Grown
      <4> QED BY <1>0, <3>2, <4>1, <4>2, PieceMembers, PostedType
    <3> QED BY <2>3, <3>1, <3>2, GrownPlaces
  <2> QED BY <2>2, <2>3
<1>5. Ordered' BY GrownOrdered DEF IInv, Ordered, Kept
<1>6. Current' BY <1>0 DEF Current
<1>7. ReceivedInv' BY <1>0 DEF IInv, ReceivedInv
<1>8. WholeInv'
  <2> SUFFICES ASSUME ~torn' PROVE Whole' BY DEF WholeInv
  <2>1. Whole BY DEF IInv, WholeInv
  <2>2. CASE Kept
    <3>1. Queued > 0 => Stream[Queued].index = Stream[Queued].len \/ required'
      <4>1. CASE Queued > 0 /\ Stream[Queued].command = cmd
        <5>1. Posted # 0 BY <1>0, <4>1, Unposted
        <5>2. ~Grown BY <1>0, <2>2 DEF Kept, Grown
        <5> QED BY <4>1, <5>1, <5>2, LastPosted
      <4>2. CASE Queued > 0 /\ Stream[Queued].command # cmd
        BY <1>0, <2>1, <4>2 DEF Whole
      <4> QED BY <4>1, <4>2
    <3>2. ASSUME NEW b \in Commands, status'[b] = "ok", b \notin received
          PROVE  \E k \in 1 .. Queued : Stream[k].command = b
      <4>1. CASE b = cmd
        <5>1. v = "ok" BY <1>0, <3>2, <4>1
        <5>2. Queued > 0 /\ Stream[Queued].command = cmd
          BY <2>1, <3>2, <4>1, <5>1, PostedType DEF Whole
        <5> QED BY <1>0, <4>1, <5>2
      <4>2. CASE b # cmd BY <1>0, <2>1, <3>2, <4>2 DEF Whole
      <4> QED BY <4>1, <4>2
    <3> QED BY <1>0, <2>1, <2>2, <3>1, <3>2 DEF Whole, Kept
  <2>3. CASE pc = "enqueue" /\ Grown
    <3>1. v # "ok" BY <1>0, <2>3 DEF Kept, Grown
    <3>2. Stream'[Queued'] = Piece BY <1>0, <2>3 DEF Grown
    <3>3. ~Kept BY <1>0, <2>3 DEF Kept, Grown
    <3>4. Stream'[Queued'].index = Stream'[Queued'].len \/ required'
      BY <3>2, <3>3, PieceMembers
    <3>5. ASSUME NEW b \in Commands, status'[b] = "ok", b \notin received'
          PROVE  \E k \in 1 .. Queued' : Stream'[k].command = b
      <4>1. status[b] = "ok" BY <1>0, <3>1, <3>5
      <4>2. PICK k \in 1 .. Queued : Stream[k].command = b BY <2>1, <3>5, <4>1 DEF Whole
      <4>3. k \in 1 .. Queued' /\ Stream'[k] = Stream[k] BY <1>0, <2>3 DEF Grown
      <4> QED BY <4>2, <4>3
    <3> QED BY <1>0, <2>1, <2>3, <3>4, <3>5, GrownWhole DEF Whole
  <2> QED BY <2>2, <2>3
<1>9. NoSplice' /\ EncodedRight' BY DEF IInv, NoSplice, EncodedRight
<1> QED BY <1>1, <1>2, <1>3, <1>4, <1>5, <1>6, <1>7, <1>8, <1>9 DEF IInv

(* The next command begins. *)
LEMMA Begins ==
  ASSUME IInv, ~Active, ~required, cmd < MaxCommands, cmd' = cmd + 1, pc' = "buffer",
         index' = 1, status' = [status EXCEPT ![cmd + 1] = "sending"],
         TypeOK', SendInv', BufferInv', EncodedRight',
         UNCHANGED <<required, busy, assembly, received, torn>>
  PROVE  IInv'
<1>0. /\ Queued \in Nat /\ cmd \in Nat /\ cmd + 1 \in Commands /\ cmd + 1 \in Nat
      /\ status \in [Commands -> Statuses] /\ Active' /\ Kept /\ Posted' = 0
      /\ Commands \subseteq Nat
  <2>1. cmd \in Nat /\ MaxCommands \in Nat BY PostedType, CommandAssumption
  <2>2. Queued \in Nat /\ status \in [Commands -> Statuses] BY StreamType DEF IInv, TypeOK
  <2>3. cmd + 1 \in Commands /\ Commands \subseteq Nat BY <2>1 DEF Commands
  <2>4. Active' /\ Kept /\ Posted' = 0 BY Keeps DEF Active, Posted
  <2> QED BY <2>1, <2>2, <2>3, <2>4
<1>1. StatusInv'
  <2> SUFFICES ASSUME NEW c \in Commands
               PROVE  /\ status'[c] = "new" <=> c > cmd'
                      /\ status'[c] = "sending" <=> c = cmd'
                      /\ status'[c] = "uncertain" => required'
    BY <1>0 DEF StatusInv
  <2>1. CASE c = cmd + 1 BY <1>0, <2>1
  <2>2. CASE c # cmd + 1
    <3>1. status'[c] = status[c] /\ c \in Nat BY <1>0, <2>2
    <3> QED BY <1>0, <2>2, <3>1 DEF IInv, StatusInv
  <2> QED BY <2>1, <2>2
<1>2. Assembling' BY DEF IInv, Assembling
<1>3. ASSUME NEW k \in 1 .. Queued
      PROVE  Stream[k].command # cmd + 1 /\ Stream[k].command \in Commands
                /\ Stream[k].command <= cmd + 1
  BY <1>0, StreamType DEF IInv, Pieces
<1>4. Pieces' BY <1>0, <1>3 DEF IInv, Pieces, Kept
<1>5. Ordered' BY <1>0 DEF IInv, Ordered, Kept
<1>6. Current' BY <1>0, <1>3 DEF Current, Kept
<1>7. ReceivedInv'
  <2>1. ASSUME NEW x \in received PROVE x <= cmd + 1 /\ x # cmd + 1
    BY <1>0 DEF IInv, ReceivedInv, TypeOK
  <2> QED BY <1>0, <2>1 DEF ReceivedInv
<1>8. WholeInv'
  <2> SUFFICES ASSUME ~torn' PROVE Whole' BY DEF WholeInv
  <2>1. Whole BY DEF IInv, WholeInv
  <2>2. Queued > 0 => Stream[Queued].index = Stream[Queued].len BY <2>1 DEF Whole
  <2>3. ASSUME NEW b \in Commands, status'[b] = "ok" PROVE status[b] = "ok"
    BY <1>0, <2>3
  <2> QED BY <1>0, <2>1, <2>2, <2>3 DEF Whole, Kept
<1>9. NoSplice' BY DEF IInv, NoSplice
<1> QED BY <1>1, <1>2, <1>4, <1>5, <1>6, <1>7, <1>8, <1>9 DEF IInv

-----------------------------------------------------------------------------
(* The firmware *)

(* The fragment the firmware takes, and what it has after that *)
LEMMA Taken ==
  ASSUME IInv, busy # <<>>
  PROVE  LET n == Len(assembly)
             got == Append(assembly, Head(busy))
         IN /\ n \in Nat /\ n + 1 \in 1 .. Queued /\ Queued \in Nat
            /\ Len(got) = n + 1
            /\ \A i \in 1 .. n + 1 : got[i] = Stream[i]
            /\ \A i \in 1 .. n : assembly[i] = Stream[i]
            /\ 1 \in 1 .. n + 1 /\ 1 \in 1 .. Queued
<1> DEFINE n == Len(assembly)
           got == Append(assembly, Head(busy))
<1>1. /\ n \in Nat /\ Len(busy) \in Nat /\ Len(busy) > 0
      /\ Head(busy) = busy[1] /\ Head(busy) \in Fragments
      /\ assembly \in Seq(Fragments)
  BY DEF IInv, TypeOK
<1>2. n + 1 \in 1 .. Queued /\ Queued \in Nat /\ 1 \in 1 .. Queued BY <1>1 DEF Queued
<1>3. Len(got) = n + 1 BY <1>1
<1>4. ASSUME NEW i \in 1 .. n PROVE assembly[i] = Stream[i] /\ got[i] = Stream[i]
  BY <1>1, <1>2, Place
<1>5. got[n + 1] = Stream[n + 1]
  <2>1. got[n + 1] = busy[1] BY <1>1
  <2>2. ~ (n + 1 <= Len(assembly)) /\ (n + 1) - Len(assembly) = 1 BY <1>1
  <2> QED BY <1>2, <2>1, <2>2, Place
<1>6. \A i \in 1 .. n + 1 : i \in 1 .. n \/ i = n + 1 BY <1>1
<1> QED BY <1>1, <1>2, <1>3, <1>4, <1>5, <1>6

(* What it has after that is of one command. *)
LEMMA OneCommand ==
  ASSUME IInv, busy # <<>>, ~torn
  PROVE  \A i \in 1 .. Len(assembly) + 1 :
           /\ Stream[i].index = i
           /\ Stream[i].command = Stream[1].command
<1> DEFINE n == Len(assembly)
<1>1. /\ n \in Nat /\ n + 1 \in 1 .. Queued /\ Queued \in Nat /\ 1 \in 1 .. Queued
      /\ \A i \in 1 .. n : assembly[i] = Stream[i]
  BY Taken
<1>2. Whole BY DEF IInv, WholeInv
<1>3. ASSUME NEW i \in 1 .. n
      PROVE  Stream[i].index = i /\ Stream[i].command = Stream[1].command
  BY <1>1, <1>3 DEF IInv, NoSplice
<1>4. Stream[n + 1].index = n + 1 /\ Stream[n + 1].command = Stream[1].command
  <2>1. CASE n = 0 BY <1>1, <1>2, <2>1 DEF Whole
  <2>2. CASE n > 0
    <3>1. n \in 1 .. n /\ n \in 1 .. Queued /\ n + 1 \in 2 .. Queued /\ 1 \in 1 .. n
      BY <1>1, <2>2
    <3>2. Stream[n].index = n /\ Stream[n].command = Stream[1].command BY <1>3, <3>1
    <3>3. assembly # <<>> /\ assembly[1] = Stream[1] BY <1>1, <2>2, <3>1
    <3>4. n < Stream[1].len BY <3>3 DEF IInv, Assembling
    <3>5. Stream[n].len = Stream[1].len BY <1>1, <3>1, <3>2 DEF IInv, Ordered
    <3>6. Stream[n + 1].command = Stream[n].command
      <4>1. Stream[n].index # Stream[n].len BY <1>1, <3>2, <3>4, <3>5, StreamType DEF IInv
      <4>2. (n + 1) - 1 = n BY <1>1
      <4> QED BY <1>2, <3>1, <4>1, <4>2 DEF Whole
    <3>7. Stream[n + 1].index - Stream[n].index = (n + 1) - n
      BY <1>1, <3>1, <3>6 DEF IInv, Ordered
    <3>8. Stream[n + 1].index \in Nat BY <1>1, StreamType DEF IInv
    <3> QED BY <1>1, <3>2, <3>6, <3>7, <3>8
  <2> QED BY <1>1, <2>1, <2>2
<1>5. \A i \in 1 .. n + 1 : i \in 1 .. n \/ i = n + 1 BY <1>1
<1> QED BY <1>3, <1>4, <1>5

(* The command it has received is done with: what follows is of later      *)
(* ones.                                                                   *)
LEMMA LaterFollows ==
  ASSUME IInv, busy # <<>>, Len(assembly) + 1 = Stream[1].len,
         NEW k \in 1 .. Queued, k > Len(assembly) + 1
  PROVE  Stream[1].command < Stream[k].command
<1>1. /\ Len(assembly) \in Nat /\ 1 \in 1 .. Queued /\ Queued \in Nat /\ k \in Nat
      /\ Stream[1].command \in Nat /\ Stream[k].command \in Nat
      /\ Stream[1].index \in Nat \ {0} /\ Stream[k].index \in Nat
      /\ Stream[1].len \in Nat
  BY Taken, StreamType DEF IInv
<1>2. /\ Stream[1].command <= Stream[k].command
      /\ Stream[1].command = Stream[k].command =>
           Stream[1].len = Stream[k].len /\ Stream[k].index - Stream[1].index = k - 1
  BY <1>1 DEF IInv, Ordered
<1>3. Stream[k].index <= Stream[k].len BY DEF IInv, Pieces
<1>4. Stream[1].command # Stream[k].command
  <2> SUFFICES ASSUME Stream[1].command = Stream[k].command PROVE FALSE OBVIOUS
  <2>1. Stream[k].index = Stream[1].index + (k - 1) BY <1>1, <1>2
  <2> QED BY <1>1, <1>2, <1>3, <2>1
<1> QED BY <1>1, <1>2, <1>4

(* A command that is accepted and not received yet is not before the one   *)
(* the firmware receives.                                                  *)
LEMMA FirstComesFirst ==
  ASSUME IInv, busy # <<>>, ~torn, NEW b \in Commands, status[b] = "ok", b \notin received
  PROVE  Stream[1].command <= b
<1>1. 1 \in 1 .. Queued /\ Queued \in Nat BY Taken
<1>2. PICK k \in 1 .. Queued : Stream[k].command = b BY DEF IInv, WholeInv, Whole
<1> QED BY <1>1, <1>2 DEF IInv, Ordered

(* The firmware adds a fragment to the command it is putting together. *)
LEMMA Assembles ==
  ASSUME IInv, busy # <<>>, busy' = Tail(busy), TypeOK', SendInv', BufferInv',
         assembly' = Append(assembly, Head(busy)), Len(assembly') # assembly'[1].len,
         UNCHANGED <<required, send, received, status, torn, garbled>>
  PROVE  IInv'
<1> DEFINE n == Len(assembly)
<1>1. /\ n \in Nat /\ n + 1 \in 1 .. Queued /\ Queued \in Nat /\ Len(assembly') = n + 1
      /\ \A i \in 1 .. n + 1 : assembly'[i] = Stream[i]
      /\ \A i \in 1 .. n : assembly[i] = Stream[i]
      /\ 1 \in 1 .. n + 1 /\ 1 \in 1 .. Queued
  BY Taken
<1>2. Queued' = Queued /\ \A k \in 1 .. Queued : Stream'[k] = Stream[k]
  BY Takes DEF IInv
<1>3. Posted' = Posted /\ Active' = Active /\ cmd' = cmd /\ len' = len
  BY DEF Posted, Active, send
<1>4. StatusInv' BY <1>3 DEF IInv, StatusInv
<1>5. Assembling'
  <2>1. Stream[1].len \in Nat \ {0} BY <1>1, StreamType DEF IInv
  <2>2. n > 0 => n < Stream[1].len
    <3>1. n > 0 => assembly # <<>> /\ assembly[1] = Stream[1] BY <1>1
    <3> QED BY <3>1 DEF IInv, Assembling
  <2>3. assembly'[1] = Stream[1] BY <1>1
  <2>4. n + 1 < Stream[1].len BY <1>1, <2>1, <2>2, <2>3
  <2> QED BY <1>1, <2>3, <2>4 DEF Assembling
<1>6. Pieces' BY <1>2, <1>3 DEF IInv, Pieces
<1>7. Ordered' BY <1>2 DEF IInv, Ordered
<1>8. Current' BY <1>2, <1>3 DEF IInv, Current
<1>9. ReceivedInv' BY <1>3 DEF IInv, ReceivedInv
<1>10. WholeInv'
  <2> SUFFICES ASSUME ~torn' PROVE Whole' BY DEF WholeInv
  <2>1. Whole BY DEF IInv, WholeInv
  <2>2. Stream'[1] = Stream[1] /\ Stream'[Queued] = Stream[Queued] BY <1>1, <1>2
  <2>3. ASSUME NEW k \in 2 .. Queued
        PROVE  Stream'[k - 1] = Stream[k - 1] /\ Stream'[k] = Stream[k]
    <3>1. k \in 1 .. Queued /\ k - 1 \in 1 .. Queued BY <1>1
    <3> QED BY <1>2, <3>1
  <2>4. \A k \in 2 .. Queued' :
          Stream'[k - 1].command # Stream'[k].command =>
            Stream'[k].index = 1 /\ Stream'[k - 1].index = Stream'[k - 1].len
    BY <1>2, <2>1, <2>3 DEF Whole
  <2>5. \A b \in Commands :
          status'[b] = "ok" /\ b \notin received' =>
            \E k \in 1 .. Queued' : Stream'[k].command = b
    BY <1>2, <2>1 DEF Whole
  <2> QED BY <1>2, <1>3, <2>1, <2>2, <2>4, <2>5 DEF Whole
<1>11. NoSplice'
  <2> SUFFICES ASSUME ~torn', NEW i \in 1 .. Len(assembly')
               PROVE  assembly'[i].index = i /\ assembly'[i].command = assembly'[1].command
    BY DEF NoSplice
  <2> QED BY <1>1, OneCommand
<1>12. EncodedRight' BY DEF IInv, EncodedRight
<1> QED BY <1>4, <1>5, <1>6, <1>7, <1>8, <1>9, <1>10, <1>11, <1>12 DEF IInv

(* The firmware receives a command with its last fragment. *)
LEMMA Receives ==
  ASSUME IInv, busy # <<>>, busy' = Tail(busy), TypeOK', SendInv', BufferInv',
         assembly' = <<>>, Len(assembly) + 1 = Stream[1].len,
         received' = received \cup {Stream[1].command},
         UNCHANGED <<required, send, status, torn, garbled>>
  PROVE  IInv'
<1> DEFINE m == Len(assembly) + 1
           c == Stream[1].command
<1>1. /\ m \in Nat \ {0} /\ m \in 1 .. Queued /\ Queued \in Nat /\ 1 \in 1 .. Queued
      /\ c \in Nat /\ m = Stream[1].len
      /\ Stream[1].index \in Nat \ {0}
  BY Taken, StreamType DEF IInv
<1>2. Queued' = Queued - m /\ \A k \in 1 .. Queued - m : Stream'[k] = Stream[k + m]
  BY Cuts DEF IInv, Cut
<1>3. Posted' = Posted /\ Active' = Active /\ cmd' = cmd /\ len' = len
  BY DEF Posted, Active, send
<1>4. ASSUME NEW k \in 1 .. Queued'
      PROVE  /\ k \in Nat /\ k + m \in 1 .. Queued /\ k + m > m
             /\ Stream'[k] = Stream[k + m]
             /\ c < Stream[k + m].command
  <2>1. k \in Nat /\ k + m \in 1 .. Queued /\ k + m > m BY <1>1, <1>2
  <2>2. Stream'[k] = Stream[k + m] BY <1>2
  <2> QED BY <2>1, <2>2, <1>1, LaterFollows
<1> HIDE DEF m, c
<1>5. StatusInv' BY <1>3 DEF IInv, StatusInv
<1>6. Assembling' BY DEF Assembling
<1>7. Pieces'
  <2> SUFFICES ASSUME NEW k \in 1 .. Queued'
               PROVE  /\ Stream'[k].index <= Stream'[k].len
                      /\ Stream'[k].command <= cmd'
                      /\ status'[Stream'[k].command] \in {"sending", "ok", "uncertain", "dropped"}
                      /\ \A x \in received' : x < Stream'[k].command
    BY DEF Pieces
  <2>1. \A x \in received' : x \in received \/ x = c BY DEF c
  <2> QED BY <1>3, <1>4, <2>1 DEF IInv, Pieces
<1>8. Ordered'
  <2> SUFFICES ASSUME NEW j \in 1 .. Queued', NEW k \in 1 .. Queued', j <= k
               PROVE  /\ Stream'[j].command <= Stream'[k].command
                      /\ Stream'[j].command = Stream'[k].command =>
                           /\ Stream'[j].len = Stream'[k].len
                           /\ Stream'[k].index - Stream'[j].index = k - j
    BY DEF Ordered
  <2>1. /\ j + m \in 1 .. Queued /\ k + m \in 1 .. Queued /\ j + m <= k + m
        /\ (k + m) - (j + m) = k - j
        /\ Stream'[j] = Stream[j + m] /\ Stream'[k] = Stream[k + m]
    BY <1>1, <1>4
  <2> QED BY <2>1 DEF IInv, Ordered
<1>9. Current'
  <2> SUFFICES ASSUME Active, NEW k \in 1 .. Queued', Stream'[k].command = cmd
               PROVE  Stream'[k].len = len /\ Posted - Stream'[k].index = Queued' - k
    BY <1>3 DEF Current
  <2>1. Queued - (k + m) = Queued' - k BY <1>1, <1>2, <1>4
  <2> QED BY <1>4, <2>1 DEF IInv, Current
<1>10. ReceivedInv'
  <2>1. \A x \in received' : x <= cmd BY <1>1 DEF IInv, ReceivedInv, Pieces, c
  <2>2. ASSUME Active, c = cmd PROVE Posted = len
    <3>1. Stream[1].len = len /\ Posted - Stream[1].index = Queued - 1
      BY <1>1, <2>2 DEF IInv, Current, c
    <3>2. Posted = Stream[1].index + (Queued - 1) BY <1>1, <3>1, PostedType
    <3>3. Posted >= len BY <1>1, <3>1, <3>2
    <3> QED BY <3>3, PostedType
  <2> QED BY <1>3, <2>1, <2>2 DEF IInv, ReceivedInv, c
<1>11. WholeInv'
  <2> SUFFICES ASSUME ~torn' PROVE Whole' BY DEF WholeInv
  <2>1. Whole /\ ~torn BY DEF IInv, WholeInv
  <2>2. \A i \in 1 .. m : Stream[i].command = c BY <2>1, OneCommand DEF m, c
  <2>3. Queued' > 0 => Stream'[1].index = 1
    <3> SUFFICES ASSUME Queued' > 0 PROVE Stream'[1].index = 1 OBVIOUS
    <3>1. 1 \in 1 .. Queued' BY <1>1, <1>2
    <3>2. /\ m + 1 \in 2 .. Queued /\ (m + 1) - 1 = m /\ m \in 1 .. m
          /\ Stream'[1] = Stream[m + 1] /\ c < Stream[m + 1].command
          /\ Stream[m + 1].command \in Nat
      <4>1. 1 + m = m + 1 BY <1>1
      <4>2. m + 1 \in 1 .. Queued /\ Stream'[1] = Stream[m + 1] /\ c < Stream[m + 1].command
        BY <1>4, <3>1, <4>1
      <4>3. Stream[m + 1].command \in Nat BY <4>2, StreamType DEF IInv
      <4> QED BY <1>1, <4>2, <4>3
    <3>3. Stream[m].command # Stream[m + 1].command BY <1>1, <2>2, <3>2
    <3> QED BY <2>1, <3>2, <3>3 DEF Whole
  <2>4. ASSUME NEW k \in 2 .. Queued', Stream'[k - 1].command # Stream'[k].command
        PROVE  Stream'[k].index = 1 /\ Stream'[k - 1].index = Stream'[k - 1].len
    <3>1. k \in 1 .. Queued' /\ k - 1 \in 1 .. Queued' /\ k \in Nat BY <1>1, <1>2
    <3>0. m \in Nat BY <1>1
    <3>2. (k - 1) + m = (k + m) - 1 BY <3>0, <3>1
    <3>3. Stream'[k] = Stream[k + m] /\ Stream'[k - 1] = Stream[(k + m) - 1]
      BY <1>4, <3>1, <3>2
    <3>4. k + m \in 2 .. Queued BY <1>1, <1>4, <3>1
    <3> QED BY <2>1, <2>4, <3>3, <3>4 DEF Whole
  <2>5. Queued' > 0 => Stream'[Queued'] = Stream[Queued]
    <3> SUFFICES ASSUME Queued' > 0 PROVE Stream'[Queued'] = Stream[Queued] OBVIOUS
    <3>1. Queued' \in 1 .. Queued' /\ Queued' + m = Queued BY <1>1, <1>2
    <3> QED BY <1>4, <3>1
  <2>6. Queued' = 0 => Stream[Queued].command = c
    BY <1>1, <1>2, <2>2
  <2>7. Queued > 0 BY <1>1
  <2>8. Queued' \in Nat BY <1>1, <1>2
  <2>9. Queued' > 0 =>
          \/ Stream'[Queued'].index = Stream'[Queued'].len
          \/ required'
          \/ Active' /\ Stream'[Queued'].command = cmd'
    BY <1>3, <2>1, <2>5, <2>7 DEF Whole
  <2>10. Active' /\ Posted' > 0 =>
          \/ Queued' > 0 /\ Stream'[Queued'].command = cmd'
          \/ cmd' \in received'
    BY <1>3, <2>1, <2>5, <2>6, <2>7, <2>8 DEF Whole, c
  <2>11. ASSUME NEW b \in Commands, status'[b] = "ok", b \notin received'
         PROVE  \E k \in 1 .. Queued' : Stream'[k].command = b
    <3>1. PICK k \in 1 .. Queued : Stream[k].command = b BY <2>1, <2>11 DEF Whole
    <3>2. k \notin 1 .. m BY <2>2, <2>11, <3>1 DEF c
    <3>3. k - m \in 1 .. Queued' /\ (k - m) + m = k
      <4>1. k \in Nat /\ m \in Nat /\ k > m BY <1>1, <3>2
      <4> QED BY <1>1, <1>2, <4>1
    <3>4. Stream'[k - m] = Stream[k] BY <1>4, <3>3
    <3> QED BY <3>1, <3>3, <3>4
  <2> QED BY <2>3, <2>4, <2>9, <2>10, <2>11 DEF Whole
<1>12. NoSplice' /\ EncodedRight' BY DEF IInv, NoSplice, EncodedRight
<1> QED BY <1>5, <1>6, <1>7, <1>8, <1>9, <1>10, <1>11, <1>12 DEF IInv

(* A recovery empties the firmware. *)
LEMMA Recovers == ASSUME IInv, Recover, TypeOK' PROVE IInv'
<1>0. /\ ~Active /\ ~Active' /\ Queued' = 0 /\ cmd' = cmd /\ received' = received
      /\ status \in [Commands -> Statuses] /\ CommandAssumption
  BY CommandAssumption DEF Recover, IInv, TypeOK, Active, send, Queued
<1>1. SendInv' /\ BufferInv' BY <1>0 DEF IInv, SendInv, BufferInv, Recover, send, Active
<1>2. StatusInv'
  <2> SUFFICES ASSUME NEW x \in Commands
               PROVE  /\ status'[x] = "new" <=> x > cmd
                      /\ status'[x] # "sending"
                      /\ status'[x] # "uncertain"
    BY <1>0 DEF StatusInv
  <2> QED BY <1>0 DEF IInv, StatusInv, Recover
<1>3. Assembling' /\ NoSplice' BY DEF Assembling, NoSplice, Recover
<1>4. Pieces' /\ Ordered' /\ Current' BY <1>0 DEF Pieces, Ordered, Current
<1>5. ReceivedInv' BY <1>0 DEF IInv, ReceivedInv
<1>6. WholeInv'
  <2>1. ASSUME NEW b \in Commands, status'[b] = "ok" PROVE b \in received'
    BY <1>0, <2>1 DEF Recover
  <2> QED BY <1>0, <2>1 DEF WholeInv, Whole
<1>7. EncodedRight' BY DEF IInv, EncodedRight, Recover
<1> QED BY <1>1, <1>2, <1>3, <1>4, <1>5, <1>6, <1>7 DEF IInv

-----------------------------------------------------------------------------
(* One lemma for each action *)

LEMMA BoundsType ==
  MaxCommands \in Nat /\ Pool \in Nat /\ Attempts \in Nat \ {0} /\ MaxFaults \in Nat
  /\ MaxLen \in Nat \ {0}
<1>1. MaxLen \in 1 .. MaxLen
  BY ChunksRight DEF MaxLen, MAX_STATION_MESSAGE_LEN
<1>2. MaxLen \in Int
  BY CommandAssumption DEF MaxLen, Chunks, MAX_STATION_MESSAGE_LEN
<1> QED BY CommandAssumption, <1>1, <1>2

LEMMA InitHolds == ASSUME Init PROVE IInv
<1> USE DEF Init
<1>1. TypeOK
  <2>1. busy \in Seq(Fragments) /\ assembly \in Seq(Fragments) OBVIOUS
  <2>2. status \in [Commands -> Statuses] BY DEF Statuses
  <2>3. Len(busy) = 0 /\ Len(assembly) = 0 OBVIOUS
  <2>4. /\ cmd \in 0 .. MaxCommands /\ len \in 1 .. MaxLen /\ index \in 1 .. MaxLen
        /\ tries \in 0 .. Attempts /\ free \in 0 .. Pool /\ faults \in 0 .. MaxFaults
        /\ Len(busy) <= Pool /\ Len(assembly) < MaxLen
    BY <2>3, BoundsType
  <2> QED BY <2>1, <2>2, <2>4 DEF TypeOK
<1>2. Queued = 0 BY DEF Queued
<1>3. SendInv /\ BufferInv /\ StatusInv /\ Assembling /\ NoSplice /\ EncodedRight
  BY BoundsType DEF SendInv, BufferInv, StatusInv, Assembling, NoSplice, EncodedRight,
                    Active, Commands
<1>4. Pieces /\ Ordered /\ Current /\ ReceivedInv BY <1>2 DEF Pieces, Ordered, Current,
                    ReceivedInv, Active
<1>5. WholeInv BY <1>2 DEF WholeInv, Whole, Active
<1> QED BY <1>1, <1>3, <1>4, <1>5 DEF IInv

LEMMA StutterHolds == ASSUME IInv, UNCHANGED vars PROVE IInv'
<1>1. Kept BY Keeps DEF vars, firmware
<1> USE DEF vars, send, firmware
<1>2. Posted' = Posted /\ Active' = Active BY DEF Posted, Active
<1>3. TypeOK' /\ SendInv' /\ BufferInv' /\ Assembling' /\ NoSplice' /\ EncodedRight'
  BY <1>2 DEF IInv, TypeOK, SendInv, BufferInv, Assembling, NoSplice, EncodedRight
<1>4. StatusInv' BY <1>2 DEF IInv, StatusInv
<1>5. Pieces' /\ Ordered' BY <1>1 DEF IInv, Pieces, Ordered, Kept
<1>6. Current' /\ ReceivedInv' BY <1>1, <1>2 DEF IInv, Current, ReceivedInv, Kept
<1>7. WholeInv' BY <1>1, <1>2 DEF IInv, WholeInv, Whole, Kept
<1> QED BY <1>3, <1>4, <1>5, <1>6, <1>7 DEF IInv

LEMMA BeginHolds == ASSUME IInv, Begin PROVE IInv'
<1>1. PICK e \in Encodings :
        /\ garbled' = (garbled \/ ~e.right)
        /\ \/ ~e.sent /\ UNCHANGED <<send, status>>
           \/ /\ e.sent
              /\ cmd' = cmd + 1
              /\ len' = e.len
              /\ single' \in BOOLEAN
              /\ single' => len' = 1
              /\ index' = 1
              /\ tries' = IF single' THEN 1 ELSE Attempts
              /\ pc' = "buffer"
              /\ status' = [status EXCEPT ![cmd + 1] = "sending"]
  BY DEF Begin
<1>2. ~garbled' BY <1>1, EncodingsRight DEF IInv, EncodedRight
<1>3. CASE UNCHANGED <<send, status>>
  <2>1. UNCHANGED vars BY <1>2, <1>3 DEF Begin, vars, IInv, EncodedRight, TypeOK
  <2> QED BY <2>1, StutterHolds
<1>4. CASE e.sent /\ ~UNCHANGED <<send, status>>
  <2>1. len' \in 1 .. MaxLen /\ len' \in Nat \ {0} BY <1>1, <1>4, EncodingsRight, BoundsType
  <2>2. TypeOK'
    <3>1. cmd' \in 0 .. MaxCommands /\ index' \in 1 .. MaxLen
      BY <1>1, <1>4, BoundsType DEF IInv, TypeOK, Begin
    <3>2. tries' \in 0 .. Attempts
      <4>1. tries' = 1 \/ tries' = Attempts BY <1>1, <1>4
      <4> QED BY <4>1, BoundsType
    <3>3. status' \in [Commands -> Statuses] BY <1>1, <1>4 DEF IInv, TypeOK, Statuses
    <3>4. single' \in BOOLEAN /\ pc' = "buffer" BY <1>1, <1>4
    <3> QED BY <1>2, <2>1, <3>1, <3>2, <3>3, <3>4 DEF IInv, TypeOK, Begin, firmware
  <2>3. SendInv'
    BY <1>1, <1>4, <2>1, BoundsType DEF IInv, TypeOK, SendInv, Begin, Active, Commands
  <2>4. BufferInv' BY <1>1, <1>4 DEF IInv, BufferInv, Begin, firmware
  <2> QED BY <1>1, <1>2, <1>4, <2>2, <2>3, <2>4, Begins DEF Begin, Active, EncodedRight, firmware
<1> QED BY <1>1, <1>3, <1>4

(* What the end of a send does to the types *)
LEMMA EndType ==
  ASSUME IInv, NEW v \in Statuses, End(v)
  PROVE  /\ pc' = "idle" /\ cmd' \in 0 .. MaxCommands /\ len' \in 1 .. MaxLen
         /\ index' \in 1 .. MaxLen /\ tries' \in 0 .. Attempts /\ single' \in BOOLEAN
         /\ status' \in [Commands -> Statuses]
<1>1. status' \in [Commands -> Statuses] BY DEF IInv, TypeOK, End
<1>2. 1 \in 1 .. MaxLen /\ 0 \in 0 .. Attempts BY BoundsType
<1> QED BY <1>1, <1>2 DEF IInv, TypeOK, End

LEMMA TakeBufferHolds == ASSUME IInv, TakeBuffer PROVE IInv'
<1> USE DEF TakeBuffer, Ok, Failure
<1>1. Kept /\ Active BY Keeps DEF Active
<1>2. CASE Ok /\ free > 0 /\ free' = free - 1 /\ Goto("write")
  <2>1. TypeOK' BY <1>2, BoundsType DEF IInv, TypeOK, Goto
  <2>2. SendInv' /\ BufferInv' /\ Active' /\ Posted' = Posted
    BY <1>2, BoundsType DEF IInv, TypeOK, SendInv, BufferInv, Active, Posted, Goto
  <2> QED BY <1>1, <1>2, <2>1, <2>2, Advances DEF Goto
<1>3. CASE /\ Ok /\ free = 0 /\ tries > 1 /\ tries' = tries - 1
           /\ UNCHANGED <<pc, cmd, len, index, single, status, required, free>>
  <2>1. TypeOK' BY <1>3, BoundsType DEF IInv, TypeOK
  <2>2. SendInv' /\ BufferInv' /\ Active' /\ Posted' = Posted
    BY <1>3, BoundsType DEF IInv, TypeOK, SendInv, BufferInv, Active, Posted
  <2> QED BY <1>1, <1>3, <2>1, <2>2, Advances
<1>4. CASE Ok /\ free = 0 /\ tries = 1 /\ Timeout /\ UNCHANGED free
  <2>1. CASE index > 1
    <3>1. End("uncertain") /\ required' = TRUE BY <1>4, <2>1 DEF Timeout, Uncertain
    <3>2. TypeOK' BY <1>4, <3>1, EndType DEF IInv, TypeOK, Statuses
    <3>3. BufferInv' BY <1>4, <3>1 DEF IInv, BufferInv, End
    <3> QED BY <1>1, <3>1, <3>2, <3>3, Ends
  <2>2. CASE ~ (index > 1)
    <3>1. End("refused") /\ required' = required BY <1>4, <2>2 DEF Timeout
    <3>2. TypeOK' BY <1>4, <3>1, EndType DEF IInv, TypeOK, Statuses
    <3>3. BufferInv' BY <1>4, <3>1 DEF IInv, BufferInv, End
    <3>4. Posted = 0 BY <2>2, PostedType
    <3> QED BY <1>1, <3>1, <3>2, <3>3, <3>4, Ends
  <2> QED BY <2>1, <2>2
<1>5. CASE /\ Failure
           /\ free' \in {free, IF free > 0 THEN free - 1 ELSE free}
           /\ Uncertain
  <2>1. End("uncertain") /\ required' = TRUE BY <1>5 DEF Uncertain
  <2>2. TypeOK' BY <1>5, <2>1, EndType, BoundsType DEF IInv, TypeOK, Statuses
  <2>3. BufferInv' BY <1>5, <2>1, BoundsType DEF IInv, TypeOK, BufferInv, End
  <2> QED BY <1>1, <2>1, <2>2, <2>3, Ends
<1> QED BY <1>2, <1>3, <1>4, <1>5

LEMMA WriteFragmentHolds == ASSUME IInv, WriteFragment PROVE IInv'
<1> USE DEF WriteFragment, Ok, Failure
<1>1. Kept /\ Active BY Keeps DEF Active, firmware
<1>2. CASE Ok /\ Goto("enqueue")
  <2>1. TypeOK' BY <1>2, BoundsType DEF IInv, TypeOK, Goto, firmware
  <2>2. SendInv' /\ BufferInv' /\ Active' /\ Posted' = Posted
    BY <1>2, BoundsType DEF IInv, TypeOK, SendInv, BufferInv, Active, Posted, Goto, firmware
  <2> QED BY <1>1, <1>2, <2>1, <2>2, Advances DEF Goto, firmware
<1>3. CASE Failure /\ Uncertain
  <2>1. End("uncertain") /\ required' = TRUE BY <1>3 DEF Uncertain
  <2>2. TypeOK' BY <1>3, <2>1, EndType, BoundsType DEF IInv, TypeOK, Statuses, firmware
  <2>3. BufferInv' BY <1>3, <2>1, BoundsType DEF IInv, TypeOK, BufferInv, End, firmware
  <2> QED BY <1>1, <2>1, <2>2, <2>3, Ends DEF firmware
<1> QED BY <1>2, <1>3

LEMMA EnqueueHolds == ASSUME IInv, Enqueue PROVE IInv'
<1> USE DEF Enqueue, Ok, Failure
<1>0. Active /\ Piece \in Fragments BY PieceType DEF Active
<1>1. ASSUME busy' = Append(busy, Piece)
      PROVE  /\ Grown /\ busy' \in Seq(Fragments) /\ Len(busy') = Len(busy) + 1
             /\ Len(busy) + 1 <= Pool
  <2>1. Grown BY <1>0, <1>1, Grows DEF IInv
  <2>2. busy \in Seq(Fragments) /\ Len(busy) \in Nat BY DEF IInv, TypeOK
  <2>3. busy' \in Seq(Fragments) /\ Len(busy') = Len(busy) + 1 BY <1>0, <1>1, <2>2
  <2>4. Len(busy) + 1 <= Pool BY <2>2, BoundsType DEF IInv, TypeOK, BufferInv
  <2> QED BY <2>1, <2>3, <2>4
<1>2. CASE Ok /\ busy' = Append(busy, Piece) /\ Goto("trigger")
  <2>1. TypeOK' BY <1>1, <1>2, BoundsType DEF IInv, TypeOK, Goto
  <2>2. SendInv' BY <1>2 DEF IInv, SendInv, Active, Goto
  <2>3. BufferInv'
    BY <1>1, <1>2, BoundsType DEF IInv, TypeOK, BufferInv, Goto
  <2> QED BY <1>1, <1>2, <2>1, <2>2, <2>3, Posts DEF Goto
<1>3. CASE Failure /\ busy' \in {busy, Append(busy, Piece)} /\ Uncertain
  <2>1. End("uncertain") /\ required' = TRUE BY <1>3 DEF Uncertain
  <2>2. TypeOK'
    BY <1>1, <1>3, <2>1, EndType, BoundsType DEF IInv, TypeOK, Statuses
  <2>3. BufferInv'
    BY <1>1, <1>3, <2>1, BoundsType DEF IInv, TypeOK, BufferInv, End
  <2>4. Kept \/ (pc = "enqueue" /\ Grown) BY <1>1, <1>3, Keeps
  <2> QED BY <1>0, <2>1, <2>2, <2>3, <2>4, Ends
<1> QED BY <1>2, <1>3

LEMMA TriggerHolds == ASSUME IInv, Trigger PROVE IInv'
<1> USE DEF Trigger, Ok, Failure
<1>1. Kept /\ Active BY Keeps DEF Active, firmware
<1>2. CASE /\ Ok /\ index < len
           /\ index' = index + 1 /\ tries' = Attempts /\ pc' = "buffer"
           /\ UNCHANGED <<cmd, len, single, status, required>>
  <2>1. TypeOK' BY <1>2, BoundsType DEF IInv, TypeOK, firmware
  <2>2. SendInv' /\ BufferInv' /\ Active' /\ Posted' = Posted
    BY <1>2, BoundsType DEF IInv, TypeOK, SendInv, BufferInv, Active, Posted, firmware
  <2> QED BY <1>1, <1>2, <2>1, <2>2, Advances DEF firmware
<1>3. CASE Ok /\ index = len /\ End("ok") /\ UNCHANGED required
  <2>1. TypeOK' BY <1>3, EndType, BoundsType DEF IInv, TypeOK, Statuses, firmware
  <2>2. BufferInv' BY <1>3, BoundsType DEF IInv, TypeOK, BufferInv, End, firmware
  <2>3. Posted = len BY <1>3, PostedType
  <2> QED BY <1>1, <1>3, <2>1, <2>2, <2>3, Ends DEF firmware
<1>4. CASE Failure /\ Uncertain
  <2>1. End("uncertain") /\ required' = TRUE BY <1>4 DEF Uncertain
  <2>2. TypeOK' BY <1>4, <2>1, EndType, BoundsType DEF IInv, TypeOK, Statuses, firmware
  <2>3. BufferInv' BY <1>4, <2>1, BoundsType DEF IInv, TypeOK, BufferInv, End, firmware
  <2> QED BY <1>1, <2>1, <2>2, <2>3, Ends DEF firmware
<1> QED BY <1>2, <1>3, <1>4

LEMMA DropSendHolds == ASSUME IInv, DropSend PROVE IInv'
<1> USE DEF DropSend, Failure
<1> DEFINE posted == index - 1 + IF pc = "trigger" \/ busy' # busy THEN 1 ELSE 0
<1>0. /\ Active /\ Piece \in Fragments /\ End("dropped")
      /\ busy \in Seq(Fragments) /\ Len(busy) \in Nat
      /\ torn' = (torn \/ posted \in 1 .. len - 1)
  BY PieceType DEF Active, IInv, TypeOK
<1> HIDE DEF posted
<1>1. ASSUME pc = "enqueue", busy' = Append(busy, Piece)
      PROVE  /\ Grown /\ busy' \in Seq(Fragments) /\ Len(busy') = Len(busy) + 1
             /\ Len(busy) + 1 <= Pool /\ busy' # busy
  <2>1. Grown BY <1>0, <1>1, Grows DEF IInv
  <2>2. busy' \in Seq(Fragments) /\ Len(busy') = Len(busy) + 1 BY <1>0, <1>1
  <2>3. Len(busy) + 1 <= Pool BY <1>0, <1>1, BoundsType DEF IInv, TypeOK, BufferInv
  <2>4. busy' # busy BY <1>0, <2>2
  <2> QED BY <2>1, <2>2, <2>3, <2>4
<1>2. busy' = busy \/ (pc = "enqueue" /\ busy' = Append(busy, Piece)) OBVIOUS
<1>3. free' \in 0 .. Pool /\ free' <= free BY BoundsType DEF IInv, TypeOK
<1>4. TypeOK'
  <2>1. busy' \in Seq(Fragments) /\ Len(busy') <= Pool BY <1>1, <1>2 DEF IInv, TypeOK
  <2>2. faults' \in 0 .. MaxFaults BY BoundsType DEF IInv, TypeOK
  <2>3. torn' \in BOOLEAN BY <1>0
  <2> QED BY <1>0, <1>3, <2>1, <2>2, <2>3, EndType DEF IInv, TypeOK, Statuses
<1>5. BufferInv'
  <2>1. CASE busy' = busy
    BY <1>0, <1>3, <2>1, BoundsType DEF IInv, TypeOK, BufferInv, End
  <2>2. CASE pc = "enqueue" /\ busy' = Append(busy, Piece)
    BY <1>0, <1>1, <1>3, <2>2, BoundsType DEF IInv, TypeOK, BufferInv, End
  <2> QED BY <1>2, <2>1, <2>2
<1>6. CASE busy' = busy
  <2>1. Kept BY <1>6, Keeps
  <2>2. posted = Posted BY <1>6, PostedType DEF posted
  <2>3. torn' \/ Posted \in {0, len}
    <3>1. Posted \in 1 .. len - 1 \/ Posted \in {0, len} BY PostedType
    <3>2. Posted \in 1 .. len - 1 => torn' BY <1>0, <2>2
    <3> QED BY <3>1, <3>2
  <2> QED BY <1>0, <1>4, <1>5, <2>1, <2>3, Ends
<1>7. CASE pc = "enqueue" /\ busy' = Append(busy, Piece)
  <2>1. Grown /\ busy' # busy BY <1>1, <1>7
  <2>2. posted = index BY <2>1, PostedType DEF posted
  <2>3. torn' \/ index = len
    <3>1. index \in 1 .. len - 1 \/ index = len BY PostedType
    <3>2. index \in 1 .. len - 1 => torn' BY <1>0, <2>2
    <3> QED BY <3>1, <3>2
  <2> QED BY <1>0, <1>4, <1>5, <1>7, <2>1, <2>3, Ends
<1> QED BY <1>2, <1>6, <1>7

LEMMA FirmwareTakesHolds == ASSUME IInv, FirmwareTakes PROVE IInv'
<1> DEFINE n == Len(assembly)
           got == Append(assembly, Head(busy))
<1>1. /\ n \in Nat /\ n + 1 \in 1 .. Queued /\ Queued \in Nat
      /\ Len(got) = n + 1 /\ got[1] = Stream[1] /\ 1 \in 1 .. Queued
      /\ n > 0 => assembly # <<>> /\ assembly[1] = Stream[1]
  BY Taken DEF FirmwareTakes
<1>2. /\ busy # <<>> /\ busy' = Tail(busy) /\ free' = free + 1
      /\ UNCHANGED <<required, send, status, torn, garbled, faults>>
  BY DEF FirmwareTakes
<1>3. /\ Len(busy) \in Nat \ {0} /\ busy' \in Seq(Fragments) /\ Len(busy') = Len(busy) - 1
      /\ got \in Seq(Fragments)
  BY <1>2 DEF IInv, TypeOK
<1>4. free' \in 0 .. Pool /\ Len(busy') <= Pool /\ BufferInv'
  BY <1>2, <1>3, BoundsType DEF IInv, TypeOK, BufferInv, send
<1>5. SendInv' BY <1>2 DEF IInv, SendInv, Active, send
<1>6. Stream[1].len \in 1 .. MaxLen /\ Stream[1].command \in Commands
  BY <1>1, StreamType DEF IInv, Fragments
<1>7. CASE Len(got) = got[1].len
  <2>1. assembly' = <<>> /\ received' = received \cup {Stream[1].command}
    BY <1>1, <1>7 DEF FirmwareTakes
  <2>2. Len(assembly') < MaxLen /\ assembly' \in Seq(Fragments) BY <2>1, BoundsType
  <2>3. TypeOK' BY <1>2, <1>3, <1>4, <1>6, <2>1, <2>2 DEF IInv, TypeOK, send
  <2> QED BY <1>1, <1>2, <1>4, <1>5, <1>7, <2>1, <2>3, Receives
<1>8. CASE Len(got) # got[1].len
  <2>1. assembly' = got /\ received' = received BY <1>8 DEF FirmwareTakes
  <2>2. n + 1 < Stream[1].len
    <3>1. n > 0 => n < Stream[1].len BY <1>1 DEF IInv, Assembling
    <3> QED BY <1>1, <1>6, <1>8, <3>1, BoundsType
  <2>3. Len(assembly') < MaxLen BY <1>1, <1>6, <2>1, <2>2, BoundsType
  <2>4. TypeOK' BY <1>2, <1>3, <1>4, <2>1, <2>3 DEF IInv, TypeOK, send
  <2> QED BY <1>2, <1>4, <1>5, <1>8, <2>1, <2>4, Assembles
<1> QED BY <1>7, <1>8

LEMMA RecoverHolds == ASSUME IInv, Recover PROVE IInv'
<1>1. status' \in [Commands -> Statuses] BY DEF Recover, IInv, TypeOK, Statuses
<1>2. /\ busy' \in Seq(Fragments) /\ Len(busy') <= Pool
      /\ assembly' \in Seq(Fragments) /\ Len(assembly') < MaxLen
      /\ free' \in 0 .. Pool
  BY BoundsType DEF Recover
<1>3. TypeOK' BY <1>1, <1>2 DEF Recover, IInv, TypeOK, send
<1> QED BY <1>3, Recovers

LEMMA NextHolds == ASSUME IInv, [Next]_vars PROVE IInv'
  BY BeginHolds, TakeBufferHolds, WriteFragmentHolds, EnqueueHolds, TriggerHolds,
     DropSendHolds, FirmwareTakesHolds, RecoverHolds, StutterHolds DEF Next, Transfer

-----------------------------------------------------------------------------
(* The theorems *)

(* The inductive invariant holds in every state, for every set of requests, *)
(* fragment length, number of buffers and number of faults.                 *)
THEOREM Invariance == Spec => []IInv
<1>1. Init => IInv BY InitHolds
<1>2. IInv /\ [Next]_vars => IInv' BY NextHolds
<1> QED BY <1>1, <1>2, PTL DEF Spec

(* Every variable keeps its type: the firmware never has more fragments    *)
(* queued than there are command buffers, nor more free buffers.           *)
THEOREM TypeCorrect == Spec => []TypeOK
<1>1. IInv => TypeOK BY DEF IInv
<1> QED BY <1>1, Invariance, PTL

(* Unless a send was dropped between two fragments since the last          *)
(* recovery, the firmware never joins fragments of two commands, whatever  *)
(* transfers fail and wherever a wait for a buffer times out.              *)
THEOREM NeverSpliced == Spec => []NoSplice
<1>1. IInv => NoSplice BY DEF IInv
<1> QED BY <1>1, Invariance, PTL

(* The encoders of control.rs send a request exactly if it is admissible   *)
(* and there is room for it, and fill it to the length its header          *)
(* declares: for every length its parts may have.                          *)
THEOREM AlwaysEncodedRight == Spec => []EncodedRight
<1>1. IInv => EncodedRight BY DEF IInv
<1> QED BY <1>1, Invariance, PTL

(* Every step of the transport is a step of the channel or leaves it be. *)
LEMMA ChannelStep ==
  ASSUME IInv, [Next]_vars
  PROVE  [Channel!CNext]_(Channel!channel)
<1> USE DEF Channel!CNext, Channel!channel
<1>0. /\ Commands = Channel!Commands /\ cmd \in Nat /\ status \in [Commands -> Statuses]
      /\ Commands \subseteq Nat
  BY BoundsType, PostedType DEF Commands, Channel!Commands, IInv, TypeOK
<1>1. CASE Begin
  <2>1. CASE UNCHANGED status BY <1>1, <2>1 DEF Begin, firmware
  <2>2. CASE status' = [status EXCEPT ![cmd + 1] = "sending"]
    <3>1. cmd + 1 \in Commands BY <1>0, <1>1, BoundsType DEF Begin, Commands
    <3>2. ~Active /\ ~required BY <1>1 DEF Begin, Active
    <3>3. \A b \in Commands : status[b] \notin {"sending", "uncertain"}
      BY <3>2 DEF IInv, StatusInv
    <3>4. \A b \in Commands : b < cmd + 1 => status[b] # "new"
      BY <1>0 DEF IInv, StatusInv
    <3>5. status[cmd + 1] = "new" BY <1>0, <3>1 DEF IInv, StatusInv
    <3>6. Channel!Begin(cmd + 1)
      BY <1>0, <1>1, <2>2, <3>3, <3>4, <3>5 DEF Channel!Begin, Begin, firmware
    <3> QED BY <1>0, <3>1, <3>6
  <2> QED BY <1>1, <2>1, <2>2 DEF Begin
<1>2. ASSUME Active, UNCHANGED <<received, torn>>, NEW v \in {"ok", "uncertain", "refused"},
             End(v), v = "refused" => Posted = 0
      PROVE  \E c \in Commands : Channel!End(c)
  <2>1. cmd \in Commands /\ status[cmd] = "sending" BY <1>2 DEF IInv, SendInv, StatusInv
  <2>2. v = "refused" => cmd \notin received BY <1>2, PostedType, NotReceived
  <2>3. Channel!End(cmd) BY <1>2, <2>1, <2>2 DEF Channel!End, End
  <2> QED BY <2>1, <2>3
<1>3. CASE Transfer
  <2>1. Active /\ UNCHANGED <<received, torn>>
    BY <1>3 DEF Active, Transfer, TakeBuffer, WriteFragment, Enqueue, Trigger, firmware
  <2>2. \/ UNCHANGED status
        \/ End("ok")
        \/ End("uncertain")
        \/ End("refused") /\ Posted = 0
    <3>1. ASSUME pc = "buffer", ~ (index > 1) PROVE Posted = 0 BY <3>1, PostedType
    <3> QED BY <1>3, <3>1
        DEF Transfer, TakeBuffer, WriteFragment, Enqueue, Trigger, Goto, Timeout, Uncertain
  <2> QED BY <1>0, <1>2, <2>1, <2>2
<1>4. CASE DropSend
  <2>1. cmd \in Commands /\ status[cmd] = "sending"
    BY <1>4 DEF DropSend, Active, IInv, SendInv, StatusInv
  <2>2. torn' \in {torn, TRUE}
    <3>1. torn' = torn \/ torn' = TRUE BY <1>4 DEF DropSend, IInv, TypeOK
    <3> QED BY <3>1
  <2>3. Channel!Drop(cmd) BY <1>4, <2>1, <2>2 DEF Channel!Drop, DropSend, End
  <2> QED BY <1>0, <2>1, <2>3
<1>5. CASE FirmwareTakes
  <2>1. busy # <<>> /\ UNCHANGED <<status, torn>> BY <1>5 DEF FirmwareTakes
  <2>2. CASE received' = received BY <2>1, <2>2
  <2>3. CASE received' # received
    <3> DEFINE c == Stream[1].command
    <3>1. 1 \in 1 .. Queued /\ c \in Commands /\ c \in Nat
      BY <2>1, Taken, StreamType DEF IInv
    <3>2. received' = received \cup {c} BY <1>5, <2>1, <2>3, Taken DEF FirmwareTakes
    <3>3. status[c] \in {"sending", "ok", "uncertain", "dropped"} /\ c \notin received
      BY <3>1 DEF IInv, Pieces
    <3>4. ~torn => \A b \in Commands : b < c /\ status[b] = "ok" => b \in received
      BY <1>0, <2>1, <3>1, FirstComesFirst
    <3>5. Channel!Receive(c)
      BY <1>0, <2>1, <3>2, <3>3, <3>4 DEF Channel!Receive
    <3> QED BY <1>0, <3>1, <3>5
  <2> QED BY <2>2, <2>3
<1>6. CASE Recover
  <2>1. \A c \in Commands : status[c] # "sending"
    BY <1>6 DEF Recover, IInv, StatusInv, Active
  <2>2. Channel!Reset BY <1>0, <1>6, <2>1 DEF Channel!Reset, Recover
  <2> QED BY <2>2
<1>7. CASE UNCHANGED vars BY <1>7 DEF vars, firmware
<1> QED BY <1>1, <1>3, <1>4, <1>5, <1>6, <1>7 DEF Next

(* The transport is the channel of whole commands: a command refused was   *)
(* not received and never will be, commands are received in order and      *)
(* once, and nothing is sent after an uncertain delivery before a reset.   *)
THEOREM ImplementsChannel == Spec => IsChannel
<1>1. Init => Channel!CInit BY DEF Init, Channel!CInit, Commands, Channel!Commands
<1>2. IInv /\ [Next]_vars => [Channel!CNext]_(Channel!channel) BY ChannelStep
<1> QED BY <1>1, <1>2, Invariance, PTL DEF Spec, IsChannel, Channel!CSpec
=============================================================================
