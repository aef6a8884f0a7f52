------------------------------ MODULE Messages ------------------------------
(***************************************************************************)
(* The parsers of what the firmware sends: the host header (protocol.rs),  *)
(* system events (system.rs), UMAC control events (control.rs) and data    *)
(* events (data.rs), as poll_event runs them one after the other.          *)
(*                                                                         *)
(* A message is what the parsers look at: the bytes there are and the      *)
(* fields that are lengths, counts or selectors.  A parser is a sequence   *)
(* of steps; a step has read the message up to an offset (an index of the  *)
(* code that lies outside the slice would stop the program) and goes on    *)
(* only if its condition holds.  Offsets count from the start of the       *)
(* message.  A length of Huge stands for one near 2^32, where the code's   *)
(* checked additions or its comparisons refuse.                            *)
(***************************************************************************)
EXTENDS Integers, Sequences

HOST_MESSAGE_HEADER_LEN    == 12
UMAC_HEADER_LEN            == 36
SYSTEM_HEADER_LEN          == 8
MLME_FIXED_BODY_LEN        == 439
SCAN_RESULT_FIXED_BODY_LEN == 70
RX_EVENT_FIXED_LEN         == 20
RX_INFO_LEN                == 17
TX_DONE_FIXED_LEN          == 22
ETHERNET_HEADER_LEN        == 14
Huge                       == 2 ^ 30

(* have: bytes in the slice; declared, kind: of the host header; id: the   *)
(* event or command; inner: the length a system or data event declares;    *)
(* a, b: its two variable lengths (frame and request elements of an MLME   *)
(* event, elements and beacon elements of a scan result, packets of an RX  *)
(* event, status bytes of a TX-done event); packet: of an RX event         *)
PacketType  == [type : Nat, mac : Nat, len : Nat, ds : SUBSET {"to", "from"},
                typed : BOOLEAN]
MessageType == [have : Nat, declared : Nat, kind : Int, id : Nat, inner : Nat,
                a : Int, b : Nat, packet : PacketType]

System == 0
Supplicant == 1
Data == 2
Umac == 3

(* A condition, checked after the message was read up to an offset *)
Step(reads, ok) == [reads |-> reads, ok |-> ok]

Accepted(steps) == \A i \in DOMAIN steps : steps[i].ok

(* No step that the parser gets to reads beyond the offset end. *)
ReadsWithin(steps, end) ==
  \A i \in DOMAIN steps :
    (\A j \in 1 .. i - 1 : steps[j].ok) => steps[i].reads <= end

Payload(m) == m.declared - HOST_MESSAGE_HEADER_LEN
Body(m)    == Payload(m) - UMAC_HEADER_LEN

AtPayload(n) == HOST_MESSAGE_HEADER_LEN + n
AtBody(n)    == HOST_MESSAGE_HEADER_LEN + UMAC_HEADER_LEN + n

(* require_len, then a read of the fields *)
Required(m, n) == <<Step(0, Body(m) >= n), Step(AtBody(n), TRUE)>>

ParseHostMessage(m) ==
  << Step(0, m.have >= HOST_MESSAGE_HEADER_LEN),
     Step(4, m.declared \in HOST_MESSAGE_HEADER_LEN .. m.have),
     Step(12, m.kind \in {System, Supplicant, Data, Umac}) >>

InitDone   == 1
DeinitDone == 3

(* parse_system_event, validated_event_body, empty_body_event *)
ParseSystemEvent(m) ==
  << Step(0, Payload(m) >= SYSTEM_HEADER_LEN),
     Step(AtPayload(8), m.inner \in SYSTEM_HEADER_LEN .. Payload(m)),
     Step(0, m.id \in {InitDone, DeinitDone} => m.inner = SYSTEM_HEADER_LEN) >>

-----------------------------------------------------------------------------
(* UMAC events, by number *)

ScanDone == 259
ScanResult == 260
Mlme == {261, 262, 264, 265}   \* authenticate, associate, deauthenticate, disassociate
InterfaceFlagsStatus == 275
RegulatoryChange == 289
CommandStatus == 292

(* Fault: the length of the request elements is not compared. *)
ParseMlmeTrusting(m) ==
  << Step(0, Body(m) >= MLME_FIXED_BODY_LEN),
     Step(AtBody(439), m.a \in 0 .. 400) >>

(* mlme_variable_extents: the frame has room for 400 bytes, the request    *)
(* elements follow the fixed part                                          *)
ParseMlme(m) ==
  << Step(0, Body(m) >= MLME_FIXED_BODY_LEN),
     Step(AtBody(28), m.a \in 0 .. 400),
     Step(AtBody(439), MLME_FIXED_BODY_LEN + m.b <= Body(m)) >>

(* scan_result_variable_extents *)
ParseScanResult(m) ==
  << Step(0, Body(m) >= SCAN_RESULT_FIXED_BODY_LEN),
     Step(AtBody(70), SCAN_RESULT_FIXED_BODY_LEN + m.a + m.b <= Body(m)) >>

ParseControlEvent(m) ==
  << Step(0, Payload(m) >= UMAC_HEADER_LEN), Step(AtBody(0), TRUE) >> \o
  CASE m.id = ScanDone             -> Required(m, 8)
    [] m.id = ScanResult           -> ParseScanResult(m)
    [] m.id \in Mlme               -> ParseMlme(m)
    [] m.id = CommandStatus        -> Required(m, 8)
    [] m.id = InterfaceFlagsStatus -> Required(m, 4)
    [] m.id = RegulatoryChange     -> Required(m, 9)
    [] OTHER                       -> <<>>

-----------------------------------------------------------------------------
(* Data events, by command *)

TransmitDone == 2
ReceiveBuffer == 3
Carrier == {4, 5}

(* validated_data_payload *)
DataPayload(m, minimum) ==
  << Step(0, Payload(m) >= minimum),
     Step(AtPayload(8), m.inner \in minimum .. Payload(m)) >>

(* TxDoneEventRef::parse: one status byte per packet, nothing else *)
ParseTxDone(m) ==
  DataPayload(m, TX_DONE_FIXED_LEN) \o
  << Step(AtPayload(10), m.inner = TX_DONE_FIXED_LEN + m.a) >>

(* RxEventRef::parse and validate_rx_packet_array *)
ParseRxEvent(m) ==
  DataPayload(m, RX_EVENT_FIXED_LEN) \o
  << Step(AtPayload(20), RX_EVENT_FIXED_LEN + m.a * RX_INFO_LEN <= m.inner) >>

(* RxEventRef::packet, which the caller may ask for each index *)
ReadPackets(m) ==
  [i \in 1 .. m.a |-> Step(AtPayload(RX_EVENT_FIXED_LEN + (i - 1) * RX_INFO_LEN + 5),
                           m.packet.type \in 0 .. 2)]

(* classify_data_event, dispatch_data_message *)
ParseDataEvent(m) ==
  << Step(0, Payload(m) >= 8),
     Step(AtPayload(8), m.inner \in 8 .. Payload(m)) >> \o
  CASE m.id = TransmitDone  -> ParseTxDone(m) \o ParseTxDone(m)
    [] m.id = ReceiveBuffer -> ParseRxEvent(m)
    [] m.id \in Carrier     -> <<Step(0, m.inner >= 12), Step(AtPayload(12), TRUE)>>
    [] OTHER                -> <<>>

-----------------------------------------------------------------------------
(* The conversion of a received packet to an Ethernet frame.  Offsets      *)
(* count from the start of the packet, len is its length, mac the event's  *)
(* mac_header_len; ds are the direction bits of its frame control, typed   *)
(* that the last two bytes of its LLC header are a type, not a length.     *)

Mpdu == 0
MsduWithMac == 1
Msdu == 2

(* ieee80211_addresses, four_address_mapping, three_address_mapping: where *)
(* destination and source are                                              *)
Ieee80211Addresses(p) ==
  CASE p.ds = {"to", "from"} -> <<16, 24>>
    [] p.ds = {"to"}         -> <<16, 10>>
    [] p.ds = {"from"}       -> <<4, 16>>
    [] OTHER                 -> <<4, 10>>

LlcAt(p) == CASE p.type = Mpdu -> p.mac
              [] p.type = MsduWithMac -> p.mac + 14
              [] OTHER -> 14

(* llc_ether_type, llc_skip *)
PayloadAt(p) == LlcAt(p) + IF p.typed THEN 8 ELSE 2

(* rebuild_ethernet *)
EthernetLen(p) == ETHERNET_HEADER_LEN + p.len - PayloadAt(p)

Addresses(p) ==
  IF p.type = Mpdu THEN Ieee80211Addresses(p) ELSE <<LlcAt(p) - 14, LlcAt(p) - 8>>

(* convert_mpdu, convert_msdu *)
ConvertToEthernet(p) ==
  (IF p.type = Mpdu
   THEN << Step(0, p.mac >= 24), Step(2, p.len >= 24),
           Step(22, p.ds = {"to", "from"} => p.len >= 30),
           Step(Addresses(p)[2] + 6, TRUE) >>
   ELSE << Step(0, p.len >= LlcAt(p)), Step(LlcAt(p) - 2, TRUE) >>) \o
  << Step(0, LlcAt(p) + 8 <= p.len), Step(LlcAt(p) + 8, PayloadAt(p) <= p.len),
     Step(0, EthernetLen(p) <= p.len), Step(ETHERNET_HEADER_LEN, TRUE) >>

(* What IEEE 802.11 says of the addresses: the destination is the address  *)
(* of the receiver unless the frame goes to the distribution system, the   *)
(* source that of the transmitter unless it comes from there.              *)
Address(n) == IF n = 4 THEN 24 ELSE 6 * n - 2
DestinationAddress(p) == IF "to" \in p.ds THEN Address(3) ELSE Address(1)
SourceAddress(p) ==
  IF "from" \notin p.ds THEN Address(2)
  ELSE IF "to" \in p.ds THEN Address(4) ELSE Address(3)

(* convert_mpdu reads the frame control field before it looks at the       *)
(* length of the packet: one of fewer than two bytes makes it panic.  No   *)
(* caller has put a lower bound on the length the firmware gave.           *)
LacksFrameControl(p) == p.type = Mpdu /\ p.mac >= 24 /\ p.len < 2

(* The conversion stays inside the packet, except for one that lacks its   *)
(* frame control field, which always leaves it.  A packet with its headers *)
(* whole is converted, with the right addresses; every byte after its LLC  *)
(* header is kept.                                                         *)
ConvertsRight(p) ==
  /\ p.type \in 0 .. 2 =>
       (ReadsWithin(ConvertToEthernet(p), p.len) <=> ~LacksFrameControl(p))
  /\ p.type \in 0 .. 2 /\ Accepted(ConvertToEthernet(p)) =>
       /\ EthernetLen(p) \in ETHERNET_HEADER_LEN .. p.len
       /\ p.len - LlcAt(p) - 8 <= EthernetLen(p) - ETHERNET_HEADER_LEN
       /\ p.type = Mpdu => Addresses(p) = <<DestinationAddress(p), SourceAddress(p)>>
  /\ /\ p.type = Mpdu => p.mac >= IF p.ds = {"to", "from"} THEN 30 ELSE 24
     /\ p.type \in 0 .. 2
     /\ LlcAt(p) + 8 <= p.len
     => Accepted(ConvertToEthernet(p))

-----------------------------------------------------------------------------
ParseEvent(m) ==
  CASE m.kind = System -> ParseSystemEvent(m)
    [] m.kind = Umac   -> ParseControlEvent(m)
    [] m.kind = Data   -> ParseDataEvent(m)
    [] OTHER           -> <<>>

(* try_read_event, then dispatch_message: what comes of a message on a     *)
(* driver that is ready or not.  A message whose header does not parse is  *)
(* an error of the device; one whose body does not is an error of the      *)
(* driver.  Only system events are looked at before the driver is ready,   *)
(* and the two that end an initialization are faults whenever none is      *)
(* under way.                                                              *)
Dispatch(m, ready) ==
  CASE ~Accepted(ParseHostMessage(m))             -> "protocol"
    [] Accepted(ParseHostMessage(m))
       /\ m.kind # System /\ ~ready               -> "state"
    [] Accepted(ParseHostMessage(m))
       /\ (m.kind = System \/ ready)
       /\ ~Accepted(ParseEvent(m))                -> "malformed"
    [] Accepted(ParseHostMessage(m))
       /\ m.kind = System /\ Accepted(ParseEvent(m))
       /\ m.id \in {InitDone, DeinitDone}         -> "unexpected"
    [] OTHER                                      -> "ok"

(* The slices of the message that an accepted event borrows *)
Views(m) ==
  CASE m.kind = System -> {<<AtPayload(8), AtPayload(m.inner)>>}
    [] m.kind = Umac /\ m.id \in Mlme ->
         {<<AtBody(28), AtBody(28 + m.a)>>,
          <<AtBody(MLME_FIXED_BODY_LEN), AtBody(MLME_FIXED_BODY_LEN + m.b)>>}
    [] m.kind = Umac /\ m.id = ScanResult ->
         LET ies == AtBody(SCAN_RESULT_FIXED_BODY_LEN) IN
         {<<ies, ies + m.a>>, <<ies + m.a, ies + m.a + m.b>>}
    [] m.kind = Data /\ m.id = TransmitDone ->
         {<<AtPayload(TX_DONE_FIXED_LEN), AtPayload(TX_DONE_FIXED_LEN + m.a)>>}
    [] m.kind = Data /\ m.id = ReceiveBuffer -> {<<AtPayload(0), AtPayload(m.inner)>>}
    [] OTHER -> {}

(* Everything that is done with a message, up to the packets of an RX event *)
ParseMessage(m) ==
  ParseHostMessage(m) \o ParseEvent(m) \o
  IF m.kind = Data /\ m.id = ReceiveBuffer THEN ReadPackets(m) ELSE <<>>

-----------------------------------------------------------------------------
(* What the firmware's structures say of a whole message: the bytes it     *)
(* takes, by its kind                                                      *)
Extent(m) ==
  CASE m.kind = System -> AtPayload(m.inner)
    [] m.kind = Umac   ->
         AtBody(CASE m.id \in {ScanDone, CommandStatus} -> 8
                  [] m.id = ScanResult -> SCAN_RESULT_FIXED_BODY_LEN + m.a + m.b
                  [] m.id \in Mlme -> MLME_FIXED_BODY_LEN + m.b
                  [] m.id = InterfaceFlagsStatus -> 4
                  [] m.id = RegulatoryChange -> 9
                  [] OTHER -> 0)
    [] m.kind = Data   -> AtPayload(m.inner)
    [] OTHER           -> HOST_MESSAGE_HEADER_LEN

WellFormed(m) ==
  /\ m.kind \in {System, Supplicant, Data, Umac}
  /\ Extent(m) <= m.declared /\ m.declared <= m.have
  /\ m.kind = System => IF m.id \in {InitDone, DeinitDone} THEN m.inner = 8 ELSE m.inner >= 8
  /\ m.kind = Umac /\ m.id \in Mlme => m.a \in 0 .. 400
  /\ m.kind = Data =>
       CASE m.id = TransmitDone  -> m.inner = TX_DONE_FIXED_LEN + m.a
         [] m.id = ReceiveBuffer ->
              /\ m.inner >= RX_EVENT_FIXED_LEN + m.a * RX_INFO_LEN
              /\ m.packet.type \in 0 .. 2
         [] m.id \in Carrier     -> m.inner >= 12
         [] OTHER                -> m.inner >= 8

(* The parsers stay inside the message, and take it if it is well formed;  *)
(* the conversion leaves its packet in the one case of ConvertsRight.      *)
Within(m) ==
  /\ ReadsWithin(ParseMessage(m), m.have)
  /\ Accepted(ParseMessage(m)) =>
       \A v \in Views(m) : v[1] <= v[2] /\ v[2] <= m.declared
  /\ WellFormed(m) => Accepted(ParseMessage(m))
  /\ ConvertsRight(m.packet)
=============================================================================
