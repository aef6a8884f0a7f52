-------------------------- MODULE MCEventTransport --------------------------
(* Model checking instances of EventTransport: a scratch buffer for the    *)
(* longest event and one too small for it, three events so that the second *)
(* can be damaged by the first and be followed by another, and fewer event *)
(* buffers than fragments.  The firmware keeps the buffers of event 2.     *)
(* The messages have every length that some check compares, one less and   *)
(* one more, in every combination of their fields.                         *)
EXTENDS EventTransport, TLC

CONSTANTS big, small

MCCapacity == (big :> 3) @@ (small :> 1)
MCKept     == {2}

Packet(type, mac, len, ds, typed) ==
  [type |-> type, mac |-> mac, len |-> len, ds |-> ds, typed |-> typed]
PlainPacket == Packet(Msdu, 0, 22, {}, TRUE)

Message(have, declared, kind, id, inner, a, b) ==
  [have |-> have, declared |-> declared, kind |-> kind, id |-> id,
   inner |-> inner, a |-> a, b |-> b, packet |-> PlainPacket]

HostMessages ==
  {Message(h, d, k, 2, 8, 0, 0) :
    h \in {0, 11, 12, 13, 20}, d \in {0, 11, 12, 13, 20, 21, Huge}, k \in {-1} \cup 0 .. 4}

SystemMessages ==
  {Message(12 + p, 12 + p, System, id, n, 0, 0) :
    p \in 7 .. 10, id \in 0 .. 4, n \in 0 .. 11 \cup {Huge}}

ControlMessages ==
  {Message(48 + p, 48 + p, Umac, id, 0, a, b) :
    p \in {-1, 0, 3, 4, 7, 8, 9, 69, 70, 71, 72, 438, 439, 440, 441},
    id \in {258, ScanDone, ScanResult, 263, InterfaceFlagsStatus, RegulatoryChange,
            CommandStatus} \cup Mlme,
    a \in {-1, 0, 1, 400, 401}, b \in {0, 1, 2, Huge}}

DataMessages ==
  {Message(12 + p, 12 + p, Data, id, n, a, 0) :
    p \in {7, 8, 11, 12, 19, 20, 21, 22, 23, 36, 37, 38, 54},
    id \in 1 .. 6, n \in {0, 7, 8, 11, 12, 19, 20, 22, 23, 37, 54, 55, Huge},
    a \in 0 .. 2 \cup {255}}

PacketMessages ==
  {[Message(12 + 37, 12 + 37, Data, ReceiveBuffer, 37, 1, 0) EXCEPT
      !.packet = Packet(type, mac, len, ds, typed)] :
    type \in 0 .. 3, mac \in {0, 23, 24, 26, 30}, ds \in SUBSET {"to", "from"},
    len \in 0 .. 2 \cup 13 .. 15 \cup 21 .. 25 \cup 29 .. 39 \cup 44 .. 46 \cup 51 .. 53,
    typed \in BOOLEAN}

MCBodies ==
  {m \in HostMessages \cup SystemMessages \cup ControlMessages \cup DataMessages
         \cup PacketMessages :
    m.a < 0 => m.kind = Umac /\ m.id \in Mlme}
=============================================================================
