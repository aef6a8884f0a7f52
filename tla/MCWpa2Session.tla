---------------------------- MODULE MCWpa2Session ----------------------------
(* Model checking instances of Wpa2Session: one access point, deadlines of *)
(* two ticks, counters that leave room for a stale and a new message.      *)
EXTENDS Wpa2Session

(* Key data by the length of what is encrypted and its elements: nothing;  *)
(* a group key alone, or behind the RSN element and with padding; one that *)
(* its eight-byte blocks cut off, by one byte or at its header; one behind *)
(* padding; the wrong length or reserved bits; a wrapping that is too      *)
(* short, is not whole blocks, or does not verify.                         *)
Gtk(n)  == [id |-> VENDOR, len |-> n, body |-> "gtk"]
Rsn(n)  == [id |-> 48, len |-> n, body |-> "other"]
Zeros   == [id |-> 0, len |-> 0, body |-> "other"]
Padding == [id |-> VENDOR, len |-> 0, body |-> "other"]
Plain(n, elements) == [len |-> n, intact |-> TRUE, elements |-> elements]

MCKeyData ==
  {Plain(0, <<>>), Plain(32, <<Gtk(22)>>), Plain(56, <<Rsn(20), Gtk(22), Padding>>),
   Plain(24, <<Gtk(22)>>), Plain(56, <<Rsn(23), Gtk(22)>>), Plain(32, <<Rsn(22), Gtk(22)>>),
   Plain(32, <<Rsn(21), Gtk(22)>>), Plain(64, <<Padding, Gtk(22)>>),
   Plain(64, <<Zeros, Gtk(22)>>), Plain(40, <<Gtk(21)>>), Plain(40, <<Gtk(23)>>),
   Plain(32, <<[Gtk(22) EXCEPT !.body = "gtkReserved"]>>), Plain(16, <<Gtk(6)>>),
   Plain(33, <<Gtk(22)>>), [Plain(32, <<Gtk(22)>>) EXCEPT !.intact = FALSE]}

(* The length field of the key data may be off by one. *)
Wire(version, keyLength, info, replay, tag, d, off) ==
  [header |-> TRUE, len |-> KEY_DATA_OFFSET + d.len, body |-> 95 + d.len,
   keyData |-> d.len + off, version |-> version, keyLength |-> keyLength,
   info |-> info, replay |-> replay, tag |-> tag, data |-> d]

MCWireFrames ==
  {Wire(2, 16, info, replay, tag, d, off) :
     info \in SUBSET Flags, replay \in 1 .. MaxReplay, tag \in 0 .. MaxHandshakes,
     d \in MCKeyData, off \in {0, 1}}
    \cup {Wire(version, keyLength, info, replay, 1, Plain(32, <<Gtk(22)>>), 0) :
            version \in {1, 2}, keyLength \in {16, 32}, info \in SUBSET Flags,
            replay \in 1 .. MaxReplay}
=============================================================================
