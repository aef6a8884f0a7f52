----------------------------- MODULE MCBringup -----------------------------
(* Model checking instance of Bringup: files of four small images that are *)
(* right, cut, extended, repeated, unknown or too large; configurations    *)
(* that each check refuses; and accesses around both ends of every region. *)
(* A chunk is eight bytes, so that an image takes several.                 *)
EXTENDS Bringup

Images(kinds, lens) == [i \in 1 .. 4 |-> [kind |-> kinds[i], len |-> lens[i]]]
Whole(lens) == 32 + lens[1] + lens[2] + lens[3] + lens[4]

File(kinds, lens, payload, size, bad) ==
  [images |-> Images(kinds, lens), payload |-> payload, size |-> size,
   signature |-> bad # "signature", count |-> bad # "count",
   version |-> bad # "version", features |-> bad # "features",
   trusted |-> bad # "trust", intact |-> bad # "hash"]

Lens == <<3, 8, 13, 0>>
Good == File(<<2, 0, 3, 1>>, Lens, Whole(Lens), 52 + Whole(Lens), "none")

GoodFiles ==
  {Good} \cup {File(<<0, 1, 2, 3>>, lens, Whole(lens), 52 + Whole(lens), bad) :
    lens \in {<<3, 9, 12, 4>>}, bad \in {"none", "trust", "hash"}}
  \cup {File(<<0, 1, 2, 3>>, lens, Whole(lens), 52 + Whole(lens), "none") :
          lens \in {<<1, 1, 1089, 1>>}}
OddFiles ==
  {File(kinds, Lens, Whole(Lens) + p, 52 + Whole(Lens) + s, "none") :
     kinds \in {<<0, 1, 2, 3>>, <<0, 0, 2, 3>>, <<0, 1, 4, 3>>, <<3, 3, 3, 3>>},
     p \in {-56, -9, -8, -1, 0, 1}, s \in {-60, -57, -9, -1, 0, 1, 8}}
  \cup {File(<<0, 1, 2, 3>>, Lens, Whole(Lens), 52 + Whole(Lens), bad) :
          bad \in {"signature", "count", "version", "features"}}

Sys0 == [wdev |-> TRUE, mac |-> "unicast", size |-> RxSize,
         count |-> RxBuffers, extra |-> 0, reorder |-> 16, ampdu |-> 3]
Systems ==
  {Sys0, [Sys0 EXCEPT !.wdev = FALSE], [Sys0 EXCEPT !.mac = "zero"],
   [Sys0 EXCEPT !.mac = "broadcast"], [Sys0 EXCEPT !.mac = "multicast"],
   [Sys0 EXCEPT !.size = RxSize + 1], [Sys0 EXCEPT !.count = RxBuffers + 1],
   [Sys0 EXCEPT !.extra = 1], [Sys0 EXCEPT !.reorder = 0],
   [Sys0 EXCEPT !.reorder = 65], [Sys0 EXCEPT !.ampdu = 4]}

Access(p, a, len, spi) == [p |-> p, a |-> a, len |-> len, spi |-> spi]
Access0 == Access("Lmac", Address(\ha4, 0), 0, NordicDefault)
Ends == UNION {{Address(r.top, r.first + d) : d \in {0, 2, 4}}
               \cup {Address(r.top, r.last - d) : d \in {3, 7, 11, 15}}
               \cup {Address(r.top, r.last + 1)} :
               r \in UNION {Regions(p) : p \in Processors}}
        \cup {Address(\hff, LowBits - 4), Address(\hc0, 8), Address(\hc0, 9)}
Spi(mask, latency) == [mask |-> mask, map |-> FALSE, latency |-> latency]
Masks == {{}, {IncrementingBit}, {4}, {IncrementingBit, 4, 262144}}
Hole == Access("Lmac", Address(\h80, \h33ff0), \hc020, NordicDefault)
Accesses ==
  {Hole} \cup
  {Access(p, a, len, spi) :
     p \in Processors, a \in Ends, len \in {0, 1, 4, 6, 8, 11, 12, 13},
     spi \in {NordicDefault, NordicMemoryMap} \cup {Spi(m, l) : m \in Masks, l \in {0, 8}}}

Case(f, s, a) == [file |-> f, sys |-> s, access |-> a]
MCCases ==
  {Case(f, Sys0, Access0) : f \in GoodFiles \cup OddFiles}
    \cup {Case(Good, s, Access0) : s \in Systems}
    \cup {Case([Good EXCEPT !.size = 0], Sys0, a) : a \in Accesses}
=============================================================================
