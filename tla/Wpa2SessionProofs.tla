-------------------------- MODULE Wpa2SessionProofs --------------------------
(***************************************************************************)
(* The WPA2 session never installs a pairwise key twice, never holds a     *)
(* request the supplicant does not wait for, and with a caller that starts *)
(* a session per association opens the port only after the handshake.      *)
(*                                                                         *)
(* None of the three is inductive.  IInv adds to them                      *)
(*   - what the station's state says of its connection (Located): a secure *)
(*     connection has a peer, and none exists before associate;            *)
(*   - that a supplicant which waits for a message has a nonce whose key   *)
(*     is not installed (SupInv);                                          *)
(*   - that each status the coordinator waits for has its request (RtInv); *)
(*   - that the history has the keys that the coordinator has got past,    *)
(*     from the first key status to the authorization (Port, Stage).       *)
(* The station's part is argued once, for every operation on it (Quiet):   *)
(* none begins a secure connection or grants the port, but for associate   *)
(* and authorize.  That a request comes from a frame that may ask for keys *)
(* is a fact about the parser of key data, proved by induction on the      *)
(* elements (KdeLoopSteps to FitIsFit).                                    *)
(***************************************************************************)
EXTENDS Wpa2Session, StationProofs, WellFoundedInduction, TLAPS

-----------------------------------------------------------------------------
(* Recursion over the elements of key data *)

(* A set of numbers has a smallest one. *)
LEMMA SmallestNat ==
  ASSUME NEW S, S \subseteq Nat, S # {}
  PROVE  \E x \in S : \A y \in S : x <= y
<1> DEFINE R == OpToRel(<, Nat)
<1>1. \A x, y \in Nat : x < y => <<x, y>> \in R
  BY DEF OpToRel
<1>2. \E x \in S : \A y \in S : ~(<<y, x>> \in R)
  <2>1. IsWellFoundedOn(R, Nat) BY NatLessThanWellFounded
  <2> HIDE DEF R
  <2> QED BY <2>1, WFMin
<1> HIDE DEF R
<1>3. PICK x \in S : \A y \in S : ~(<<y, x>> \in R) BY <1>2
<1>4. ASSUME NEW y \in S PROVE x <= y
  <2>1. x \in Nat /\ y \in Nat OBVIOUS
  <2>2. ~(y < x) BY <1>1, <1>3, <2>1
  <2> QED BY <2>1, <2>2
<1> QED BY <1>4

(* Induction up to n, for a set of numbers *)
LEMMA UpTo ==
  ASSUME NEW n \in Nat, NEW S, 0 \in S,
         \A i \in 1 .. n : i - 1 \in S => i \in S
  PROVE  0 .. n \subseteq S
<1> DEFINE T == {i \in 0 .. n : i \notin S}
<1>1. SUFFICES ASSUME T # {} PROVE FALSE
  OBVIOUS
<1>2. PICK x \in T : \A y \in T : x <= y
  <2>1. T \subseteq Nat
    OBVIOUS
  <2> HIDE DEF T
  <2> QED BY <1>1, <2>1, SmallestNat
<1>3. x \in 1 .. n
  OBVIOUS
<1>4. x - 1 \in S
  BY <1>2, <1>3
<1> QED BY <1>3, <1>4

(* f is a run of a loop of n steps that starts with base. *)
Trace(f, n, V, base, step) ==
  /\ f \in [0 .. n -> V]
  /\ f[0] = base
  /\ \A i \in 1 .. n : f[i] = step[i][f[i - 1]]

(* A loop of n steps, each given by a function, has a run. *)
LEMMA LoopExists ==
  ASSUME NEW n \in Nat, NEW V, NEW base \in V, NEW step \in [1 .. n -> [V -> V]]
  PROVE  \E f : Trace(f, n, V, base, step)
<1> DEFINE Run(f, m) == Trace(f, m, V, base, step)
           S == {m \in 0 .. n : \E f : Run(f, m)}
<1>1. 0 \in S
  <2>1. Run([i \in 0 .. 0 |-> base], 0)
    BY DEF Trace
  <2> HIDE DEF Run
  <2> QED BY <2>1
<1>2. ASSUME NEW m \in 1 .. n, m - 1 \in S PROVE m \in S
  <2>1. PICK f : Run(f, m - 1)
    BY <1>2
  <2> DEFINE g == [i \in 0 .. m |-> IF i = m THEN step[m][f[m - 1]] ELSE f[i]]
  <2>2. f[m - 1] \in V
    BY <2>1 DEF Trace
  <2>3. step[m][f[m - 1]] \in V
    BY <2>2
  <2>4. g \in [0 .. m -> V]
    BY <2>1, <2>3 DEF Trace
  <2>5. g[0] = base
    BY <2>1 DEF Trace
  <2>6. ASSUME NEW i \in 1 .. m PROVE g[i] = step[i][g[i - 1]]
    <3>1. i - 1 \in 0 .. m /\ i - 1 # m /\ i \in 0 .. m
      OBVIOUS
    <3>2. g[i - 1] = f[i - 1]
      BY <3>1
    <3>3. CASE i = m
      BY <3>1, <3>2, <3>3
    <3>4. CASE i # m
      <4>1. i \in 1 .. m - 1
        BY <3>4
      <4>2. f[i] = step[i][f[i - 1]]
        BY <2>1, <4>1 DEF Trace
      <4> QED BY <3>1, <3>2, <3>4, <4>2
    <3> QED BY <3>3, <3>4
  <2>7. Run(g, m)
    BY <2>4, <2>5, <2>6 DEF Trace
  <2> HIDE DEF Run, g
  <2> QED BY <2>7
<1> HIDE DEF Run
<1>3. n \in S
  <2> HIDE DEF S
  <2>1. 0 .. n \subseteq S
    BY <1>1, <1>2, UpTo
  <2> QED BY <2>1
<1> QED BY <1>3 DEF Run

(* What a step of the parser leaves: a verdict and an offset *)
Standing == [offset : Nat, verdict : {"go on", "missing", "invalid", "found"}]

(* A step of the parser keeps the cursor where the loop may be. *)
LEMMA TakeKdeType ==
  ASSUME NEW x \in Standing, NEW e \in Elements, NEW plain \in Int
  PROVE  TakeKde(x, e, plain) \in Standing
<1>1. CASE TakeKde(x, e, plain) = x
  BY <1>1
<1>2. CASE TakeKde(x, e, plain) = [x EXCEPT !.verdict = "missing"]
  BY <1>2 DEF Standing
<1>3. CASE TakeKde(x, e, plain) =
             [x EXCEPT !.verdict = IF ParseGtkBody(e) THEN "found" ELSE "invalid"]
  BY <1>3 DEF Standing
<1>4. CASE TakeKde(x, e, plain) = [x EXCEPT !.offset = x.offset + 2 + e.len]
  <2>1. x.offset \in Nat /\ e.len \in 0 .. 255
    BY DEF Standing, Elements
  <2>2. x.offset + 2 + e.len \in Nat
    BY <2>1
  <2> QED BY <1>4, <2>2 DEF Standing
<1> QED BY <1>1, <1>2, <1>3, <1>4 DEF TakeKde

(* The loop of the parser is the one KdeLoop says, step by step. *)
LEMMA KdeLoopSteps ==
  ASSUME NEW data, data.elements \in Seq(Elements), NEW plain \in Int
  PROVE  LET f == KdeLoop(data, plain) IN
         /\ f[0] = [offset |-> 0, verdict |-> "go on"]
         /\ \A i \in 0 .. Len(data.elements) : f[i] \in Standing
         /\ \A i \in 1 .. Len(data.elements) :
              f[i] = TakeKde(f[i - 1], data.elements[i], plain)
<1> DEFINE n    == Len(data.elements)
           base == [offset |-> 0, verdict |-> "go on"]
           step == [i \in 1 .. n |-> [x \in Standing |-> TakeKde(x, data.elements[i], plain)]]
           Is(f) == f = [i \in 0 .. n |->
                           IF i = 0 THEN base ELSE TakeKde(f[i - 1], data.elements[i], plain)]
<1>1. n \in Nat
  OBVIOUS
<1>2. base \in Standing
  BY DEF Standing
<1>3. step \in [1 .. n -> [Standing -> Standing]]
  <2>1. ASSUME NEW i \in 1 .. n, NEW x \in Standing
        PROVE  TakeKde(x, data.elements[i], plain) \in Standing
    <3>1. data.elements[i] \in Elements
      OBVIOUS
    <3> QED BY <3>1, TakeKdeType
  <2> QED BY <2>1
<1>4. \E f : Trace(f, n, Standing, base, step)
  <2> HIDE DEF n, base, step
  <2> QED BY <1>1, <1>2, <1>3, LoopExists
<1>5. PICK f : Trace(f, n, Standing, base, step)
  BY <1>4
<1>6. Is(f)
  <2>1. ASSUME NEW i \in 0 .. n
        PROVE  f[i] = IF i = 0 THEN base ELSE TakeKde(f[i - 1], data.elements[i], plain)
    <3>1. CASE i = 0
      BY <3>1, <1>5 DEF Trace
    <3>2. CASE i # 0
      <4>1. i \in 1 .. n /\ i - 1 \in 0 .. n
        BY <3>2, <1>1
      <4>2. f[i - 1] \in Standing /\ f[i] = step[i][f[i - 1]]
        BY <1>5, <4>1 DEF Trace
      <4>3. step[i][f[i - 1]] = TakeKde(f[i - 1], data.elements[i], plain)
        BY <4>1, <4>2
      <4> QED BY <3>2, <4>2, <4>3
    <3> QED BY <3>1, <3>2
  <2> QED BY <1>5, <2>1 DEF Trace
<1>7. KdeLoop(data, plain) = CHOOSE g : Is(g)
  BY DEF KdeLoop
<1>8. Is(KdeLoop(data, plain))
  <2> HIDE DEF Is
  <2> QED BY <1>6, <1>7
<1> DEFINE k == KdeLoop(data, plain)
<1> HIDE DEF KdeLoop, k
<1>9. k[0] = base /\ \A i \in 1 .. n : k[i] = TakeKde(k[i - 1], data.elements[i], plain)
  <2>1. k = [i \in 0 .. n |->
               IF i = 0 THEN base ELSE TakeKde(k[i - 1], data.elements[i], plain)]
    BY <1>8 DEF k
  <2> HIDE DEF n, base, Is, step
  <2>2. 0 \in 0 .. n /\ \A i \in 1 .. n : i \in 0 .. n /\ i # 0
    BY <1>1
  <2> QED BY <2>1, <2>2
<1>10. \A i \in 0 .. n : k[i] \in Standing
  <2> DEFINE S == {i \in 0 .. n : k[i] \in Standing}
  <2> HIDE DEF base, Is, step
  <2>1. 0 \in S
    BY <1>1, <1>2, <1>9
  <2>2. ASSUME NEW i \in 1 .. n, i - 1 \in S PROVE i \in S
    <3>1. k[i - 1] \in Standing /\ data.elements[i] \in Elements
      BY <2>2
    <3>2. TakeKde(k[i - 1], data.elements[i], plain) \in Standing
      BY <3>1, TakeKdeType
    <3> QED BY <1>1, <1>9, <3>2
  <2> HIDE DEF S
  <2>3. 0 .. n \subseteq S
    BY <1>1, <2>1, <2>2, UpTo
  <2> QED BY <2>3 DEF S
<1> QED BY <1>9, <1>10 DEF k

(* Offsets adds up the elements, each with its two bytes of header. *)
LEMMA OffsetsSteps ==
  ASSUME NEW data, data.elements \in Seq(Elements)
  PROVE  LET f == Offsets(data) IN
         /\ f[0] = 0
         /\ \A i \in 1 .. Len(data.elements) :
              f[i] = f[i - 1] + 2 + data.elements[i].len
<1> DEFINE n    == Len(data.elements)
           step == [i \in 1 .. n |-> [x \in Nat |-> x + 2 + data.elements[i].len]]
           Is(f) == f = [i \in 0 .. n |->
                           IF i = 0 THEN 0 ELSE f[i - 1] + 2 + data.elements[i].len]
<1>1. n \in Nat
  OBVIOUS
<1>2. step \in [1 .. n -> [Nat -> Nat]]
  <2>1. ASSUME NEW i \in 1 .. n, NEW x \in Nat
        PROVE  x + 2 + data.elements[i].len \in Nat
    <3>1. data.elements[i] \in Elements
      OBVIOUS
    <3> DEFINE l == data.elements[i].len
    <3>2. l \in 0 .. 255
      BY <3>1 DEF Elements
    <3> HIDE DEF l
    <3>3. x + 2 + l \in Nat
      BY <3>2
    <3> QED BY <3>3 DEF l
  <2> QED BY <2>1
<1>3. \E f : Trace(f, n, Nat, 0, step)
  <2> HIDE DEF n, step
  <2> QED BY <1>1, <1>2, LoopExists
<1>4. PICK f : Trace(f, n, Nat, 0, step)
  BY <1>3
<1>5. Is(f)
  <2>1. ASSUME NEW i \in 0 .. n
        PROVE  f[i] = IF i = 0 THEN 0 ELSE f[i - 1] + 2 + data.elements[i].len
    <3>1. CASE i = 0
      BY <3>1, <1>4 DEF Trace
    <3>2. CASE i # 0
      <4>1. i \in 1 .. n /\ i - 1 \in 0 .. n
        BY <3>2, <1>1
      <4>2. f[i - 1] \in Nat /\ f[i] = step[i][f[i - 1]]
        BY <1>4, <4>1 DEF Trace
      <4>3. step[i][f[i - 1]] = f[i - 1] + 2 + data.elements[i].len
        BY <4>1, <4>2
      <4> QED BY <3>2, <4>2, <4>3
    <3> QED BY <3>1, <3>2
  <2> QED BY <1>4, <2>1 DEF Trace
<1>6. Offsets(data) = CHOOSE g : Is(g)
  BY DEF Offsets
<1>7. Is(Offsets(data))
  <2> HIDE DEF Is
  <2> QED BY <1>5, <1>6
<1> DEFINE k == Offsets(data)
<1> HIDE DEF Offsets, k
<1>8. k[0] = 0 /\ \A i \in 1 .. n : k[i] = k[i - 1] + 2 + data.elements[i].len
  <2>1. k = [i \in 0 .. n |-> IF i = 0 THEN 0 ELSE k[i - 1] + 2 + data.elements[i].len]
    BY <1>7 DEF k
  <2> HIDE DEF n, Is, step
  <2>2. 0 \in 0 .. n /\ \A i \in 1 .. n : i \in 0 .. n /\ i # 0
    BY <1>1
  <2> QED BY <2>1, <2>2
<1> QED BY <1>8 DEF k

(* The parser stops in front of an element that is not all there. *)
Stops(x, e, plain) ==
  \/ x.offset >= plain
  \/ e.id = 0
  \/ plain - x.offset < 2
  \/ e.len = 0
  \/ e.len > plain - (x.offset + 2)
IsKey(e) == e.id = VENDOR /\ e.body \in {"gtk", "gtkReserved"}

(* The outcomes of a step that has no verdict yet *)
LEMMA TakeKdeOutcomes ==
  ASSUME NEW x \in Standing, NEW e, NEW plain, x.verdict = "go on"
  PROVE  \/ Stops(x, e, plain) /\ TakeKde(x, e, plain).verdict = "missing"
         \/ /\ ~Stops(x, e, plain) /\ IsKey(e)
            /\ TakeKde(x, e, plain).verdict =
                 IF ParseGtkBody(e) THEN "found" ELSE "invalid"
         \/ /\ ~Stops(x, e, plain) /\ ~IsKey(e)
            /\ TakeKde(x, e, plain).verdict = "go on"
            /\ TakeKde(x, e, plain).offset = x.offset + 2 + e.len
<1>1. TakeKde(x, e, plain) =
        IF Stops(x, e, plain) THEN [x EXCEPT !.verdict = "missing"]
        ELSE IF IsKey(e)
             THEN [x EXCEPT !.verdict = IF ParseGtkBody(e) THEN "found" ELSE "invalid"]
        ELSE [x EXCEPT !.offset = x.offset + 2 + e.len]
  BY DEF TakeKde, Stops, IsKey
<1>2. /\ [x EXCEPT !.verdict = "missing"].verdict = "missing"
      /\ [x EXCEPT !.verdict = IF ParseGtkBody(e) THEN "found" ELSE "invalid"].verdict =
           IF ParseGtkBody(e) THEN "found" ELSE "invalid"
      /\ [x EXCEPT !.offset = x.offset + 2 + e.len].verdict = "go on"
      /\ [x EXCEPT !.offset = x.offset + 2 + e.len].offset = x.offset + 2 + e.len
  BY DEF Standing
<1> QED BY <1>1, <1>2

(* A step that goes on has passed a whole element. *)
LEMMA TakeKdePasses ==
  ASSUME NEW x \in Standing, NEW e \in Elements, NEW plain \in Int
  PROVE  x.verdict = "go on" /\ TakeKde(x, e, plain).verdict = "go on"
           => /\ e.id # 0 /\ e.len > 0
              /\ TakeKde(x, e, plain).offset = x.offset + 2 + e.len
<1>1. e.len \in 0 .. 255
  BY DEF Elements
<1>2. ~Stops(x, e, plain) => e.id # 0 /\ e.len > 0
  BY <1>1 DEF Stops
<1> QED BY <1>2, TakeKdeOutcomes

(* A step that finds the key stands in front of a whole one. *)
LEMMA TakeKdeFinds ==
  ASSUME NEW x \in Standing, NEW e \in Elements, NEW plain \in Int
  PROVE  x.verdict = "go on" /\ TakeKde(x, e, plain).verdict = "found"
           => /\ e = [id |-> VENDOR, len |-> 22, body |-> "gtk"]
              /\ x.offset + 24 <= plain
<1>1. e.len \in 0 .. 255 /\ x.offset \in Nat
  BY DEF Elements, Standing
<1>2. IsKey(e) /\ ParseGtkBody(e) => e = [id |-> VENDOR, len |-> 22, body |-> "gtk"]
  BY DEF Elements, IsKey, ParseGtkBody
<1>3. ~Stops(x, e, plain) /\ ParseGtkBody(e) => x.offset + 24 <= plain
  BY <1>1 DEF Stops, ParseGtkBody
<1> QED BY <1>2, <1>3, TakeKdeOutcomes

(* A key that the parser finds is a whole group key behind whole elements, *)
(* whatever lengths the elements claim.                                    *)
LEMMA FoundIsGroupKey ==
  ASSUME NEW data, data.elements \in Seq(Elements), NEW plain \in Int,
         ParseGtkKde(data, plain)
  PROVE  HasGroupKey(data, plain)
<1> DEFINE n == Len(data.elements)
           f == KdeLoop(data, plain)
           o == Offsets(data)
           Ahead(i) == /\ f[i].offset = o[i]
                       /\ \A j \in 1 .. i : data.elements[j].id # 0
                                             /\ data.elements[j].len > 0
           S == {i \in 0 .. n : /\ f[i].verdict = "go on" => Ahead(i)
                                /\ f[i].verdict = "found" => HasGroupKey(data, plain)}
<1>0. n \in Nat
  OBVIOUS
<1>1. /\ f[0] = [offset |-> 0, verdict |-> "go on"]
      /\ \A i \in 0 .. n : f[i] \in Standing
      /\ \A i \in 1 .. n : f[i] = TakeKde(f[i - 1], data.elements[i], plain)
  BY KdeLoopSteps
<1>2. /\ o[0] = 0
      /\ \A i \in 1 .. n : o[i] = o[i - 1] + 2 + data.elements[i].len
  BY OffsetsSteps
<1> HIDE DEF f, o
<1>3. 0 \in S
  <2>0. f[0] = [offset |-> 0, verdict |-> "go on"]
    BY <1>1
  <2>1. f[0].offset = 0 /\ f[0].verdict = "go on"
    <3> DEFINE g == f[0]
    <3>1. g = [offset |-> 0, verdict |-> "go on"]
      BY <2>0
    <3> HIDE DEF g
    <3>2. g.offset = 0 /\ g.verdict = "go on"
      BY ONLY <3>1
    <3> QED BY <3>2 DEF g
  <2>2. 0 \in 0 .. n
    BY <1>0
  <2>3. f[0].offset = o[0]
    BY <1>2, <2>1
  <2>4. Ahead(0)
    BY <2>3
  <2> HIDE DEF Ahead
  <2> QED BY <2>1, <2>2, <2>4
<1>4. ASSUME NEW i \in 1 .. n, i - 1 \in S PROVE i \in S
  <2> DEFINE x == f[i - 1]
             e == data.elements[i]
  <2>1. x \in Standing /\ e \in Elements /\ f[i] = TakeKde(x, e, plain) /\ i \in 0 .. n
    <3>1. i \in 0 .. n /\ i - 1 \in 0 .. n /\ i \in 1 .. n
      BY <1>0
    <3>2. data.elements[i] \in Elements
      BY <3>1
    <3> QED BY <1>1, <3>1, <3>2
  <2>2. /\ x.verdict = "go on" => Ahead(i - 1)
        /\ x.verdict = "found" => HasGroupKey(data, plain)
    BY <1>4
  <2>3. CASE x.verdict # "go on"
    <3>1. f[i] = x
      BY <2>1, <2>3 DEF TakeKde
    <3> QED BY <2>1, <2>2, <2>3, <3>1
  <2>4. CASE x.verdict = "go on" /\ f[i].verdict = "go on"
    <3> HIDE DEF x, e, Ahead
    <3>1. e.id # 0 /\ e.len > 0
      BY <2>1, <2>4, TakeKdePasses
    <3>2. f[i].offset = x.offset + 2 + e.len
      BY <2>1, <2>4, TakeKdePasses
    <3>3. Ahead(i)
      <4>1. f[i].offset = o[i]
        BY <1>2, <2>2, <2>4, <3>2 DEF Ahead, x, e
      <4>2. ASSUME NEW j \in 1 .. i
            PROVE  data.elements[j].id # 0 /\ data.elements[j].len > 0
        <5>1. CASE j = i
          BY <3>1, <5>1 DEF e
        <5>2. CASE j # i
          <6>1. j \in 1 .. i - 1
            BY <5>2
          <6> QED BY <2>2, <2>4, <6>1 DEF Ahead
        <5> QED BY <5>1, <5>2
      <4> QED BY <4>1, <4>2 DEF Ahead
    <3> QED BY <2>1, <2>4, <3>3
  <2>5. CASE x.verdict = "go on" /\ f[i].verdict = "found"
    <3> HIDE DEF x, e
    <3>2. e = [id |-> VENDOR, len |-> 22, body |-> "gtk"]
      BY <2>1, <2>5, TakeKdeFinds
    <3>3. o[i - 1] + 24 <= plain
      <4>1. x.offset + 24 <= plain
        BY <2>1, <2>5, TakeKdeFinds
      <4>2. x.offset = o[i - 1]
        BY <2>2, <2>5 DEF x
      <4> QED BY <4>1, <4>2
    <3>4. HasGroupKey(data, plain)
      BY <2>2, <2>5, <3>2, <3>3 DEF HasGroupKey, e, o
    <3> QED BY <2>1, <2>5, <3>4
  <2>6. CASE f[i].verdict \notin {"go on", "found"}
    BY <2>1, <2>6
  <2> QED BY <2>3, <2>4, <2>5, <2>6
<1> HIDE DEF S
<1>5. n \in S
  <2>1. 0 .. n \subseteq S
    BY <1>0, <1>3, <1>4, UpTo
  <2> QED BY <1>0, <2>1
<1> QED BY <1>5 DEF S, ParseGtkKde, f

(* A frame that the supplicant takes for a Message 3 or a group Message 1  *)
(* with a group key may ask for keys.                                      *)
LEMMA KeysAskedFor ==
  ASSUME NEW w \in WireFrames, Parses(w),
         Read(w).msg \in {"Message3", "GroupMessage1"}, Read(w).data = "gtk"
  PROVE  AsksForKeys(w)
<1>1. Message(w) \in {"Message3", "GroupMessage1"} /\ KeyData(w) = "gtk"
  BY DEF Read
<1>2. /\ w.version = 2 /\ Classify(w.info) = Message(w)
      /\ Message(w) = "Message3" => w.keyLength = CCMP_KEY_LEN
  BY <1>1 DEF Message
<1>3. "Encrypted" \in w.info /\ GroupKeyInstall(w)
  BY <1>1 DEF KeyData
<1>4. w.data.intact /\ HasGroupKey(w.data, w.keyData - 8)
  <2>1. w.data.elements \in Seq(Elements) /\ w.keyData - 8 \in Int
    BY WireAssumption
  <2>2. w.data.intact /\ ParseGtkKde(w.data, w.keyData - 8)
    BY <1>3 DEF GroupKeyInstall
  <2> QED BY <2>1, <2>2, FoundIsGroupKey
<1> DEFINE bits == w.info \cap {"Ack", "Mic", "Install", "Secure"}
<1>5. CASE Message(w) = "Message3"
  <2>1. "Error" \notin w.info /\ "Pairwise" \in w.info
        /\ bits = {"Ack", "Mic", "Install", "Secure"}
    BY <1>2, <1>5 DEF Classify
  <2>2. {"Ack", "Mic", "Install", "Secure"} \subseteq w.info
    BY <2>1
  <2> QED BY <1>2, <1>3, <1>4, <1>5, <2>1, <2>2 DEF AsksForKeys, Parses
<1>6. CASE Message(w) = "GroupMessage1"
  <2>1. "Error" \notin w.info /\ "Pairwise" \notin w.info
        /\ bits \ {"Install"} = {"Ack", "Mic", "Secure"}
    BY <1>2, <1>6 DEF Classify
  <2>2. {"Ack", "Mic", "Secure"} \subseteq w.info
    BY <2>1
  <2> QED BY <1>2, <1>3, <1>4, <2>1, <2>2 DEF AsksForKeys, Parses
<1> QED BY <1>1, <1>5, <1>6

(* The frames that the supplicant may make a request of *)
Fit == {f \in Frames : f.msg \in {"Message3", "GroupMessage1"} /\ f.data = "gtk"}

(* Every frame of Fit asks for its keys as the reference has it. *)
LEMMA FitIsFit == (Fit \cup {NoFrame}) \cap Unfit = {}
<1>1. ASSUME NEW w \in WireFrames, Parses(w), ~AsksForKeys(w), Read(w) \in Fit
      PROVE  FALSE
  BY <1>1, KeysAskedFor DEF Fit
<1>2. ASSUME NEW w \in WireFrames, Read(w) = NoFrame
      PROVE  FALSE
  <2>1. Read(w).msg = Message(w)
    BY DEF Read
  <2>2. Message(w) # "none"
    BY DEF Message, Classify
  <2> QED BY <1>2, <2>1, <2>2 DEF NoFrame
<1> QED BY <1>1, <1>2 DEF Unfit

(* The counters of a frame are in range, and no frame is NoFrame. *)
LEMMA FrameFields ==
  ASSUME NEW f \in Frames
  PROVE  f.replay \in 0 .. MaxReplay /\ f.tag \in 0 .. MaxHandshakes /\ f # NoFrame
<1>1. PICK w \in WireFrames : Parses(w) /\ f = Read(w)
  BY DEF Frames
<1>2. w.replay \in 0 .. MaxReplay /\ w.tag \in 0 .. MaxHandshakes
  BY WireAssumption
<1>3. Message(w) # "none"
  BY DEF Message, Classify
<1>4. f.replay = w.replay /\ f.tag \in {0, w.tag} /\ f.msg = Message(w)
  BY <1>1 DEF Read
<1>5. 0 \in 0 .. MaxHandshakes
  BY SessionAssumption
<1> QED BY <1>2, <1>3, <1>4, <1>5 DEF NoFrame

-----------------------------------------------------------------------------
(* The station of a session *)

(* States before an association, and states that no action of a session    *)
(* enters                                                                  *)
Early == {"Down", "Idle", "InterfaceCreatePending", "InterfaceUpPending",
          "Authenticating", "Authenticated", "Recovering"}
Never == {"Fault", "RegulatoryPending", "Scanning", "ScanComplete",
          "ReadingScanResults"}

(* A secure connection has a peer and lasts from associate to the end of   *)
(* the connection.                                                         *)
Located(s) ==
  /\ s \in StationType
  /\ s.state \notin Never
  /\ s.secure => s.peer # NoPeer /\ s.state \notin Early
  /\ s.state \in {"Authenticating", "Authenticated"} => s.peer # NoPeer
  /\ s.state = "PowerSavePending" =>
       s.ret \in {"Idle", "Connected"} /\ (s.secure => s.ret # "Idle")

(* The port is authorized or about to be. *)
Granted(s) == s.authorized \/ s.state = "Authorizing"

(* A step from s to t that neither starts a secure connection nor grants   *)
(* one the port.                                                           *)
Quiet(s, t) == t.secure => s.secure /\ (Granted(t) => Granted(s))

(* A transition of a station that is s but for its pending command *)
LEMMA MoveQuiet ==
  ASSUME NEW s, Located(s), NEW p \in StationType, NEW x \in StationStates,
         p.peer = s.peer, p.secure = s.secure, p.authorized = s.authorized,
         x \notin Never, x \notin {"PowerSavePending", "Authorizing"},
         x \in Early => ~s.secure,
         x \in {"Authenticating", "Authenticated"} => s.peer # NoPeer
  PROVE  Located(Transition(p, x)) /\ Quiet(s, Transition(p, x))
<1> DEFINE t == Transition(p, x)
<1>1. /\ t \in StationType /\ t.state = x /\ t.peer = s.peer /\ t.secure = s.secure
      /\ t.authorized = s.authorized
  BY TransitionFields
<1> HIDE DEF t
<1>2. Located(t)
  BY <1>1 DEF Located
<1>3. Quiet(s, t)
  BY <1>1 DEF Quiet, Granted
<1> QED BY <1>2, <1>3 DEF t

(* A transition of a station without a connection *)
LEMMA ForgetQuiet ==
  ASSUME NEW s, NEW p \in StationType, NEW x \in StationStates, ~p.secure,
         x \notin Never, x \notin {"PowerSavePending", "Authenticating", "Authenticated"}
  PROVE  Located(Transition(p, x)) /\ Quiet(s, Transition(p, x))
<1> DEFINE t == Transition(p, x)
<1>1. t \in StationType /\ t.state = x /\ ~t.secure
  BY TransitionFields
<1> HIDE DEF t
<1>2. Located(t)
  BY <1>1 DEF Located
<1>3. Quiet(s, t)
  BY <1>1 DEF Quiet, Granted
<1> QED BY <1>2, <1>3 DEF t

(* The names of states that the station moves to *)
LEMMA Targets ==
  /\ {"Securing", "Idle", "Connected", "AwaitingCarrier", "Down", "Authenticated",
      "Associating", "Authorizing", "InterfaceUpPending", "InterfaceDownPending",
      "Disconnecting", "InterfaceCreatePending"} \cap Never = {}
  /\ {"Securing", "Connected", "AwaitingCarrier", "Associating", "Authorizing",
      "InterfaceDownPending", "Disconnecting", "PowerSavePending"} \cap Early = {}
  BY DEF Never, Early

(* refresh_connected opens the port only of an authorized station. *)
LEMMA RefreshQuiet ==
  ASSUME NEW s, Located(s)
  PROVE  Located(RefreshConnected(s)) /\ Quiet(s, RefreshConnected(s))
<1>1. \/ RefreshConnected(s) = s
      \/ s.authorized /\ RefreshConnected(s) = Transition(s, "Connected")
  BY DEF RefreshConnected
<1> DEFINE t == Transition(s, "Connected")
<1>2. /\ t \in StationType /\ t.state = "Connected" /\ t.peer = s.peer
      /\ t.secure = s.secure /\ t.authorized = s.authorized
  BY StateNames, TransitionFields DEF Located
<1> HIDE DEF t
<1>3. s.authorized => Located(t) /\ Quiet(s, t)
  BY <1>2, Targets DEF Located, Quiet, Granted
<1>4. Quiet(s, s)
  BY DEF Quiet
<1> QED BY <1>1, <1>3, <1>4 DEF t

(* The status of a command grants the port only when the station is        *)
(* Authorizing.                                                            *)
LEMMA CommandStatusQuiet ==
  ASSUME NEW s, Located(s), NEW c \in Commands, NEW good \in BOOLEAN,
         HandleCommandStatus(s, c, good).ok
  PROVE  Located(HandleCommandStatus(s, c, good).st)
         /\ Quiet(s, HandleCommandStatus(s, c, good).st)
<1> DEFINE p == [s EXCEPT !.pending = "None"]
<1>1. p \in StationType
  BY DEF Located, StationType
<1>2. CASE HandleCommandStatus(s, c, good).st = s
  BY <1>2 DEF Quiet
<1>3. CASE HandleCommandStatus(s, c, good).st = ApplySuccessfulCommand(p, c)
  <2>1. CASE c \in KeyCommands
    <3>1. ApplySuccessfulCommand(p, c) = Transition(p, "Securing")
      BY <2>1 DEF ApplySuccessfulCommand, KeyCommands, PowerSaveCommands
    <3>2. p.peer = s.peer /\ p.secure = s.secure /\ p.authorized = s.authorized
      BY DEF Located, StationType
    <3> HIDE DEF p
    <3> QED
      BY <1>1, <1>3, <3>1, <3>2, StateNames, Targets, MoveQuiet
  <2>2. CASE c = "SetStation" /\ s.state = "Authorizing"
    <3> DEFINE a == [p EXCEPT !.authorized = TRUE]
               w == Transition(a, "AwaitingCarrier")
    <3>1. a \in StationType
      BY <1>1 DEF StationType
    <3>2. w \in StationType
      BY <3>1, StateNames, TransitionFields
    <3>3. ApplySuccessfulCommand(p, c) = RefreshConnected(w)
      BY <2>2, <1>1 DEF ApplySuccessfulCommand, KeyCommands, PowerSaveCommands,
         StationType, Located
    <3>4. Located(w) /\ Quiet(s, w) /\ (Granted(w) => Granted(s))
      BY <2>2, <3>1, <3>2 DEF Located, Quiet, Granted, Never, Early, Transition, StationType
    <3> HIDE DEF w
    <3>5. Located(RefreshConnected(w)) /\ Quiet(w, RefreshConnected(w))
      BY <3>4, RefreshQuiet
    <3> QED BY <1>3, <3>3, <3>4, <3>5 DEF Quiet
  <2>3. CASE c \in PowerSaveCommands /\ s.state = "PowerSavePending"
    <3> DEFINE n == [p EXCEPT !.ret = "None"]
    <3>1. n \in StationType
      BY <1>1 DEF StationType
    <3>2. s.ret \in {"Connected", "Idle"} /\ s.ret \in StationStates
      BY <2>3, StateNames DEF Located
    <3>3. ApplySuccessfulCommand(p, c) = Transition(n, s.ret)
      BY <2>3, <1>1, <3>2 DEF ApplySuccessfulCommand, KeyCommands,
         PowerSaveCommands, Located, StationType
    <3>4. n.peer = s.peer /\ n.secure = s.secure /\ n.authorized = s.authorized
      BY DEF Located, StationType
    <3>5. s.ret \in Early => ~s.secure
      BY <2>3, <3>2, Targets DEF Located
    <3> HIDE DEF n
    <3>6. Located(Transition(n, s.ret)) /\ Quiet(s, Transition(n, s.ret))
      BY <3>1, <3>2, <3>4, <3>5, Targets, MoveQuiet
    <3> QED
      BY <1>3, <3>3, <3>6
  <2>4. CASE /\ c \notin KeyCommands
             /\ ~(c = "SetStation" /\ s.state = "Authorizing")
             /\ ~(c \in PowerSaveCommands /\ s.state = "PowerSavePending")
    <3>1. ApplySuccessfulCommand(p, c) = p
      BY <2>4, <1>1 DEF ApplySuccessfulCommand, Located, StationType
    <3> QED
      BY <1>1, <1>3, <3>1 DEF Located, Quiet, Granted, Never, Early, StationType
  <2> QED
    BY <2>1, <2>2, <2>3, <2>4
<1> QED
  BY <1>2, <1>3 DEF HandleCommandStatus, IsDefaultInterfaceStatus, Ok, Err, Fail

(* Events about the interface, and the regulatory domain *)
LEMMA InterfaceQuiet ==
  ASSUME NEW s, Located(s)
  PROVE  /\ HandleInterfaceState(s, TRUE).ok =>
              Located(HandleInterfaceState(s, TRUE).st)
              /\ Quiet(s, HandleInterfaceState(s, TRUE).st)
         /\ HandleInterfaceCreated(s, TRUE).ok =>
              Located(HandleInterfaceCreated(s, TRUE).st)
              /\ Quiet(s, HandleInterfaceCreated(s, TRUE).st)
         /\ HandleRegulatoryChange(s).st = s
<1> DEFINE p == [s EXCEPT !.pending = "None"]
           c == [s EXCEPT !.created = TRUE, !.pending = "None"]
           q == ClearConnection(p)
<1>1. p \in StationType /\ c \in StationType
  BY DEF Located, StationType
<1>2. /\ p.peer = s.peer /\ p.secure = s.secure /\ p.authorized = s.authorized
      /\ c.peer = s.peer /\ c.secure = s.secure /\ c.authorized = s.authorized
      /\ q \in StationType /\ ~q.secure
  <2>1. q \in StationType /\ ~q.secure
    BY <1>1, ClearFields
  <2> QED BY <2>1 DEF Located, StationType
<1>3. ASSUME HandleInterfaceState(s, TRUE).ok
      PROVE  Located(HandleInterfaceState(s, TRUE).st)
             /\ Quiet(s, HandleInterfaceState(s, TRUE).st)
  <2>1. \/ s.state = "InterfaceUpPending"
           /\ HandleInterfaceState(s, TRUE).st = Transition(p, "Idle")
        \/ HandleInterfaceState(s, TRUE).st = Transition(q, "Down")
    BY <1>3 DEF HandleInterfaceState, Ok, Fail, Err
  <2>2. s.state = "InterfaceUpPending" => ~s.secure
    BY DEF Located, Early
  <2> HIDE DEF p, q
  <2> QED
    BY <1>1, <1>2, <2>1, <2>2, StateNames, Targets, MoveQuiet, ForgetQuiet
<1>4. ASSUME HandleInterfaceCreated(s, TRUE).ok
      PROVE  Located(HandleInterfaceCreated(s, TRUE).st)
             /\ Quiet(s, HandleInterfaceCreated(s, TRUE).st)
  <2>1. \/ s.state = "InterfaceCreatePending"
           /\ HandleInterfaceCreated(s, TRUE).st = Transition(c, "Down")
        \/ HandleInterfaceCreated(s, TRUE).st = s
    BY <1>4 DEF HandleInterfaceCreated, Ok, Fail, Err
  <2>2. s.state = "InterfaceCreatePending" => ~s.secure
    BY DEF Located, Early
  <2>3. Quiet(s, s)
    BY DEF Quiet
  <2> HIDE DEF c
  <2> QED
    BY <1>1, <1>2, <2>1, <2>2, <2>3, StateNames, Targets, MoveQuiet
<1>5. HandleRegulatoryChange(s).st = s
  BY DEF HandleRegulatoryChange, Ok, Located, Never
<1> QED BY <1>3, <1>4, <1>5

(* Answers of the access point *)
LEMMA MlmeQuiet ==
  ASSUME NEW s, Located(s), NEW e
  PROVE  /\ HandleAuthentication(s, e).ok =>
              Located(HandleAuthentication(s, e).st)
              /\ Quiet(s, HandleAuthentication(s, e).st)
         /\ HandleAssociation(s, e).ok =>
              Located(HandleAssociation(s, e).st)
              /\ Quiet(s, HandleAssociation(s, e).st)
         /\ HandleDisconnectEvent(s, e).ok =>
              Located(HandleDisconnectEvent(s, e).st)
              /\ Quiet(s, HandleDisconnectEvent(s, e).st)
<1> DEFINE p == [s EXCEPT !.pending = "None"]
           x == IF s.secure THEN "Securing" ELSE "AwaitingCarrier"
           w == Transition(p, x)
           d == Transition(ClearPending(ClearConnection(s)), "Idle")
<1>1. p \in StationType
  BY DEF Located, StationType
<1>2. Transition(p, "Authenticated") \in StationType /\ w \in StationType
      /\ d \in StationType
  BY <1>1, StateNames, ClearFields, TransitionFields DEF Located
<1>3. ASSUME HandleAuthentication(s, e).ok
      PROVE  Located(HandleAuthentication(s, e).st)
             /\ Quiet(s, HandleAuthentication(s, e).st)
  <2>1. /\ HandleAuthentication(s, e).st = Transition(p, "Authenticated")
        /\ s.state = "Authenticating"
    BY <1>3 DEF HandleAuthentication, Ok, Fail, Err
  <2> QED
    BY <1>2, <2>1 DEF Located, Quiet, Granted, Never, Early, Transition, StationType
<1>4. ASSUME HandleAssociation(s, e).ok
      PROVE  Located(HandleAssociation(s, e).st)
             /\ Quiet(s, HandleAssociation(s, e).st)
  <2>1. /\ HandleAssociation(s, e).st = RefreshConnected(w)
        /\ s.state = "Associating"
    BY <1>4 DEF HandleAssociation, FromPeer, Ok, Fail, Err
  <2>2. Located(w) /\ Quiet(s, w) /\ (Granted(w) => Granted(s))
    BY <1>2, <2>1 DEF Located, Quiet, Granted, Never, Early, Transition, StationType
  <2> HIDE DEF w
  <2>3. Located(RefreshConnected(w)) /\ Quiet(w, RefreshConnected(w))
    BY <2>2, RefreshQuiet
  <2> QED BY <2>1, <2>2, <2>3 DEF Quiet
<1>5. ASSUME HandleDisconnectEvent(s, e).ok
      PROVE  Located(HandleDisconnectEvent(s, e).st)
             /\ Quiet(s, HandleDisconnectEvent(s, e).st)
  <2> DEFINE q == ClearPending(ClearConnection(s))
  <2>1. HandleDisconnectEvent(s, e).st \in {s, Transition(q, "Idle")}
    BY <1>5 DEF HandleDisconnectEvent, Ok, Fail, Err
  <2>2. q \in StationType /\ ~q.secure
    BY ClearFields DEF Located, StationType, ClearPending, ClearConnection
  <2>3. Quiet(s, s)
    BY DEF Quiet
  <2> HIDE DEF q
  <2> QED
    BY <2>1, <2>2, <2>3, StateNames, Targets, ForgetQuiet
<1> QED BY <1>3, <1>4, <1>5

(* Carrier events *)
LEMMA CarrierQuiet ==
  ASSUME NEW s, Located(s)
  PROVE  /\ Located(HandleCarrierOn(s).st) /\ Quiet(s, HandleCarrierOn(s).st)
         /\ HandleCarrierOff(s).ok =>
              Located(HandleCarrierOff(s).st) /\ Quiet(s, HandleCarrierOff(s).st)
<1> DEFINE c(b) == [s EXCEPT !.carrier = b]
<1>1. ASSUME NEW b \in BOOLEAN
      PROVE  Located(c(b)) /\ Quiet(s, c(b)) /\ (Granted(c(b)) => Granted(s))
  BY DEF Located, StationType, Quiet, Granted
<1>2. HandleCarrierOn(s).st = RefreshConnected(c(TRUE))
  BY DEF HandleCarrierOn, Ok
<1>3. HandleCarrierOff(s).ok => HandleCarrierOff(s).st = c(FALSE)
  BY DEF HandleCarrierOff, Ok, Fail, Err
<1> HIDE DEF c
<1>4. Located(RefreshConnected(c(TRUE))) /\ Quiet(c(TRUE), RefreshConnected(c(TRUE)))
  BY <1>1, RefreshQuiet
<1> QED BY <1>1, <1>2, <1>3, <1>4 DEF Quiet

(* Whatever good event the station accepts: no port opens by it, and no    *)
(* secure connection begins.                                               *)
LEMMA EventQuiet ==
  ASSUME NEW s, Located(s), NEW e \in Events, e.mine, e.good, HandleEvent(s, e).ok
  PROVE  Located(HandleEvent(s, e).st) /\ Quiet(s, HandleEvent(s, e).st)
<1> DEFINE Goal == Located(HandleEvent(s, e).st) /\ Quiet(s, HandleEvent(s, e).st)
<1>0. e.mine = TRUE /\ e.good = TRUE
  BY DEF Events
<1>1. CASE e.kind = "CommandStatus"
  <2>1. e.command \in Commands
    BY <1>1 DEF Events, PlainEvents, MlmeEvents
  <2>2. HandleEvent(s, e) = HandleCommandStatus(s, e.command, TRUE)
    BY <1>0, <1>1 DEF HandleEvent
  <2> QED BY <2>1, <2>2, CommandStatusQuiet
<1>2. CASE e.kind = "InterfaceState"
  <2>1. HandleEvent(s, e) = HandleInterfaceState(s, TRUE)
    BY <1>0, <1>2 DEF HandleEvent
  <2> QED BY <2>1, InterfaceQuiet
<1>3. CASE e.kind = "RegulatoryChange"
  <2>1. HandleEvent(s, e) = HandleRegulatoryChange(s)
    BY <1>0, <1>3 DEF HandleEvent
  <2>2. HandleEvent(s, e).st = s
    BY <2>1, InterfaceQuiet
  <2> QED BY <2>2 DEF Quiet
<1>4. CASE e.kind = "NewInterface"
  <2>1. HandleEvent(s, e) = HandleInterfaceCreated(s, TRUE)
    BY <1>0, <1>4 DEF HandleEvent
  <2> QED BY <2>1, InterfaceQuiet
<1>5. CASE e.kind \in {"ScanDone", "ScanResult"}
  <2>1. /\ e.kind = "ScanDone" => HandleEvent(s, e) = HandleScanDone(s, TRUE)
        /\ e.kind = "ScanResult" => HandleEvent(s, e) = HandleScanResult(s, e.last)
    BY <1>0 DEF HandleEvent
  <2> QED BY <1>5, <2>1 DEF HandleScanDone, HandleScanResult, Fail, Err, Located, Never
<1>6. CASE e.kind \in {"Authentication", "Association", "Disconnect"}
  <2>1. /\ e.kind = "Authentication" => HandleEvent(s, e) = HandleAuthentication(s, e)
        /\ e.kind = "Association" => HandleEvent(s, e) = HandleAssociation(s, e)
        /\ e.kind = "Disconnect" => HandleEvent(s, e) = HandleDisconnectEvent(s, e)
    BY <1>0 DEF HandleEvent
  <2> QED BY <1>6, <2>1, MlmeQuiet
<1>7. CASE e.kind \in {"CarrierOn", "CarrierOff"}
  <2>1. /\ e.kind = "CarrierOn" => HandleEvent(s, e) = HandleCarrierOn(s)
        /\ e.kind = "CarrierOff" => HandleEvent(s, e) = HandleCarrierOff(s)
    BY <1>0 DEF HandleEvent
  <2> QED BY <1>7, <2>1, CarrierQuiet
<1>8. CASE e.kind = "Other"
  <2>1. HandleEvent(s, e) = Ok(s)
    BY <1>0, <1>8 DEF HandleEvent
  <2> QED BY <2>1 DEF Quiet, Ok
<1> QED
  BY <1>1, <1>2, <1>3, <1>4, <1>5, <1>6, <1>7, <1>8 DEF Events, PlainEvents, MlmeEvents

(* Recovery forgets the connection. *)
LEMMA RecoveryQuiet ==
  ASSUME NEW s, Located(s)
  PROVE  /\ Located(BeginRecovery(s)) /\ ~BeginRecovery(s).secure
         /\ Located(RecoveryComplete(s)) /\ ~RecoveryComplete(s).secure
<1> DEFINE q == ClearPending(ClearConnection([s EXCEPT !.created = FALSE]))
<1>1. q \in StationType /\ ~q.secure
  <2>1. [s EXCEPT !.created = FALSE] \in StationType
    BY DEF Located, StationType
  <2> QED BY <2>1, ClearFields
<1>2. /\ BeginRecovery(s) = Transition(q, "Recovering")
      /\ RecoveryComplete(s) = Transition(q, "Down")
  BY DEF BeginRecovery, RecoveryComplete
<1>3. "Recovering" \notin Never /\ "Down" \notin Never
  BY DEF Never
<1> HIDE DEF q
<1>4. ASSUME NEW x \in {"Recovering", "Down"}
      PROVE  Located(Transition(q, x)) /\ ~Transition(q, x).secure
  <2>1. x \in StationStates /\ x \notin Never
    BY <1>3, StateNames
  <2>2. Transition(q, x).secure = q.secure
    BY <1>1, <2>1, TransitionFields
  <2> QED BY <1>1, <2>1, <2>2, ForgetQuiet
<1> QED BY <1>2, <1>4

(* A command of a connection *)
LEMMA SubmitQuiet ==
  ASSUME NEW s, Located(s), NEW c \in Commands, NEW x \in StationStates,
         x \notin Never, x \notin {"PowerSavePending", "Authorizing"},
         x \in Early => ~s.secure,
         x \in {"Authenticating", "Authenticated"} => s.peer # NoPeer
  PROVE  /\ Located(Submit(s, c, x)) /\ Quiet(s, Submit(s, c, x))
         /\ Submit(s, c, x).peer = s.peer
<1> DEFINE p == [s EXCEPT !.pending = c]
<1>1. /\ p \in StationType /\ p.peer = s.peer /\ p.secure = s.secure
      /\ p.authorized = s.authorized
  BY DEF Located, StationType
<1>2. Submit(s, c, x) = Transition(p, x)
  BY DEF Submit
<1> HIDE DEF p
<1> QED BY <1>1, <1>2, MoveQuiet, TransitionFields

(* The commands of the coordinator.  authorize is the one that grants. *)
LEMMA KeyCommandQuiet ==
  ASSUME NEW s, Located(s)
  PROVE  /\ Located(KeyCommand(s, "NewKey")) /\ Quiet(s, KeyCommand(s, "NewKey"))
         /\ Located(SetKey(s)) /\ Quiet(s, SetKey(s))
         /\ Located(Authorize(s)) /\ (Authorize(s).secure => s.secure)
<1>1. {"NewKey", "SetKey", "SetStation"} \subseteq Commands
  BY DEF Commands, KeyCommands
<1>2. /\ Located(KeyCommand(s, "NewKey")) /\ Quiet(s, KeyCommand(s, "NewKey"))
      /\ Located(SetKey(s)) /\ Quiet(s, SetKey(s))
  <2>1. /\ "Securing" \in StationStates /\ "Securing" \notin Never
        /\ "Securing" \notin Early
    BY StateNames, Targets
  <2> QED BY <1>1, <2>1, SubmitQuiet DEF KeyCommand, SetKey
<1> DEFINE t == Submit(s, "SetStation", "Authorizing")
<1>3. /\ t \in StationType /\ t.state = "Authorizing" /\ t.peer = s.peer
      /\ t.secure = s.secure
  BY <1>1, StateNames, SubmitFields DEF Located
<1> HIDE DEF t
<1>4. Located(t) /\ (t.secure => s.secure)
  BY <1>3, Targets DEF Located
<1> QED BY <1>2, <1>4 DEF Authorize, t

(* The commands of the caller; associate is the one that begins a secure   *)
(* connection.                                                             *)
LEMMA CommandQuiet ==
  ASSUME NEW s, Located(s)
  PROVE  /\ CanCreateInterface(s) =>
              Located(CreateInterface(s)) /\ Quiet(s, CreateInterface(s))
         /\ CanBringUp(s) => Located(BringUp(s)) /\ Quiet(s, BringUp(s))
         /\ Located(BringDown(s)) /\ Quiet(s, BringDown(s))
         /\ Located(Disconnect(s)) /\ Quiet(s, Disconnect(s))
         /\ CanAuthenticate(s) =>
              /\ Located(Authenticate(s, Authenticator))
              /\ ~Authenticate(s, Authenticator).secure
         /\ CanSetPowerSave(s) =>
              Located(SetPowerSave(s, "SetPowerSave"))
              /\ Quiet(s, SetPowerSave(s, "SetPowerSave"))
<1>0. /\ {"NewInterface", "SetInterfaceFlags", "Deauthenticate", "Authenticate",
          "SetPowerSave"} \subseteq Commands
      /\ s \in StationType
  BY DEF Commands, PowerSaveCommands, Located
<1>1. ASSUME CanCreateInterface(s)
      PROVE  Located(CreateInterface(s)) /\ Quiet(s, CreateInterface(s))
  <2> DEFINE q == ClearPending([s EXCEPT !.created = TRUE])
  <2>1. ~s.secure
    BY <1>1 DEF CanCreateInterface, Located, Early
  <2>2. q \in StationType /\ ~q.secure
    <3>1. [s EXCEPT !.created = TRUE] \in StationType
      BY <1>0 DEF StationType
    <3> QED BY <2>1, <3>1, ClearFields DEF StationType, ClearPending
  <2>3. CreateInterface(s) \in {Transition(q, "Down"),
                                Submit(s, "NewInterface", "InterfaceCreatePending")}
    BY DEF CreateInterface
  <2> HIDE DEF q
  <2>4. Located(Transition(q, "Down")) /\ Quiet(s, Transition(q, "Down"))
    BY <2>2, StateNames, Targets, ForgetQuiet
  <2>5. /\ Located(Submit(s, "NewInterface", "InterfaceCreatePending"))
        /\ Quiet(s, Submit(s, "NewInterface", "InterfaceCreatePending"))
    BY <1>0, <2>1, StateNames, Targets, SubmitQuiet
  <2> QED BY <2>3, <2>4, <2>5
<1>2. ASSUME CanBringUp(s) PROVE Located(BringUp(s)) /\ Quiet(s, BringUp(s))
  <2>1. ~s.secure
    BY <1>2 DEF CanBringUp, Located, Early
  <2> QED BY <1>0, <2>1, StateNames, Targets, SubmitQuiet DEF BringUp
<1> DEFINE n == [s EXCEPT !.ret = "None"]
<1>4. ASSUME NEW c \in Commands, NEW x \in {"InterfaceDownPending", "Disconnecting"}
      PROVE  Located(Submit(n, c, x)) /\ Quiet(s, Submit(n, c, x))
  <2> DEFINE p == [n EXCEPT !.pending = c]
  <2>1. /\ p \in StationType /\ p.peer = s.peer /\ p.secure = s.secure
        /\ p.authorized = s.authorized
    BY <1>0 DEF StationType
  <2>2. Submit(n, c, x) = Transition(p, x)
    BY DEF Submit
  <2> HIDE DEF p
  <2>3. x \in StationStates /\ x \notin Never /\ x \notin Early
    BY StateNames, Targets
  <2> QED BY <2>1, <2>2, <2>3, MoveQuiet
<1>5. Located(BringDown(s)) /\ Quiet(s, BringDown(s))
  BY <1>0, <1>4 DEF BringDown
<1>6. Located(Disconnect(s)) /\ Quiet(s, Disconnect(s))
  BY <1>0, <1>4 DEF Disconnect
<1>7. ASSUME CanAuthenticate(s)
      PROVE  /\ Located(Authenticate(s, Authenticator))
             /\ ~Authenticate(s, Authenticator).secure
  <2> DEFINE p == [s EXCEPT !.peer = Authenticator]
             t == Submit(p, "Authenticate", "Authenticating")
  <2>1. ~s.secure /\ Authenticator # NoPeer /\ Authenticator \in Peers
    BY <1>7, SessionAssumption, NoPeerAssumption DEF CanAuthenticate, Located, Early
  <2>2. p \in StationType /\ p.peer = Authenticator /\ ~p.secure
    BY <1>0, <2>1 DEF StationType
  <2>3. /\ t \in StationType /\ t.state = "Authenticating" /\ t.peer = Authenticator
        /\ ~t.secure
    <3> HIDE DEF p
    <3>1. "Authenticating" \in StationStates /\ "Authenticate" \in Commands
      BY StateNames
    <3>2. t.peer = p.peer /\ t.secure = p.secure /\ t.state = "Authenticating"
          /\ t \in StationType
      BY <2>2, <3>1, SubmitFields
    <3> QED BY <2>2, <3>2
  <2>4. Authenticate(s, Authenticator) = t
    BY DEF Authenticate
  <2> HIDE DEF t
  <2> QED BY <2>1, <2>3, <2>4 DEF Located, Never
<1>8. ASSUME CanSetPowerSave(s)
      PROVE  /\ Located(SetPowerSave(s, "SetPowerSave"))
             /\ Quiet(s, SetPowerSave(s, "SetPowerSave"))
  <2> DEFINE p == [s EXCEPT !.ret = s.state]
             t == Submit(p, "SetPowerSave", "PowerSavePending")
  <2>1. /\ p \in StationType /\ p.ret = s.state /\ p.peer = s.peer
        /\ p.secure = s.secure /\ p.authorized = s.authorized
    BY <1>0 DEF StationType
  <2>2. /\ t \in StationType /\ t.state = "PowerSavePending" /\ t.ret = s.state
        /\ t.peer = s.peer /\ t.secure = s.secure /\ t.authorized = s.authorized
    <3> HIDE DEF p
    <3> QED BY <1>0, <2>1, StateNames, SubmitFields
  <2>3. SetPowerSave(s, "SetPowerSave") = t
    BY DEF SetPowerSave
  <2> HIDE DEF t
  <2>4. s.state \in {"Idle", "Connected"} /\ (s.secure => s.state # "Idle")
    BY <1>8 DEF CanSetPowerSave, Located, Early
  <2> QED BY <2>2, <2>3, <2>4, Targets DEF Located, Never, Quiet, Granted
<1> QED BY <1>1, <1>2, <1>5, <1>6, <1>7, <1>8

(* associate begins a connection whose port is closed if it is secure. *)
LEMMA AssociateLocated ==
  ASSUME NEW s, Located(s), CanAssociate(s), NEW secure \in BOOLEAN
  PROVE  /\ Located(Associate(s, secure))
         /\ Associate(s, secure).secure = secure
         /\ Granted(Associate(s, secure)) => ~secure
<1> DEFINE p == [s EXCEPT !.secure = secure, !.authorized = ~secure]
           t == Submit(p, "Associate", "Associating")
<1>1. p \in StationType /\ p.peer = s.peer /\ p.secure = secure /\ p.authorized = ~secure
  BY DEF Located, StationType
<1>2. "Associate" \in Commands
  BY DEF Commands
<1>3. /\ t \in StationType /\ t.state = "Associating" /\ t.peer = s.peer
      /\ t.secure = secure /\ t.authorized = ~secure
  <2> HIDE DEF p
  <2>1. "Associating" \in StationStates
    BY StateNames
  <2>2. t.peer = p.peer /\ t.secure = p.secure /\ t.authorized = p.authorized
        /\ t.state = "Associating" /\ t \in StationType
    BY <1>1, <1>2, <2>1, SubmitFields
  <2> HIDE DEF t
  <2> QED BY <1>1, <2>2
<1>4. s.peer # NoPeer
  BY DEF CanAssociate, Located
<1>5. Associate(s, secure) = t
  BY DEF Associate
<1> HIDE DEF t
<1>6. Located(t)
  BY <1>3, <1>4, Targets DEF Located
<1>7. t.secure = secure /\ (Granted(t) => ~secure)
  BY <1>3 DEF Granted
<1> QED BY <1>5, <1>6, <1>7

(* Time that passes without a deadline, and the end of a group rekey *)
LEMMA TimeQuiet ==
  ASSUME NEW s, Located(s), NEW elapsed \in Nat, AdvanceTime(s, elapsed).ok
  PROVE  Located(AdvanceTime(s, elapsed).st) /\ Quiet(s, AdvanceTime(s, elapsed).st)
<1>1. AdvanceTime(s, elapsed).st = s
      \/ /\ elapsed < s.remaining
         /\ AdvanceTime(s, elapsed).st = [s EXCEPT !.remaining = @ - elapsed]
  BY DEF AdvanceTime, Ok, Err, Fail
<1>2. elapsed < s.remaining => s.remaining - elapsed \in 0 .. Deadline
  BY DeadlineAssumption DEF Located, StationType
<1> DEFINE t == [s EXCEPT !.remaining = @ - elapsed]
<1>3. elapsed < s.remaining => Located(t) /\ Quiet(s, t)
  BY <1>2 DEF Located, StationType, Quiet, Granted
<1>4. Quiet(s, s)
  BY DEF Quiet
<1> HIDE DEF t
<1> QED BY <1>1, <1>3, <1>4 DEF t

(* complete_group_rekey returns to a connection that was there. *)
LEMMA GroupRekeyQuiet ==
  ASSUME NEW s, Located(s), CompleteGroupRekey(s).ok
  PROVE  Located(CompleteGroupRekey(s).st) /\ Quiet(s, CompleteGroupRekey(s).st)
<1> DEFINE x == IF s.carrier THEN "Connected" ELSE "AwaitingCarrier"
<1>1. CompleteGroupRekey(s).st = Transition(s, x)
  BY DEF CompleteGroupRekey, Ok, Err
<1>2. x \in {"Connected", "AwaitingCarrier"}
  OBVIOUS
<1> HIDE DEF x
<1>3. x \in StationStates /\ x \notin Never /\ x \notin Early
  BY <1>2, StateNames, Targets
<1>4. s \in StationType
  BY DEF Located
<1> QED BY <1>1, <1>2, <1>3, <1>4, MoveQuiet

-----------------------------------------------------------------------------
(* The supplicant *)

(* A supplicant that has not failed has a nonce of its own, and while it   *)
(* waits for a message of the handshake the key has not been installed.    *)
SupInv(u, n, inst) ==
  /\ u \in SupplicantType
  /\ u.ticket \in Fit \cup {NoFrame}
  /\ u.nonce <= n
  /\ u.phase # "Failed" => u.nonce >= 1
  /\ u.ticket # NoFrame => u.phase # "Failed"
  /\ u.phase \in {"AwaitingMessage1", "AwaitingMessage3"} => u.nonce \notin inst

(* A supplicant that has failed needs nothing. *)
LEMMA FailedSup ==
  ASSUME NEW n \in Nat, NEW inst, NEW u, SupInv(u, n, inst)
  PROVE  SupInv(SupplicantFailed(u), n, inst)
<1> DEFINE t == SupplicantFailed(u)
<1>1. /\ t \in SupplicantType /\ t.phase = "Failed" /\ t.nonce = 0 /\ t.ticket = NoFrame
  <2>1. 0 \in 0 .. MaxHandshakes /\ 0 \in 0 .. MaxReplay
    BY SessionAssumption
  <2>2. u \in SupplicantType
    BY DEF SupInv
  <2> QED BY <2>1, <2>2 DEF SupplicantFailed, Cleared, SupplicantType
<1> HIDE DEF t
<1> QED BY <1>1 DEF SupInv, t

(* A supplicant made with a nonce that was never used *)
LEMMA NewSup ==
  ASSUME NEW n \in Handshakes, NEW inst, n \notin inst
  PROVE  SupInv(NewSupplicant(n), n, inst)
<1> DEFINE t == NewSupplicant(n)
<1>1. /\ t \in SupplicantType /\ t.phase = "AwaitingMessage1" /\ t.nonce = n
      /\ t.ticket = NoFrame
  <2>1. n \in 0 .. MaxHandshakes /\ 0 \in 0 .. MaxReplay
    BY SessionAssumption DEF Handshakes
  <2> QED BY <2>1 DEF NewSupplicant, SupplicantType
<1>2. n >= 1 /\ n <= n
  BY SessionAssumption DEF Handshakes
<1> HIDE DEF t
<1> QED BY <1>1, <1>2 DEF SupInv, t

(* What the supplicant makes of a frame.  A supplicant with a request      *)
(* takes nothing but the same frame again; a request is made of a frame    *)
(* that may ask for keys, and for the pairwise key only once in the life   *)
(* of a nonce.                                                             *)
Taken(u, f, result) ==
  \/ ~result.ok
  \/ result.action = "None" /\ result.sup = u
  \/ result.action = "Transmit" /\ u.ticket = NoFrame /\ result.sup.ticket = NoFrame
  \/ /\ result.action = "InstallKeys" /\ u.ticket = NoFrame /\ f \in Fit
     /\ u.phase = "AwaitingMessage3"
     /\ result.sup.ticket = f /\ result.sup.phase = "InstallingKeys"
     /\ result.sup.nonce = u.nonce
  \/ /\ result.action = "InstallGroupKey" /\ u.ticket = NoFrame /\ f \in Fit
     /\ result.sup.ticket = f

(* on_message1 *)
LEMMA OnMessage1Taken ==
  ASSUME NEW n \in Nat, NEW inst, NEW u, SupInv(u, n, inst), NEW f \in Frames,
         u.ticket = NoFrame
  PROVE  SupInv(OnMessage1(u, f).sup, n, inst) /\ Taken(u, f, OnMessage1(u, f))
<1> DEFINE r == OnMessage1(u, f)
           m == [u EXCEPT !.m1 = f, !.phase = "AwaitingMessage3"]
<1>1. \/ r = SupFail(u)
      \/ r = Reject(u)
      \/ r = Accept(u, "Transmit")
      \/ r = Accept(m, "Transmit") /\ u.phase \in {"AwaitingMessage1", "AwaitingMessage3"}
  BY DEF OnMessage1
<1>2. SupInv(SupplicantFailed(u), n, inst)
  BY FailedSup
<1>3. m \in SupplicantType /\ m.ticket = u.ticket /\ m.nonce = u.nonce
      /\ m.phase = "AwaitingMessage3"
  BY DEF SupInv, SupplicantType
<1> HIDE DEF m
<1>4. u.phase \in {"AwaitingMessage1", "AwaitingMessage3"} => SupInv(m, n, inst)
  BY <1>3 DEF SupInv
<1> HIDE DEF r
<1>5. \/ ~r.ok /\ r.sup \in {u, SupplicantFailed(u)}
      \/ r.action = "Transmit" /\ r.sup = u
      \/ /\ r.action = "Transmit" /\ r.sup = m
         /\ u.phase \in {"AwaitingMessage1", "AwaitingMessage3"}
  BY <1>1 DEF SupFail, Reject, Accept
<1> QED BY <1>2, <1>3, <1>4, <1>5 DEF Taken, r

(* on_message3: the one place that asks for the pairwise key *)
LEMMA OnMessage3Taken ==
  ASSUME NEW n \in Nat, NEW inst, NEW u, SupInv(u, n, inst), NEW f \in Frames,
         u.ticket = NoFrame, f.msg = "Message3"
  PROVE  SupInv(OnMessage3(u, f).sup, n, inst) /\ Taken(u, f, OnMessage3(u, f))
<1> DEFINE r == OnMessage3(u, f)
           m == [u EXCEPT !.ticket = f, !.phase = "InstallingKeys"]
           Install == u.phase = "AwaitingMessage3" /\ f.data \notin {"none", "bad"}
<1>1. \/ r = SupFail(u)
      \/ r = Reject(u)
      \/ r = Accept(u, "Transmit")
      \/ r = Accept(m, "InstallKeys") /\ Install
  BY DEF OnMessage3, OnCompletedMessage3
<1>2. SupInv(SupplicantFailed(u), n, inst)
  BY FailedSup
<1>3. m \in SupplicantType /\ m.ticket = f /\ m.nonce = u.nonce
      /\ m.phase = "InstallingKeys"
  BY DEF SupInv, SupplicantType
<1>4. Install => f \in Fit
  <2>1. f.data \in {"none", "bad", "gtk"}
    BY DEF Frames, Read, KeyData
  <2> QED BY <2>1 DEF Fit
<1> HIDE DEF m
<1>5. Install => SupInv(m, n, inst)
  BY <1>3, <1>4 DEF SupInv
<1> HIDE DEF r
<1>6. \/ ~r.ok /\ r.sup \in {u, SupplicantFailed(u)}
      \/ r.action = "Transmit" /\ r.sup = u
      \/ r.action = "InstallKeys" /\ r.sup = m /\ Install
  BY <1>1 DEF SupFail, Reject, Accept
<1> QED BY <1>2, <1>3, <1>4, <1>5, <1>6 DEF Taken, r

(* on_group_message1 *)
LEMMA OnGroupMessage1Taken ==
  ASSUME NEW n \in Nat, NEW inst, NEW u, SupInv(u, n, inst), NEW f \in Frames,
         u.ticket = NoFrame, f.msg = "GroupMessage1"
  PROVE  SupInv(OnGroupMessage1(u, f).sup, n, inst) /\ Taken(u, f, OnGroupMessage1(u, f))
<1> DEFINE r == OnGroupMessage1(u, f)
           m == [u EXCEPT !.ticket = f]
           Install == u.phase = "Complete" /\ f.data \notin {"none", "bad"}
<1>1. \/ r = SupFail(u)
      \/ r = Reject(u)
      \/ r = Accept(u, "Transmit")
      \/ r = Accept(m, "InstallGroupKey") /\ Install
  BY DEF OnGroupMessage1
<1>2. SupInv(SupplicantFailed(u), n, inst)
  BY FailedSup
<1>3. m \in SupplicantType /\ m.ticket = f /\ m.nonce = u.nonce /\ m.phase = u.phase
  BY DEF SupInv, SupplicantType
<1>4. Install => f \in Fit
  <2>1. f.data \in {"none", "bad", "gtk"}
    BY DEF Frames, Read, KeyData
  <2> QED BY <2>1 DEF Fit
<1> HIDE DEF m
<1>5. Install => SupInv(m, n, inst)
  BY <1>3, <1>4 DEF SupInv
<1> HIDE DEF r
<1>6. \/ ~r.ok /\ r.sup \in {u, SupplicantFailed(u)}
      \/ r.action = "Transmit" /\ r.sup = u
      \/ r.action = "InstallGroupKey" /\ r.sup = m /\ Install
  BY <1>1 DEF SupFail, Reject, Accept
<1> QED BY <1>2, <1>3, <1>4, <1>5, <1>6 DEF Taken, r

(* on_eapol, whatever the frame *)
LEMMA OnEapolTaken ==
  ASSUME NEW n \in Nat, NEW inst, NEW u, SupInv(u, n, inst), NEW f \in Frames
  PROVE  SupInv(OnEapol(u, f).sup, n, inst) /\ Taken(u, f, OnEapol(u, f))
<1> DEFINE r == OnEapol(u, f)
<1>1. SupInv(SupplicantFailed(u), n, inst)
  BY FailedSup
<1>2. CASE r = SupFail(u) \/ r = Reject(u) \/ r = Accept(u, "None")
  <2> HIDE DEF r
  <2>1. \/ ~r.ok /\ r.sup \in {u, SupplicantFailed(u)}
        \/ r.action = "None" /\ r.sup = u
    BY <1>2 DEF SupFail, Reject, Accept
  <2> QED BY <1>1, <2>1 DEF Taken, r
<1>3. CASE u.ticket = NoFrame /\ f.msg = "Message1" /\ r = OnMessage1(u, f)
  BY <1>3, OnMessage1Taken
<1>4. CASE u.ticket = NoFrame /\ f.msg = "Message3" /\ r = OnMessage3(u, f)
  BY <1>4, OnMessage3Taken
<1>5. CASE u.ticket = NoFrame /\ f.msg = "GroupMessage1" /\ r = OnGroupMessage1(u, f)
  BY <1>5, OnGroupMessage1Taken
<1> QED BY <1>2, <1>3, <1>4, <1>5 DEF OnEapol

(* The completion of the request that the supplicant waits for *)
LEMMA CompletionTaken ==
  ASSUME NEW n \in Nat, NEW inst, NEW u, SupInv(u, n, inst), u.ticket # NoFrame,
         NEW result \in {CompleteKeyInstall(u, u.ticket),
                         CompleteGroupKeyInstall(u, u.ticket)}
  PROVE  /\ result.ok /\ result.sup.ticket = NoFrame
         /\ SupInv(result.sup, n, inst)
<1> DEFINE q == u.ticket
           a == [u EXCEPT !.ticket = NoFrame, !.completed = q.replay, !.m3 = q,
                          !.phase = "Complete"]
           b == [u EXCEPT !.ticket = NoFrame, !.completed = q.replay, !.g1 = q,
                          !.phase = "Complete"]
<1>1. result \in {Accept(a, "Transmit"), Accept(b, "Transmit")}
  BY DEF CompleteKeyInstall, CompleteGroupKeyInstall
<1>2. q \in Frames /\ q.replay \in 0 .. MaxReplay
  <2>1. q \in Frames
    BY DEF SupInv, Fit
  <2> HIDE DEF q
  <2> QED BY <2>1, FrameFields
<1>3. /\ a \in SupplicantType /\ a.ticket = NoFrame /\ a.nonce = u.nonce
      /\ a.phase = "Complete"
      /\ b \in SupplicantType /\ b.ticket = NoFrame /\ b.nonce = u.nonce
      /\ b.phase = "Complete"
  <2>1. u \in SupplicantType
    BY DEF SupInv
  <2> HIDE DEF q
  <2> QED BY <1>2, <2>1 DEF SupplicantType
<1> HIDE DEF a, b
<1>4. SupInv(a, n, inst) /\ SupInv(b, n, inst)
  BY <1>3 DEF SupInv
<1>5. result.ok /\ result.sup \in {a, b}
  BY <1>1 DEF Accept
<1> QED BY <1>3, <1>4, <1>5

-----------------------------------------------------------------------------
(* The invariant *)

PairStates  == {"AwaitingPairwiseKeyStatus", "AwaitingGroupKeyStatus",
                "AwaitingDefaultGroupKeyStatus"}
RekeyStates == {"AwaitingGroupRekeyStatus", "AwaitingDefaultGroupRekeyStatus"}

(* The request that coordinator r holds is the one supplicant u waits for, *)
(* and while it awaits the status of a key it holds the request that the   *)
(* key belongs to.                                                         *)
Holding(r, u) ==
  /\ r \in RuntimeType
  /\ r.pair # NoFrame => u.ticket = r.pair /\ r.group = NoFrame
  /\ r.group # NoFrame => u.ticket = r.group

RtInv(r, u) ==
  /\ Holding(r, u)
  /\ r.state \in PairStates => r.pair # NoFrame
  /\ r.state \in RekeyStates => r.group # NoFrame

(* While a secure connection lasts, its history has what the coordinator   *)
(* has got past, and everything once the port is granted.                  *)
AllKeys == {"pairwise", "group", "default"}
Stage(r, h) ==
  /\ r.state = "AwaitingGroupKeyStatus" => "pairwise" \in h.keys
  /\ r.state = "AwaitingDefaultGroupKeyStatus" => {"pairwise", "group"} \subseteq h.keys
  /\ r.state = "AwaitingEapolTransmit" /\ r.purpose = "Message4" =>
       h.keys = AllKeys /\ r.token \in h.sent

Port(s, r, h) ==
  s.secure => Stage(r, h) /\ (Granted(s) => h.keys = AllKeys /\ h.m4)

HistType == [keys : SUBSET {"pairwise", "group", "default"}, m4 : BOOLEAN,
             sent : SUBSET Tokens]

IInv ==
  /\ drv \in {"Ready", "Down"}
  /\ flight \subseteq Tokens
  /\ handshakes \in Handshakes
  /\ installed \subseteq 1 .. handshakes
  /\ hist \in HistType
  /\ Located(st)
  /\ SupInv(sup, handshakes, installed)
  /\ RtInv(rt, sup)
  /\ Careful => Port(st, rt, hist)

(* The initial state *)
LEMMA InitHolds == Init => IInv
<1> SUFFICES ASSUME Init PROVE IInv
  OBVIOUS
<1>1. 1 \in Handshakes /\ NoHistory \in HistType
  BY SessionAssumption DEF Handshakes, NoHistory, HistType
<1>2. Located(st) /\ ~st.secure
  <2>1. st \in StationType /\ st.state = "Down" /\ ~st.secure
    BY StateNames, DeadlineAssumption DEF Init, NewStation, StationType
  <2> QED BY <2>1 DEF Located, Never
<1>3. SupInv(sup, handshakes, installed)
  BY <1>1, NewSup DEF Init
<1>4. RtInv(rt, sup)
  <2>1. /\ rt \in RuntimeType /\ rt.pair = NoFrame /\ rt.group = NoFrame
        /\ rt.state = "AwaitingAuthenticator"
    BY DeadlineAssumption DEF Init, NewRuntime, RuntimeTimeout, RuntimeType, RuntimeStates,
       TimedRuntimeStates
  <2> QED BY <2>1 DEF RtInv, Holding, PairStates, RekeyStates
<1> QED BY <1>1, <1>2, <1>3, <1>4 DEF Init, IInv, Port

-----------------------------------------------------------------------------
(* Steps of the coordinator *)

(* A transition of the coordinator keeps its requests. *)
LEMMA GoToFields ==
  ASSUME NEW r \in RuntimeType, NEW x \in RuntimeStates
  PROVE  /\ GoTo(r, x) \in RuntimeType
         /\ GoTo(r, x).state = x
         /\ GoTo(r, x).pair = r.pair /\ GoTo(r, x).group = r.group
         /\ GoTo(r, x).purpose = "None" /\ GoTo(r, x).token = "None"
<1>1. RuntimeTimeout(x) \in 0 .. Deadline
  BY DeadlineAssumption DEF RuntimeTimeout
<1> QED BY <1>1 DEF GoTo, RuntimeType

(* The names of states that the coordinator moves to *)
LEMMA RuntimeNames ==
  PairStates \cup RekeyStates \cup {"AwaitingEapolTransmit", "AwaitingAuthorizationStatus",
    "AwaitingAuthenticator", "AwaitingCarrier", "Complete", "Failed"} \subseteq RuntimeStates
  BY DEF PairStates, RekeyStates, RuntimeStates, TimedRuntimeStates, PendingStates,
         KeyStatusStates

(* The driver goes down: the connection is forgotten, and nothing else     *)
(* needs to be.                                                            *)
LEMMA DownHolds ==
  ASSUME IInv, EnterRecovery, RtInv(rt', sup'), SupInv(sup', handshakes, installed),
         UNCHANGED <<flight, handshakes, installed>>
  PROVE  IInv'
<1>1. Located(st') /\ ~st'.secure
  BY RecoveryQuiet DEF IInv, EnterRecovery
<1>2. drv' \in {"Ready", "Down"} /\ hist' \in HistType
  BY DEF EnterRecovery, NoHistory, HistType
<1> QED BY <1>1, <1>2 DEF IInv, Port

(* fail gives up the request on both sides. *)
LEMMA FailHolds ==
  ASSUME IInv, NEW r \in RuntimeType, NEW u, SupInv(u, handshakes, installed),
         RuntimeFail(r, u)
  PROVE  IInv'
<1> DEFINE q == [r EXCEPT !.pair = NoFrame, !.group = NoFrame, !.last = NoFrame]
<1>1. q \in RuntimeType /\ q.pair = NoFrame /\ q.group = NoFrame
  BY DEF RuntimeType
<1>2. rt' = GoTo(q, "Failed") /\ sup' \in {u, SupplicantFailed(u)}
  BY DEF RuntimeFail
<1> HIDE DEF q
<1>3. /\ rt' \in RuntimeType /\ rt'.state = "Failed" /\ rt'.pair = NoFrame
      /\ rt'.group = NoFrame
  BY <1>1, <1>2, RuntimeNames, GoToFields
<1>4. RtInv(rt', sup')
  BY <1>3 DEF RtInv, Holding, PairStates, RekeyStates
<1>5. handshakes \in Nat
  BY SessionAssumption DEF IInv, Handshakes
<1>6. SupInv(sup', handshakes, installed)
  BY <1>2, <1>5, FailedSup
<1> QED BY <1>4, <1>6, DownHolds DEF RuntimeFail

(* The driver stays up. *)
LEMMA BecomeHolds ==
  ASSUME IInv, NEW s, NEW r, NEW u, NEW h \in HistType, Become(s, r, u, h),
         Located(s), RtInv(r, u), SupInv(u, handshakes, installed'),
         flight' \subseteq Tokens, installed' \subseteq 1 .. handshakes,
         Careful => Port(s, r, h)
  PROVE  IInv'
<1>1. /\ st' = s /\ rt' = r /\ sup' = u /\ drv' = drv /\ handshakes' = handshakes
      /\ hist' = IF s.peer = NoPeer THEN NoHistory ELSE h
  BY DEF Become
<1>2. NoHistory \in HistType
  BY DEF NoHistory, HistType
<1>3. s.peer = NoPeer => ~s.secure
  BY DEF Located
<1>4. Careful => Port(st', rt', hist')
  BY <1>1, <1>3 DEF Port
<1> QED BY <1>1, <1>2, <1>4 DEF IInv

(* h has what the history has, and perhaps more. *)
Extends(h) ==
  /\ h \in HistType
  /\ hist.keys \subseteq h.keys /\ (hist.m4 => h.m4) /\ hist.sent \subseteq h.sent

(* A quiet step of the station, with a coordinator whose history has what  *)
(* it has got past                                                         *)
LEMMA PortStage ==
  ASSUME IInv, NEW s, Quiet(st, s), NEW r, NEW h, Extends(h),
         Careful /\ s.secure => Stage(r, h)
  PROVE  Careful => Port(s, r, h)
<1>1. SUFFICES ASSUME Careful, s.secure
               PROVE  Granted(s) => h.keys = AllKeys /\ h.m4
  BY DEF Port
<1>2. st.secure /\ (Granted(s) => Granted(st)) /\ Port(st, rt, hist)
  BY <1>1 DEF Quiet, IInv
<1>3. h.keys \subseteq AllKeys
  BY DEF Extends, HistType, AllKeys
<1>4. hist.keys = AllKeys => h.keys = AllKeys
  BY <1>3 DEF Extends
<1> QED BY <1>2, <1>4 DEF Port, Extends

(* ... and with one that has got past nothing new *)
LEMMA PortKept ==
  ASSUME IInv, NEW s, Quiet(st, s), NEW r, NEW h, Extends(h),
         \/ r.state \notin {"AwaitingGroupKeyStatus", "AwaitingDefaultGroupKeyStatus",
                            "AwaitingEapolTransmit"}
         \/ r.state = "AwaitingEapolTransmit" /\ r.purpose # "Message4"
         \/ r.state = rt.state /\ r.purpose = rt.purpose /\ r.token = rt.token
  PROVE  Careful => Port(s, r, h)
<1>1. ASSUME Careful, s.secure PROVE Stage(r, h)
  <2>1. Stage(rt, hist)
    BY <1>1 DEF Quiet, IInv, Port
  <2>2. h.keys \subseteq AllKeys
    BY DEF Extends, HistType, AllKeys
  <2>3. hist.keys = AllKeys => h.keys = AllKeys
    BY <2>2 DEF Extends
  <2> QED BY <2>1, <2>3 DEF Stage, Extends
<1> QED BY <1>1, PortStage

(* The coordinator enters x: what it must hold, and what the history must  *)
(* have.                                                                   *)
LEMMA GoToHolds ==
  ASSUME IInv, NEW s, Located(s), Quiet(st, s), NEW r, NEW u, Holding(r, u),
         SupInv(u, handshakes, installed'), NEW h, Extends(h),
         NEW x \in RuntimeStates \ {"AwaitingEapolTransmit"},
         x \in PairStates => r.pair # NoFrame,
         x \in RekeyStates => r.group # NoFrame,
         Careful /\ s.secure =>
           /\ x = "AwaitingGroupKeyStatus" => "pairwise" \in h.keys
           /\ x = "AwaitingDefaultGroupKeyStatus" => {"pairwise", "group"} \subseteq h.keys,
         Become(s, GoTo(r, x), u, h),
         flight' \subseteq Tokens, installed' \subseteq 1 .. handshakes
  PROVE  IInv'
<1> DEFINE q == GoTo(r, x)
<1>1. q \in RuntimeType /\ q.state = x /\ q.pair = r.pair /\ q.group = r.group
  BY GoToFields DEF Holding
<1> HIDE DEF q
<1>2. RtInv(q, u)
  BY <1>1 DEF RtInv, Holding
<1>3. Careful => Port(s, q, h)
  <2>1. Careful /\ s.secure => Stage(q, h)
    BY <1>1 DEF Stage
  <2> QED BY <2>1, PortStage
<1>4. h \in HistType
  BY DEF Extends
<1> QED BY <1>2, <1>3, <1>4, BecomeHolds DEF q

(* submit_eapol *)
LEMMA EapolHolds ==
  ASSUME IInv, NEW s, Located(s), Quiet(st, s), NEW r, NEW u, Holding(r, u),
         SupInv(u, handshakes, installed), NEW h, Extends(h),
         NEW purpose \in Purposes,
         Careful /\ s.secure /\ purpose = "Message4" => h.keys = AllKeys,
         EapolSubmitted(s, r, u, h, purpose)
  PROVE  IInv'
<1>1. PICK t \in Tokens \ flight :
        /\ flight' = flight \cup {t}
        /\ Become(s, [GoTo(r, "AwaitingEapolTransmit") EXCEPT !.token = t, !.purpose = purpose],
                  u, [h EXCEPT !.sent = @ \cup {t}])
        /\ installed' = installed
  BY DEF EapolSubmitted
<1> DEFINE q == [GoTo(r, "AwaitingEapolTransmit") EXCEPT !.token = t, !.purpose = purpose]
           g == [h EXCEPT !.sent = @ \cup {t}]
<1>2. /\ q \in RuntimeType /\ q.state = "AwaitingEapolTransmit" /\ q.pair = r.pair
      /\ q.group = r.group /\ q.token = t /\ q.purpose = purpose
  <2> DEFINE w == GoTo(r, "AwaitingEapolTransmit")
  <2>1. /\ w \in RuntimeType /\ w.state = "AwaitingEapolTransmit" /\ w.pair = r.pair
        /\ w.group = r.group
    BY RuntimeNames, GoToFields DEF Holding
  <2> HIDE DEF w
  <2>2. [w EXCEPT !.token = t, !.purpose = purpose] = q
    BY DEF w
  <2>3. /\ [w EXCEPT !.token = t, !.purpose = purpose] \in RuntimeType
        /\ [w EXCEPT !.token = t, !.purpose = purpose].state = w.state
        /\ [w EXCEPT !.token = t, !.purpose = purpose].pair = w.pair
        /\ [w EXCEPT !.token = t, !.purpose = purpose].group = w.group
        /\ [w EXCEPT !.token = t, !.purpose = purpose].token = t
        /\ [w EXCEPT !.token = t, !.purpose = purpose].purpose = purpose
    BY <2>1 DEF RuntimeType
  <2> HIDE DEF q
  <2> QED BY <2>1, <2>2, <2>3
<1>3. Extends(g) /\ g.keys = h.keys /\ t \in g.sent
  BY DEF Extends, HistType
<1> HIDE DEF q, g
<1>4. RtInv(q, u)
  BY <1>2 DEF RtInv, Holding, PairStates, RekeyStates
<1>5. Careful => Port(s, q, g)
  <2>1. Careful /\ s.secure => Stage(q, g)
    BY <1>2, <1>3 DEF Stage
  <2> QED BY <1>3, <2>1, PortStage
<1>6. /\ g \in HistType /\ flight' \subseteq Tokens /\ SupInv(u, handshakes, installed')
      /\ installed' \subseteq 1 .. handshakes
  BY <1>1, <1>3 DEF Extends, IInv
<1>7. Become(s, q, u, g)
  BY <1>1 DEF q, g
<1> QED BY <1>4, <1>5, <1>6, <1>7, BecomeHolds

(* submit_key with a group key, and with the default key *)
LEMMA GroupKeyHolds ==
  ASSUME IInv, NEW s, Located(s), Quiet(st, s), NEW r, NEW u, Holding(r, u),
         SupInv(u, handshakes, installed), NEW h, Extends(h),
         NEW x \in PairStates \cup RekeyStates,
         x \in PairStates => r.pair # NoFrame,
         x \in RekeyStates => r.group # NoFrame,
         Careful /\ s.secure =>
           /\ x = "AwaitingGroupKeyStatus" => "pairwise" \in h.keys
           /\ x = "AwaitingDefaultGroupKeyStatus" => {"pairwise", "group"} \subseteq h.keys,
         SubmitNewKey(s, r, u, h, FALSE, x) \/ SubmitDefaultKey(s, r, u, h, x)
  PROVE  IInv'
<1>1. CASE RuntimeFail(r, u)
  BY <1>1, FailHolds DEF Holding
<1>2. CASE /\ \/ Become(KeyCommand(s, "NewKey"), GoTo(r, x), u, h)
              \/ Become(SetKey(s), GoTo(r, x), u, h)
           /\ flight' = flight /\ installed' = installed
  <2>1. PICK t \in {KeyCommand(s, "NewKey"), SetKey(s)} : Become(t, GoTo(r, x), u, h)
    BY <1>2
  <2>2. Located(t) /\ Quiet(s, t)
    BY <2>1, KeyCommandQuiet
  <2>3. Quiet(st, t) /\ (t.secure => s.secure)
    BY <2>2 DEF Quiet
  <2>4. x \in RuntimeStates \ {"AwaitingEapolTransmit"}
    BY RuntimeNames DEF PairStates, RekeyStates
  <2>5. /\ flight' \subseteq Tokens /\ SupInv(u, handshakes, installed')
        /\ installed' \subseteq 1 .. handshakes
    BY <1>2 DEF IInv
  <2> QED BY <2>1, <2>2, <2>3, <2>4, <2>5, GoToHolds
<1> QED BY <1>1, <1>2 DEF SubmitNewKey, SubmitDefaultKey

-----------------------------------------------------------------------------
(* The actions *)

(* A step that leaves the station alone is quiet. *)
LEMMA StationSame == Quiet(st, st)
  BY DEF Quiet

(* ... and so is the history that stays as it is. *)
LEMMA HistorySame == ASSUME IInv PROVE Extends(hist)
  BY DEF IInv, Extends

(* The station, the supplicant and the requests stay as they are. *)
LEMMA SameHolds ==
  ASSUME IInv, NEW r \in RuntimeType, NEW s, Located(s), Quiet(st, s),
         r.state = rt.state, r.purpose = rt.purpose, r.token = rt.token,
         r.pair = rt.pair, r.group = rt.group,
         Become(s, r, sup, hist), flight' \subseteq Tokens, installed' = installed
  PROVE  IInv'
<1>1. RtInv(r, sup)
  BY DEF IInv, RtInv, Holding
<1>2. Careful => Port(s, r, hist)
  BY HistorySame, PortKept
<1>3. hist \in HistType /\ SupInv(sup, handshakes, installed')
      /\ installed' \subseteq 1 .. handshakes
  BY DEF IInv
<1> QED BY <1>1, <1>2, <1>3, BecomeHolds

(* dispatch_wpa2_action *)
LEMMA DispatchHolds ==
  ASSUME IInv, NEW f \in Frames, OnEapol(sup, f).ok,
         DispatchAction(f, OnEapol(sup, f).sup, OnEapol(sup, f).action)
  PROVE  IInv'
<1> DEFINE result == OnEapol(sup, f)
           u == result.sup
           r == [rt EXCEPT !.last = f]
<1>0. /\ Located(st) /\ Holding(rt, sup) /\ SupInv(sup, handshakes, installed)
      /\ handshakes \in Nat /\ flight \subseteq Tokens
      /\ installed \subseteq 1 .. handshakes
  BY SessionAssumption DEF IInv, Handshakes, RtInv
<1>1. SupInv(u, handshakes, installed) /\ Taken(sup, f, result)
  BY <1>0, OnEapolTaken
<1>2. /\ r \in RuntimeType /\ r.state = rt.state /\ r.pair = rt.pair /\ r.group = rt.group
      /\ r.purpose = rt.purpose /\ r.token = rt.token
  BY <1>0 DEF RuntimeType, Holding
<1>3. f # NoFrame
  BY FrameFields
<1> HIDE DEF r, result
<1>4. CASE result.action = "None" /\ Become(st, r, u, hist) /\ UNCHANGED <<flight, installed>>
  <2>1. u = sup
    BY <1>1, <1>4 DEF Taken, result
  <2> QED BY <1>0, <1>2, <1>4, <2>1, StationSame, SameHolds
<1>5. CASE /\ result.action = "Transmit"
           /\ SubmitEapol(st, r, u, hist,
                          IF sup.phase = "Complete" THEN "Retransmission" ELSE "Message2")
  <2>1. sup.ticket = NoFrame
    BY <1>1, <1>5 DEF Taken, result
  <2>2. Holding(r, u)
    BY <1>0, <1>2, <2>1 DEF Holding
  <2>3. PICK purpose \in {"Retransmission", "Message2"} : SubmitEapol(st, r, u, hist, purpose)
    BY <1>5
  <2>4. CASE EapolSubmitted(st, r, u, hist, purpose)
    <3>1. purpose \in Purposes /\ purpose # "Message4"
      BY DEF Purposes
    <3> QED BY <1>0, <1>1, <2>2, <2>4, <3>1, StationSame, HistorySame, EapolHolds
  <2>5. CASE RuntimeFail(r, u)
    BY <1>1, <1>2, <2>5, FailHolds
  <2> QED BY <2>3, <2>4, <2>5 DEF SubmitEapol
<1>6. CASE /\ result.action = "InstallKeys"
           /\ SubmitNewKey(st, [r EXCEPT !.pair = f], u, hist, TRUE,
                           "AwaitingPairwiseKeyStatus")
  <2> DEFINE q == [r EXCEPT !.pair = f]
  <2>1. sup.ticket = NoFrame /\ u.ticket = f /\ u.phase = "InstallingKeys"
    BY <1>1, <1>6 DEF Taken, result
  <2>2. q \in RuntimeType /\ q.pair = f /\ q.group = r.group
    BY <1>2 DEF RuntimeType
  <2> HIDE DEF q
  <2>3. Holding(q, u)
    BY <1>0, <1>2, <2>1, <2>2 DEF Holding
  <2>4. CASE RuntimeFail(q, u)
    BY <1>1, <2>2, <2>4, FailHolds
  <2>5. CASE /\ Become(KeyCommand(st, "NewKey"), GoTo(q, "AwaitingPairwiseKeyStatus"), u, hist)
             /\ installed' = installed \cup {u.nonce}
             /\ flight' = flight
    <3> DEFINE k == KeyCommand(st, "NewKey")
    <3>1. Located(k) /\ Quiet(st, k)
      BY <1>0, KeyCommandQuiet
    <3> HIDE DEF k
    <3>2. u.nonce \in Int /\ 1 <= u.nonce /\ u.nonce <= handshakes
      <4>1. u.nonce \in 0 .. MaxHandshakes
        BY <1>1 DEF SupInv, SupplicantType
      <4>2. u.nonce \in Int
        BY <4>1
      <4> QED BY <1>1, <2>1, <4>2 DEF SupInv
    <3>3. installed' \subseteq 1 .. handshakes
      <4> DEFINE n == u.nonce
      <4> HIDE DEF n
      <4>1. n \in 1 .. handshakes
        BY <1>0, <3>2 DEF n
      <4>2. installed' = installed \cup {n}
        BY <2>5 DEF n
      <4> QED BY <1>0, <4>1, <4>2
    <3>4. SupInv(u, handshakes, installed')
      BY <1>1, <2>1 DEF SupInv
    <3>5. /\ "AwaitingPairwiseKeyStatus" \in RuntimeStates
          /\ "AwaitingPairwiseKeyStatus" \notin RekeyStates
      BY RuntimeNames DEF PairStates, RekeyStates
    <3>6. Become(k, GoTo(q, "AwaitingPairwiseKeyStatus"), u, hist)
      BY <2>5 DEF k
    <3> QED
      <4>1. Extends(hist) /\ flight' \subseteq Tokens
        BY <1>0, <2>5, HistorySame
      <4>2. q.pair # NoFrame
        BY <1>3, <2>2
      <4> QED BY <2>3, <3>1, <3>3, <3>4, <3>5, <3>6, <4>1, <4>2, GoToHolds
  <2> QED BY <1>6, <2>4, <2>5 DEF SubmitNewKey, q
<1>7. CASE RuntimeFail(r, u)
  BY <1>1, <1>2, <1>7, FailHolds
<1>8. CASE /\ result.action = "InstallGroupKey"
           /\ SubmitNewKey(st, [r EXCEPT !.group = f], u, hist, FALSE,
                           "AwaitingGroupRekeyStatus")
  <2> DEFINE q == [r EXCEPT !.group = f]
  <2>1. sup.ticket = NoFrame /\ u.ticket = f
    BY <1>1, <1>8 DEF Taken, result
  <2>2. q \in RuntimeType /\ q.group = f /\ q.pair = r.pair
    BY <1>2 DEF RuntimeType
  <2> HIDE DEF q
  <2>3. Holding(q, u)
    BY <1>0, <1>2, <2>1, <2>2 DEF Holding
  <2>4. /\ "AwaitingGroupRekeyStatus" \in RekeyStates
        /\ "AwaitingGroupRekeyStatus" \notin PairStates
    BY DEF RekeyStates, PairStates
  <2>5. SubmitNewKey(st, q, u, hist, FALSE, "AwaitingGroupRekeyStatus")
    BY <1>8 DEF q
  <2> QED
    BY <1>0, <1>1, <1>3, <2>2, <2>3, <2>4, <2>5, StationSame, HistorySame, GroupKeyHolds
<1> QED BY <1>4, <1>5, <1>6, <1>7, <1>8 DEF DispatchAction, r, result

(* on_ethernet_frame *)
LEMMA ReceiveHolds ==
  ASSUME IInv, NEW f \in Frames, ReceiveEapol(f)
  PROVE  IInv'
<1>0. /\ Located(st) /\ rt \in RuntimeType /\ SupInv(sup, handshakes, installed)
      /\ handshakes \in Nat /\ flight \subseteq Tokens
  BY SessionAssumption DEF IInv, Handshakes, RtInv, Holding
<1>1. CASE Become(st, rt, sup, hist) /\ UNCHANGED <<flight, installed>>
  BY <1>0, <1>1, StationSame, SameHolds
<1>2. CASE RuntimeFail(rt, sup)
  BY <1>0, <1>2, FailHolds
<1>3. CASE RuntimeFail(rt, OnEapol(sup, f).sup)
  BY <1>0, <1>3, OnEapolTaken, FailHolds
<1>4. CASE /\ OnEapol(sup, f).ok
           /\ DispatchAction(f, OnEapol(sup, f).sup, OnEapol(sup, f).action)
  BY <1>4, DispatchHolds
<1> QED BY <1>1, <1>2, <1>3, <1>4 DEF ReceiveEapol, PendingInput

(* FinishKeyInstall, once the request of the supplicant is completed *)
LEMMA FinishHolds ==
  ASSUME IInv, NEW s, Located(s), Quiet(st, s), NEW r \in RuntimeType,
         r.pair = NoFrame, r.group = NoFrame, sup.ticket # NoFrame,
         NEW result \in {CompleteKeyInstall(sup, sup.ticket),
                         CompleteGroupKeyInstall(sup, sup.ticket)},
         NEW h, Extends(h), NEW purpose \in Purposes,
         Careful /\ s.secure /\ purpose = "Message4" => h.keys = AllKeys,
         FinishKeyInstall(s, r, result, h, purpose)
  PROVE  IInv'
<1>1. SupInv(sup, handshakes, installed) /\ handshakes \in Nat
  BY SessionAssumption DEF IInv, Handshakes
<1>2. SupInv(result.sup, handshakes, installed)
  BY <1>1, CompletionTaken
<1>3. Holding(r, result.sup)
  BY DEF Holding
<1>4. CASE EapolSubmitted(s, r, result.sup, h, purpose)
  BY <1>2, <1>3, <1>4, EapolHolds
<1>5. CASE RuntimeFail(r, result.sup)
  BY <1>2, <1>5, FailHolds
<1> QED BY <1>4, <1>5 DEF FinishKeyInstall

(* A key that the firmware acknowledges is added to the history. *)
LEMMA WithKeyExtends ==
  ASSUME IInv, NEW k \in AllKeys
  PROVE  Extends(WithKey(k)) /\ WithKey(k).keys = hist.keys \cup {k}
  BY DEF IInv, Extends, HistType, WithKey, AllKeys

(* dispatch_command_status *)
LEMMA CommandStatusHolds ==
  ASSUME IInv, NEW s, Located(s), Quiet(st, s), OnCommandStatus(s)
  PROVE  IInv'
<1>0. /\ RtInv(rt, sup) /\ Holding(rt, sup) /\ rt \in RuntimeType
      /\ SupInv(sup, handshakes, installed) /\ flight \subseteq Tokens
      /\ installed \subseteq 1 .. handshakes
  BY DEF IInv, RtInv, Holding
<1>1. Careful /\ s.secure => Stage(rt, hist)
  BY DEF IInv, Port, Quiet
<1>2. {"pairwise", "group", "default"} = AllKeys
  BY DEF AllKeys
<1>3. CASE /\ rt.state = "AwaitingPairwiseKeyStatus"
           /\ SubmitNewKey(s, rt, sup, WithKey("pairwise"), FALSE, "AwaitingGroupKeyStatus")
  <2> DEFINE h == WithKey("pairwise")
  <2>1. Extends(h) /\ "pairwise" \in h.keys
    BY <1>2, WithKeyExtends
  <2> HIDE DEF h
  <2>2. rt.pair # NoFrame
    BY <1>0, <1>3 DEF RtInv, PairStates
  <2>3. "AwaitingGroupKeyStatus" \in PairStates /\ "AwaitingGroupKeyStatus" \notin RekeyStates
    BY DEF PairStates, RekeyStates
  <2>4. SubmitNewKey(s, rt, sup, h, FALSE, "AwaitingGroupKeyStatus")
    BY <1>3 DEF h
  <2> QED BY <1>0, <2>1, <2>2, <2>3, <2>4, GroupKeyHolds
<1>4. CASE /\ rt.state = "AwaitingGroupKeyStatus"
           /\ SubmitDefaultKey(s, rt, sup, WithKey("group"), "AwaitingDefaultGroupKeyStatus")
  <2> DEFINE h == WithKey("group")
             x == "AwaitingDefaultGroupKeyStatus"
  <2>1. Extends(h) /\ h.keys = hist.keys \cup {"group"}
    BY <1>2, WithKeyExtends
  <2>2. Careful /\ s.secure => {"pairwise", "group"} \subseteq h.keys
    BY <1>1, <1>4, <2>1 DEF Stage
  <2> HIDE DEF h
  <2>3. rt.pair # NoFrame
    BY <1>0, <1>4 DEF RtInv, PairStates
  <2>4. x \in PairStates /\ x \notin RekeyStates
    BY DEF PairStates, RekeyStates
  <2>5. SubmitDefaultKey(s, rt, sup, h, x)
    BY <1>4 DEF h
  <2> QED BY <1>0, <2>1, <2>2, <2>3, <2>4, <2>5, GroupKeyHolds
<1>5. CASE /\ rt.state = "AwaitingDefaultGroupKeyStatus"
           /\ FinishKeyInstall(s, [rt EXCEPT !.pair = NoFrame],
                               CompleteKeyInstall(sup, rt.pair), WithKey("default"),
                               "Message4")
  <2> DEFINE h == WithKey("default")
             r == [rt EXCEPT !.pair = NoFrame]
  <2>1. Extends(h) /\ h.keys = hist.keys \cup {"default"}
    BY <1>2, WithKeyExtends
  <2>2. Careful /\ s.secure => h.keys = AllKeys
    <3>1. ASSUME Careful, s.secure PROVE h.keys = AllKeys
      <4>1. {"pairwise", "group"} \subseteq hist.keys
        BY <1>1, <1>5, <3>1 DEF Stage
      <4>2. h.keys \subseteq AllKeys
        BY <2>1 DEF Extends, HistType, AllKeys
      <4> QED BY <2>1, <4>1, <4>2 DEF AllKeys
    <3> QED BY <3>1
  <2>3. rt.pair # NoFrame /\ sup.ticket = rt.pair /\ rt.group = NoFrame
    BY <1>0, <1>5 DEF RtInv, PairStates, Holding
  <2>4. r \in RuntimeType /\ r.pair = NoFrame /\ r.group = NoFrame
    BY <1>0, <2>3 DEF RuntimeType
  <2>5. FinishKeyInstall(s, r, CompleteKeyInstall(sup, sup.ticket), h, "Message4")
    BY <1>5, <2>3
  <2>6. "Message4" \in Purposes
    BY DEF Purposes
  <2> HIDE DEF h, r
  <2> QED BY <2>1, <2>2, <2>3, <2>4, <2>5, <2>6, FinishHolds
<1>6. CASE /\ rt.state = "AwaitingAuthorizationStatus"
           /\ Become(s, GoTo(rt, IF s.state = "Connected" THEN "Complete"
                                 ELSE "AwaitingCarrier"), sup, hist)
           /\ UNCHANGED <<flight, installed>>
  <2>1. PICK x \in {"Complete", "AwaitingCarrier"} : Become(s, GoTo(rt, x), sup, hist)
    BY <1>6
  <2>2. /\ x \in RuntimeStates \ {"AwaitingEapolTransmit"}
        /\ x \notin PairStates /\ x \notin RekeyStates
    BY RuntimeNames DEF PairStates, RekeyStates
  <2>3. x \notin {"AwaitingGroupKeyStatus", "AwaitingDefaultGroupKeyStatus"}
    BY <2>2 DEF PairStates
  <2>4. SupInv(sup, handshakes, installed') /\ flight' \subseteq Tokens
        /\ installed' \subseteq 1 .. handshakes
    BY <1>0, <1>6
  <2> QED BY <1>0, <2>1, <2>2, <2>3, <2>4, HistorySame, GoToHolds
<1>7. CASE /\ rt.state = "AwaitingGroupRekeyStatus"
           /\ SubmitDefaultKey(s, rt, sup, hist, "AwaitingDefaultGroupRekeyStatus")
  <2> DEFINE x == "AwaitingDefaultGroupRekeyStatus"
  <2>1. rt.group # NoFrame
    BY <1>0, <1>7 DEF RtInv, RekeyStates
  <2>2. x \notin PairStates /\ x \in RekeyStates
    BY DEF PairStates, RekeyStates
  <2> QED BY <1>0, <1>7, <2>1, <2>2, HistorySame, GroupKeyHolds
<1>8. CASE /\ rt.state = "AwaitingDefaultGroupRekeyStatus"
           /\ FinishKeyInstall(s, [rt EXCEPT !.group = NoFrame],
                               CompleteGroupKeyInstall(sup, rt.group), hist,
                               "GroupMessage2")
  <2> DEFINE r == [rt EXCEPT !.group = NoFrame]
  <2>1. rt.group # NoFrame /\ sup.ticket = rt.group /\ rt.pair = NoFrame
    BY <1>0, <1>8 DEF RtInv, RekeyStates, Holding
  <2>2. r \in RuntimeType /\ r.pair = NoFrame /\ r.group = NoFrame
    BY <1>0, <2>1 DEF RuntimeType
  <2>3. FinishKeyInstall(s, r, CompleteGroupKeyInstall(sup, sup.ticket), hist, "GroupMessage2")
    BY <1>8, <2>1
  <2>4. "GroupMessage2" \in Purposes
    BY DEF Purposes
  <2> HIDE DEF r
  <2> QED BY <2>1, <2>2, <2>3, <2>4, HistorySame, FinishHolds
<1> QED BY <1>3, <1>4, <1>5, <1>6, <1>7, <1>8 DEF OnCommandStatus

(* apply_security_event *)
LEMMA EventHolds ==
  ASSUME IInv, NEW e \in Events, e.mine, e.good, StationEvent(e)
  PROVE  IInv'
<1> DEFINE r == HandleEvent(st, e)
<1>0. /\ Located(st) /\ RtInv(rt, sup) /\ Holding(rt, sup) /\ rt \in RuntimeType
      /\ SupInv(sup, handshakes, installed)
      /\ flight \subseteq Tokens /\ installed \subseteq 1 .. handshakes
  BY DEF IInv, RtInv, Holding
<1>1. CASE EnterRecovery /\ UNCHANGED <<sup, rt, flight, handshakes, installed>>
  BY <1>0, <1>1, DownHolds
<1>2. r.ok => Located(r.st) /\ Quiet(st, r.st)
  BY <1>0, EventQuiet
<1> HIDE DEF r
<1>3. CASE r.ok /\ OnCommandStatus(r.st)
  BY <1>2, <1>3, CommandStatusHolds
<1>4. CASE r.ok /\ Become(r.st, rt, sup, hist) /\ UNCHANGED <<flight, installed>>
  BY <1>0, <1>2, <1>4, SameHolds
<1>5. CASE r.ok /\ Become(r.st, GoTo(rt, "Complete"), sup, hist)
           /\ UNCHANGED <<flight, installed>>
  <2>1. /\ "Complete" \in RuntimeStates
        /\ "Complete" \notin PairStates /\ "Complete" \notin RekeyStates
    BY RuntimeNames DEF PairStates, RekeyStates
  <2>2. SupInv(sup, handshakes, installed') /\ flight' \subseteq Tokens
        /\ installed' \subseteq 1 .. handshakes
    BY <1>0, <1>5
  <2> QED BY <1>0, <1>2, <1>5, <2>1, <2>2, HistorySame, GoToHolds
<1> QED BY <1>1, <1>3, <1>4, <1>5 DEF StationEvent, RefreshCarrier, r

(* dispatch_transmit_purpose: authorize follows Message 4, which was       *)
(* submitted with all the keys of the connection.                          *)
LEMMA TransmittedHolds ==
  ASSUME IInv, NEW t \in flight, rt.state = "AwaitingEapolTransmit", rt.token = t,
         Transmitted(t, rt.purpose, flight \ {t})
  PROVE  IInv'
<1> DEFINE m == hist.m4 \/ (rt.purpose = "Message4" /\ t \in hist.sent)
           h == [hist EXCEPT !.m4 = m]
<1>0. /\ Located(st) /\ Holding(rt, sup) /\ rt \in RuntimeType
      /\ SupInv(sup, handshakes, installed)
      /\ flight \subseteq Tokens /\ installed \subseteq 1 .. handshakes
      /\ hist \in HistType
  BY DEF IInv, RtInv, Holding
<1>1. m \in BOOLEAN
  BY <1>0 DEF HistType
<1> HIDE DEF m
<1>2. Extends(h) /\ h.keys = hist.keys /\ h.m4 = m
  <2>1. /\ h \in HistType /\ h.keys = hist.keys /\ h.m4 = m /\ h.sent = hist.sent
    BY <1>0, <1>1 DEF HistType
  <2>2. hist.m4 => m
    BY DEF m
  <2> HIDE DEF h
  <2> QED BY <2>1, <2>2 DEF Extends
<1>3. /\ "AwaitingAuthenticator" \in RuntimeStates /\ "Complete" \in RuntimeStates
      /\ "AwaitingAuthorizationStatus" \in RuntimeStates
      /\ {"AwaitingAuthenticator", "Complete", "AwaitingAuthorizationStatus"}
            \cap (PairStates \cup RekeyStates) = {}
  BY RuntimeNames DEF PairStates, RekeyStates
<1> HIDE DEF h
<1>4. CASE /\ \E x \in {"AwaitingAuthenticator", "Complete"} :
                Become(st, GoTo(rt, x), sup, h)
           /\ flight' = flight \ {t} /\ installed' = installed
  <2>1. PICK x \in {"AwaitingAuthenticator", "Complete"} : Become(st, GoTo(rt, x), sup, h)
    BY <1>4
  <2>2. /\ SupInv(sup, handshakes, installed') /\ flight' \subseteq Tokens
        /\ installed' \subseteq 1 .. handshakes
    BY <1>0, <1>4
  <2>3. x \in RuntimeStates \ {"AwaitingEapolTransmit"}
        /\ x \notin PairStates /\ x \notin RekeyStates
        /\ x \notin {"AwaitingGroupKeyStatus", "AwaitingDefaultGroupKeyStatus"}
    BY <1>3, <2>1
  <2> QED BY <1>0, <1>2, <2>1, <2>2, <2>3, StationSame, GoToHolds
<1>5. CASE /\ rt.purpose = "Message4"
           /\ Become(Authorize(st), GoTo(rt, "AwaitingAuthorizationStatus"), sup, h)
           /\ flight' = flight \ {t} /\ installed' = installed
  <2> DEFINE a == Authorize(st)
             q == GoTo(rt, "AwaitingAuthorizationStatus")
  <2>1. Located(a) /\ (a.secure => st.secure)
    BY <1>0, KeyCommandQuiet
  <2>2. /\ q \in RuntimeType /\ q.state = "AwaitingAuthorizationStatus"
        /\ q.pair = rt.pair /\ q.group = rt.group
    BY <1>0, <1>3, GoToFields
  <2> HIDE DEF a, q
  <2>3. RtInv(q, sup)
    BY <1>0, <2>2 DEF RtInv, Holding, PairStates, RekeyStates
  <2>4. Careful => Port(a, q, h)
    <3>1. SUFFICES ASSUME Careful, a.secure
                   PROVE  Stage(q, h) /\ h.keys = AllKeys /\ h.m4
      BY DEF Port
    <3>2. hist.keys = AllKeys /\ rt.token \in hist.sent
      BY <1>5, <2>1, <3>1 DEF IInv, Port, Stage
    <3>3. m
      BY <1>5, <3>2 DEF m
    <3> QED BY <1>2, <2>2, <3>2, <3>3 DEF Stage
  <2>5. /\ h \in HistType /\ flight' \subseteq Tokens
        /\ SupInv(sup, handshakes, installed')
        /\ installed' \subseteq 1 .. handshakes
    BY <1>0, <1>2, <1>5 DEF Extends
  <2>6. Become(a, q, sup, h)
    BY <1>5 DEF a, q
  <2> QED BY <2>1, <2>3, <2>4, <2>5, <2>6, BecomeHolds
<1>6. CASE /\ CompleteGroupRekey(st).ok
           /\ Become(CompleteGroupRekey(st).st, GoTo(rt, "Complete"), sup, h)
           /\ flight' = flight \ {t} /\ installed' = installed
  <2> DEFINE s == CompleteGroupRekey(st).st
  <2>1. Located(s) /\ Quiet(st, s)
    BY <1>0, <1>6, GroupRekeyQuiet
  <2> HIDE DEF s
  <2>2. /\ SupInv(sup, handshakes, installed') /\ flight' \subseteq Tokens
        /\ installed' \subseteq 1 .. handshakes
    BY <1>0, <1>6
  <2>3. Become(s, GoTo(rt, "Complete"), sup, h)
    BY <1>6 DEF s
  <2>4. "Complete" \in RuntimeStates \ {"AwaitingEapolTransmit"}
        /\ "Complete" \notin PairStates /\ "Complete" \notin RekeyStates
    BY <1>3
  <2> QED BY <1>0, <1>2, <2>1, <2>2, <2>3, <2>4, GoToHolds
<1>7. CASE RuntimeFail(rt, sup)
  BY <1>0, <1>7, FailHolds
<1> QED BY <1>4, <1>5, <1>6, <1>7 DEF Transmitted, h, m

(* A TX-done event, good or bad *)
LEMMA TransmitHolds ==
  ASSUME IInv, NEW t \in Tokens, TransmitDone(t) \/ TransmitFailed(t)
  PROVE  IInv'
<1>0. rt \in RuntimeType /\ SupInv(sup, handshakes, installed)
  BY DEF IInv, RtInv, Holding
<1>1. CASE /\ flight' = flight \ {t}
           /\ UNCHANGED <<drv, st, sup, rt, handshakes, installed, hist>>
  BY <1>1 DEF IInv
<1>2. CASE /\ rt.state = "AwaitingEapolTransmit" /\ rt.token = t /\ t \in flight
           /\ Transmitted(t, rt.purpose, flight \ {t})
  BY <1>2, TransmittedHolds
<1>3. CASE RuntimeFail(rt, sup)
  BY <1>0, <1>3, FailHolds
<1> QED BY <1>1, <1>2, <1>3 DEF TransmitDone, TransmitFailed

(* restart_pairwise, and a new session: the nonce is a new one. *)
LEMMA RestartHolds ==
  ASSUME IInv, Restart
  PROVE  IInv'
<1> DEFINE n == handshakes + 1
<1>1. /\ handshakes \in Nat /\ n \in Handshakes /\ n \notin installed
      /\ installed \subseteq 1 .. n
  BY SessionAssumption DEF IInv, Restart, Handshakes
<1>2. sup' = NewSupplicant(n) /\ rt' = NewRuntime /\ handshakes' = n
      /\ UNCHANGED <<drv, st, flight, installed, hist>>
  BY DEF Restart
<1> HIDE DEF n
<1>3. SupInv(sup', handshakes', installed')
  BY <1>1, <1>2, NewSup
<1>4. /\ rt' \in RuntimeType /\ rt'.state = "AwaitingAuthenticator"
      /\ rt'.pair = NoFrame /\ rt'.group = NoFrame
  BY <1>2, DeadlineAssumption DEF NewRuntime, RuntimeTimeout, RuntimeType, RuntimeStates,
     TimedRuntimeStates
<1>5. RtInv(rt', sup')
  BY <1>4 DEF RtInv, Holding, PairStates, RekeyStates
<1>6. Careful => Port(st', rt', hist')
  <2>1. Careful => Port(st, rt', hist)
    BY <1>4, StationSame, HistorySame, PortKept
  <2> QED BY <1>2, <2>1
<1> QED BY <1>1, <1>2, <1>3, <1>5, <1>6 DEF IInv

(* advance_time *)
LEMMA TimeHolds ==
  ASSUME IInv, PassTime
  PROVE  IInv'
<1>0. /\ Located(st) /\ rt \in RuntimeType /\ RtInv(rt, sup)
      /\ SupInv(sup, handshakes, installed) /\ flight \subseteq Tokens
  BY DEF IInv, RtInv, Holding
<1>1. PICK elapsed \in 1 .. MaxElapsed :
        LET s == AdvanceTime(st, elapsed) IN
        \/ /\ ~s.ok
           /\ EnterRecovery
           /\ UNCHANGED <<sup, rt, flight, handshakes, installed>>
        \/ /\ s.ok
           /\ \/ /\ rt.remaining = 0 \/ elapsed < rt.remaining
                 /\ Become(s.st, [rt EXCEPT !.remaining =
                                    IF @ = 0 THEN 0 ELSE @ - elapsed], sup, hist)
                 /\ UNCHANGED <<flight, installed>>
              \/ /\ rt.remaining > 0 /\ elapsed >= rt.remaining
                 /\ RuntimeFail(rt, sup)
  BY DEF PassTime
<1>2. elapsed \in Nat
  BY SessionAssumption
<1> DEFINE s == AdvanceTime(st, elapsed)
           left == IF rt.remaining = 0 THEN 0 ELSE rt.remaining - elapsed
           q == [rt EXCEPT !.remaining = left]
<1>3. s.ok => Located(s.st) /\ Quiet(st, s.st)
  BY <1>0, <1>2, TimeQuiet
<1> HIDE DEF s
<1>4. CASE EnterRecovery /\ UNCHANGED <<sup, rt, flight, handshakes, installed>>
  BY <1>0, <1>4, DownHolds
<1>5. CASE /\ s.ok
           /\ rt.remaining = 0 \/ elapsed < rt.remaining
           /\ Become(s.st, q, sup, hist)
           /\ UNCHANGED <<flight, installed>>
  <2>1. rt.remaining \in 0 .. Deadline
    BY <1>0 DEF RuntimeType
  <2>2. left \in 0 .. Deadline
    BY <1>2, <1>5, <2>1, DeadlineAssumption
  <2> HIDE DEF left
  <2>3. /\ q \in RuntimeType /\ q.state = rt.state /\ q.purpose = rt.purpose
        /\ q.token = rt.token /\ q.pair = rt.pair /\ q.group = rt.group
    BY <1>0, <2>2 DEF RuntimeType
  <2> HIDE DEF q
  <2> QED BY <1>0, <1>3, <1>5, <2>3, SameHolds
<1>6. CASE RuntimeFail(rt, sup)
  BY <1>0, <1>6, FailHolds
<1>7. \/ EnterRecovery /\ UNCHANGED <<sup, rt, flight, handshakes, installed>>
      \/ /\ s.ok
         /\ rt.remaining = 0 \/ elapsed < rt.remaining
         /\ Become(s.st, q, sup, hist)
         /\ UNCHANGED <<flight, installed>>
      \/ RuntimeFail(rt, sup)
  BY <1>1 DEF s
<1> QED BY <1>4, <1>5, <1>6, <1>7

(* The driver goes down, and comes back with a station that has forgotten  *)
(* its connection.                                                         *)
LEMMA FaultHolds ==
  ASSUME IInv, DriverFault \/ Recover
  PROVE  IInv'
<1>1. CASE DriverFault
  <2>1. RtInv(rt', sup') /\ SupInv(sup', handshakes, installed)
    BY <1>1 DEF IInv, DriverFault
  <2> QED BY <1>1, <2>1, DownHolds DEF DriverFault
<1>2. CASE Recover
  <2>1. Located(st') /\ ~st'.secure
    BY <1>2, RecoveryQuiet DEF IInv, Recover
  <2> QED BY <1>2, <2>1 DEF IInv, Recover, Port
<1> QED BY <1>1, <1>2

(* The commands of the caller *)
LEMMA CallerHolds ==
  ASSUME IInv,
         \/ DoCreateInterface \/ DoBringUp \/ DoAuthenticate \/ DoAssociate
         \/ DoSetPowerSave \/ DoDisconnect \/ DoBringDown
  PROVE  IInv'
<1>0. /\ Located(st) /\ rt \in RuntimeType /\ RtInv(rt, sup)
      /\ SupInv(sup, handshakes, installed) /\ flight \subseteq Tokens
      /\ installed \subseteq 1 .. handshakes
  BY DEF IInv, RtInv, Holding
<1>1. ASSUME NEW s, Located(s), Quiet(st, s), Become(s, rt, sup, hist),
             UNCHANGED <<flight, installed>>
      PROVE  IInv'
  BY <1>0, <1>1, SameHolds
<1>2. CASE DoCreateInterface \/ DoBringUp \/ DoSetPowerSave \/ DoDisconnect \/ DoBringDown
  <2>1. CASE DoCreateInterface
    BY <1>0, <1>1, <2>1, CommandQuiet DEF DoCreateInterface, Command
  <2>2. CASE DoBringUp
    BY <1>0, <1>1, <2>2, CommandQuiet DEF DoBringUp, Command
  <2>3. CASE DoSetPowerSave
    BY <1>0, <1>1, <2>3, CommandQuiet DEF DoSetPowerSave, Command
  <2>4. CASE DoDisconnect
    BY <1>0, <1>1, <2>4, CommandQuiet DEF DoDisconnect, Command
  <2>5. CASE DoBringDown
    BY <1>0, <1>1, <2>5, CommandQuiet DEF DoBringDown, Command
  <2> QED BY <1>2, <2>1, <2>2, <2>3, <2>4, <2>5
<1>3. NoHistory \in HistType
  BY DEF NoHistory, HistType
<1>4. CASE DoAuthenticate
  <2> DEFINE s == Authenticate(st, Authenticator)
  <2>1. Located(s) /\ ~s.secure
    BY <1>0, <1>4, CommandQuiet DEF DoAuthenticate, Command
  <2>2. Become(s, rt, sup, NoHistory) /\ UNCHANGED <<flight, installed>>
    BY <1>4 DEF DoAuthenticate, Command
  <2> HIDE DEF s
  <2> QED BY <1>0, <1>3, <2>1, <2>2, BecomeHolds DEF Port
<1>5. CASE DoAssociate
  <2>1. PICK secure \in BOOLEAN :
          /\ Careful /\ secure => rt.state = "AwaitingAuthenticator"
          /\ CanAssociate(st)
          /\ Become(Associate(st, secure), rt, sup, NoHistory)
          /\ UNCHANGED <<flight, installed>>
    BY <1>5 DEF DoAssociate, Command
  <2> DEFINE s == Associate(st, secure)
  <2>2. Located(s) /\ s.secure = secure /\ (Granted(s) => ~secure)
    BY <1>0, <2>1, AssociateLocated
  <2>3. Become(s, rt, sup, NoHistory)
    BY <2>1
  <2> HIDE DEF s
  <2>4. Careful => Port(s, rt, NoHistory)
    BY <2>1, <2>2 DEF Port, Stage
  <2> QED BY <1>0, <1>3, <2>1, <2>2, <2>3, <2>4, BecomeHolds
<1> QED BY <1>2, <1>4, <1>5

(* Every step keeps the invariant. *)
LEMMA NextHolds == IInv /\ [Next]_vars => IInv'
<1> SUFFICES ASSUME IInv, [Next]_vars PROVE IInv'
  OBVIOUS
<1>1. ASSUME NEW f \in Frames, ReceiveEapol(f) PROVE IInv'
  BY <1>1, ReceiveHolds
<1>2. CASE ReceiveOther
  <2>1. rt \in RuntimeType /\ SupInv(sup, handshakes, installed)
    BY DEF IInv, RtInv, Holding
  <2> QED BY <1>2, <2>1, FailHolds DEF ReceiveOther
<1>3. ASSUME NEW e \in Events, e.mine, e.good, StationEvent(e) PROVE IInv'
  BY <1>3, EventHolds
<1>4. ASSUME NEW t \in Tokens, TransmitDone(t) \/ TransmitFailed(t) PROVE IInv'
  BY <1>4, TransmitHolds
<1>5. CASE RestartPairwise \/ NewSession
  BY <1>5, RestartHolds DEF RestartPairwise, NewSession
<1>6. CASE PassTime
  BY <1>6, TimeHolds
<1>7. CASE DriverFault \/ Recover
  BY <1>7, FaultHolds
<1>8. CASE \/ DoCreateInterface \/ DoBringUp \/ DoAuthenticate \/ DoAssociate
           \/ DoSetPowerSave \/ DoDisconnect \/ DoBringDown
  BY <1>8, CallerHolds
<1>9. CASE UNCHANGED vars
  BY <1>9 DEF vars, IInv
<1> QED BY <1>1, <1>2, <1>3, <1>4, <1>5, <1>6, <1>7, <1>8, <1>9 DEF Next

(* The invariant of the session *)
THEOREM Invariance == Spec => []IInv
<1>1. Init => IInv
  BY InitHolds
<1>2. IInv /\ [Next]_vars => IInv'
  BY NextHolds
<1> QED BY <1>1, <1>2, PTL DEF Spec

-----------------------------------------------------------------------------
(* What the invariant says *)

(* Every variable keeps its type through every step of the caller, the     *)
(* access point and the firmware (wpa2_runtime.rs, wpa2.rs).               *)
THEOREM TypeCorrect == Spec => []TypeOK
<1>1. IInv => TypeOK
  <2> SUFFICES ASSUME IInv PROVE TypeOK
    OBVIOUS
  <2>1. handshakes \in 0 .. MaxHandshakes /\ installed \subseteq Handshakes
    BY SessionAssumption DEF IInv, Handshakes
  <2> QED BY <2>1 DEF IInv, TypeOK, Located, SupInv, RtInv, Holding, HistType
<1> QED BY <1>1, Invariance, PTL

(* The coordinator holds the very request that the supplicant waits for,   *)
(* made of a frame that may ask for keys, and never awaits the status of a *)
(* key without one: accept_key_completion is never called with a stale     *)
(* ticket.                                                                 *)
THEOREM RequestsPending == Spec => []RequestPending
<1>1. IInv => RequestPending
  <2> SUFFICES ASSUME IInv PROVE RequestPending
    OBVIOUS
  <2>1. RtInv(rt, sup) /\ Holding(rt, sup) /\ sup.ticket \in Fit \cup {NoFrame}
    BY DEF IInv, RtInv, SupInv
  <2>2. {rt.pair, rt.group} \subseteq Fit \cup {NoFrame}
    BY <2>1 DEF Holding
  <2>3. {rt.pair, rt.group} \cap Unfit = {}
    BY <2>2, FitIsFit
  <2>4. KeyStatusStates = PairStates \cup RekeyStates
    BY DEF KeyStatusStates, PairStates, RekeyStates
  <2> QED BY <2>1, <2>3, <2>4 DEF RequestPending, RtInv, Holding
<1> QED BY <1>1, Invariance, PTL

(* With a caller that makes or restarts a session before each association, *)
(* authorize_after_message4 opens the port of a secure network only for    *)
(* the handshake of that association, with all its keys in the firmware.   *)
THEOREM PortAfterHandshake ==
  ASSUME Careful
  PROVE  Spec => []PortNeedsHandshake
<1>1. IInv => PortNeedsHandshake
  BY DEF IInv, Port, Granted, PortNeedsHandshake, ControlledPortOpen, AllKeys
<1> QED BY <1>1, Invariance, PTL

-----------------------------------------------------------------------------
(* No pairwise key is installed twice. *)

(* The status of a pairwise key is what the coordinator waits for next:    *)
(* it has not been waiting for it.                                         *)
Enters ==
  rt'.state = "AwaitingPairwiseKeyStatus" /\ rt.state # "AwaitingPairwiseKeyStatus"

(* fail, submit_eapol and a key command for anything but the pairwise key  *)
LEMMA OtherStates ==
  ASSUME NEW r \in RuntimeType, NEW u, NEW s, NEW h
  PROVE  /\ RuntimeFail(r, u) => ~Enters
         /\ \A purpose \in Purposes : EapolSubmitted(s, r, u, h, purpose) => ~Enters
         /\ \A x \in RuntimeStates \ {"AwaitingPairwiseKeyStatus"} :
              /\ Become(s, GoTo(r, x), u, h) => ~Enters
              /\ SubmitNewKey(s, r, u, h, FALSE, x) => ~Enters
              /\ SubmitDefaultKey(s, r, u, h, x) => ~Enters
<1>1. ASSUME RuntimeFail(r, u) PROVE ~Enters
  <2> DEFINE q == [r EXCEPT !.pair = NoFrame, !.group = NoFrame, !.last = NoFrame]
  <2>1. q \in RuntimeType /\ rt' = GoTo(q, "Failed")
    BY <1>1 DEF RuntimeType, RuntimeFail
  <2> HIDE DEF q
  <2> QED BY <2>1, RuntimeNames, GoToFields DEF Enters
<1>2. ASSUME NEW purpose \in Purposes, EapolSubmitted(s, r, u, h, purpose) PROVE ~Enters
  <2> DEFINE q == GoTo(r, "AwaitingEapolTransmit")
  <2>1. q \in RuntimeType /\ q.state = "AwaitingEapolTransmit"
    BY RuntimeNames, GoToFields
  <2>2. PICK t : rt' = [q EXCEPT !.token = t, !.purpose = purpose]
    BY <1>2 DEF EapolSubmitted, Become
  <2> HIDE DEF q
  <2>3. rt'.state = q.state
    BY <2>1, <2>2 DEF RuntimeType
  <2> QED BY <2>1, <2>3 DEF Enters
<1>3. ASSUME NEW x \in RuntimeStates \ {"AwaitingPairwiseKeyStatus"}, NEW a,
             Become(a, GoTo(r, x), u, h)
      PROVE  ~Enters
  BY <1>3, GoToFields DEF Become, Enters
<1> QED BY <1>1, <1>2, <1>3 DEF SubmitNewKey, SubmitDefaultKey

(* Of all that follows a frame, only the installation of keys does, and    *)
(* the supplicant asks for it while it still awaits Message 3.             *)
LEMMA ReceiveInstalls ==
  ASSUME IInv, NEW f \in Frames, ReceiveEapol(f), Enters
  PROVE  sup.nonce \notin installed
<1> DEFINE result == OnEapol(sup, f)
           u == result.sup
           r == [rt EXCEPT !.last = f]
           q == [r EXCEPT !.group = f]
<1>0. /\ rt \in RuntimeType /\ SupInv(sup, handshakes, installed) /\ handshakes \in Nat
  BY SessionAssumption DEF IInv, Handshakes, RtInv, Holding
<1>1. r \in RuntimeType /\ q \in RuntimeType
  BY <1>0 DEF RuntimeType
<1>2. Taken(sup, f, result)
  BY <1>0, OnEapolTaken
<1> HIDE DEF result, r
<1>3. CASE result.ok /\ result.action = "InstallKeys"
  <2>1. sup.phase = "AwaitingMessage3"
    BY <1>2, <1>3 DEF Taken
  <2> QED BY <1>0, <2>1 DEF SupInv
<1>4. ASSUME NEW v \in {rt, r}, Become(st, v, sup, hist) \/ Become(st, v, u, hist)
      PROVE  FALSE
  <2>1. v.state = rt.state
    BY <1>0, <1>4 DEF r, RuntimeType
  <2> QED BY <1>4, <2>1 DEF Become, Enters
<1>5. ASSUME NEW v \in RuntimeType, NEW w, RuntimeFail(v, w) PROVE FALSE
  BY <1>5, OtherStates
<1>6. ASSUME NEW purpose \in Purposes, SubmitEapol(st, r, u, hist, purpose) PROVE FALSE
  BY <1>1, <1>6, OtherStates DEF SubmitEapol
<1>7. ASSUME SubmitNewKey(st, q, u, hist, FALSE, "AwaitingGroupRekeyStatus") PROVE FALSE
  <2>1. "AwaitingGroupRekeyStatus" \in RuntimeStates \ {"AwaitingPairwiseKeyStatus"}
    BY RuntimeNames DEF RekeyStates
  <2> HIDE DEF q
  <2> QED BY <1>1, <1>7, <2>1, OtherStates
<1>8. {"Retransmission", "Message2"} \subseteq Purposes
  BY DEF Purposes
<1>9. \/ Become(st, rt, sup, hist)
      \/ RuntimeFail(rt, sup)
      \/ RuntimeFail(rt, u)
      \/ result.ok /\ DispatchAction(f, u, result.action)
  BY DEF ReceiveEapol, PendingInput, result
<1>10. CASE result.ok /\ DispatchAction(f, u, result.action)
  <2>1. \/ Become(st, r, u, hist)
        \/ \E purpose \in {"Retransmission", "Message2"} :
             SubmitEapol(st, r, u, hist, purpose)
        \/ result.action = "InstallKeys"
        \/ SubmitNewKey(st, q, u, hist, FALSE, "AwaitingGroupRekeyStatus")
        \/ RuntimeFail(r, u)
    BY <1>10 DEF DispatchAction, r
  <2> QED BY <1>1, <1>3, <1>4, <1>5, <1>6, <1>7, <1>8, <1>10, <2>1
<1> QED BY <1>0, <1>4, <1>5, <1>9, <1>10

(* No event of the firmware installs a pairwise key. *)
LEMMA EventInstallsNot ==
  ASSUME IInv, NEW e, StationEvent(e)
  PROVE  ~Enters
<1> DEFINE s == HandleEvent(st, e).st
<1>0. rt \in RuntimeType
  BY DEF IInv, RtInv, Holding
<1>1. /\ {"AwaitingGroupKeyStatus", "AwaitingDefaultGroupKeyStatus", "Complete",
          "AwaitingDefaultGroupRekeyStatus", "AwaitingCarrier"}
           \subseteq RuntimeStates \ {"AwaitingPairwiseKeyStatus"}
      /\ {"Message4", "GroupMessage2"} \subseteq Purposes
  BY RuntimeNames DEF PairStates, RekeyStates, Purposes
<1> HIDE DEF s
<1>2. CASE rt' = rt
  BY <1>2 DEF Enters
<1>3. CASE Become(s, GoTo(rt, "Complete"), sup, hist)
           \/ Become(s, GoTo(rt, "AwaitingCarrier"), sup, hist)
  BY <1>0, <1>1, <1>3, OtherStates
<1>4. CASE OnCommandStatus(s)
  <2>1. CASE SubmitNewKey(s, rt, sup, WithKey("pairwise"), FALSE, "AwaitingGroupKeyStatus")
    BY <1>0, <1>1, <2>1, OtherStates
  <2>2. CASE \/ SubmitDefaultKey(s, rt, sup, WithKey("group"), "AwaitingDefaultGroupKeyStatus")
             \/ SubmitDefaultKey(s, rt, sup, hist, "AwaitingDefaultGroupRekeyStatus")
    BY <1>0, <1>1, <2>2, OtherStates
  <2>3. ASSUME NEW r \in RuntimeType, NEW result, NEW h, NEW purpose \in Purposes,
               FinishKeyInstall(s, r, result, h, purpose)
        PROVE  ~Enters
    BY <2>3, OtherStates DEF FinishKeyInstall
  <2>4. /\ [rt EXCEPT !.pair = NoFrame] \in RuntimeType
        /\ [rt EXCEPT !.group = NoFrame] \in RuntimeType
    BY <1>0 DEF RuntimeType
  <2>5. CASE FinishKeyInstall(s, [rt EXCEPT !.pair = NoFrame],
               CompleteKeyInstall(sup, rt.pair), WithKey("default"), "Message4")
    BY <1>1, <2>3, <2>4, <2>5
  <2>6. CASE FinishKeyInstall(s, [rt EXCEPT !.group = NoFrame],
               CompleteGroupKeyInstall(sup, rt.group), hist, "GroupMessage2")
    BY <1>1, <2>3, <2>4, <2>6
  <2> QED BY <1>3, <1>4, <2>1, <2>2, <2>5, <2>6 DEF OnCommandStatus
<1> QED BY <1>2, <1>3, <1>4 DEF StationEvent, RefreshCarrier, Become, s

(* No end of a transmission does, no caller and no passing of time. *)
LEMMA OthersInstallNot ==
  ASSUME IInv,
         \/ ReceiveOther
         \/ \E t \in Tokens : TransmitDone(t) \/ TransmitFailed(t)
         \/ RestartPairwise \/ NewSession \/ PassTime \/ DriverFault \/ Recover
         \/ DoCreateInterface \/ DoBringUp \/ DoAuthenticate \/ DoAssociate
         \/ DoSetPowerSave \/ DoDisconnect \/ DoBringDown
         \/ UNCHANGED vars
  PROVE  ~Enters
<1>0. rt \in RuntimeType
  BY DEF IInv, RtInv, Holding
<1>1. CASE rt' = rt
  BY <1>1 DEF Enters
<1>2. CASE RuntimeFail(rt, sup)
  BY <1>0, <1>2, OtherStates
<1>3. CASE \E t \in Tokens : Transmitted(t, rt.purpose, flight \ {t})
  <2>1. PICK x \in {"AwaitingAuthenticator", "AwaitingAuthorizationStatus", "Complete"} :
          rt' = GoTo(rt, x) \/ RuntimeFail(rt, sup)
    BY <1>3 DEF Transmitted, Become
  <2>2. x \in RuntimeStates \ {"AwaitingPairwiseKeyStatus"}
    BY RuntimeNames
  <2> QED BY <1>0, <1>2, <2>1, <2>2, GoToFields DEF Enters
<1>4. CASE rt' = NewRuntime
  BY <1>4 DEF NewRuntime, Enters
<1>5. CASE PassTime
  <2>1. PICK left : rt' = [rt EXCEPT !.remaining = left] \/ rt' = rt \/ RuntimeFail(rt, sup)
    BY <1>5 DEF PassTime, Become
  <2>2. CASE rt' = [rt EXCEPT !.remaining = left]
    BY <1>0, <2>2 DEF RuntimeType, Enters
  <2> QED BY <1>1, <1>2, <2>1, <2>2
<1> QED
  BY <1>1, <1>2, <1>3, <1>4, <1>5 DEF ReceiveOther, TransmitDone, TransmitFailed,
     RestartPairwise, NewSession, Restart, DriverFault, Recover, DoCreateInterface, DoBringUp,
     DoAuthenticate, DoAssociate, DoSetPowerSave, DoDisconnect, DoBringDown, Command, Become,
     vars

(* The pairwise key of a handshake goes to the firmware at most once       *)
(* (on_message3 answers a repeated Message 3 without installing again).    *)
THEOREM NeverReinstalled == Spec => NoReinstall
<1>1. ASSUME IInv, [Next]_vars, Enters PROVE sup.nonce \notin installed
  <2>1. ASSUME NEW f \in Frames, ReceiveEapol(f) PROVE sup.nonce \notin installed
    BY <1>1, <2>1, ReceiveInstalls
  <2>2. ASSUME NEW e, StationEvent(e) PROVE FALSE
    BY <1>1, <2>2, EventInstallsNot
  <2> QED BY <1>1, <2>1, <2>2, OthersInstallNot DEF Next
<1>2. IInv /\ [Next]_vars =>
        [/\ rt'.state = "AwaitingPairwiseKeyStatus"
         /\ rt.state # "AwaitingPairwiseKeyStatus"
         => sup.nonce \notin installed]_vars
  BY <1>1 DEF Enters
<1> QED BY <1>2, Invariance, PTL DEF Spec, NoReinstall

-----------------------------------------------------------------------------
(* Deadlines: what OperationEnds needs beside the fairness of the timer    *)

(* The coordinator has a deadline in exactly the states that wait. *)
Due(r) == r.state \in TimedRuntimeStates <=> r.remaining > 0

(* Coordinator r has one, and has no more time than before for an          *)
(* operation that was pending and still is.                                *)
OnTime(r) ==
  /\ Due(r)
  /\ rt.state \in PendingStates /\ r.state = rt.state => r.remaining <= rt.remaining

(* Every transition sets the deadline of the state it enters; it comes in  *)
(* time unless it begins the pending operation again.                      *)
LEMMA GoToOnTime ==
  ASSUME NEW r \in RuntimeType, NEW x \in RuntimeStates,
         x \notin PendingStates \/ x # rt.state
  PROVE  OnTime(GoTo(r, x))
<1>1. GoTo(r, x).state = x /\ GoTo(r, x).remaining = RuntimeTimeout(x)
  BY DEF GoTo, RuntimeType
<1>2. x \in TimedRuntimeStates <=> RuntimeTimeout(x) > 0
  BY DeadlineAssumption DEF RuntimeTimeout
<1> HIDE DEF GoTo
<1> QED BY <1>1, <1>2 DEF OnTime, Due

(* A field other than the state and the deadline does not matter. *)
LEMMA SameOnTime ==
  ASSUME IInv, Due(rt), NEW r, r.state = rt.state, r.remaining = rt.remaining
  PROVE  OnTime(r)
<1>1. rt.remaining \in Nat
  BY DEF IInv, RtInv, Holding, RuntimeType
<1> QED BY <1>1 DEF OnTime, Due

(* fail, submit_eapol and submit_key set the deadline of what they begin,  *)
(* which is never what was pending.                                        *)
LEMMA BeginsOnTime ==
  ASSUME NEW r \in RuntimeType, NEW u, NEW s, NEW h
  PROVE  /\ RuntimeFail(r, u) => OnTime(rt')
         /\ \A purpose \in Purposes :
              EapolSubmitted(s, r, u, h, purpose) /\ rt.state # "AwaitingEapolTransmit"
                => OnTime(rt')
         /\ \A x \in RuntimeStates :
              x \notin PendingStates \/ x # rt.state =>
                /\ Become(s, GoTo(r, x), u, h) => OnTime(rt')
                /\ \A pairwise \in BOOLEAN :
                     SubmitNewKey(s, r, u, h, pairwise, x) => OnTime(rt')
                /\ SubmitDefaultKey(s, r, u, h, x) => OnTime(rt')
<1>1. ASSUME RuntimeFail(r, u) PROVE OnTime(rt')
  <2> DEFINE q == [r EXCEPT !.pair = NoFrame, !.group = NoFrame, !.last = NoFrame]
  <2>1. q \in RuntimeType /\ rt' = GoTo(q, "Failed")
    BY <1>1 DEF RuntimeType, RuntimeFail
  <2> HIDE DEF q
  <2>2. "Failed" \in RuntimeStates /\ "Failed" \notin PendingStates
    BY DEF RuntimeStates, PendingStates, KeyStatusStates
  <2> QED BY <2>1, <2>2, GoToOnTime
<1>2. ASSUME NEW purpose \in Purposes, EapolSubmitted(s, r, u, h, purpose),
             rt.state # "AwaitingEapolTransmit"
      PROVE  OnTime(rt')
  <2> DEFINE q == GoTo(r, "AwaitingEapolTransmit")
  <2>1. q \in RuntimeType /\ OnTime(q)
    BY <1>2, RuntimeNames, GoToFields, GoToOnTime
  <2>2. PICK t : rt' = [q EXCEPT !.token = t, !.purpose = purpose]
    BY <1>2 DEF EapolSubmitted, Become
  <2> HIDE DEF q
  <2>3. rt'.state = q.state /\ rt'.remaining = q.remaining
    BY <2>1, <2>2 DEF RuntimeType
  <2> QED BY <2>1, <2>3 DEF OnTime, Due
<1>3. ASSUME NEW x \in RuntimeStates, x \notin PendingStates \/ x # rt.state, NEW a,
             Become(a, GoTo(r, x), u, h)
      PROVE  OnTime(rt')
  BY <1>3, GoToOnTime DEF Become
<1> QED BY <1>1, <1>2, <1>3 DEF SubmitNewKey, SubmitDefaultKey

(* A frame does not put a deadline off: what is repeated while an          *)
(* operation is pending changes nothing (pending_input), and whatever      *)
(* begins an operation begins it while none is pending.                    *)
LEMMA ReceiveOnTime ==
  ASSUME IInv, Due(rt), NEW f \in Frames, ReceiveEapol(f)
  PROVE  OnTime(rt')
<1> DEFINE result == OnEapol(sup, f)
           u == result.sup
           r == [rt EXCEPT !.last = f]
           p == [r EXCEPT !.pair = f]
           q == [r EXCEPT !.group = f]
<1>0. rt \in RuntimeType
  BY DEF IInv, RtInv, Holding
<1>1. /\ r \in RuntimeType /\ p \in RuntimeType /\ q \in RuntimeType
      /\ r.state = rt.state /\ r.remaining = rt.remaining
  BY <1>0 DEF RuntimeType
<1> HIDE DEF result, r
<1>2. ASSUME NEW w, Become(st, rt, w, hist) \/ Become(st, r, w, hist) PROVE OnTime(rt')
  BY <1>1, <1>2, SameOnTime DEF Become
<1>3. ASSUME NEW v \in RuntimeType, NEW w, RuntimeFail(v, w) PROVE OnTime(rt')
  BY <1>3, BeginsOnTime
<1>4. \/ Become(st, rt, sup, hist)
      \/ RuntimeFail(rt, sup)
      \/ RuntimeFail(rt, u)
      \/ rt.state \notin PendingStates /\ DispatchAction(f, u, result.action)
  BY DEF ReceiveEapol, PendingInput, result
<1>5. CASE rt.state \notin PendingStates /\ DispatchAction(f, u, result.action)
  <2>1. \/ Become(st, r, u, hist)
        \/ \E purpose \in {"Retransmission", "Message2"} :
             SubmitEapol(st, r, u, hist, purpose)
        \/ SubmitNewKey(st, p, u, hist, TRUE, "AwaitingPairwiseKeyStatus")
        \/ SubmitNewKey(st, q, u, hist, FALSE, "AwaitingGroupRekeyStatus")
        \/ RuntimeFail(r, u)
    BY <1>5 DEF DispatchAction, r
  <2> HIDE DEF p, q
  <2>2. \A x \in PendingStates : x # rt.state
    BY <1>5
  <2>3. /\ {"AwaitingPairwiseKeyStatus", "AwaitingGroupRekeyStatus", "AwaitingEapolTransmit"}
             \subseteq RuntimeStates \cap PendingStates
        /\ {"Retransmission", "Message2"} \subseteq Purposes
    BY DEF RuntimeStates, TimedRuntimeStates, PendingStates, KeyStatusStates, Purposes
  <2>4. ASSUME NEW purpose \in Purposes, SubmitEapol(st, r, u, hist, purpose)
        PROVE  OnTime(rt')
    BY <1>1, <2>2, <2>3, <2>4, BeginsOnTime DEF SubmitEapol
  <2>5. ASSUME NEW v \in RuntimeType, NEW x \in RuntimeStates, x # rt.state,
               NEW pairwise \in BOOLEAN, SubmitNewKey(st, v, u, hist, pairwise, x)
        PROVE  OnTime(rt')
    BY <2>5, BeginsOnTime
  <2>6. CASE SubmitNewKey(st, p, u, hist, TRUE, "AwaitingPairwiseKeyStatus")
    BY <1>1, <2>2, <2>3, <2>5, <2>6
  <2>7. CASE SubmitNewKey(st, q, u, hist, FALSE, "AwaitingGroupRekeyStatus")
    BY <1>1, <2>2, <2>3, <2>5, <2>7
  <2> QED BY <1>1, <1>2, <1>3, <2>1, <2>3, <2>4, <2>6, <2>7
<1> QED BY <1>0, <1>2, <1>3, <1>4, <1>5

(* An event of the firmware leaves the coordinator alone or moves it to    *)
(* the next operation.                                                     *)
LEMMA EventOnTime ==
  ASSUME IInv, Due(rt), NEW e, StationEvent(e)
  PROVE  OnTime(rt')
<1> DEFINE s == HandleEvent(st, e).st
<1>0. rt \in RuntimeType
  BY DEF IInv, RtInv, Holding
<1>1. /\ {"AwaitingGroupKeyStatus", "AwaitingDefaultGroupKeyStatus", "Complete",
          "AwaitingDefaultGroupRekeyStatus", "AwaitingCarrier"} \subseteq RuntimeStates
      /\ {"Complete", "AwaitingCarrier"} \cap PendingStates = {}
      /\ {"Message4", "GroupMessage2"} \subseteq Purposes
  BY DEF RuntimeStates, TimedRuntimeStates, PendingStates, KeyStatusStates, Purposes
<1> HIDE DEF s
<1>2. CASE rt' = rt
  BY <1>2, SameOnTime
<1>3. CASE Become(s, GoTo(rt, "Complete"), sup, hist)
           \/ Become(s, GoTo(rt, "AwaitingCarrier"), sup, hist)
  BY <1>0, <1>1, <1>3, BeginsOnTime
<1>4. CASE OnCommandStatus(s)
  <2>1. CASE /\ rt.state = "AwaitingPairwiseKeyStatus"
             /\ SubmitNewKey(s, rt, sup, WithKey("pairwise"), FALSE, "AwaitingGroupKeyStatus")
    BY <1>0, <1>1, <2>1, BeginsOnTime
  <2>2. CASE \/ /\ rt.state = "AwaitingGroupKeyStatus"
                /\ SubmitDefaultKey(s, rt, sup, WithKey("group"),
                                    "AwaitingDefaultGroupKeyStatus")
             \/ /\ rt.state = "AwaitingGroupRekeyStatus"
                /\ SubmitDefaultKey(s, rt, sup, hist, "AwaitingDefaultGroupRekeyStatus")
    BY <1>0, <1>1, <2>2, BeginsOnTime
  <2>3. ASSUME NEW r \in RuntimeType, NEW result, NEW h, NEW purpose \in Purposes,
               FinishKeyInstall(s, r, result, h, purpose),
               rt.state # "AwaitingEapolTransmit"
        PROVE  OnTime(rt')
    BY <2>3, BeginsOnTime DEF FinishKeyInstall
  <2>4. /\ [rt EXCEPT !.pair = NoFrame] \in RuntimeType
        /\ [rt EXCEPT !.group = NoFrame] \in RuntimeType
    BY <1>0 DEF RuntimeType
  <2>5. CASE /\ rt.state = "AwaitingDefaultGroupKeyStatus"
             /\ FinishKeyInstall(s, [rt EXCEPT !.pair = NoFrame],
                  CompleteKeyInstall(sup, rt.pair), WithKey("default"), "Message4")
    BY <1>1, <2>3, <2>4, <2>5
  <2>6. CASE /\ rt.state = "AwaitingDefaultGroupRekeyStatus"
             /\ FinishKeyInstall(s, [rt EXCEPT !.group = NoFrame],
                  CompleteGroupKeyInstall(sup, rt.group), hist, "GroupMessage2")
    BY <1>1, <2>3, <2>4, <2>6
  <2> QED BY <1>3, <1>4, <2>1, <2>2, <2>5, <2>6 DEF OnCommandStatus
<1> QED BY <1>2, <1>3, <1>4 DEF StationEvent, RefreshCarrier, Become, s

(* Nor does the end of a transmission, the caller or the timer. *)
LEMMA OthersOnTime ==
  ASSUME IInv, Due(rt),
         \/ ReceiveOther
         \/ \E t \in Tokens : TransmitDone(t) \/ TransmitFailed(t)
         \/ RestartPairwise \/ NewSession \/ PassTime \/ DriverFault \/ Recover
         \/ DoCreateInterface \/ DoBringUp \/ DoAuthenticate \/ DoAssociate
         \/ DoSetPowerSave \/ DoDisconnect \/ DoBringDown
         \/ UNCHANGED vars
  PROVE  OnTime(rt')
<1>0. rt \in RuntimeType /\ rt.remaining \in Nat
  BY DEF IInv, RtInv, Holding, RuntimeType
<1>1. CASE rt' = rt
  BY <1>1, SameOnTime
<1>2. CASE RuntimeFail(rt, sup)
  BY <1>0, <1>2, BeginsOnTime
<1>3. CASE \E t \in Tokens : /\ rt.state = "AwaitingEapolTransmit"
                             /\ Transmitted(t, rt.purpose, flight \ {t})
  <2>1. PICK x \in {"AwaitingAuthenticator", "AwaitingAuthorizationStatus", "Complete"} :
          rt' = GoTo(rt, x) \/ RuntimeFail(rt, sup)
    BY <1>3 DEF Transmitted, Become
  <2>2. x \in RuntimeStates /\ x # rt.state
    BY <1>3, RuntimeNames
  <2> QED BY <1>0, <1>2, <2>1, <2>2, GoToOnTime
<1>4. CASE rt' = NewRuntime
  <2>1. /\ rt'.state = "AwaitingAuthenticator"
        /\ rt'.remaining = RuntimeTimeout("AwaitingAuthenticator")
    BY <1>4 DEF NewRuntime
  <2>2. /\ "AwaitingAuthenticator" \in TimedRuntimeStates
        /\ "AwaitingAuthenticator" \notin PendingStates
    BY DEF TimedRuntimeStates, PendingStates, KeyStatusStates
  <2> QED BY <2>1, <2>2, DeadlineAssumption DEF OnTime, Due, RuntimeTimeout
<1>5. CASE PassTime
  <2>1. PICK elapsed \in 1 .. MaxElapsed :
          \/ /\ rt.remaining = 0 \/ elapsed < rt.remaining
             /\ rt' = [rt EXCEPT !.remaining =
                         IF rt.remaining = 0 THEN 0 ELSE rt.remaining - elapsed]
          \/ rt' = rt
          \/ RuntimeFail(rt, sup)
    BY <1>5 DEF PassTime, Become
  <2>2. CASE rt' # rt /\ ~RuntimeFail(rt, sup)
    <3> DEFINE left == IF rt.remaining = 0 THEN 0 ELSE rt.remaining - elapsed
    <3>1. /\ rt.remaining = 0 \/ elapsed < rt.remaining
          /\ rt' = [rt EXCEPT !.remaining = left]
      BY <2>1, <2>2
    <3>2. left <= rt.remaining /\ (left > 0 <=> rt.remaining > 0)
      BY <1>0, <3>1, SessionAssumption
    <3> HIDE DEF left
    <3>3. rt'.state = rt.state /\ rt'.remaining = left
      BY <1>0, <3>1 DEF RuntimeType
    <3> QED BY <3>2, <3>3 DEF OnTime, Due
  <2> QED BY <1>1, <1>2, <2>1, <2>2
<1> QED
  BY <1>1, <1>2, <1>3, <1>4, <1>5 DEF ReceiveOther, TransmitDone, TransmitFailed,
     RestartPairwise, NewSession, Restart, DriverFault, Recover, DoCreateInterface, DoBringUp,
     DoAuthenticate, DoAssociate, DoSetPowerSave, DoDisconnect, DoBringDown, Command, Become,
     vars

(* Every step of the session *)
LEMMA NextOnTime == IInv /\ Due(rt) /\ [Next]_vars => OnTime(rt')
<1> SUFFICES ASSUME IInv, Due(rt), [Next]_vars PROVE OnTime(rt')
  OBVIOUS
<1> QED BY ReceiveOnTime, EventOnTime, OthersOnTime DEF Next

(* A coordinator that waits for the access point, for the firmware or for  *)
(* carrier always has a deadline that still runs, and no other has one.    *)
THEOREM WaitsHaveDeadline == Spec => []Due(rt)
<1>1. Init => Due(rt)
  BY DeadlineAssumption DEF Init, NewRuntime, RuntimeTimeout, TimedRuntimeStates, Due
<1>2. IInv /\ Due(rt) /\ [Next]_vars => Due(rt)'
  BY NextOnTime DEF OnTime
<1> QED BY <1>1, <1>2, Invariance, PTL DEF Spec

(* No repetition of a handshake message, no event, command, failure or     *)
(* recovery gives a pending operation more time (pending_input,            *)
(* advance_time of wpa2_runtime.rs): the safety half of OperationEnds.     *)
THEOREM OperationsOnlyNear == Spec => [][OnTime(rt')]_vars
<1>1. IInv /\ Due(rt) /\ [Next]_vars => [OnTime(rt')]_vars
  BY NextOnTime
<1> QED BY <1>1, Invariance, WaitsHaveDeadline, PTL DEF Spec
=============================================================================
