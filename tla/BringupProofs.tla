---------------------------- MODULE BringupProofs ----------------------------
(***************************************************************************)
(* Theorems about Bringup: for all files, configurations and numbers of    *)
(* buffers and failures.                                                   *)
(*                                                                         *)
(* ReadyIsBooted speaks of a driver that waits or is ready.  It holds      *)
(* because of what recover has done by each of its awaits: the reset made  *)
(* the firmware forget (ResetInv), each processor is held until it is let  *)
(* run and has no old signature then (CoreInv), and the queue map of an    *)
(* earlier boot is gone when the upper processor has booted (QueueInv).    *)
(*                                                                         *)
(* RunsTrusted needs the bytes: LoadInv says which of them are in memory   *)
(* at each transfer, from lemmas on the memory map (HostPlace), on how     *)
(* write cuts a slice (TransfersRight) and on the distance of the images   *)
(* (Apart, from PinnedAssumption).                                         *)
(*                                                                         *)
(* TransfersExact is a fact about every access: bytes that are all in      *)
(* memory are in one region (OneRegion), a region has one latency          *)
(* (RegionLatency), and chunks, words and frames follow one another        *)
(* (TransfersInOrder, PiecesRight, ReadMoves).  An accepted access that is *)
(* not all in memory has a chunk in the hole (HoleFails).                  *)
(***************************************************************************)
EXTENDS Bringup, WellFoundedInduction, TLAPS

-----------------------------------------------------------------------------
(* The firmware file: parse finds what is there *)

(* The recursive ends of the images, one by one *)
LEMMA EndOfRight ==
  ASSUME NEW f \in FileType
  PROVE  /\ EndOf(f)[0] = HeaderLen
         /\ \A i \in 1 .. 4 : EndOf(f)[i] = EndOf(f)[i - 1] + ImageHeaderLen + f.images[i].len
<1> DEFINE F(g, i) == IF i = 0 THEN HeaderLen
                      ELSE g[i - 1] + ImageHeaderLen + f.images[i].len
           l(i) == f.images[i].len
           e1 == 60 + l(1)
           e2 == 68 + l(1) + l(2)
           e3 == 76 + l(1) + l(2) + l(3)
           e4 == 84 + l(1) + l(2) + l(3) + l(4)
           w == [i \in 0 .. 4 |-> IF i = 0 THEN 52 ELSE IF i = 1 THEN e1
                                  ELSE IF i = 2 THEN e2 ELSE IF i = 3 THEN e3 ELSE e4]
<1>1. \A i \in 1 .. 4 : l(i) \in Nat BY DEF FileType, ImageCount
<1>2. w = [i \in 0 .. 4 |-> F(w, i)]
  <2>1. ASSUME NEW i \in 0 .. 4 PROVE w[i] = F(w, i)
    <3> USE DEF HeaderLen, ImageHeaderLen
    <3>1. CASE i = 0 BY <3>1
    <3>2. CASE i = 1 BY <1>1, <3>2
    <3>3. CASE i = 2 BY <1>1, <3>3
    <3>4. CASE i = 3 BY <1>1, <3>4
    <3>5. CASE i = 4 BY <1>1, <3>5
    <3> QED BY <3>1, <3>2, <3>3, <3>4, <3>5
  <2> HIDE DEF F
  <2>2. DOMAIN w = 0 .. 4 OBVIOUS
  <2> QED BY <2>1
<1>3. EndOf(f) = [i \in 0 .. 4 |-> F(EndOf(f), i)]
  <2> DEFINE e == CHOOSE g : g = [i \in 0 .. 4 |-> F(g, i)]
  <2>1. EndOf(f) = e BY DEF EndOf, ImageCount
  <2>2. e = [i \in 0 .. 4 |-> F(e, i)]
    <3> HIDE DEF F, w
    <3> QED BY <1>2
  <2> QED BY <2>1, <2>2
<1> HIDE DEF w
<1> QED BY <1>3

(* The same as sums of the lengths *)
LEMMA EndsOf ==
  ASSUME NEW f \in FileType
  PROVE  /\ \A i \in 1 .. 4 : f.images[i].len \in Nat /\ f.images[i].kind \in Nat
         /\ f.size \in Nat /\ f.payload \in Nat
         /\ EndOf(f)[0] = 52
         /\ EndOf(f)[1] = 60 + f.images[1].len
         /\ EndOf(f)[2] = 68 + f.images[1].len + f.images[2].len
         /\ EndOf(f)[3] = 76 + f.images[1].len + f.images[2].len + f.images[3].len
         /\ EndOf(f)[4] = 84 + f.images[1].len + f.images[2].len + f.images[3].len
                             + f.images[4].len
<1>1. /\ \A i \in 1 .. 4 : f.images[i].len \in Nat /\ f.images[i].kind \in Nat
      /\ f.size \in Nat /\ f.payload \in Nat
  BY DEF FileType, ImageCount
<1> DEFINE E == EndOf(f)
<1>2. /\ E[0] = 52
      /\ E[1] = E[0] + 8 + f.images[1].len
      /\ E[2] = E[1] + 8 + f.images[2].len
      /\ E[3] = E[2] + 8 + f.images[3].len
      /\ E[4] = E[3] + 8 + f.images[4].len
  BY EndOfRight DEF HeaderLen, ImageHeaderLen
<1> HIDE DEF E
<1>3. E[1] = 60 + f.images[1].len BY <1>1, <1>2
<1>4. E[2] = 68 + f.images[1].len + f.images[2].len BY <1>1, <1>2, <1>3
<1>5. E[3] = 76 + f.images[1].len + f.images[2].len + f.images[3].len BY <1>1, <1>2, <1>4
<1>6. E[4] = 84 + f.images[1].len + f.images[2].len + f.images[3].len + f.images[4].len
  BY <1>1, <1>2, <1>5
<1> QED BY <1>1, <1>2, <1>3, <1>4, <1>5, <1>6 DEF E

(* The smallest member of a set of image numbers *)
LEMMA MinRight ==
  ASSUME NEW S \in SUBSET (1 .. 4), S # {}
  PROVE  Min(S) \in S /\ \A x \in S : Min(S) <= x
<1>1. \E x \in S : \A y \in S : x <= y
  <2>1. CASE 1 \in S BY <2>1
  <2>2. CASE 1 \notin S /\ 2 \in S BY <2>2
  <2>3. CASE 1 \notin S /\ 2 \notin S /\ 3 \in S BY <2>3
  <2>4. CASE 1 \notin S /\ 2 \notin S /\ 3 \notin S /\ 4 \in S BY <2>4
  <2>5. PICK x \in S : TRUE OBVIOUS
  <2>6. x = 1 \/ x = 2 \/ x = 3 \/ x = 4 OBVIOUS
  <2> QED BY <2>1, <2>2, <2>3, <2>4, <2>6
<1> QED BY <1>1 DEF Min

(* The first bad image decides; there is none iff all are good. *)
LEMMA ValidateImagesRight ==
  ASSUME NEW f \in FileType
  PROVE  ValidateImages(f) = "ok" <=>
           /\ \A i \in 1 .. 4 : ImageVerdict(f, i) = "ok"
           /\ EndOf(f)[4] = PayloadEnd(f)
<1> DEFINE bad == {i \in 1 .. ImageCount : ImageVerdict(f, i) # "ok"}
<1>1. ValidateImages(f) =
        IF bad # {} THEN ImageVerdict(f, Min(bad))
        ELSE IF EndOf(f)[ImageCount] # PayloadEnd(f) THEN "LengthMismatch" ELSE "ok"
  BY DEF ValidateImages
<1>2. bad # {} => ImageVerdict(f, Min(bad)) # "ok"
  <2> SUFFICES ASSUME bad # {} PROVE Min(bad) \in bad OBVIOUS
  <2>1. bad \in SUBSET (1 .. 4) BY DEF ImageCount
  <2> HIDE DEF bad
  <2> QED BY <2>1, MinRight
<1>3. bad = {} <=> \A i \in 1 .. 4 : ImageVerdict(f, i) = "ok" BY DEF ImageCount
<1> HIDE DEF bad
<1> QED BY <1>1, <1>2, <1>3 DEF ImageCount

(* An image is good iff it ends in the payload and its kind is new. *)
LEMMA ImageVerdictRight ==
  ASSUME NEW f \in FileType, NEW i \in 1 .. 4
  PROVE  ImageVerdict(f, i) = "ok" <=>
           /\ EndOf(f)[i - 1] + 8 <= PayloadEnd(f) /\ EndOf(f)[i] <= PayloadEnd(f)
           /\ f.images[i].kind \in 0 .. 3
           /\ \A j \in 1 .. i - 1 : f.images[j].kind # f.images[i].kind
<1>2. ExtentVerdict(f, i) = "ok" <=>
        /\ ~ (EndOf(f)[i - 1] + ImageHeaderLen > PayloadEnd(f))
        /\ f.images[i].kind \in ImageKinds
        /\ ~ (EndOf(f)[i] > PayloadEnd(f))
  BY DEF ExtentVerdict
<1>3. /\ EndOf(f)[i - 1] \in Nat /\ EndOf(f)[i] \in Nat /\ PayloadEnd(f) \in Nat
  <2>1. PayloadEnd(f) \in Nat BY EndsOf DEF PayloadEnd, HeaderLen
  <2>2. EndOf(f)[0] \in Nat /\ EndOf(f)[1] \in Nat /\ EndOf(f)[2] \in Nat
        /\ EndOf(f)[3] \in Nat /\ EndOf(f)[4] \in Nat
    BY EndsOf
  <2>3. i \in {1, 2, 3, 4} OBVIOUS
  <2>4. (1 - 1 = 0) /\ (2 - 1 = 1) /\ (3 - 1 = 2) /\ (4 - 1 = 3) OBVIOUS
  <2> QED BY <2>1, <2>2, <2>3, <2>4
<1>4. ImageVerdict(f, i) = "ok" <=> ExtentVerdict(f, i) = "ok" /\ ~Repeated(f, i)
  BY DEF ImageVerdict
<1>5. Repeated(f, i) <=> ~ \A j \in 1 .. i - 1 : f.images[j].kind # f.images[i].kind
  BY DEF Repeated
<1> QED BY <1>2, <1>3, <1>4, <1>5 DEF ImageHeaderLen, ImageKinds

(* parse accepts iff every check does. *)
LEMMA ParseRight ==
  ASSUME NEW f \in FileType
  PROVE  Parse(f) = "ok" <=>
           /\ f.signature /\ f.count /\ f.version /\ f.features
           /\ f.size = 52 + f.payload
           /\ ValidateImages(f) = "ok"
<1>1. f.size \in Nat /\ f.payload \in Nat BY EndsOf
<1>2. HeaderVerdict(f) = "ok" <=> f.signature /\ f.count /\ f.version /\ f.features
  BY DEF HeaderVerdict
<1>3. PayloadVerdict(f) = "ok" <=> f.size = 52 + f.payload
  BY <1>1 DEF PayloadVerdict, PayloadEnd, HeaderLen
<1>4. Parse(f) = "ok" <=>
        /\ ~ (f.size < HeaderLen)
        /\ HeaderVerdict(f) = "ok" /\ PayloadVerdict(f) = "ok" /\ ValidateImages(f) = "ok"
  BY DEF Parse
<1> QED BY <1>1, <1>2, <1>3, <1>4 DEF HeaderLen

(* Four kinds are all there are exactly if no two are the same. *)
AllKinds(a, b, c, d) == {a, b, c, d} = 0 .. 3
NoneTwice(a, b, c, d) ==
  /\ a \in 0 .. 3 /\ b \in 0 .. 3 /\ c \in 0 .. 3 /\ d \in 0 .. 3
  /\ a # b /\ a # c /\ a # d /\ b # c /\ b # d /\ c # d

(* Four kinds without repetition are all four. *)
LEMMA FourKinds ==
  ASSUME NEW a \in Nat, NEW b \in Nat, NEW c \in Nat, NEW d \in Nat
  PROVE  AllKinds(a, b, c, d) <=> NoneTwice(a, b, c, d)
<1>1. ASSUME {a, b, c, d} = 0 .. 3
      PROVE  /\ a \in 0 .. 3 /\ b \in 0 .. 3 /\ c \in 0 .. 3 /\ d \in 0 .. 3
             /\ a # b /\ a # c /\ a # d /\ b # c /\ b # d /\ c # d
  <2>0. 0 \in 0 .. 3 /\ 1 \in 0 .. 3 /\ 2 \in 0 .. 3 /\ 3 \in 0 .. 3 OBVIOUS
  <2>1. 0 \in {a, b, c, d} /\ 1 \in {a, b, c, d} /\ 2 \in {a, b, c, d} /\ 3 \in {a, b, c, d}
    BY <1>1, <2>0, Zenon
  <2>2. a \in 0 .. 3 /\ b \in 0 .. 3 /\ c \in 0 .. 3 /\ d \in 0 .. 3 BY <1>1
  <2> QED BY <2>1, <2>2
<1>2. ASSUME /\ a \in 0 .. 3 /\ b \in 0 .. 3 /\ c \in 0 .. 3 /\ d \in 0 .. 3
             /\ a # b /\ a # c /\ a # d /\ b # c /\ b # d /\ c # d
      PROVE  {a, b, c, d} = 0 .. 3
  <2>1. 0 \in {a, b, c, d} /\ 1 \in {a, b, c, d} /\ 2 \in {a, b, c, d} /\ 3 \in {a, b, c, d}
    BY <1>2
  <2>2. \A x \in 0 .. 3 : x = 0 \/ x = 1 \/ x = 2 \/ x = 3 OBVIOUS
  <2>3. \A x \in 0 .. 3 : x \in {a, b, c, d} BY <2>1, <2>2
  <2>4. \A x \in {a, b, c, d} : x \in 0 .. 3 BY <1>2
  <2> QED BY <2>3, <2>4
<1> QED BY <1>1, <1>2 DEF AllKinds, NoneTwice

(* parse accepts the reference definition, and nothing else. *)
LEMMA WellFormedIsParsed ==
  ASSUME NEW f \in FileType
  PROVE  Parse(f) = "ok" <=> WellFormed(f)
<1> DEFINE E == EndOf(f)
           P == 52 + f.payload
           k(i) == f.images[i].kind
           l(i) == f.images[i].len
<1>0. PayloadEnd(f) = P BY DEF PayloadEnd, HeaderLen
<1>1. /\ l(1) \in Nat /\ l(2) \in Nat /\ l(3) \in Nat /\ l(4) \in Nat
      /\ k(1) \in Nat /\ k(2) \in Nat /\ k(3) \in Nat /\ k(4) \in Nat
      /\ f.payload \in Nat /\ f.size \in Nat
      /\ E[0] = 52 /\ E[1] = 60 + l(1) /\ E[2] = 68 + l(1) + l(2)
      /\ E[3] = 76 + l(1) + l(2) + l(3) /\ E[4] = 84 + l(1) + l(2) + l(3) + l(4)
  BY EndsOf
<1>2. {f.images[i].kind : i \in 1 .. ImageCount} = {k(1), k(2), k(3), k(4)}
  <2>1. 1 .. ImageCount = {1, 2, 3, 4} BY DEF ImageCount
  <2> QED BY <2>1
<1>3. WellFormed(f) <=>
        /\ f.signature /\ f.count /\ f.version /\ f.features
        /\ AllKinds(k(1), k(2), k(3), k(4))
        /\ f.payload = 4 * 8 + l(1) + l(2) + l(3) + l(4)
        /\ f.size = 52 + f.payload
  BY <1>2 DEF WellFormed, ImageKinds, HeaderLen, ImageHeaderLen, ImageCount, AllKinds
<1>4. (\A i \in 1 .. 4 : ImageVerdict(f, i) = "ok") <=>
        /\ ImageVerdict(f, 1) = "ok" /\ ImageVerdict(f, 2) = "ok"
        /\ ImageVerdict(f, 3) = "ok" /\ ImageVerdict(f, 4) = "ok"
  BY 1 .. 4 = {1, 2, 3, 4}
<1>5. /\ ImageVerdict(f, 1) = "ok" <=> E[0] + 8 <= P /\ E[1] <= P /\ k(1) \in 0 .. 3
      /\ ImageVerdict(f, 2) = "ok" <=>
           E[1] + 8 <= P /\ E[2] <= P /\ k(2) \in 0 .. 3 /\ k(1) # k(2)
      /\ ImageVerdict(f, 3) = "ok" <=>
           E[2] + 8 <= P /\ E[3] <= P /\ k(3) \in 0 .. 3 /\ k(1) # k(3) /\ k(2) # k(3)
      /\ ImageVerdict(f, 4) = "ok" <=>
           /\ E[3] + 8 <= P /\ E[4] <= P /\ k(4) \in 0 .. 3
           /\ k(1) # k(4) /\ k(2) # k(4) /\ k(3) # k(4)
  <2> HIDE DEF E, k
  <2>1. /\ 1 - 1 = 0 /\ 2 - 1 = 1 /\ 3 - 1 = 2 /\ 4 - 1 = 3
        /\ 1 .. 0 = {} /\ 1 .. 1 = {1} /\ 1 .. 2 = {1, 2} /\ 1 .. 3 = {1, 2, 3}
    OBVIOUS
  <2>2. \A i \in 1 .. 4 : ImageVerdict(f, i) = "ok" <=>
           /\ E[i - 1] + 8 <= P /\ E[i] <= P /\ k(i) \in 0 .. 3
           /\ \A j \in 1 .. i - 1 : k(j) # k(i)
    BY <1>0, ImageVerdictRight DEF E, k
  <2> HIDE DEF P
  <2>3. ImageVerdict(f, 1) = "ok" <=> E[0] + 8 <= P /\ E[1] <= P /\ k(1) \in 0 .. 3
    BY <2>1, <2>2
  <2>4. ImageVerdict(f, 2) = "ok" <=>
          E[1] + 8 <= P /\ E[2] <= P /\ k(2) \in 0 .. 3 /\ k(1) # k(2)
    BY <2>1, <2>2
  <2>5. ImageVerdict(f, 3) = "ok" <=>
          E[2] + 8 <= P /\ E[3] <= P /\ k(3) \in 0 .. 3 /\ k(1) # k(3) /\ k(2) # k(3)
    BY <2>1, <2>2
  <2>6. ImageVerdict(f, 4) = "ok" <=>
          /\ E[3] + 8 <= P /\ E[4] <= P /\ k(4) \in 0 .. 3
          /\ k(1) # k(4) /\ k(2) # k(4) /\ k(3) # k(4)
    BY <2>1, <2>2
  <2> QED BY <2>3, <2>4, <2>5, <2>6
<1>6. ValidateImages(f) = "ok" <=>
        /\ (\A i \in 1 .. 4 : ImageVerdict(f, i) = "ok")
        /\ E[4] = P
  BY <1>0, ValidateImagesRight
<1>7. AllKinds(k(1), k(2), k(3), k(4)) <=> NoneTwice(k(1), k(2), k(3), k(4))
  BY <1>1, FourKinds
<1>8. E[4] = P <=> f.payload = 4 * 8 + l(1) + l(2) + l(3) + l(4) BY <1>1
<1>9. E[4] = P => /\ E[0] + 8 <= P /\ E[1] <= P /\ E[1] + 8 <= P /\ E[2] <= P
                  /\ E[2] + 8 <= P /\ E[3] <= P /\ E[3] + 8 <= P /\ E[4] <= P
  BY <1>1
<1> HIDE DEF E, P, k, l
<1> QED BY ParseRight, <1>3, <1>4, <1>5, <1>6, <1>7, <1>8, <1>9 DEF NoneTwice

(* image finds the header of its kind. *)
LEMMA ImagePlace ==
  ASSUME NEW f \in FileType, Parse(f) = "ok", NEW k \in ImageKinds
  PROVE  \E i \in 1 .. 4 :
           /\ f.images[i].kind = k
           /\ Image(f, k) = [start |-> EndOf(f)[i - 1] + ImageHeaderLen,
                len |-> f.images[i].len]
<1> DEFINE S == {j \in 1 .. ImageCount : f.images[j].kind = k}
<1>1. S \in SUBSET (1 .. 4) BY DEF ImageCount
<1>2. S # {}
  <2>1. {f.images[i].kind : i \in 1 .. ImageCount} = ImageKinds
    BY WellFormedIsParsed DEF WellFormed
  <2> QED BY <2>1
<1>3. Min(S) \in S
  <2> HIDE DEF S
  <2> QED BY <1>1, <1>2, MinRight
<1>4. Image(f, k) = [start |-> EndOf(f)[Min(S) - 1] + ImageHeaderLen,
     len |-> f.images[Min(S)].len]
  BY DEF Image
<1> QED BY <1>1, <1>3, <1>4

(* The images lie one after the other inside the file. *)
LEMMA ExtentsRight ==
  ASSUME NEW f \in FileType, Parse(f) = "ok"
  PROVE  \A i \in 1 .. 4 :
           /\ EndOf(f)[i - 1] + 8 >= 52 /\ EndOf(f)[i - 1] \in Nat
           /\ EndOf(f)[i - 1] + 8 + f.images[i].len = EndOf(f)[i]
           /\ EndOf(f)[i] <= f.size /\ EndOf(f)[i] \in Nat
           /\ \A j \in 1 .. 4 : i < j => EndOf(f)[i] <= EndOf(f)[j - 1] + 8
<1> DEFINE E == EndOf(f)
           l(i) == f.images[i].len
<1>1. /\ l(1) \in Nat /\ l(2) \in Nat /\ l(3) \in Nat /\ l(4) \in Nat
      /\ f.payload \in Nat /\ f.size \in Nat
      /\ E[0] = 52 /\ E[1] = 60 + l(1) /\ E[2] = 68 + l(1) + l(2)
      /\ E[3] = 76 + l(1) + l(2) + l(3) /\ E[4] = 84 + l(1) + l(2) + l(3) + l(4)
  BY EndsOf
<1>2. f.size = 84 + l(1) + l(2) + l(3) + l(4)
  <2>1. f.size = 52 + f.payload /\ f.payload = 4 * 8 + l(1) + l(2) + l(3) + l(4)
    BY WellFormedIsParsed DEF WellFormed, HeaderLen, ImageHeaderLen, ImageCount
  <2> QED BY <1>1, <2>1
<1> HIDE DEF E
<1>3. /\ E[0] \in Nat /\ E[1] \in Nat /\ E[2] \in Nat /\ E[3] \in Nat /\ E[4] \in Nat
      /\ E[0] >= 52 /\ E[0] + 8 <= E[1] /\ E[1] + 8 <= E[2] /\ E[2] + 8 <= E[3]
      /\ E[3] + 8 <= E[4] /\ E[4] = f.size
      /\ E[0] + 8 + l(1) = E[1] /\ E[1] + 8 + l(2) = E[2] /\ E[2] + 8 + l(3) = E[3]
      /\ E[3] + 8 + l(4) = E[4]
  BY <1>1, <1>2
<1>4. ASSUME NEW i \in 1 .. 4
      PROVE  /\ E[i - 1] + 8 >= 52 /\ E[i - 1] \in Nat
             /\ E[i - 1] + 8 + l(i) = E[i] /\ E[i] <= f.size /\ E[i] \in Nat
             /\ \A j \in 1 .. 4 : i < j => E[i] <= E[j - 1] + 8
  <2> HIDE DEF l
  <2>0. \A j \in 1 .. 4 : j = 1 \/ j = 2 \/ j = 3 \/ j = 4 OBVIOUS
  <2>1. CASE i = 1 BY <1>3, <2>0, <2>1
  <2>2. CASE i = 2 BY <1>3, <2>0, <2>2
  <2>3. CASE i = 3 BY <1>3, <2>0, <2>3
  <2>4. CASE i = 4 BY <1>3, <2>0, <2>4
  <2> QED BY <2>0, <2>1, <2>2, <2>3, <2>4
<1> QED BY <1>4 DEF E

(* FirmwareBundle::parse is exact for every file there is. *)
LEMMA ParseExactHolds == ASSUME input.file \in FileType PROVE ParseExact
<1> DEFINE f == input.file
           Extent(kind) ==
             Image(f, kind).start .. (Image(f, kind).start + Image(f, kind).len - 1)
<1>1. Parse(f) = "ok" <=> WellFormed(f) BY WellFormedIsParsed
<1>2. ASSUME Parse(f) = "ok", NEW k \in ImageKinds
      PROVE  /\ Extent(k) \subseteq HeaderLen .. f.size - 1
             /\ \A j \in ImageKinds \ {k} : Extent(j) \cap Extent(k) = {}
  <2>1. PICK i \in 1 .. 4 :
          /\ f.images[i].kind = k
          /\ Image(f, k) = [start |-> EndOf(f)[i - 1] + ImageHeaderLen, len |-> f.images[i].len]
    BY <1>2, ImagePlace
  <2>2. /\ Image(f, k).start = EndOf(f)[i - 1] + 8 /\ Image(f, k).len = f.images[i].len
    BY <2>1 DEF ImageHeaderLen
  <2>3. /\ EndOf(f)[i - 1] + 8 >= 52 /\ EndOf(f)[i - 1] \in Nat /\ f.images[i].len \in Nat
        /\ EndOf(f)[i - 1] + 8 + f.images[i].len = EndOf(f)[i]
        /\ EndOf(f)[i] <= f.size /\ EndOf(f)[i] \in Nat /\ f.size \in Nat
    BY <1>2, ExtentsRight, EndsOf
  <2>4. Extent(k) \subseteq HeaderLen .. f.size - 1
    BY <2>2, <2>3 DEF HeaderLen
  <2>5. ASSUME NEW j \in ImageKinds \ {k} PROVE Extent(j) \cap Extent(k) = {}
    <3>1. PICK n \in 1 .. 4 :
            /\ f.images[n].kind = j
            /\ Image(f, j) = [start |-> EndOf(f)[n - 1] + ImageHeaderLen,
                 len |-> f.images[n].len]
      BY <1>2, ImagePlace
    <3>2. /\ Image(f, j).start = EndOf(f)[n - 1] + 8 /\ Image(f, j).len = f.images[n].len
      BY <3>1 DEF ImageHeaderLen
    <3>3. /\ EndOf(f)[n - 1] \in Nat /\ f.images[n].len \in Nat
          /\ EndOf(f)[n - 1] + 8 + f.images[n].len = EndOf(f)[n] /\ EndOf(f)[n] \in Nat
      BY <1>2, ExtentsRight, EndsOf
    <3>4. n # i BY <2>1, <2>5, <3>1
    <3>5. \/ EndOf(f)[i] <= EndOf(f)[n - 1] + 8
          \/ EndOf(f)[n] <= EndOf(f)[i - 1] + 8
      <4>1. i < n \/ n < i BY <3>4
      <4> QED BY <1>2, <4>1, ExtentsRight
    <3>6. ASSUME NEW x \in Extent(j), x \in Extent(k) PROVE FALSE
      BY <2>2, <2>3, <3>2, <3>3, <3>5, <3>6
    <3> QED BY <3>6
  <2> QED BY <2>4, <2>5
<1> QED BY <1>1, <1>2 DEF ParseExact

-----------------------------------------------------------------------------
(* The inductive invariant of recover *)

(* The awaits of recover after its hard reset, and those with a processor  *)
(* held, booted or given a trusted file                                    *)
AfterReset == Pcs \ {"idle", "irqOff", "hardReset"}
LmacHeld   == {"resetUmac", "download", "clearLmac", "runLmac"}
UmacHeld   == {"download", "clearLmac", "runLmac", "awaitLmac", "clearUmac", "runUmac"}
UmacBooted == {"queues", "postRx", "irqOn", "init"}
LmacBooted == {"clearUmac", "runUmac", "awaitUmac"} \cup UmacBooted
Trusted    == LmacHeld \cup UmacHeld \cup LmacBooted \cup {"resetLmac"}

(* A recovery is one of a driver that is recovering; the reset has made    *)
(* the firmware forget commands, events and descriptors.                   *)
ResetInv ==
  /\ pc # "idle" => drv = "Recovering"
  /\ pc \in AfterReset => ~asked /\ ~inited /\ ~event /\ given = posted
  /\ event => inited

(* Each processor is held from its reset until it is let run, its          *)
(* signature is cleared before that, and recover goes on with its boot.    *)
CoreInv ==
  /\ pc \in LmacHeld => core["Lmac"] = "held"
  /\ pc \in UmacHeld => core["Umac"] = "held"
  /\ pc = "runLmac" => ~sig["Lmac"]
  /\ pc = "runUmac" => ~sig["Umac"]
  /\ pc = "awaitLmac" => (sig["Lmac"] => core["Lmac"] = "booted")
  /\ pc = "awaitUmac" => (sig["Umac"] => core["Umac"] = "booted")
  /\ pc \in LmacBooted => core["Lmac"] = "booted"
  /\ pc \in UmacBooted => core["Umac"] = "booted"

(* The queue map of an earlier boot is gone when the upper one has booted. *)
QueueInv ==
  /\ core["Umac"] = "booted" => map # "old"
  /\ pc \in {"postRx", "irqOn", "init"} => queues = "new"
  /\ pc \in {"irqOn", "init"} => posted = Descriptors
  /\ pc = "init" => irq = "on"

TrustInv == pc \in Trusted => Authorize(input.file) = "ok"

IInv ==
  /\ TypeOK /\ input \in Cases /\ ResetInv /\ CoreInv /\ QueueInv /\ TrustInv
  /\ ReadyIsBooted

-----------------------------------------------------------------------------
(* The awaits by their names *)
LEMMA PcNames ==
  /\ ResetPc["Lmac"] = "resetLmac" /\ ResetPc["Umac"] = "resetUmac"
  /\ ClearPc["Lmac"] = "clearLmac" /\ ClearPc["Umac"] = "clearUmac"
  /\ RunPc["Lmac"] = "runLmac" /\ RunPc["Umac"] = "runUmac"
  /\ AwaitPc["Lmac"] = "awaitLmac" /\ AwaitPc["Umac"] = "awaitUmac"
  BY DEF ResetPc, ClearPc, RunPc, AwaitPc

(* All awaits of recover *)
LEMMA PcSet ==
  Pcs = {"idle", "irqOff", "hardReset", "wakeBus", "wake", "dataBus", "clocks",
         "download", "queues", "postRx", "irqOn", "init", "resetLmac", "resetUmac",
         "clearLmac", "clearUmac", "runLmac", "runUmac", "awaitLmac", "awaitUmac"}
<1>1. UNION {{ResetPc[p], ClearPc[p], RunPc[p], AwaitPc[p]} : p \in Processors} =
        {"resetLmac", "resetUmac", "clearLmac", "clearUmac", "runLmac", "runUmac",
         "awaitLmac", "awaitUmac"}
  BY PcNames DEF Processors
<1> QED BY <1>1 DEF Pcs

(* The sets of awaits that the invariant speaks of *)
LEMMA Stages ==
  /\ AfterReset = {"wakeBus", "wake", "dataBus", "clocks", "download", "queues", "postRx",
                   "irqOn", "init", "resetLmac", "resetUmac", "clearLmac", "clearUmac",
                   "runLmac", "runUmac", "awaitLmac", "awaitUmac"}
  /\ Trusted = {"resetLmac", "resetUmac", "download", "clearLmac", "runLmac", "awaitLmac",
                "clearUmac", "runUmac", "awaitUmac", "queues", "postRx", "irqOn", "init"}
  BY PcSet DEF AfterReset, Trusted, LmacHeld, UmacHeld, LmacBooted, UmacBooted

(* A recovery that fails or is given up leaves no promise behind. *)
LEMMA Idles ==
  ASSUME IInv, TypeOK', input' = input, pc' = "idle", drv' \notin Live,
         event' => inited', core'["Umac"] = "booted" => map' # "old"
  PROVE  IInv'
<1>1. ResetInv' BY Stages DEF ResetInv
<1>2. CoreInv' BY DEF CoreInv, LmacHeld, UmacHeld, LmacBooted, UmacBooted
<1>3. QueueInv' BY DEF QueueInv
<1>4. TrustInv' BY Stages DEF TrustInv
<1> QED BY <1>1, <1>2, <1>3, <1>4 DEF IInv, ReadyIsBooted

(* A driver before its first recovery *)
LEMMA InitHolds == ASSUME Init PROVE IInv
<1> USE BringupAssumption DEF Init
<1>1. TypeOK
  <2>1. core \in [Processors -> {"off", "held", "run", "booted"}] /\ sig \in [Processors -> BOOLEAN]
    OBVIOUS
  <2>2. drv \in States /\ pc \in Pcs /\ image \in 1 .. ImageCount /\ at \in Nat \ {0}
        /\ faults \in 0 .. MaxFaults
    BY PcSet DEF States, ImageCount
  <2> QED BY <2>1, <2>2 DEF TypeOK
<1>2. ResetInv /\ TrustInv BY Stages DEF ResetInv, TrustInv
<1>3. CoreInv BY DEF CoreInv, LmacHeld, UmacHeld, LmacBooted, UmacBooted
<1>4. QueueInv BY DEF QueueInv
<1> QED BY <1>1, <1>2, <1>3, <1>4 DEF IInv, ReadyIsBooted, Live

(* A step of someone else *)
LEMMA StutterHolds == ASSUME IInv, UNCHANGED vars PROVE IInv'
<1> USE DEF vars, hardware, memory, device, load
<1>1. TypeOK' BY DEF IInv, TypeOK
<1>2. ResetInv' /\ TrustInv' BY DEF IInv, ResetInv, TrustInv
<1>3. CoreInv' /\ QueueInv' BY DEF IInv, CoreInv, QueueInv
<1> QED BY <1>1, <1>2, <1>3 DEF IInv, ReadyIsBooted

(* IrqOff keeps the invariant. *)
LEMMA IrqOffHolds == ASSUME IInv, IrqOff PROVE IInv'
<1> USE DEF IrqOff, Ok, Failure, Goto, Fail, Refuse, hardware, memory, device, load
<1>1. TypeOK'
  <2>1. drv' \in States /\ pc' \in Pcs /\ faults' \in 0 .. MaxFaults
    BY PcSet, BringupAssumption DEF IInv, TypeOK, States
  <2>2. irq' \in {"off", "partial", "on"} BY DEF IInv, TypeOK
  <2> QED BY <2>1, <2>2 DEF IInv, TypeOK
<1>2. CASE pc' = "idle"
  BY <1>1, <1>2, Idles DEF IInv, ResetInv, QueueInv, Live
<1>3. CASE pc' # "idle"
  <2>1. ResetInv' BY <1>3, Stages DEF IInv, ResetInv
  <2>2. CoreInv' BY <1>3 DEF IInv, CoreInv, LmacHeld, UmacHeld, LmacBooted, UmacBooted
  <2>3. QueueInv' BY <1>3 DEF IInv, QueueInv
  <2>4. TrustInv' BY <1>3, Stages DEF IInv, TrustInv
  <2>5. ReadyIsBooted' BY <1>3 DEF IInv, ResetInv, ReadyIsBooted, Live
  <2> QED BY <1>1, <2>1, <2>2, <2>3, <2>4, <2>5 DEF IInv
<1> QED BY <1>2, <1>3

(* WakeBus keeps the invariant. *)
LEMMA WakeBusHolds == ASSUME IInv, WakeBus PROVE IInv'
<1> USE DEF WakeBus, Ok, Failure, Goto, Fail, Refuse, hardware, memory, device, load
<1>1. TypeOK'
  <2>1. drv' \in States /\ pc' \in Pcs /\ faults' \in 0 .. MaxFaults
    <3>1. Goto("wake") \/ Fail BY Zenon
    <3> QED BY ONLY IInv, <3>1, PcSet, BringupAssumption DEF IInv, TypeOK, States
  <2>2. slow' \in BOOLEAN BY DEF IInv, TypeOK
  <2> QED BY <2>1, <2>2 DEF IInv, TypeOK
<1>2. CASE pc' = "idle"
  BY <1>1, <1>2, Idles DEF IInv, ResetInv, QueueInv, Live
<1>3. CASE pc' # "idle"
  <2>1. ResetInv' BY <1>3, Stages DEF IInv, ResetInv
  <2>2. CoreInv' BY <1>3 DEF IInv, CoreInv, LmacHeld, UmacHeld, LmacBooted, UmacBooted
  <2>3. QueueInv' BY <1>3 DEF IInv, QueueInv
  <2>4. TrustInv' BY <1>3, Stages DEF IInv, TrustInv
  <2>5. ReadyIsBooted' BY <1>3 DEF IInv, ResetInv, ReadyIsBooted, Live
  <2> QED BY <1>1, <2>1, <2>2, <2>3, <2>4, <2>5 DEF IInv
<1> QED BY <1>2, <1>3

(* Wake keeps the invariant. *)
LEMMA WakeHolds == ASSUME IInv, Wake PROVE IInv'
<1> USE DEF Wake, Ok, Failure, Goto, Fail, Refuse, hardware, memory, device, load
<1>1. TypeOK'
  <2>1. drv' \in States /\ pc' \in Pcs /\ faults' \in 0 .. MaxFaults
    BY PcSet, BringupAssumption DEF IInv, TypeOK, States
  <2>2. awake' \in BOOLEAN BY DEF IInv, TypeOK
  <2> QED BY <2>1, <2>2 DEF IInv, TypeOK
<1>2. CASE pc' = "idle"
  BY <1>1, <1>2, Idles DEF IInv, ResetInv, QueueInv, Live
<1>3. CASE pc' # "idle"
  <2>1. ResetInv' BY <1>3, Stages DEF IInv, ResetInv
  <2>2. CoreInv' BY <1>3 DEF IInv, CoreInv, LmacHeld, UmacHeld, LmacBooted, UmacBooted
  <2>3. QueueInv' BY <1>3 DEF IInv, QueueInv
  <2>4. TrustInv' BY <1>3, Stages DEF IInv, TrustInv
  <2>5. ReadyIsBooted' BY <1>3 DEF IInv, ResetInv, ReadyIsBooted, Live
  <2> QED BY <1>1, <2>1, <2>2, <2>3, <2>4, <2>5 DEF IInv
<1> QED BY <1>2, <1>3

(* DataBus keeps the invariant. *)
LEMMA DataBusHolds == ASSUME IInv, DataBus PROVE IInv'
<1> USE DEF DataBus, Ok, Failure, Goto, Fail, Refuse, hardware, memory, device, load
<1>1. TypeOK'
  <2>1. drv' \in States /\ pc' \in Pcs /\ faults' \in 0 .. MaxFaults
    <3>1. Goto("clocks") \/ Fail BY Zenon
    <3> QED BY ONLY IInv, <3>1, PcSet, BringupAssumption DEF IInv, TypeOK, States
  <2>2. slow' \in BOOLEAN BY DEF IInv, TypeOK
  <2> QED BY <2>1, <2>2 DEF IInv, TypeOK
<1>2. CASE pc' = "idle"
  BY <1>1, <1>2, Idles DEF IInv, ResetInv, QueueInv, Live
<1>3. CASE pc' # "idle"
  <2>1. ResetInv' BY <1>3, Stages DEF IInv, ResetInv
  <2>2. CoreInv' BY <1>3 DEF IInv, CoreInv, LmacHeld, UmacHeld, LmacBooted, UmacBooted
  <2>3. QueueInv' BY <1>3 DEF IInv, QueueInv
  <2>4. TrustInv' BY <1>3, Stages DEF IInv, TrustInv
  <2>5. ReadyIsBooted' BY <1>3 DEF IInv, ResetInv, ReadyIsBooted, Live
  <2> QED BY <1>1, <2>1, <2>2, <2>3, <2>4, <2>5 DEF IInv
<1> QED BY <1>2, <1>3

(* Clocks keeps the invariant. *)
LEMMA ClocksHolds == ASSUME IInv, Clocks PROVE IInv'
<1> USE DEF Clocks, Ok, Failure, Goto, Fail, Refuse, hardware, memory, device, load
<1>1. TypeOK'
  <2>1. drv' \in States /\ pc' \in Pcs /\ faults' \in 0 .. MaxFaults
    BY PcSet, BringupAssumption DEF IInv, TypeOK, States
  <2>2. clocks' \in BOOLEAN BY DEF IInv, TypeOK
  <2> QED BY <2>1, <2>2 DEF IInv, TypeOK
<1>2. CASE pc' = "idle"
  BY <1>1, <1>2, Idles DEF IInv, ResetInv, QueueInv, Live
<1>3. CASE pc' # "idle"
  <2>1. ResetInv' BY <1>3, Stages DEF IInv, ResetInv
  <2>2. CoreInv' BY <1>3 DEF IInv, CoreInv, LmacHeld, UmacHeld, LmacBooted, UmacBooted
  <2>3. QueueInv' BY <1>3 DEF IInv, QueueInv
  <2>4. TrustInv' BY <1>3, Stages DEF IInv, TrustInv
  <2>5. ReadyIsBooted' BY <1>3 DEF IInv, ResetInv, ReadyIsBooted, Live
  <2> QED BY <1>1, <2>1, <2>2, <2>3, <2>4, <2>5 DEF IInv
<1> QED BY <1>2, <1>3

(* InitializeQueues keeps the invariant. *)
LEMMA InitializeQueuesHolds == ASSUME IInv, InitializeQueues PROVE IInv'
<1> USE DEF InitializeQueues, Ok, Failure, Goto, Fail, Refuse, hardware, memory, device,
     load, QueueMapIsValid
<1>1. TypeOK'
  <2>1. drv' \in States /\ pc' \in Pcs /\ faults' \in 0 .. MaxFaults
    BY PcSet, BringupAssumption DEF IInv, TypeOK, States
  <2>2. queues' \in {"none", "old", "new"} /\ uncertain' \in BOOLEAN BY DEF IInv, TypeOK
  <2> QED BY <2>1, <2>2 DEF IInv, TypeOK
<1>2. CASE pc' = "idle"
  BY <1>1, <1>2, Idles DEF IInv, ResetInv, QueueInv, Live
<1>3. CASE pc' # "idle"
  <2>1. ResetInv' BY <1>3, Stages DEF IInv, ResetInv
  <2>2. CoreInv' BY <1>3 DEF IInv, CoreInv, LmacHeld, UmacHeld, LmacBooted, UmacBooted
  <2>3. QueueInv' BY <1>3 DEF IInv, QueueInv, TypeOK, CoreInv, UmacBooted
  <2>4. TrustInv' BY <1>3, Stages DEF IInv, TrustInv
  <2>5. ReadyIsBooted' BY <1>3 DEF IInv, ResetInv, ReadyIsBooted, Live
  <2> QED BY <1>1, <2>1, <2>2, <2>3, <2>4, <2>5 DEF IInv
<1> QED BY <1>2, <1>3

(* IrqOn keeps the invariant. *)
LEMMA IrqOnHolds == ASSUME IInv, IrqOn PROVE IInv'
<1> USE DEF IrqOn, Ok, Failure, Goto, Fail, Refuse, hardware, memory, device, load
<1>1. TypeOK'
  <2>1. drv' \in States /\ pc' \in Pcs /\ faults' \in 0 .. MaxFaults
    BY PcSet, BringupAssumption DEF IInv, TypeOK, States
  <2>2. irq' \in {"off", "partial", "on"} BY DEF IInv, TypeOK
  <2> QED BY <2>1, <2>2 DEF IInv, TypeOK
<1>2. CASE pc' = "idle"
  BY <1>1, <1>2, Idles DEF IInv, ResetInv, QueueInv, Live
<1>3. CASE pc' # "idle"
  <2>1. ResetInv' BY <1>3, Stages DEF IInv, ResetInv
  <2>2. CoreInv' BY <1>3 DEF IInv, CoreInv, LmacHeld, UmacHeld, LmacBooted, UmacBooted
  <2>3. QueueInv' BY <1>3 DEF IInv, QueueInv
  <2>4. TrustInv' BY <1>3, Stages DEF IInv, TrustInv
  <2>5. ReadyIsBooted' BY <1>3 DEF IInv, ResetInv, ReadyIsBooted, Live
  <2> QED BY <1>1, <2>1, <2>2, <2>3, <2>4, <2>5 DEF IInv
<1> QED BY <1>2, <1>3

(* ResetProcessor keeps the invariant. *)
LEMMA ResetProcessorHolds == ASSUME IInv, NEW p \in Processors, ResetProcessor(p) PROVE IInv'
<1> USE PcNames DEF ResetProcessor, Ok, Failure, Goto, Fail, Refuse, hardware, memory,
     device, load, AfterProcessor
<1>0. p = "Lmac" \/ p = "Umac" BY DEF Processors
<1>1. TypeOK'
  <2>1. drv' \in States /\ pc' \in Pcs /\ faults' \in 0 .. MaxFaults
    BY <1>0, PcSet, BringupAssumption DEF IInv, TypeOK, States
  <2>2. /\ core' \in [Processors -> {"off", "held", "run", "booted"}]
        /\ image' \in 1 .. ImageCount /\ at' \in Nat \ {0}
    BY <1>0 DEF IInv, TypeOK, ImageCount
  <2> QED BY <2>1, <2>2 DEF IInv, TypeOK
<1>2. CASE pc' = "idle"
  <2>1. core'["Umac"] = "booted" => map' # "old"
    BY <1>0, <1>2 DEF IInv, TypeOK, QueueInv, Processors
  <2>2. drv' \notin Live /\ input' = input /\ (event' => inited')
    BY <1>0, <1>2 DEF IInv, ResetInv, Live
  <2> QED BY ONLY IInv, <1>1, <1>2, <2>1, <2>2, Idles
<1>3. CASE pc' # "idle"
  <2>1. ResetInv' BY <1>0, <1>3, Stages DEF IInv, ResetInv
  <2>2. CoreInv'
    <3>1. CASE p = "Lmac"
      BY <1>3, <3>1 DEF IInv, TypeOK, CoreInv, LmacHeld, UmacHeld, LmacBooted, UmacBooted,
           Processors
    <3>2. CASE p = "Umac"
      BY <1>3, <3>2 DEF IInv, TypeOK, CoreInv, LmacHeld, UmacHeld, LmacBooted, UmacBooted,
           Processors
    <3> QED BY <1>0, <3>1, <3>2
  <2>3. QueueInv' BY <1>0, <1>3 DEF IInv, TypeOK, QueueInv, Processors
  <2>4. TrustInv' BY <1>0, <1>3, Stages DEF IInv, TrustInv
  <2>5. ReadyIsBooted' BY <1>0, <1>3 DEF IInv, ResetInv, ReadyIsBooted, Live
  <2> QED BY <1>1, <2>1, <2>2, <2>3, <2>4, <2>5 DEF IInv
<1> QED BY <1>2, <1>3

(* ClearSignature keeps the invariant. *)
LEMMA ClearSignatureHolds == ASSUME IInv, NEW p \in Processors, ClearSignature(p) PROVE IInv'
<1> USE PcNames DEF ClearSignature, Ok, Failure, Goto, Fail, Refuse, hardware, memory,
     device, load, AfterProcessor
<1>0. p = "Lmac" \/ p = "Umac" BY DEF Processors
<1>1. TypeOK'
  <2>1. drv' \in States /\ pc' \in Pcs /\ faults' \in 0 .. MaxFaults
    BY <1>0, PcSet, BringupAssumption DEF IInv, TypeOK, States
  <2>2. sig' \in [Processors -> BOOLEAN] BY <1>0 DEF IInv, TypeOK
  <2> QED BY <2>1, <2>2 DEF IInv, TypeOK
<1>2. CASE pc' = "idle"
  <2>1. core'["Umac"] = "booted" => map' # "old"
    BY <1>0, <1>2 DEF IInv, TypeOK, QueueInv, Processors
  <2>2. drv' \notin Live /\ input' = input /\ (event' => inited')
    BY <1>0, <1>2 DEF IInv, ResetInv, Live
  <2> QED BY ONLY IInv, <1>1, <1>2, <2>1, <2>2, Idles
<1>3. CASE pc' # "idle"
  <2>1. ResetInv' BY <1>0, <1>3, Stages DEF IInv, ResetInv
  <2>2. CoreInv'
    <3>1. CASE p = "Lmac"
      BY <1>3, <3>1 DEF IInv, TypeOK, CoreInv, LmacHeld, UmacHeld, LmacBooted, UmacBooted,
           Processors
    <3>2. CASE p = "Umac"
      BY <1>3, <3>2 DEF IInv, TypeOK, CoreInv, LmacHeld, UmacHeld, LmacBooted, UmacBooted,
           Processors
    <3> QED BY <1>0, <3>1, <3>2
  <2>3. QueueInv' BY <1>0, <1>3 DEF IInv, TypeOK, QueueInv, Processors
  <2>4. TrustInv' BY <1>0, <1>3, Stages DEF IInv, TrustInv
  <2>5. ReadyIsBooted' BY <1>0, <1>3 DEF IInv, ResetInv, ReadyIsBooted, Live
  <2> QED BY <1>1, <2>1, <2>2, <2>3, <2>4, <2>5 DEF IInv
<1> QED BY <1>2, <1>3

(* RunCore keeps the invariant. *)
LEMMA RunCoreHolds == ASSUME IInv, NEW p \in Processors, RunCore(p) PROVE IInv'
<1> USE PcNames DEF RunCore, Ok, Failure, Goto, Fail, Refuse, hardware, memory, device,
     load, AfterProcessor
<1>0. p = "Lmac" \/ p = "Umac" BY DEF Processors
<1>1. TypeOK'
  <2>1. drv' \in States /\ pc' \in Pcs /\ faults' \in 0 .. MaxFaults
    BY <1>0, PcSet, BringupAssumption DEF IInv, TypeOK, States
  <2>2. core' \in [Processors -> {"off", "held", "run", "booted"}] BY <1>0 DEF IInv, TypeOK
  <2> QED BY <2>1, <2>2 DEF IInv, TypeOK
<1>2. CASE pc' = "idle"
  <2>1. core'["Umac"] = "booted" => map' # "old"
    BY <1>0, <1>2 DEF IInv, TypeOK, QueueInv, Processors
  <2>2. drv' \notin Live /\ input' = input /\ (event' => inited')
    BY <1>0, <1>2 DEF IInv, ResetInv, Live
  <2> QED BY ONLY IInv, <1>1, <1>2, <2>1, <2>2, Idles
<1>3. CASE pc' # "idle"
  <2>1. ResetInv' BY <1>0, <1>3, Stages DEF IInv, ResetInv
  <2>2. CoreInv'
    <3>1. CASE p = "Lmac"
      BY <1>3, <3>1 DEF IInv, TypeOK, CoreInv, LmacHeld, UmacHeld, LmacBooted, UmacBooted,
           Processors
    <3>2. CASE p = "Umac"
      BY <1>3, <3>2 DEF IInv, TypeOK, CoreInv, LmacHeld, UmacHeld, LmacBooted, UmacBooted,
           Processors
    <3> QED BY <1>0, <3>1, <3>2
  <2>3. QueueInv' BY <1>0, <1>3 DEF IInv, TypeOK, QueueInv, Processors
  <2>4. TrustInv' BY <1>0, <1>3, Stages DEF IInv, TrustInv
  <2>5. ReadyIsBooted' BY <1>0, <1>3 DEF IInv, ResetInv, ReadyIsBooted, Live
  <2> QED BY <1>1, <2>1, <2>2, <2>3, <2>4, <2>5 DEF IInv
<1> QED BY <1>2, <1>3

(* AwaitSignature keeps the invariant. *)
LEMMA AwaitSignatureHolds == ASSUME IInv, NEW p \in Processors, AwaitSignature(p) PROVE IInv'
<1> USE PcNames DEF AwaitSignature, Ok, Failure, Goto, Fail, Refuse, hardware, memory,
     device, load, AfterProcessor
<1>0. p = "Lmac" \/ p = "Umac" BY DEF Processors
<1>1. TypeOK'
  <2>1. drv' \in States /\ pc' \in Pcs /\ faults' \in 0 .. MaxFaults
    BY <1>0, PcSet, BringupAssumption DEF IInv, TypeOK, States
  <2> QED BY <2>1 DEF IInv, TypeOK
<1>2. CASE pc' = "idle"
  <2>1. core'["Umac"] = "booted" => map' # "old"
    BY <1>0, <1>2 DEF IInv, TypeOK, QueueInv, Processors
  <2>2. drv' \notin Live /\ input' = input /\ (event' => inited')
    BY <1>0, <1>2 DEF IInv, ResetInv, Live
  <2> QED BY ONLY IInv, <1>1, <1>2, <2>1, <2>2, Idles
<1>3. CASE pc' # "idle"
  <2>1. ResetInv' BY <1>0, <1>3, Stages DEF IInv, ResetInv
  <2>2. CoreInv'
    <3>1. CASE p = "Lmac"
      BY <1>3, <3>1 DEF IInv, TypeOK, CoreInv, LmacHeld, UmacHeld, LmacBooted, UmacBooted,
           Processors
    <3>2. CASE p = "Umac"
      BY <1>3, <3>2 DEF IInv, TypeOK, CoreInv, LmacHeld, UmacHeld, LmacBooted, UmacBooted,
           Processors
    <3> QED BY <1>0, <3>1, <3>2
  <2>3. QueueInv' BY <1>0, <1>3 DEF IInv, TypeOK, QueueInv, Processors
  <2>4. TrustInv' BY <1>0, <1>3, Stages DEF IInv, TrustInv
  <2>5. ReadyIsBooted' BY <1>0, <1>3 DEF IInv, ResetInv, ReadyIsBooted, Live
  <2> QED BY <1>1, <2>1, <2>2, <2>3, <2>4, <2>5 DEF IInv
<1> QED BY <1>2, <1>3

(* RecoverStart keeps the invariant. *)
LEMMA RecoverStartHolds == ASSUME IInv, RecoverStart PROVE IInv'
<1> USE DEF RecoverStart, Ok, Failure, hardware, memory, device, load
<1>1. TypeOK'
  <2>1. drv' \in States /\ pc' \in Pcs /\ faults' \in 0 .. MaxFaults
    BY PcSet, BringupAssumption DEF IInv, TypeOK, States
  <2> QED BY <2>1 DEF IInv, TypeOK
<1>2. CASE pc' = "idle" BY <1>1, <1>2, Idles DEF IInv, ResetInv, QueueInv, Live
<1>3. CASE pc' = "irqOff" /\ drv' = "Recovering"
  <2>1. ResetInv' /\ TrustInv' BY <1>3, Stages DEF IInv, ResetInv, TrustInv
  <2>2. CoreInv' BY <1>3 DEF CoreInv, LmacHeld, UmacHeld, LmacBooted, UmacBooted
  <2>3. QueueInv' /\ ReadyIsBooted' BY <1>3 DEF IInv, QueueInv, ReadyIsBooted, Live
  <2> QED BY <1>1, <2>1, <2>2, <2>3 DEF IInv
<1> QED BY <1>2, <1>3

(* HardReset keeps the invariant. *)
LEMMA HardResetHolds == ASSUME IInv, HardReset PROVE IInv'
<1> USE DEF HardReset, Ok, Failure, Goto, Fail, load
<1>0. ASSUME ResetHardware
      PROVE  /\ awake' \in BOOLEAN /\ clocks' \in BOOLEAN
             /\ irq' \in {"off", "partial", "on"}
             /\ core' \in [Processors -> {"off", "held", "run", "booted"}]
             /\ core'["Umac"] = "off" /\ core'["Lmac"] = "off"
             /\ sig' \in [Processors -> BOOLEAN] /\ map' \in {"junk", "old", "new"}
             /\ given' = {} /\ asked' = FALSE /\ inited' = FALSE /\ event' = FALSE
  BY <1>0 DEF ResetHardware, IInv, TypeOK, Processors
<1>1. CASE /\ Goto("wakeBus") /\ ResetHardware
           /\ queues' = "none" /\ uncertain' = FALSE /\ posted' = {}
  <2>1. TypeOK'
    <3>1. drv' \in States /\ pc' \in Pcs /\ faults' \in 0 .. MaxFaults
      BY <1>1, PcSet DEF IInv, TypeOK
    <3> QED BY <1>0, <1>1, <3>1 DEF IInv, TypeOK
  <2>2. ResetInv' /\ TrustInv' BY <1>0, <1>1, Stages DEF IInv, ResetInv, TrustInv
  <2>3. CoreInv' BY <1>1 DEF CoreInv, LmacHeld, UmacHeld, LmacBooted, UmacBooted
  <2>4. QueueInv' BY <1>0, <1>1 DEF QueueInv
  <2>5. ReadyIsBooted' BY <1>1 DEF IInv, ResetInv, ReadyIsBooted, Live
  <2> QED BY <1>1, <2>1, <2>2, <2>3, <2>4, <2>5 DEF IInv
<1>2. CASE Fail /\ ResetHardware /\ UNCHANGED device
  <2>1. TypeOK'
    <3>1. drv' \in States /\ pc' \in Pcs /\ faults' \in 0 .. MaxFaults
      BY <1>2, PcSet, BringupAssumption DEF IInv, TypeOK, States
    <3> QED BY <1>0, <1>2, <3>1 DEF IInv, TypeOK, device
  <2> QED BY <1>0, <1>2, <2>1, Idles DEF Live
<1>3. CASE Fail /\ UNCHANGED hardware /\ UNCHANGED device
  <2>1. TypeOK'
    <3>1. drv' \in States /\ pc' \in Pcs /\ faults' \in 0 .. MaxFaults
      BY <1>3, PcSet, BringupAssumption DEF IInv, TypeOK, States
    <3> QED BY <1>3, <3>1 DEF IInv, TypeOK, device, hardware, memory
  <2> QED BY <1>3, <2>1, Idles DEF Live, IInv, ResetInv, QueueInv, hardware, memory
<1> QED BY <1>1, <1>2, <1>3

(* Download keeps the invariant. *)
LEMMA DownloadHolds == ASSUME IInv, Download PROVE IInv'
<1>0. /\ pc = "download" /\ input' = input
      /\ \/ Refuse /\ UNCHANGED load
         \/ Goto("download") /\ image' = image /\ at' = at + 1
         \/ Fail /\ UNCHANGED load
         \/ Goto("download") /\ image < ImageCount /\ image' = image + 1 /\ at' = 1
         \/ Goto("clearLmac") /\ image' = image /\ at' = 1
      /\ UNCHANGED <<device, slow, awake, clocks, irq, core, sig, map, given,
                     asked, inited, event>>
  BY DEF Download, load, Goto, Fail, Refuse
<1> USE DEF Ok, Failure, Goto, Fail, Refuse, device, load
<1>1. TypeOK'
  <2>1. drv' \in States /\ pc' \in Pcs /\ faults' \in 0 .. MaxFaults
    BY <1>0, PcSet, BringupAssumption DEF IInv, TypeOK, States
  <2>2. image' \in 1 .. ImageCount /\ at' \in Nat \ {0}
    BY <1>0 DEF IInv, TypeOK, ImageCount
  <2> QED BY <1>0, <2>1, <2>2 DEF IInv, TypeOK
<1>2. CASE pc' = "idle" BY <1>0, <1>1, <1>2, Idles DEF IInv, ResetInv, QueueInv, Live
<1>3. CASE pc' # "idle"
  <2>1. ResetInv' /\ TrustInv' BY <1>0, <1>3, Stages DEF IInv, ResetInv, TrustInv
  <2>2. CoreInv' BY <1>0, <1>3 DEF IInv, CoreInv, LmacHeld, UmacHeld, LmacBooted, UmacBooted
  <2>3. QueueInv' BY <1>0, <1>3 DEF IInv, QueueInv
  <2>4. ReadyIsBooted' BY <1>0, <1>3 DEF IInv, ResetInv, ReadyIsBooted, Live
  <2> QED BY <1>0, <1>1, <2>1, <2>2, <2>3, <2>4 DEF IInv
<1> QED BY <1>2, <1>3

(* A set of numbers has a smallest one: post_all_rx takes the descriptors   *)
(* in order.                                                                *)
LEMMA SmallestNat ==
  ASSUME NEW S, S \subseteq Nat, S # {}
  PROVE  \E x \in S : \A y \in S : x <= y
<1> DEFINE R == OpToRel(<, Nat)
<1>1. \A x, y \in Nat : x < y => <<x, y>> \in R
  BY DEF OpToRel
<1>2. \E x \in S : \A y \in S : ~(<<y, x>> \in R)
  <2>1. IsWellFoundedOn(R, Nat) BY NatLessThanWellFounded
  <2> HIDE DEF R
  <2> QED BY <2>1, WFMin
<1> HIDE DEF R
<1>3. PICK x \in S : \A y \in S : ~(<<y, x>> \in R) BY <1>2
<1>4. ASSUME NEW y \in S PROVE x <= y
  <2>1. x \in Nat /\ y \in Nat OBVIOUS
  <2>2. ~(y < x) BY <1>1, <1>3, <2>1
  <2> QED BY <2>1, <2>2
<1> QED BY <1>4

(* The smallest descriptor that is not posted *)
LEMMA FirstUnposted ==
  ASSUME IInv, posted # Descriptors
  PROVE  Min(Descriptors \ posted) \in Descriptors
<1> DEFINE S == Descriptors \ posted
<1>1. S \subseteq Nat /\ S # {} /\ S \subseteq Descriptors
  <2>1. S \subseteq Nat BY BringupAssumption DEF Descriptors
  <2>2. posted \subseteq Descriptors BY DEF IInv, TypeOK
  <2> QED BY <2>1, <2>2
<1>2. \E x \in S : \A y \in S : x <= y
  <2> HIDE DEF S
  <2> QED BY <1>1, SmallestNat
<1>3. Min(S) \in S BY <1>2 DEF Min
<1> QED BY <1>3

(* PostRx keeps the invariant. *)
LEMMA PostRxHolds == ASSUME IInv, PostRx PROVE IInv'
<1> DEFINE d == Min(Descriptors \ posted)
<1>0. /\ pc = "postRx" /\ input' = input
      /\ \/ posted = Descriptors /\ Goto("irqOn") /\ posted' = posted /\ given' = given
         \/ /\ posted # Descriptors /\ d \in Descriptors
            /\ \/ Goto("postRx") /\ posted' = posted \cup {d} /\ given' = given \cup {d}
               \/ Fail /\ posted' = posted /\ given' = given
               \/ Fail /\ posted' = posted \cup {d} /\ given' \in {given, given \cup {d}}
      /\ UNCHANGED <<load, queues, uncertain, slow, awake, clocks, irq, core,
                     memory, asked, inited, event>>
  <2>1. posted # Descriptors => d \in Descriptors BY FirstUnposted
  <2> QED BY <2>1 DEF PostRx, Goto, Fail
<1> HIDE DEF d
<1> USE DEF Ok, Failure, Goto, Fail, load, memory
<1>1. TypeOK'
  <2>1. drv' \in States /\ pc' \in Pcs /\ faults' \in 0 .. MaxFaults
    BY <1>0, PcSet, BringupAssumption DEF IInv, TypeOK, States
  <2>2. posted' \subseteq Descriptors /\ given' \subseteq Descriptors
    BY <1>0 DEF IInv, TypeOK
  <2> QED BY <1>0, <2>1, <2>2 DEF IInv, TypeOK
<1>2. CASE pc' = "idle"
  <2>1. drv' \notin Live /\ (event' => inited') /\ (core'["Umac"] = "booted" => map' # "old")
    BY <1>0, <1>2 DEF IInv, ResetInv, QueueInv, Live
  <2> QED BY ONLY IInv, <1>0, <1>1, <1>2, <2>1, Idles
<1>3. CASE pc' # "idle"
  <2>1. ResetInv'
    <3>1. given = posted BY <1>0, Stages DEF IInv, ResetInv
    <3>2. given' = posted' BY <1>0, <1>3, <3>1
    <3> QED BY <1>0, <1>3, <3>2, Stages DEF IInv, ResetInv
  <2>2. TrustInv' BY <1>0, <1>3, Stages DEF IInv, TrustInv
  <2>3. CoreInv' BY <1>0, <1>3 DEF IInv, CoreInv, LmacHeld, UmacHeld, LmacBooted, UmacBooted
  <2>4. QueueInv' BY <1>0, <1>3 DEF IInv, QueueInv
  <2>5. ReadyIsBooted' BY <1>0, <1>3 DEF IInv, ResetInv, ReadyIsBooted, Live
  <2> QED BY <1>0, <1>1, <2>1, <2>2, <2>3, <2>4, <2>5 DEF IInv
<1> QED BY <1>2, <1>3

(* SendInit keeps the invariant. *)
LEMMA SendInitHolds == ASSUME IInv, SendInit PROVE IInv'
<1>0. /\ pc = "init" /\ input' = input /\ pc' = "idle"
      /\ drv' \in {"WaitingForSystemInit", "Fault"} /\ (Ok \/ Failure)
      /\ asked' \in BOOLEAN /\ uncertain' \in BOOLEAN
      /\ UNCHANGED <<load, queues, posted, slow, awake, clocks, irq, core, memory,
                     given, inited, event>>
  <2>1. asked \in BOOLEAN /\ uncertain \in BOOLEAN BY DEF IInv, TypeOK
  <2>2. CASE Ok /\ pc' = "idle" /\ drv' = "WaitingForSystemInit"
               /\ asked' = TRUE /\ UNCHANGED <<input, uncertain>>
    BY <2>1, <2>2, Zenon DEF SendInit
  <2>3. CASE Fail /\ UNCHANGED <<asked, uncertain>> BY <2>1, <2>3, Zenon DEF SendInit, Fail
  <2>4. CASE Fail /\ uncertain' = TRUE /\ asked' \in {asked, TRUE}
    BY <2>1, <2>4, Zenon DEF SendInit, Fail
  <2> QED BY <2>2, <2>3, <2>4, Zenon DEF SendInit
<1> USE DEF Ok, Failure, load, memory
<1>1. TypeOK'
  <2>1. drv' \in States /\ pc' \in Pcs /\ faults' \in 0 .. MaxFaults
    BY <1>0, PcSet, BringupAssumption DEF IInv, TypeOK, States
  <2> QED BY <1>0, <2>1 DEF IInv, TypeOK
<1>2. ResetInv' BY <1>0, Stages DEF IInv, ResetInv
<1>3. CoreInv' BY <1>0 DEF CoreInv, LmacHeld, UmacHeld, LmacBooted, UmacBooted
<1>4. QueueInv' BY <1>0 DEF IInv, QueueInv
<1>5. TrustInv' BY <1>0, Stages DEF TrustInv
<1>6. ReadyIsBooted'
  <2>1. given = Descriptors /\ posted = Descriptors /\ queues = "new" /\ irq = "on"
    BY <1>0, Stages DEF IInv, ResetInv, QueueInv
  <2>2. core["Lmac"] = "booted" /\ core["Umac"] = "booted"
    BY <1>0 DEF IInv, CoreInv, LmacBooted, UmacBooted
  <2> QED BY <1>0, <2>1, <2>2 DEF ReadyIsBooted, Processors
<1> QED BY <1>0, <1>1, <1>2, <1>3, <1>4, <1>5, <1>6 DEF IInv

(* Drop keeps the invariant. *)
LEMMA DropHolds == ASSUME IInv, Drop PROVE IInv'
<1>0. /\ pc # "idle" /\ Failure /\ pc' = "idle" /\ asked' \in BOOLEAN
      /\ UNCHANGED <<input, drv, load, device, slow, awake, clocks, irq, core,
                     memory, given, inited, event>>
  <2>1. asked \in BOOLEAN BY DEF IInv, TypeOK
  <2>2. CASE pc = "init" BY <2>1, <2>2, Zenon DEF Drop
  <2>3. CASE pc # "init" BY <2>1, <2>3, Zenon DEF Drop
  <2> QED BY <2>2, <2>3
<1> USE DEF Failure, load, memory, device
<1>1. TypeOK'
  <2>1. pc' \in Pcs /\ faults' \in 0 .. MaxFaults
    BY <1>0, PcSet, BringupAssumption DEF IInv, TypeOK
  <2> QED BY <1>0, <2>1 DEF IInv, TypeOK
<1>2. /\ input' = input /\ drv' \notin Live /\ (event' => inited')
      /\ core'["Umac"] = "booted" => map' # "old"
  BY <1>0 DEF IInv, ResetInv, QueueInv, Live
<1> QED BY ONLY IInv, <1>0, <1>1, <1>2, Idles

(* CoreBoots keeps the invariant. *)
LEMMA CoreBootsHolds == ASSUME IInv, NEW p \in Processors, CoreBoots(p) PROVE IInv'
<1> USE DEF CoreBoots, Ok, Failure, device, load
<1>0. p = "Lmac" \/ p = "Umac" BY DEF Processors
<1>1. TypeOK'
  <2>1. core' \in [Processors -> {"off", "held", "run", "booted"}] BY DEF IInv, TypeOK
  <2>2. sig' \in [Processors -> BOOLEAN] BY DEF IInv, TypeOK
  <2>3. map' \in {"junk", "old", "new"} /\ faults' \in 0 .. MaxFaults
    BY BringupAssumption DEF IInv, TypeOK
  <2> QED BY <2>1, <2>2, <2>3 DEF IInv, TypeOK
<1>2. ResetInv' BY DEF IInv, ResetInv
<1>3. TrustInv' BY DEF IInv, TrustInv
<1>4. CoreInv'
  <2>1. CASE p = "Lmac"
    BY <2>1 DEF IInv, TypeOK, CoreInv, LmacHeld, UmacHeld, LmacBooted, UmacBooted, Processors
  <2>2. CASE p = "Umac"
    BY <2>2 DEF IInv, TypeOK, CoreInv, LmacHeld, UmacHeld, LmacBooted, UmacBooted, Processors
  <2> QED BY <1>0, <2>1, <2>2
<1>5. QueueInv'
  <2>1. core'["Umac"] = "booted" => map' # "old"
    BY <1>0 DEF IInv, TypeOK, QueueInv, Processors
  <2> QED BY <2>1 DEF IInv, QueueInv
<1>6. ReadyIsBooted'
  <2>1. \A q \in Processors : core[q] = "booted" => core'[q] = "booted" BY DEF IInv, TypeOK
  <2> QED BY <2>1 DEF IInv, ReadyIsBooted
<1> QED BY <1>1, <1>2, <1>3, <1>4, <1>5, <1>6 DEF IInv

(* FirmwareInit keeps the invariant. *)
LEMMA FirmwareInitHolds == ASSUME IInv, FirmwareInit PROVE IInv'
<1> USE DEF FirmwareInit, device, load, memory
<1>1. TypeOK' BY DEF IInv, TypeOK
<1>2. ResetInv' BY DEF IInv, ResetInv
<1>3. TrustInv' BY DEF IInv, TrustInv
<1>4. CoreInv' BY DEF IInv, CoreInv
<1>5. QueueInv' /\ ReadyIsBooted' BY DEF IInv, QueueInv, ReadyIsBooted
<1> QED BY <1>1, <1>2, <1>3, <1>4, <1>5 DEF IInv

(* Poll keeps the invariant. *)
LEMMA PollHolds == ASSUME IInv, PollUncertain \/ PollInitDone \/ DriverFault PROVE IInv'
<1>1. /\ pc' = "idle" /\ pc = "idle"
      /\ drv' = "Recovering" \/ (drv = "WaitingForSystemInit" /\ drv' = "Ready")
      /\ faults' = faults \/ Failure
  <2>1. CASE PollUncertain BY <2>1 DEF PollUncertain
  <2>2. CASE PollInitDone BY <2>2 DEF PollInitDone
  <2>3. CASE DriverFault BY <2>3 DEF DriverFault
  <2> QED BY <2>1, <2>2, <2>3
<1>2. UNCHANGED <<input, load, device, slow, awake, clocks, irq, core, memory,
                  given, asked, inited>>
  BY DEF PollUncertain, PollInitDone, DriverFault, hardware, memory
<1>3. event' = event \/ event' = FALSE
  BY DEF PollUncertain, PollInitDone, DriverFault, hardware
<1> USE <1>1, <1>2, <1>3 DEF Failure, device, load, memory
<1>4. TypeOK'
  <2>1. event' \in BOOLEAN BY Zenon DEF IInv, TypeOK
  <2>2. drv' \in States /\ faults' \in 0 .. MaxFaults
    BY BringupAssumption DEF IInv, TypeOK, States
  <2> QED BY <2>1, <2>2 DEF IInv, TypeOK
<1>5. ResetInv'
  <2>1. event' => inited' BY Zenon DEF IInv, ResetInv
  <2> QED BY <2>1, Stages DEF ResetInv
<1>6. TrustInv' BY DEF IInv, TrustInv
<1>7. CoreInv' BY DEF IInv, CoreInv
<1>8. QueueInv' BY DEF IInv, QueueInv
<1>9. ReadyIsBooted' BY DEF IInv, ReadyIsBooted, Live
<1> QED BY <1>4, <1>5, <1>6, <1>7, <1>8, <1>9 DEF IInv

(* Supply keeps the invariant. *)
LEMMA SupplyHolds == ASSUME IInv, Supply PROVE IInv'
<1> USE DEF Supply, device, load
<1>1. TypeOK' BY DEF IInv, TypeOK
<1>2. ResetInv' BY DEF IInv, ResetInv
<1>3. TrustInv' BY Stages DEF IInv, TrustInv
<1>4. CoreInv' BY DEF IInv, CoreInv
<1>5. QueueInv' /\ ReadyIsBooted' BY DEF IInv, QueueInv, ReadyIsBooted
<1>6. input' \in Cases BY DEF Bundles
<1> QED BY <1>1, <1>2, <1>3, <1>4, <1>5, <1>6 DEF IInv

(* One lemma per action, together *)
LEMMA NextHolds == ASSUME IInv, [Next]_vars PROVE IInv'
<1>1. CASE RecoverStep
  <2>1. CASE \/ IrqOff \/ HardReset \/ WakeBus \/ Wake \/ DataBus \/ Clocks \/ Download
             \/ InitializeQueues \/ PostRx \/ IrqOn \/ SendInit
    BY <2>1, IrqOffHolds, HardResetHolds, WakeBusHolds, WakeHolds, DataBusHolds,
       ClocksHolds, DownloadHolds, InitializeQueuesHolds, PostRxHolds, IrqOnHolds,
       SendInitHolds
  <2>2. ASSUME NEW p \in Processors,
               ResetProcessor(p) \/ ClearSignature(p) \/ RunCore(p) \/ AwaitSignature(p)
        PROVE  IInv'
    BY <2>2, ResetProcessorHolds, ClearSignatureHolds, RunCoreHolds, AwaitSignatureHolds
  <2> QED BY <1>1, <2>1, <2>2 DEF RecoverStep
<1>2. CASE RecoverStart \/ Drop \/ FirmwareInit \/ Supply
  BY <1>2, RecoverStartHolds, DropHolds, FirmwareInitHolds, SupplyHolds
<1>3. CASE PollUncertain \/ PollInitDone \/ DriverFault BY <1>3, PollHolds
<1>4. CASE \E p \in Processors : CoreBoots(p) BY <1>4, CoreBootsHolds
<1>5. CASE UNCHANGED vars BY <1>5, StutterHolds
<1> QED BY <1>1, <1>2, <1>3, <1>4, <1>5 DEF Next

(* The invariant holds throughout bring-up, for all inputs, buffer counts  *)
(* and numbers of failures.                                                *)
THEOREM Invariance == Spec => []IInv
  BY InitHolds, NextHolds, PTL DEF Spec

(* Every variable has its type: recover never counts a fault too many nor  *)
(* posts a descriptor it does not have.                                    *)
THEOREM TypeCorrect == Spec => []TypeOK
<1>1. IInv => TypeOK BY DEF IInv
<1> QED BY <1>1, Invariance, PTL

(* A driver that waits for its firmware or has it (state Ready of          *)
(* NativeDriver) runs two processors that booted since the last reset,     *)
(* uses their queue map and has given them all receive descriptors.        *)
THEOREM BootedWhenReady == Spec => []ReadyIsBooted
<1>1. IInv => ReadyIsBooted BY DEF IInv
<1> QED BY <1>1, Invariance, PTL

(* FirmwareBundle::parse accepts exactly the well formed files, and finds  *)
(* the four images inside them and apart from one another.                 *)
THEOREM ParsesExactly == Spec => []ParseExact
<1>1. IInv => ParseExact
  BY BringupAssumption, ParseExactHolds DEF IInv
<1> QED BY <1>1, Invariance, PTL

-----------------------------------------------------------------------------
(* What a step is in the lifecycle: nothing, or what its name says *)
LEMMA NotLiveHasNone == ASSUME drv \notin Live PROVE Firmware = "none"
  BY DEF Firmware

(* A driver that falls back to Recovering or Fault forgets its firmware. *)
LEMMA Falls ==
  ASSUME drv' \in {"Recovering", "Fault"}
  PROVE  Life!LNext
<1>1. Firmware' = "none" BY DEF Firmware, Live
<1> QED BY <1>1 DEF Life!LNext, Life!Fall

(* A step that leaves the driver and its firmware alone *)
LEMMA Stutters ==
  ASSUME drv' = drv, drv \notin Live \/ (inited' = inited /\ asked' = asked)
  PROVE  UNCHANGED Life!lifecycle
  BY DEF Life!lifecycle, Firmware, Live

(* Every step of bring-up is a step of the lifecycle or none. *)
LEMMA LifecycleStep ==
  ASSUME IInv, [Next]_vars
  PROVE  [Life!LNext]_(Life!lifecycle)
<1>0. pc # "idle" => drv = "Recovering" BY DEF IInv, ResetInv
<1>1. ASSUME pc # "idle", drv' \in {drv, "Fault"}
      PROVE  [Life!LNext]_(Life!lifecycle)
  BY <1>0, <1>1, Falls
<1>2. CASE RecoverStep
  <2>1. CASE SendInit
    <3>1. CASE drv' = "WaitingForSystemInit"
      <4>1. drv = "Recovering" /\ asked' = TRUE /\ inited' = FALSE
        <5>1. drv = "Recovering" /\ ~inited BY <1>0, <2>1, Stages DEF SendInit, IInv, ResetInv
        <5>2. inited = FALSE BY <5>1, Zenon DEF IInv, TypeOK
        <5> QED BY <2>1, <3>1, <5>1, <5>2 DEF SendInit, Fail
      <4>2. Firmware' = "started" BY <3>1, <4>1 DEF Firmware, Live
      <4> QED BY <3>1, <4>1, <4>2 DEF Life!LNext, Life!Started
    <3>2. CASE drv' # "WaitingForSystemInit"
      <4>1. pc # "idle" /\ drv' = "Fault" BY <2>1, <3>2 DEF SendInit, Fail
      <4> QED BY <1>1, <4>1
    <3> QED BY <3>1, <3>2
  <2>2. CASE \/ IrqOff \/ HardReset \/ WakeBus \/ Wake \/ DataBus \/ Clocks \/ Download
             \/ InitializeQueues \/ PostRx \/ IrqOn
    <3>1. pc # "idle" /\ drv' \in {drv, "Fault"}
      BY <2>2 DEF IrqOff, HardReset, WakeBus, Wake, DataBus, Clocks, Download,
           InitializeQueues, PostRx, IrqOn, Goto, Fail, Refuse
    <3> QED BY <1>1, <3>1
  <2>3. ASSUME NEW p \in Processors,
               ResetProcessor(p) \/ ClearSignature(p) \/ RunCore(p) \/ AwaitSignature(p)
        PROVE  [Life!LNext]_(Life!lifecycle)
    <3>1. pc # "idle" /\ drv' \in {drv, "Fault"}
      BY <2>3, PcNames DEF ResetProcessor, ClearSignature, RunCore, AwaitSignature,
           Goto, Fail, Refuse, Processors
    <3> QED BY <1>1, <3>1
  <2> QED BY <1>2, <2>1, <2>2, <2>3 DEF RecoverStep
<1>3. CASE RecoverStart \/ PollUncertain \/ DriverFault
  <2>1. drv' \in {"Recovering", "Fault"}
    BY <1>3 DEF RecoverStart, PollUncertain, DriverFault
  <2> QED BY <2>1, Falls
<1>4. CASE Drop
  <2>1. drv' = drv /\ pc # "idle" BY <1>4 DEF Drop
  <2> QED BY <1>1, <2>1
<1>5. CASE FirmwareInit
  <2>1. drv' = drv /\ asked /\ inited' = TRUE BY <1>5 DEF FirmwareInit
  <2>2. CASE drv \in Live /\ ~inited
    <3>1. Firmware = "started" /\ Firmware' = "up" BY <2>1, <2>2 DEF Firmware
    <3> QED BY <2>1, <3>1 DEF Life!LNext, Life!Initialized
  <2>3. CASE drv \in Live /\ inited
    <3>1. Firmware = "up" /\ Firmware' = "up" BY <2>1, <2>3 DEF Firmware
    <3> QED BY <2>1, <3>1 DEF Life!lifecycle
  <2>4. CASE drv \notin Live BY <2>1, <2>4, Stutters
  <2> QED BY <2>2, <2>3, <2>4
<1>6. CASE PollInitDone
  <2>1. CASE drv = "WaitingForSystemInit"
    <3>1. drv' = "Ready" /\ inited /\ inited' = inited
      BY <1>6, <2>1 DEF PollInitDone, IInv, ResetInv
    <3>2. Firmware = "up" /\ Firmware' = "up" BY <2>1, <3>1 DEF Firmware, Live
    <3> QED BY <2>1, <3>1, <3>2 DEF Life!LNext, Life!Accepted
  <2>2. CASE drv # "WaitingForSystemInit"
    <3>1. drv' = "Recovering" BY <1>6, <2>2 DEF PollInitDone
    <3> QED BY <3>1, Falls
  <2> QED BY <2>1, <2>2
<1>7. CASE \/ Supply \/ UNCHANGED vars \/ \E p \in Processors : CoreBoots(p)
  <2>1. drv' = drv /\ inited' = inited /\ asked' = asked
    BY <1>7 DEF Supply, CoreBoots, vars, hardware
  <2> QED BY <2>1, Stutters
<1> QED BY <1>2, <1>3, <1>4, <1>5, <1>6, <1>7 DEF Next

(* Bring-up implements the lifecycle: NativeDriver is Ready only with a    *)
(* firmware that was started for this recovery and has initialized since.  *)
THEOREM ImplementsLifecycle == Spec => IsLifecycle
<1>1. Init => Life!LInit BY DEF Init, Life!LInit, Firmware, Live
<1>2. IInv /\ [Next]_vars => [Life!LNext]_(Life!lifecycle) BY LifecycleStep
<1> QED BY <1>1, <1>2, Invariance, PTL DEF Spec, IsLifecycle, Life!LSpec

-----------------------------------------------------------------------------
(* Where an image goes, as the bus sees it *)
Base(p)  == IF p = "Lmac" THEN \h100000 ELSE \h200000
Place(k) == Base(Destination(k).p) + Destination(k).a.low

(* The destinations and the rooms as numbers *)
LEMMA Places ==
  /\ Destination(0) = [p |-> "Umac", a |-> Address(128, 636928)]
  /\ Destination(1) = [p |-> "Umac", a |-> Address(128, 573440)]
  /\ Destination(2) = [p |-> "Lmac", a |-> Address(128, 310208)]
  /\ Destination(3) = [p |-> "Lmac", a |-> Address(128, 277120)]
  /\ Room(0) = 411648 /\ Room(1) = 63488 /\ Room(2) = 214080 /\ Room(3) = 33088
  BY DEF Destination, Room

(* The regions of a processor's own memory have one base. *)
LEMMA OwnRegions ==
  ASSUME NEW p \in Processors, NEW r \in Regions(p), r.top = 128
  PROVE  /\ r.base = Base(p)
         /\ p = "Lmac" => \/ r.first = 0 /\ r.last = 212991
                          \/ r.first = 262144 /\ r.last = 311295
                          \/ r.first = 524288 /\ r.last = 589823
         /\ p = "Umac" => \/ r.first = 0 /\ r.last = 399359
                          \/ r.first = 524288 /\ r.last = 671743
                          \/ r.first = 1048576 /\ r.last = 1277951
  BY DEF Regions, SharedRegions, ProcessorRegions, Region, Base, Processors

(* So host_offset adds that base. *)
LEMMA HostOffsetOwn ==
  ASSUME NEW p \in Processors, NEW a, a.top = 128, Mapped(p, a)
  PROVE  HostOffset(p, a) = Base(p) + a.low
<1> DEFINE r == CHOOSE x \in Regions(p) : Holds(x, a)
<1>1. r \in Regions(p) /\ Holds(r, a) BY DEF Mapped
<1>2. r.top = 128 BY <1>1 DEF Holds
<1>3. r.base = Base(p)
  <2> HIDE DEF r
  <2> QED BY <1>1, <1>2, OwnRegions
<1> QED BY <1>3 DEF HostOffset

(* An address of a processor's own memory, between the ends of a region *)
LEMMA MappedOwn ==
  ASSUME NEW p \in Processors, NEW low \in Nat,
         \/ p = "Lmac" /\ 262144 <= low /\ low <= 311295
         \/ p = "Umac" /\ 524288 <= low /\ low <= 671743
  PROVE  Mapped(p, Address(128, low))
<1>1. CASE p = "Lmac"
  <2>1. Region(128, 262144, 311295, 1048576) \in Regions(p)
    BY <1>1 DEF Regions, ProcessorRegions
  <2>2. Holds(Region(128, 262144, 311295, 1048576), Address(128, low))
    BY <1>1 DEF Holds, Region, Address
  <2> QED BY <2>1, <2>2 DEF Mapped
<1>2. CASE p = "Umac"
  <2>1. Region(128, 524288, 671743, 2097152) \in Regions(p)
    BY <1>2 DEF Regions, ProcessorRegions
  <2>2. Holds(Region(128, 524288, 671743, 2097152), Address(128, low))
    BY <1>2 DEF Holds, Region, Address
  <2> QED BY <2>1, <2>2 DEF Mapped
<1> QED BY <1>1, <1>2 DEF Processors

(* An address that does not carry into its top byte *)
LEMMA AdvanceWithin ==
  ASSUME NEW top \in Nat, NEW low \in Nat, NEW b \in Nat, low + b < LowBits
  PROVE  Advance(Address(top, low), b) = Address(top, low + b)
<1>1. (low + b) \div 16777216 = 0 /\ (low + b) % 16777216 = low + b BY SMT DEF LowBits
<1> QED BY <1>1, SMT DEF Advance, Address, LowBits

(* Padding to whole words *)
LEMMA AlignRight ==
  ASSUME NEW n \in Nat
  PROVE  Align4(n) \in Nat /\ n <= Align4(n) /\ Align4(n) < n + 4 /\ Align4(n) % 4 = 0
  BY DEF Align4

(* The places on the bus as numbers *)
LEMMA PlaceNumbers ==
  Place(0) = 2734080 /\ Place(1) = 2670592 /\ Place(2) = 1358784 /\ Place(3) = 1325696
  BY Places DEF Place, Base, Address

(* An accepted image that has the room goes to consecutive bytes of the    *)
(* bus, from its place on.                                                 *)
Accepted(k, n) == ValidateAccess(Destination(k).p, Destination(k).a, n) = "ok"

LEMMA HostPlace ==
  ASSUME NEW k \in ImageKinds, NEW n \in Nat, n <= Room(k), Accepted(k, n),
         NEW b \in 0 .. Align4(n) - 1
  PROVE  HostOffset(Destination(k).p, Advance(Destination(k).a, b)) = Place(k) + b
<1> DEFINE p == Destination(k).p
           low == Destination(k).a.low
           m == Align4(n)
           end == Advance(Destination(k).a, m - 1)
<1>1. k = 0 \/ k = 1 \/ k = 2 \/ k = 3 BY DEF ImageKinds
<1>2. /\ p \in Processors /\ Destination(k).a = Address(128, low) /\ low \in Nat
      /\ low + Room(k) < LowBits - 8 /\ Room(k) \in Nat
  BY <1>1, Places DEF Address, Processors, LowBits
<1>3. m \in Nat /\ n <= m /\ m < n + 4 /\ m % 4 = 0 BY AlignRight
<1>4. m # 0 BY <1>3
<1>5. end = Address(128, low + m - 1)
  <2>1. low + (m - 1) < LowBits /\ m - 1 \in Nat BY <1>2, <1>3, <1>4 DEF LowBits
  <2> QED BY <1>2, <2>1, AdvanceWithin
<1>6. Mapped(p, end)
  BY <1>4 DEF Accepted, ValidateAccess, CheckedRange
<1>7. m <= Room(k)
  BY <1>1, <1>3, Places
<1>8. PICK r \in Regions(p) : Holds(r, end) BY <1>6 DEF Mapped
<1>9. r.top = 128 /\ low + m - 1 >= r.first /\ low + m - 1 <= r.last
  <2>1. r.top = 128 /\ low + m - 1 \in r.first .. r.last BY <1>5, <1>8 DEF Holds, Address
  <2>2. r.first \in Int /\ r.last \in Int BY <1>2, <2>1, OwnRegions DEF Processors
  <2> QED BY <2>1, <2>2
<1>10. \/ p = "Lmac" /\ 262144 <= low /\ low + m - 1 <= 311295
       \/ p = "Umac" /\ 524288 <= low /\ low + m - 1 <= 671743
  <2>1. p = "Lmac" => \/ r.first = 0 /\ r.last = 212991
                      \/ r.first = 262144 /\ r.last = 311295
                      \/ r.first = 524288 /\ r.last = 589823
    BY <1>2, <1>9, OwnRegions
  <2>2. p = "Umac" => \/ r.first = 0 /\ r.last = 399359
                      \/ r.first = 524288 /\ r.last = 671743
                      \/ r.first = 1048576 /\ r.last = 1277951
    BY <1>2, <1>9, OwnRegions
  <2>3. \/ k = 0 /\ p = "Umac" /\ low = 636928 /\ m <= 411648
        \/ k = 1 /\ p = "Umac" /\ low = 573440 /\ m <= 63488
        \/ k = 2 /\ p = "Lmac" /\ low = 310208 /\ m <= 214080
        \/ k = 3 /\ p = "Lmac" /\ low = 277120 /\ m <= 33088
    BY <1>1, <1>7, Places DEF Address
  <2> HIDE DEF p, low, m
  <2> QED BY <1>2, <1>3, <1>4, <1>9, <2>1, <2>2, <2>3
<1>11. Mapped(p, Address(128, low + b))
  <2>1. b \in Nat /\ b <= m - 1 BY <1>3
  <2> HIDE DEF p, low, m
  <2> QED BY <1>2, <1>3, <1>10, <2>1, MappedOwn
<1>12. Advance(Destination(k).a, b) = Address(128, low + b)
  <2>1. b \in Nat /\ low + b < LowBits BY <1>2, <1>3, <1>7 DEF LowBits
  <2> QED BY <1>2, <2>1, AdvanceWithin
<1>13. HostOffset(p, Address(128, low + b)) = Base(p) + (low + b)
  BY <1>2, <1>11, HostOffsetOwn DEF Address
<1>14. Base(p) \in Nat /\ b \in Nat BY <1>3 DEF Base
<1> QED BY <1>2, <1>12, <1>13, <1>14 DEF Place

-----------------------------------------------------------------------------
(* How write cuts a slice of n bytes *)
Whole(n)   == 4 * (n \div 4)
Chunks(n)  == (Whole(n) + MaxChunk - 1) \div MaxChunk
Count(n)   == Chunks(n) + (IF n = Whole(n) THEN 0 ELSE 1)
From(n, i) == IF i <= Chunks(n) THEN (i - 1) * MaxChunk ELSE Whole(n)
Data(n, i) == IF i > Chunks(n) THEN n - Whole(n)
              ELSE IF i = Chunks(n) THEN Whole(n) - From(n, i) ELSE MaxChunk

(* Transfers by these names *)
LEMMA TransfersAre ==
  ASSUME NEW p, NEW a, NEW n
  PROVE  Transfers(p, a, n) =
           [i \in 1 .. Count(n) |->
              [host |-> HostOffset(p, Advance(a, From(n, i))),
               from |-> From(n, i), data |-> Data(n, i), size |-> Align4(Data(n, i))]]
  BY DEF Transfers, Count, Chunks, Whole, From, Data

(* A quotient that is rounded up *)
LEMMA DivRight ==
  ASSUME NEW x \in Nat, NEW m \in Nat, m # 0
  PROVE  LET q == (x + m - 1) \div m IN
         q \in Nat /\ x <= q * m /\ (q # 0 => (q - 1) * m < x)
<1> DEFINE y == (x + m) - 1
           q == y \div m
           r == y % m
<1>1. y \in Nat /\ m > 0 OBVIOUS
<1>2. q \in Nat /\ r \in Nat /\ r < m /\ y = m * q + r
  <2> HIDE DEF y
  <2> QED BY <1>1
<1>3. q * m = m * q /\ (q - 1) * m = m * q - m BY <1>2
<1>4. m * q \in Nat BY <1>2
<1>5. x + m - 1 = y OBVIOUS
<1> HIDE DEF q, r
<1>6. x <= q * m /\ (q - 1) * m < x BY <1>1, <1>2, <1>3, <1>4
<1> QED BY <1>2, <1>5, <1>6 DEF q

(* Multiples of a chunk, in order *)
LEMMA Times ==
  ASSUME NEW i \in Nat, NEW j \in Nat, i <= j, NEW m \in Nat
  PROVE  i * m \in Nat /\ i * m <= j * m /\ (i # 0 => (i - 1) * m + m = i * m)
<1>1. PICK d \in Nat : j = i + d
  <2>1. j - i \in Nat /\ j = i + (j - i) OBVIOUS
  <2> QED BY <2>1
<1>2. (i + d) * m = i * m + d * m /\ i * m \in Nat /\ d * m \in Nat OBVIOUS
<1>3. (i - 1) * m = i * m - m OBVIOUS
<1> QED BY <1>1, <1>2, <1>3

(* The words of a slice *)
LEMMA WholeWords ==
  ASSUME NEW n \in Nat
  PROVE  /\ Whole(n) \in Nat /\ Whole(n) <= n /\ n < Whole(n) + 4 /\ Whole(n) % 4 = 0
         /\ Align4(n) = IF n = Whole(n) THEN Whole(n) ELSE Whole(n) + 4
  BY DEF Whole, Align4

(* The chunks of a slice cover its words and the last is not empty. *)
LEMMA ChunksRight ==
  ASSUME NEW n \in Nat
  PROVE  /\ Chunks(n) \in Nat
         /\ Whole(n) <= Chunks(n) * MaxChunk
         /\ Chunks(n) # 0 => (Chunks(n) - 1) * MaxChunk < Whole(n)
<1>1. Whole(n) \in Nat BY WholeWords
<1>2. MaxChunk \in Nat /\ MaxChunk # 0 BY ChunkAssumption
<1> QED BY <1>1, <1>2, DivRight DEF Chunks

(* The transfers follow one another: the next begins where one ends, the   *)
(* first at the first byte, and the last ends with the slice.              *)
LEMMA TransfersRight ==
  ASSUME NEW n \in Nat, NEW i \in 1 .. Count(n)
  PROVE  /\ From(n, i) \in Nat /\ Data(n, i) \in Nat /\ Data(n, i) > 0
         /\ From(n, i) + Data(n, i) = IF i = Count(n) THEN n ELSE From(n, i + 1)
         /\ From(n, i) + Data(n, i) <= n
         /\ From(n, i) + Align4(Data(n, i)) <= Align4(n)
         /\ From(n, i) + Align4(Data(n, i)) =
              IF i = Count(n) THEN Align4(n) ELSE From(n, i + 1)
         /\ Align4(Data(n, i)) \in Nat
<1> DEFINE w == Whole(n)
           c == Chunks(n)
<1>1. /\ w \in Nat /\ w <= n /\ n < w + 4 /\ w % 4 = 0
      /\ Align4(n) = IF n = w THEN w ELSE w + 4
  BY WholeWords
<1>2. c \in Nat /\ w <= c * MaxChunk /\ (c # 0 => (c - 1) * MaxChunk < w)
  BY ChunksRight
<1>3. MaxChunk \in Nat /\ MaxChunk > 0 BY ChunkAssumption
<1>4. PICK q \in Nat : MaxChunk = 4 * q
  <2>1. MaxChunk \div 4 \in Nat /\ MaxChunk = 4 * (MaxChunk \div 4) BY ChunkAssumption
  <2> QED BY <2>1
<1>5. i \in Nat /\ i >= 1 /\ i <= Count(n) /\ Count(n) = (IF n = w THEN c ELSE c + 1)
  BY <1>2 DEF Count
<1>6. From(n, i) = (IF i <= c THEN (i - 1) * MaxChunk ELSE w)
      /\ From(n, i + 1) = (IF i + 1 <= c THEN i * MaxChunk ELSE w)
      /\ Data(n,
           i) = (IF i > c THEN n - w ELSE IF i = c THEN w - (i - 1) * MaxChunk ELSE MaxChunk)
  BY <1>2, <1>5 DEF From, Data
<1> HIDE DEF w, c
<1>7. CASE i < c
  <2>1. (i - 1) * MaxChunk \in Nat /\ (i - 1) * MaxChunk + MaxChunk = i * MaxChunk
    <3>1. i * MaxChunk \in Nat /\ (i # 0 => (i - 1) * MaxChunk + MaxChunk = i * MaxChunk)
      BY <1>3, <1>5, Times
    <3>2. i - 1 \in Nat BY <1>5
    <3>3. (i - 1) * MaxChunk \in Nat BY <1>3, <3>2, Times
    <3> QED BY <1>5, <3>1, <3>3
  <2>2. i * MaxChunk \in Nat /\ i * MaxChunk <= (c - 1) * MaxChunk
    <3>1. c - 1 \in Nat /\ i <= c - 1 BY <1>2, <1>5, <1>7
    <3> QED BY <1>3, <1>5, <3>1, Times
  <2>3. (c - 1) * MaxChunk \in Int /\ (c - 1) * MaxChunk < w BY <1>2, <1>3, <1>5, <1>7
  <2>4. Align4(MaxChunk) = MaxChunk BY <1>4 DEF Align4
  <2>5. i # Count(n) /\ i + 1 <= c BY <1>2, <1>5, <1>7
  <2> DEFINE x == (i - 1) * MaxChunk
             y == i * MaxChunk
             z == (c - 1) * MaxChunk
  <2>6. From(n, i) = x /\ From(n, i + 1) = y /\ Data(n, i) = MaxChunk
    BY <1>2, <1>5, <1>6, <1>7, <2>5
  <2> HIDE DEF x, y, z
  <2>7. x \in Nat /\ x + MaxChunk = y /\ y \in Nat /\ y <= z /\ z \in Int /\ z < w
    BY <2>1, <2>2, <2>3 DEF x, y, z
  <2> QED BY <1>1, <1>3, <2>4, <2>5, <2>6, <2>7
<1>8. CASE i = c
  <2> DEFINE x == (i - 1) * MaxChunk
  <2>1. x \in Nat
    <3>1. i - 1 \in Nat BY <1>5
    <3> QED BY <1>3, <3>1, Times
  <2>2. x < w BY <1>2, <1>5, <1>8
  <2>3. x % 4 = 0
    <3>1. x = 4 * ((i - 1) * q) /\ (i - 1) * q \in Int BY <1>4, <1>5
    <3> DEFINE t == (i - 1) * q
    <3> HIDE DEF t
    <3>2. x = 4 * t /\ t \in Int BY <3>1 DEF t
    <3> HIDE DEF x
    <3> QED BY <3>2
  <2>4. From(n, i) = x /\ From(n, i + 1) = w /\ Data(n, i) = w - x
    BY <1>2, <1>5, <1>6, <1>8
  <2> HIDE DEF x
  <2>5. Align4(w - x) = w - x BY <1>1, <2>1, <2>2, <2>3 DEF Align4
  <2>6. i = Count(n) => n = w BY <1>2, <1>5, <1>8
  <2> QED BY <1>1, <2>1, <2>2, <2>4, <2>5, <2>6
<1>9. CASE i > c
  <2>1. i = Count(n) /\ n # w BY <1>2, <1>5, <1>9
  <2>2. From(n, i) = w /\ Data(n, i) = n - w BY <1>2, <1>5, <1>6, <1>9
  <2>3. Align4(n - w) = 4 BY <1>1, <2>1 DEF Align4
  <2> QED BY <1>1, <2>1, <2>2, <2>3
<1> QED BY <1>2, <1>5, <1>7, <1>8, <1>9

(* The first transfer begins with the slice; an empty slice has none. *)
LEMMA FirstTransfer ==
  ASSUME NEW n \in Nat
  PROVE  Count(n) \in Nat /\ (IF 1 <= Count(n) THEN From(n, 1) = 0 ELSE n = 0)
<1>1. Whole(n) \in Nat /\ Chunks(n) \in Nat /\ Whole(n) <= Chunks(n) * MaxChunk
      /\ Whole(n) <= n /\ MaxChunk \in Nat
  BY WholeWords, ChunksRight, ChunkAssumption
<1>2. Chunks(n) = 0 => Whole(n) = 0
  <2>1. 0 * MaxChunk = 0 BY <1>1
  <2> QED BY <1>1, <2>1
<1>3. From(n, 1) = IF 1 <= Chunks(n) THEN 0 ELSE Whole(n)
  <2>1. (1 - 1) * MaxChunk = 0 BY <1>1
  <2> QED BY <2>1 DEF From
<1>4. Count(n) = IF n = Whole(n) THEN Chunks(n) ELSE Chunks(n) + 1 BY <1>1 DEF Count
<1> QED BY <1>1, <1>2, <1>3, <1>4

-----------------------------------------------------------------------------
(* The download: the bytes of image k that are in memory *)
ImageLen(k)  == Image(input.file, k).len
Loaded(k, n) ==
  \A b \in 0 .. n - 1 : <<Place(k) + b, Image(input.file, k).start + b>> \in ram
Done(k)      == Accepted(k, ImageLen(k)) /\ Loaded(k, ImageLen(k))
Filled(k)    == IF at <= Count(ImageLen(k)) THEN From(ImageLen(k), at) ELSE ImageLen(k)
Boots        == {"clearLmac", "runLmac", "awaitLmac", "clearUmac", "runUmac"}

(* What is behind the download is in memory, and stays there until both    *)
(* processors run.                                                         *)
LoadInv ==
  /\ pc # "idle" => Parse(input.file) = "ok"
  /\ pc = "download" => /\ \A k \in 0 .. image - 2 : Done(k)
                        /\ Loaded(image - 1, Filled(image - 1))
  /\ pc \in Boots => \A k \in ImageKinds : Done(k)

(* The images of an authorized file, by PinnedAssumption *)
LEMMA ImagesFit ==
  ASSUME IInv, Parse(input.file) = "ok", Authorize(input.file) = "ok"
  PROVE  \A k \in ImageKinds : /\ ImageLen(k) \in Nat /\ Image(input.file, k).start \in Nat
                               /\ ImageLen(k) <= Room(k)
<1>1. input \in Cases /\ input.file \in FileType /\ input.file.trusted
  BY BringupAssumption DEF IInv, Authorize, Verify
<1> SUFFICES ASSUME NEW k \in ImageKinds
             PROVE  /\ ImageLen(k) \in Nat /\ Image(input.file, k).start \in Nat
                    /\ ImageLen(k) <= Room(k)
  OBVIOUS
<1>2. PICK i \in 1 .. 4 :
        /\ input.file.images[i].kind = k
        /\ Image(input.file, k) = [start |-> EndOf(input.file)[i - 1] + ImageHeaderLen,
                                   len |-> input.file.images[i].len]
  BY <1>1, ImagePlace
<1>3. EndOf(input.file)[i - 1] \in Nat BY <1>1, ExtentsRight
<1>4. input.file.images[i].len \in Nat BY <1>1 DEF FileType, ImageCount
<1>5. input.file.images[i].len <= Room(k)
  BY <1>1, <1>2, PinnedAssumption DEF ImageCount
<1> QED BY <1>2, <1>3, <1>4, <1>5 DEF ImageLen, ImageHeaderLen

(* Two images of the pinned file never share a byte of memory. *)
LEMMA Apart ==
  ASSUME NEW j \in ImageKinds, NEW k \in ImageKinds, j # k,
         NEW b \in Nat, b < Room(j), NEW c \in Nat, c < Room(k)
  PROVE  Place(j) + b # Place(k) + c
<1>1. /\ j = 0 \/ j = 1 \/ j = 2 \/ j = 3
      /\ k = 0 \/ k = 1 \/ k = 2 \/ k = 3
  BY DEF ImageKinds
<1> QED BY <1>1, Places, PlaceNumbers

(* The padding of an image stays in its room. *)
LEMMA RoomAligned ==
  ASSUME NEW k \in ImageKinds, NEW n \in Nat, n <= Room(k)
  PROVE  Align4(n) <= Room(k) /\ Room(k) \in Nat /\ Place(k) \in Nat
<1>1. k = 0 \/ k = 1 \/ k = 2 \/ k = 3 BY DEF ImageKinds
<1>2. Align4(n) \in Nat /\ Align4(n) < n + 4 /\ Align4(n) % 4 = 0 BY AlignRight
<1> QED BY <1>1, <1>2, Places, PlaceNumbers

(* A transfer adds its bytes to those of its image and touches no other.   *)
LEMMA TransferLoads ==
  ASSUME NEW k \in ImageKinds, NEW n \in Nat, n <= Room(k), Accepted(k, n),
         NEW i \in 1 .. Count(n), NEW start \in Nat,
         ram' = Written(Transfers(Destination(k).p, Destination(k).a, n)[i], start)
  PROVE  /\ \A b \in From(n, i) .. (From(n, i) + Data(n, i) - 1) :
              <<Place(k) + b, start + b>> \in ram'
         /\ \A h, v : <<h, v>> \in ram
                      /\ (\A b \in From(n, i) .. (Align4(n) - 1) : h # Place(k) + b)
                      => <<h, v>> \in ram'
<1> DEFINE t == Transfers(Destination(k).p, Destination(k).a, n)[i]
           f == From(n, i)
           d == Data(n, i)
           s == Align4(d)
<1>1. /\ f \in Nat /\ d \in Nat /\ d > 0 /\ f + s <= Align4(n) /\ s \in Nat
  BY TransfersRight
<1>2. d <= s /\ Align4(n) \in Nat BY <1>1, AlignRight
<1>3. Place(k) \in Nat BY RoomAligned
<1>4. t.from = f /\ t.data = d /\ t.size = s
      /\ t.host = HostOffset(Destination(k).p, Advance(Destination(k).a, f))
  BY TransfersAre
<1>5. t.host = Place(k) + f
  <2>1. f \in 0 .. Align4(n) - 1 BY <1>1, <1>2
  <2> QED BY <1>4, <2>1, HostPlace
<1> HIDE DEF t, f, d, s
<1>6. ram' = {x \in ram : x[1] \notin Place(k) + f .. Place(k) + f + s - 1}
               \cup {<<Place(k) + f + e, start + f + e>> : e \in 0 .. d - 1}
  <2>1. ram' = Written(t, start) BY DEF t
  <2> QED BY <1>4, <1>5, <2>1 DEF Written
<1>7. ASSUME NEW b \in f .. (f + d - 1) PROVE <<Place(k) + b, start + b>> \in ram'
  <2>1. b - f \in 0 .. d - 1 BY <1>1
  <2>2. Place(k) + f + (b - f) = Place(k) + b /\ start + f + (b - f) = start + b
    BY <1>1, <1>3
  <2>3. <<Place(k) + f + (b - f), start + f + (b - f)>> \in ram' BY <1>6, <2>1
  <2> QED BY <2>2, <2>3
<1>8. ASSUME NEW h, NEW v, <<h, v>> \in ram,
             \A b \in f .. (Align4(n) - 1) : h # Place(k) + b
      PROVE  <<h, v>> \in ram'
  <2>1. h \notin Place(k) + f .. Place(k) + f + s - 1
    <3> SUFFICES ASSUME h \in Place(k) + f .. Place(k) + f + s - 1 PROVE FALSE OBVIOUS
    <3>1. h - Place(k) \in f .. (Align4(n) - 1) /\ h = Place(k) + (h - Place(k))
      BY <1>1, <1>2, <1>3
    <3> QED BY <1>8, <3>1
  <2> QED BY <1>6, <1>8, <2>1
<1> QED BY <1>7, <1>8 DEF f, d

(* A step of anyone else keeps what is loaded. *)
LEMMA LoadKept ==
  ASSUME LoadInv, input' = input, ram' = ram,
         pc' # "idle" => pc # "idle",
         pc' = "download" => pc = "download" /\ image' = image /\ at' = at,
         pc' \in Boots => pc \in Boots
  PROVE  LoadInv'
<1>1. pc' # "idle" => Parse(input'.file) = "ok" BY DEF LoadInv
<1>2. \A k, n : Loaded(k, n)' <=> Loaded(k, n) BY DEF Loaded
<1>3. \A k : (Done(k)' <=> Done(k)) /\ ImageLen(k)' = ImageLen(k) BY <1>2 DEF Done, ImageLen
<1>4. pc' = "download" => \A k : Filled(k)' = Filled(k) BY <1>3 DEF Filled
<1>5. pc' = "download" => /\ \A k \in 0 .. image' - 2 : Done(k)'
                          /\ Loaded(image - 1, Filled(image - 1))'
  BY <1>2, <1>3, <1>4 DEF LoadInv, Loaded
<1>6. pc' \in Boots => \A k \in ImageKinds : Done(k)' BY <1>3 DEF LoadInv
<1> QED BY <1>1, <1>5, <1>6 DEF LoadInv

(* download_images adds the next transfer, or goes on to the next image. *)
LEMMA DownloadLoads == ASSUME IInv, LoadInv, Download PROVE LoadInv'
<1> DEFINE k == image - 1
           n == ImageLen(k)
           ts == Transfers(Destination(k).p, Destination(k).a, n)
<1>1. pc = "download" /\ input' = input BY DEF Download, Goto, Fail, Refuse
<1>2. Parse(input.file) = "ok" /\ Authorize(input.file) = "ok"
  BY <1>1, Stages DEF IInv, LoadInv, TrustInv
<1>3. \A j \in ImageKinds : /\ ImageLen(j) \in Nat /\ Image(input.file, j).start \in Nat
                            /\ ImageLen(j) <= Room(j)
  BY <1>2, ImagesFit
<1>4. image \in 1 .. 4 /\ k \in ImageKinds /\ at \in Nat /\ at >= 1
    BY DEF IInv, TypeOK, ImageCount, ImageKinds
<1>5. DownloadOrder[image] = k BY <1>4 DEF DownloadOrder
<1>6. Count(n) \in Nat /\ Len(ts) = Count(n)
  <2>1. Count(n) \in Nat BY <1>3, <1>4, FirstTransfer
  <2> QED BY <2>1, TransfersAre
<1>7. \/ pc' = "idle"
      \/ /\ Accepted(k, n) /\ at <= Count(n) /\ pc' = "download"
         /\ image' = image /\ at' = at + 1
         /\ ram' = Written(ts[at], Image(input.file, k).start)
      \/ /\ Accepted(k, n) /\ at > Count(n) /\ at' = 1 /\ ram' = ram
         /\ \/ image < 4 /\ image' = image + 1 /\ pc' = "download"
            \/ image = 4 /\ image' = image /\ pc' = "clearLmac"
  <2> HIDE DEF k
  <2> QED BY <1>5, <1>6 DEF Download, Goto, Fail, Refuse, Reached, Accepted, ImageLen,
                            ImageCount
<1>8. /\ \A j \in 0 .. image - 2 : Done(j)
      /\ Loaded(k, Filled(k))
  BY <1>1 DEF LoadInv
<1>9. \A j : ImageLen(j)' = ImageLen(j) BY <1>1 DEF ImageLen
<1>10. CASE pc' = "idle" BY <1>10 DEF LoadInv, Boots
<1>11. CASE /\ Accepted(k, n) /\ at <= Count(n) /\ pc' = "download"
            /\ image' = image /\ at' = at + 1
            /\ ram' = Written(ts[at], Image(input.file, k).start)
  <2> DEFINE start == Image(input.file, k).start
  <2>0. n \in Nat /\ start \in Nat /\ n <= Room(k) BY <1>3, <1>4
  <2>1. at \in 1 .. Count(n) BY <1>4, <1>6, <1>11
  <2>2. /\ From(n, at) \in Nat /\ Data(n, at) \in Nat
        /\ From(n, at) + Data(n, at) = IF at = Count(n) THEN n ELSE From(n, at + 1)
        /\ From(n, at) + Data(n, at) <= n
    BY <2>0, <2>1, TransfersRight
  <2>3. /\ \A b \in From(n, at) .. (From(n, at) + Data(n, at) - 1) :
             <<Place(k) + b, start + b>> \in ram'
        /\ \A h, v : <<h, v>> \in ram
                     /\ (\A b \in From(n, at) .. (Align4(n) - 1) : h # Place(k) + b)
                     => <<h, v>> \in ram'
    <3> HIDE DEF k, n
    <3> QED BY <1>4, <1>11, <2>0, <2>1, TransferLoads
  <2>4. /\ Align4(n) \in Nat /\ n <= Align4(n) /\ Align4(n) <= Room(k)
        /\ Room(k) \in Nat /\ Place(k) \in Nat
    BY <1>4, <2>0, AlignRight, RoomAligned
  <2>5. Filled(k) = From(n, at) BY <1>11 DEF Filled
  <2>6. Filled(k)' = From(n, at) + Data(n, at)
    <3>1. image' - 1 = k BY <1>11
    <3>2. Filled(k)' = IF at + 1 <= Count(n) THEN From(n, at + 1) ELSE n
      BY <1>9, <1>11, <3>1 DEF Filled
    <3> QED BY <1>4, <1>6, <1>11, <2>2, <3>2
  <2>7. ASSUME NEW b \in 0 .. (From(n, at) + Data(n, at)) - 1
        PROVE  <<Place(k) + b, start + b>> \in ram'
    <3>1. CASE b >= From(n, at) BY <2>2, <2>3, <3>1
    <3>2. CASE b < From(n, at)
      <4>1. <<Place(k) + b, start + b>> \in ram
        <5>1. b \in 0 .. From(n, at) - 1 BY <2>2, <3>2
        <5> QED BY <1>8, <2>5, <5>1 DEF Loaded
      <4>2. \A c \in From(n, at) .. (Align4(n) - 1) : Place(k) + b # Place(k) + c
        BY <2>2, <2>4, <3>2
      <4> QED BY <2>3, <4>1, <4>2
    <3> QED BY <2>2, <3>1, <3>2
  <2>8. Loaded(image - 1, Filled(image - 1))'
    <3>1. \A b \in 0 .. (From(n, at) + Data(n, at)) - 1 : <<Place(k) + b, start + b>> \in ram'
      BY <2>7
    <3>2. Filled(image - 1)' = From(n, at) + Data(n, at)
      BY <2>6
    <3>3. input' = input /\ image' = image BY <1>1, <1>11
    <3> DEFINE m == From(n, at) + Data(n, at)
    <3> HIDE DEF m
    <3>4. \A b \in 0 .. m - 1 : <<Place(image - 1) + b, Image(input.file,
         image - 1).start + b>> \in ram'
      BY <3>1 DEF m
    <3>5. Filled(image - 1)' = m BY <3>2 DEF m
    <3> QED BY ONLY <3>3, <3>4, <3>5 DEF Loaded
  <2>9. ASSUME NEW j \in 0 .. image - 2 PROVE Done(j)'
    <3>1. j \in ImageKinds /\ j # k BY <1>4 DEF ImageKinds
    <3>2. ASSUME NEW b \in 0 .. ImageLen(j) - 1
          PROVE  <<Place(j) + b, Image(input.file, j).start + b>> \in ram'
      <4>1. <<Place(j) + b, Image(input.file, j).start + b>> \in ram
        BY <1>8 DEF Done, Loaded
      <4>2. b \in Nat /\ b < Room(j)
        <5>1. Room(j) \in Nat BY <1>3, <3>1, RoomAligned
        <5> QED BY <1>3, <3>1, <5>1
      <4>3. ASSUME NEW c \in From(n, at) .. (Align4(n) - 1)
            PROVE  Place(j) + b # Place(k) + c
        <5>1. c \in Nat /\ c < Room(k) BY <2>2, <2>4
        <5> HIDE DEF k, n
        <5> QED BY <1>4, <3>1, <4>2, <5>1, Apart
      <4> QED BY <2>3, <4>1, <4>3
    <3>3. Accepted(j, ImageLen(j)) BY <1>8 DEF Done
    <3>4. Loaded(j, ImageLen(j))' BY <1>1, <1>9, <3>2 DEF Loaded
    <3> QED BY <1>9, <3>3, <3>4 DEF Done
  <2> QED BY <1>1, <1>2, <1>11, <2>8, <2>9 DEF LoadInv, Boots
<1>12. CASE /\ Accepted(k, n) /\ at > Count(n) /\ at' = 1 /\ ram' = ram
            /\ \/ image < 4 /\ image' = image + 1 /\ pc' = "download"
               \/ image = 4 /\ image' = image /\ pc' = "clearLmac"
  <2>1. Filled(k) = n BY <1>4, <1>6, <1>12 DEF Filled
  <2>2. Done(k) BY <1>8, <1>12, <2>1 DEF Done
  <2>3. \A j \in 0 .. image - 1 : Done(j) BY <1>4, <1>8, <2>2
  <2>4. \A j : Done(j) => Done(j)' BY <1>1, <1>9, <1>12 DEF Done, Loaded
  <2>5. CASE image < 4 /\ image' = image + 1 /\ pc' = "download"
    <3>1. \A j \in 0 .. image' - 2 : Done(j)' BY <1>4, <2>3, <2>4, <2>5
    <3>2. Loaded(image - 1, Filled(image - 1))'
      <4>1. image' - 1 = image /\ image \in ImageKinds BY <1>4, <2>5 DEF ImageKinds
      <4>2. Filled(image - 1)' = 0
        <5>1. ImageLen(image) \in Nat BY <1>3, <4>1
        <5>2. IF 1 <= Count(ImageLen(image)) THEN From(ImageLen(image), 1) = 0
              ELSE ImageLen(image) = 0
          BY <5>1, FirstTransfer
        <5>3. ImageLen(image - 1)' = ImageLen(image)
          BY <1>1, <4>1 DEF ImageLen
        <5> QED BY <1>12, <5>2, <5>3 DEF Filled
      <4> QED BY <4>2 DEF Loaded
    <3> QED BY <1>1, <1>2, <2>5, <3>1, <3>2 DEF LoadInv, Boots
  <2>6. CASE image = 4 /\ image' = image /\ pc' = "clearLmac"
    <3>1. \A j \in ImageKinds : Done(j)' BY <2>3, <2>4, <2>6 DEF ImageKinds
    <3> QED BY <1>1, <1>2, <2>6, <3>1 DEF LoadInv
  <2> QED BY <1>12, <2>5, <2>6
<1> QED BY <1>7, <1>10, <1>11, <1>12

(* Every step keeps what the download has put in memory. *)
LEMMA NextLoads == ASSUME IInv, LoadInv, [Next]_vars PROVE LoadInv'
<1>1. CASE Download BY <1>1, DownloadLoads
<1>2. CASE HardReset
  <2>1. pc = "hardReset" /\ pc' \in {"wakeBus", "idle"} /\ input' = input
    BY <1>2 DEF HardReset, Goto, Fail
  <2> QED BY <2>1 DEF LoadInv, Boots
<1>3. CASE RecoverStart
  <2>1. pc' \in {"idle", "irqOff"} /\ input' = input /\ Parse(input.file) = "ok"
    BY <1>3 DEF RecoverStart
  <2> QED BY <2>1 DEF LoadInv, Boots
<1>4. CASE Supply \/ Drop \/ SendInit \/ PollUncertain \/ PollInitDone \/ DriverFault
  <2>1. pc' = "idle"
    BY <1>4 DEF Supply, Drop, SendInit, Fail, PollUncertain, PollInitDone, DriverFault
  <2> QED BY <2>1 DEF LoadInv, Boots
<1>5. CASE \/ IrqOff \/ WakeBus \/ Wake \/ DataBus \/ Clocks \/ InitializeQueues
           \/ PostRx \/ IrqOn
  <2>1. /\ input' = input /\ ram' = ram /\ pc # "idle"
        /\ pc' \in {"hardReset", "wake", "dataBus", "clocks", "resetLmac", "postRx",
                    "irqOn", "init", "idle"}
    BY <1>5 DEF IrqOff, WakeBus, Wake, DataBus, Clocks, InitializeQueues, PostRx, IrqOn,
         Goto, Fail, Refuse, hardware, memory
  <2> QED BY <2>1, LoadKept DEF Boots
<1>6. ASSUME NEW p \in Processors, ResetProcessor(p) PROVE LoadInv'
  <2>1. /\ input' = input /\ ram' = ram /\ pc # "idle" /\ image' = 1 /\ at' = 1
        /\ pc' \in {"resetUmac", "download", "idle"}
    BY <1>6, PcNames DEF ResetProcessor, AfterProcessor, Goto, Fail, Refuse, memory, Processors
  <2>2. CASE pc' # "download" BY <2>1, <2>2, LoadKept DEF Boots
  <2>3. CASE pc' = "download"
    <3>1. Parse(input.file) = "ok" BY <2>1 DEF LoadInv
    <3>2. Authorize(input.file) = "ok"
      BY <1>6, <2>1, PcNames, Stages DEF ResetProcessor, IInv, TrustInv, Processors
    <3>3. ImageLen(0) \in Nat BY <3>1, <3>2, ImagesFit DEF ImageKinds
    <3>4. ImageLen(0)' = ImageLen(0) BY <2>1 DEF ImageLen
    <3>5. IF 1 <= Count(ImageLen(0)) THEN From(ImageLen(0), 1) = 0 ELSE ImageLen(0) = 0
      BY <3>3, FirstTransfer
    <3>6. (image - 1)' = 0 /\ Filled(image - 1)' = 0
      BY <2>1, <3>4, <3>5 DEF Filled
    <3>7. Loaded(image - 1, Filled(image - 1))' BY <3>6 DEF Loaded
    <3>8. 0 .. image' - 2 = {} BY <2>1
    <3> QED BY <2>1, <2>3, <3>1, <3>7, <3>8 DEF LoadInv, Boots
  <2> QED BY <2>2, <2>3
<1>7. ASSUME NEW p \in Processors, ClearSignature(p) \/ RunCore(p) \/ AwaitSignature(p)
      PROVE  LoadInv'
  <2>1. /\ input' = input /\ ram' = ram
        /\ \/ pc \in Boots /\ pc' \in Boots
           \/ pc # "idle" /\ pc' \in {"idle", "awaitUmac", "queues"}
    BY <1>7, PcNames DEF ClearSignature, RunCore, AwaitSignature, AfterProcessor, Goto,
         Fail, hardware, memory, Processors, Boots
  <2> QED BY <2>1, LoadKept DEF Boots
<1>8. CASE FirmwareInit \/ UNCHANGED vars \/ \E p \in Processors : CoreBoots(p)
  <2>1. input' = input /\ ram' = ram /\ pc' = pc /\ image' = image /\ at' = at
    BY <1>8 DEF FirmwareInit, CoreBoots, vars, hardware, memory, load
  <2> QED BY <2>1, LoadKept
<1> QED BY <1>1, <1>2, <1>3, <1>4, <1>5, <1>6, <1>7, <1>8 DEF Next, RecoverStep

(* When recover lets a processor run, its memory holds both its images. *)
LEMMA CompleteWhenDone ==
  ASSUME IInv, LoadInv, pc \in Boots, NEW p \in Processors
  PROVE  Complete(p)
<1>1. Parse(input.file) = "ok" /\ Authorize(input.file) = "ok"
  BY Stages DEF Boots, IInv, LoadInv, TrustInv
<1>2. ASSUME NEW k \in ImageKinds, NEW b \in 0 .. Image(input.file, k).len - 1
      PROVE  <<HostOffset(Destination(k).p, Advance(Destination(k).a, b)),
               Image(input.file, k).start + b>> \in ram
  <2>1. ImageLen(k) \in Nat /\ ImageLen(k) <= Room(k) BY <1>1, ImagesFit
  <2>2. Accepted(k, ImageLen(k)) /\ Loaded(k, ImageLen(k)) BY DEF LoadInv, Done
  <2>3. b \in 0 .. Align4(ImageLen(k)) - 1 BY <2>1, AlignRight DEF ImageLen
  <2>4. HostOffset(Destination(k).p, Advance(Destination(k).a, b)) = Place(k) + b
    BY <2>1, <2>2, <2>3, HostPlace
  <2> QED BY <2>2, <2>4 DEF Loaded, ImageLen
<1> QED BY <1>2 DEF Complete, ImageBytes

(* A step that lets a processor run, or writes memory *)
LEMMA RunStep ==
  ASSUME IInv, LoadInv, [Next]_vars
  PROVE  /\ \A p \in Processors : core[p] # "run" /\ core'[p] = "run" =>
              Complete(p) /\ input.file.trusted /\ input.file.intact
         /\ input' = input /\ ram' # ram =>
              \A p \in Processors : core'[p] \in {"off", "held"}
<1>1. ASSUME NEW p \in Processors, core[p] # "run", core'[p] = "run"
      PROVE  Complete(p) /\ input.file.trusted /\ input.file.intact
  <2>1. \E q \in Processors : RunCore(q)
    <3>1. CASE \/ RecoverStart \/ Drop \/ FirmwareInit \/ PollUncertain \/ PollInitDone
               \/ DriverFault \/ Supply \/ UNCHANGED vars
      <4>1. core' = core
        BY <3>1 DEF RecoverStart, Drop, FirmwareInit, PollUncertain, PollInitDone,
             DriverFault, Supply, vars, hardware
      <4> QED BY <1>1, <4>1
    <3>2. CASE \/ IrqOff \/ WakeBus \/ Wake \/ DataBus \/ Clocks \/ Download
               \/ InitializeQueues \/ PostRx \/ IrqOn \/ SendInit
      <4>1. core' = core
        BY <3>2 DEF IrqOff, WakeBus, Wake, DataBus, Clocks, Download, InitializeQueues,
             PostRx, IrqOn, SendInit, hardware
      <4> QED BY <1>1, <4>1
    <3>3. CASE HardReset
      <4>1. core' = core \/ core' = [q \in Processors |-> "off"]
        BY <3>3 DEF HardReset, ResetHardware, hardware
      <4> QED BY <1>1, <4>1
    <3>4. ASSUME NEW q \in Processors,
                 ResetProcessor(q) \/ ClearSignature(q) \/ AwaitSignature(q) \/ CoreBoots(q)
          PROVE  FALSE
      <4>1. core' = core \/ core' = [core EXCEPT ![q] = "held"]
            \/ core' = [core EXCEPT ![q] = "booted"]
        BY <3>4 DEF ResetProcessor, ClearSignature, AwaitSignature, CoreBoots, hardware
      <4> QED BY <1>1, <4>1 DEF IInv, TypeOK
    <3> QED BY <3>1, <3>2, <3>3, <3>4 DEF Next, RecoverStep
  <2>2. pc \in Boots BY <2>1, PcNames DEF RunCore, Boots, Processors
  <2>3. Authorize(input.file) = "ok" BY <2>2, Stages DEF Boots, IInv, TrustInv
  <2>4. input.file.trusted /\ input.file.intact
    BY <2>3 DEF Authorize, Verify, VerifyHash
  <2> QED BY <2>2, <2>4, CompleteWhenDone
<1>2. ASSUME input' = input, ram' # ram, NEW p \in Processors
      PROVE  core'[p] \in {"off", "held"}
  <2>1. Download \/ HardReset
    <3>1. CASE \/ RecoverStart \/ Drop \/ FirmwareInit \/ PollUncertain \/ PollInitDone
               \/ DriverFault \/ UNCHANGED vars \/ \E q \in Processors : CoreBoots(q)
      BY <1>2, <3>1 DEF RecoverStart, Drop, FirmwareInit, PollUncertain, PollInitDone,
         DriverFault, CoreBoots, vars, hardware, memory
    <3>2. CASE \/ IrqOff \/ WakeBus \/ Wake \/ DataBus \/ Clocks
               \/ InitializeQueues \/ PostRx \/ IrqOn \/ SendInit
      BY <1>2, <3>2 DEF IrqOff, WakeBus, Wake, DataBus, Clocks, InitializeQueues,
         PostRx, IrqOn, SendInit, hardware, memory
    <3>3. CASE \E q \in Processors : \/ ResetProcessor(q) \/ ClearSignature(q)
                                     \/ RunCore(q) \/ AwaitSignature(q)
      BY <1>2, <3>3 DEF ResetProcessor, ClearSignature, RunCore, AwaitSignature,
         hardware, memory
    <3>4. CASE Supply BY <1>2, <3>4 DEF Supply
    <3> QED BY <3>1, <3>2, <3>3, <3>4 DEF Next, RecoverStep
  <2>2. CASE Download
    <3>1. core' = core /\ pc = "download" BY <2>2 DEF Download
    <3> QED BY <3>1 DEF IInv, CoreInv, LmacHeld, UmacHeld, Processors
  <2>3. CASE HardReset
    <3>1. core' = [q \in Processors |-> "off"]
      BY <1>2, <2>3 DEF HardReset, ResetHardware, hardware, memory
    <3> QED BY <3>1
  <2> QED BY <2>1, <2>2, <2>3
<1> QED BY <1>1, <1>2

(* A processor is let run only with every byte of both its images in its   *)
(* memory and from a file that the trust policy and the stored digest      *)
(* accept, whatever failed or dropped recoveries left behind; and load     *)
(* never writes under a running processor.                                 *)
THEOREM RunsOnlyTrusted == Spec => RunsTrusted
<1>1. Init => LoadInv BY DEF Init, LoadInv, Boots
<1>2. IInv /\ LoadInv /\ [Next]_vars => LoadInv' BY NextLoads
<1>3. IInv /\ LoadInv /\ [Next]_vars =>
        [/\ \A p \in Processors : core[p] # "run" /\ core'[p] = "run" =>
              Complete(p) /\ input.file.trusted /\ input.file.intact
         /\ input' = input /\ ram' # ram =>
              \A p \in Processors : core'[p] \in {"off", "held"}]_vars
  BY RunStep
<1> QED BY <1>1, <1>2, <1>3, Invariance, PTL DEF Spec, RunsTrusted

-----------------------------------------------------------------------------
(* The memory map: where the bytes of a range are on the host bus *)

(* The regions of a processor in decimal *)
RegionIs(p, r) ==
  \/ r.top = 164 /\ r.first = 0 /\ r.last = 32767 /\ r.base = 0
  \/ r.top = 165 /\ r.first = 0 /\ r.last = 262143 /\ r.base = 262144
  \/ r.top = 183 /\ r.first = 0 /\ r.last = 66047 /\ r.base = 524288
  \/ r.top = 176 /\ r.first = 0 /\ r.last = 200703 /\ r.base = 786432
  \/ /\ p = "Lmac" /\ r.top = 128 /\ r.base = 1048576
     /\ \/ r.first = 0 /\ r.last = 212991
        \/ r.first = 262144 /\ r.last = 311295
        \/ r.first = 524288 /\ r.last = 589823
  \/ /\ p = "Umac" /\ r.top = 128 /\ r.base = 2097152
     /\ \/ r.first = 0 /\ r.last = 399359
        \/ r.first = 524288 /\ r.last = 671743
        \/ r.first = 1048576 /\ r.last = 1277951

(* Every region is one of these. *)
LEMMA RegionNumbers ==
  ASSUME NEW p \in Processors, NEW r \in Regions(p)
  PROVE  RegionIs(p, r)
<1>1. CASE r \in SharedRegions
  BY <1>1 DEF SharedRegions, Region, RegionIs
<1>2. CASE r \in ProcessorRegions[p] /\ p = "Lmac"
  BY <1>2 DEF ProcessorRegions, Region, RegionIs
<1>3. CASE r \in ProcessorRegions[p] /\ p = "Umac"
  BY <1>3 DEF ProcessorRegions, Region, RegionIs
<1> QED BY <1>1, <1>2, <1>3 DEF Regions, Processors

(* The numeral, named for the leaves that do not need its value *)
LEMMA LowBitsNat == LowBits \in Nat
  BY SMT DEF LowBits

(* A region ends before its top byte does and before the host bus does. *)
LEMMA RegionEnds ==
  ASSUME NEW p \in Processors, NEW r \in Regions(p)
  PROVE  /\ r.first \in Nat /\ r.last \in Nat /\ r.base \in Nat
         /\ r.last + 1 < LowBits /\ r.base + r.last < IncrementingBit
<1>1. RegionIs(p, r) BY RegionNumbers
<1> QED BY <1>1, SMT DEF RegionIs, LowBits, IncrementingBit

(* A top byte has one base, and behind a region is a hole. *)
LEMMA RegionsApart ==
  ASSUME NEW p \in Processors, NEW r \in Regions(p), NEW q \in Regions(p), r.top = q.top
  PROVE  /\ r.base = q.base
         /\ r.last + 1 \notin q.first .. q.last
<1>1. RegionIs(p, r) /\ RegionIs(p, q) BY RegionNumbers
<1> QED BY <1>1, SMT DEF RegionIs

(* So host_offset adds the base of any region that holds the address. *)
LEMMA HostOffsetIn ==
  ASSUME NEW p \in Processors, NEW r \in Regions(p), NEW a, Holds(r, a)
  PROVE  HostOffset(p, a) = r.base + a.low
<1> DEFINE q == CHOOSE x \in Regions(p) : Holds(x, a)
<1>1. q \in Regions(p) /\ Holds(q, a) /\ Mapped(p, a) BY DEF Mapped
<1>2. q.base = r.base
  <2> HIDE DEF q
  <2> QED BY <1>1, RegionsApart DEF Holds
<1> QED BY <1>1, <1>2 DEF HostOffset

(* All bytes of a range are in memory, or on the host bus from first on. *)
InMemory(p, a, n)          == \A b \in 0 .. n - 1 : Mapped(p, Advance(a, b))
Consecutive(p, a, n, first) == \A b \in 0 .. n - 1 : HostOffset(p, Advance(a, b)) = first + b

(* A range all of whose bytes are in memory is inside one region, and      *)
(* consecutive on the host bus.                                            *)
LEMMA OneRegion ==
  ASSUME NEW p \in Processors, NEW top \in Nat, NEW low \in Nat, low < LowBits,
         NEW n \in Nat \ {0}, InMemory(p, Address(top, low), n)
  PROVE  \E r \in Regions(p) :
           /\ r.first <= low /\ low + n - 1 <= r.last
           /\ Consecutive(p, Address(top, low), n, r.base + low)
<1> DEFINE a == Address(top, low)
<1>1. a.top = top /\ a.low = low BY DEF Address
<1>2. Mapped(p, a)
  <2>1. 0 \in 0 .. n - 1 /\ low + 0 = low OBVIOUS
  <2>2. Advance(a, 0) = a BY <2>1, AdvanceWithin
  <2> QED BY <2>1, <2>2 DEF InMemory
<1>3. PICK r \in Regions(p) : top = r.top /\ low \in r.first .. r.last
  BY <1>1, <1>2 DEF Mapped, Holds
<1>4. /\ r.first \in Nat /\ r.last \in Nat /\ r.base \in Nat /\ r.last + 1 < LowBits
      /\ r.first <= low /\ low <= r.last
  BY <1>3, RegionEnds
<1>5. LowBits \in Nat BY LowBitsNat
<1>6. low + n - 1 <= r.last
  <2> SUFFICES ASSUME low + n - 1 > r.last PROVE FALSE
    BY <1>4
  <2> DEFINE b == r.last + 1 - low
  <2>1. b \in 0 .. n - 1 /\ b \in Nat /\ low + b = r.last + 1
    BY <1>4
  <2>2. Advance(a, b) = Address(top, r.last + 1)
    BY <1>4, <2>1, AdvanceWithin
  <2>3. Mapped(p, Address(top, r.last + 1))
    BY <2>1, <2>2 DEF InMemory
  <2>4. PICK q \in Regions(p) : q.top = top /\ r.last + 1 \in q.first .. q.last
    BY <2>3 DEF Mapped, Holds, Address
  <2> QED BY <1>3, <2>4, RegionsApart
<1>7. ASSUME NEW b \in 0 .. n - 1
      PROVE  HostOffset(p, Advance(a, b)) = r.base + low + b
  <2>1. b \in Nat /\ low + b \in Nat /\ low + b <= r.last /\ low + b < LowBits
    BY <1>4, <1>5, <1>6
  <2>2. Advance(a, b) = Address(top, low + b)
    BY <2>1, AdvanceWithin
  <2>3. Holds(r, Address(top, low + b))
    BY <1>3, <1>4, <2>1 DEF Holds, Address
  <2>4. HostOffset(p, Address(top, low + b)) = r.base + (low + b)
    BY <2>3, HostOffsetIn DEF Address
  <2> QED BY <1>4, <2>1, <2>2, <2>4
<1> QED BY <1>4, <1>6, <1>7 DEF Consecutive

-----------------------------------------------------------------------------
(* The latency table *)

(* The bands in decimal *)
BandIs(b) ==
  \/ b.first = 0       /\ b.last = 36863   /\ b.words = 1
  \/ b.first = 36864   /\ b.last = 262143  /\ b.words = 2
  \/ b.first = 262144  /\ b.last = 524287  /\ b.words = 1
  \/ b.first = 524288  /\ b.last = 598016  /\ b.words = 2
  \/ b.first = 1048576 /\ b.last = 1261568 /\ b.words = 1
  \/ b.first = 1310720 /\ b.last = 1359872 /\ b.words = 1
  \/ b.first = 1572864 /\ b.last = 1638400 /\ b.words = 1
  \/ b.first = 2097152 /\ b.last = 2496512 /\ b.words = 1
  \/ b.first = 2621440 /\ b.last = 2768896 /\ b.words = 1
  \/ b.first = 3145728 /\ b.last = 3375104 /\ b.words = 1

(* Every band is one of these. *)
LEMMA BandNumbers == \A b \in LatencyBands : BandIs(b)
  BY SMT DEF LatencyBands, Band, BandIs

(* A byte is in at most one band, so any band that has it decides. *)
LEMMA BandDecides ==
  ASSUME NEW b \in LatencyBands, NEW h \in Nat, h \in b.first .. b.last
  PROVE  MapLatency(h) = b.words
<1> DEFINE c == CHOOSE x \in LatencyBands : h \in x.first .. x.last
<1>1. c \in LatencyBands /\ h \in c.first .. c.last OBVIOUS
<1>2. c.words = b.words
  <2> HIDE DEF c
  <2>1. BandIs(b) /\ BandIs(c) BY <1>1, BandNumbers
  <2> QED BY <1>1, <2>1, SMT DEF BandIs
<1> QED BY <1>2 DEF MapLatency

(* Packet memory is in no band. *)
LEMMA NoBand ==
  ASSUME NEW h \in Nat, 786432 <= h, h <= 987135
  PROVE  MapLatency(h) = 0
<1>1. ASSUME NEW b \in LatencyBands, h \in b.first .. b.last PROVE FALSE
  <2>1. BandIs(b) BY BandNumbers
  <2> QED BY <1>1, <2>1, SMT DEF BandIs
<1> QED BY <1>1 DEF MapLatency

(* The bytes of a region all have one latency: it lies in one band or, as  *)
(* packet memory does, in none.                                            *)
LEMMA RegionLatency ==
  ASSUME NEW p \in Processors, NEW r \in Regions(p)
  PROVE  \E w \in 0 .. 2 : \A h \in r.base + r.first .. r.base + r.last : MapLatency(h) = w
<1>1. RegionIs(p, r) BY RegionNumbers
<1>2. r.first \in Nat /\ r.last \in Nat /\ r.base \in Nat BY RegionEnds
<1>3. CASE r.top = 176
  <2>1. r.base + r.first = 786432 /\ r.base + r.last = 987135
    BY <1>1, <1>3, SMT DEF RegionIs
  <2>2. ASSUME NEW h \in r.base + r.first .. r.base + r.last PROVE MapLatency(h) = 0
    <3>1. h \in Nat /\ 786432 <= h /\ h <= 987135 BY <1>2, <2>1, SMT
    <3> QED BY <3>1, NoBand
  <2> QED BY <2>2
<1>4. CASE r.top # 176
  <2>1. PICK b \in LatencyBands : /\ b.first <= r.base + r.first /\ r.base + r.last <= b.last
                                  /\ b.words \in 0 .. 2 /\ b.first \in Nat /\ b.last \in Nat
    <3> DEFINE Around(b) == /\ b.first <= r.base + r.first /\ r.base + r.last <= b.last
                            /\ b.words \in 0 .. 2 /\ b.first \in Nat /\ b.last \in Nat
    <3>1. \E b \in {Band(0, 36863, 1), Band(262144, 524287, 1), Band(524288, 598016, 2),
                    Band(1048576, 1261568, 1), Band(1310720, 1359872, 1),
                    Band(1572864, 1638400, 1), Band(2097152, 2496512, 1),
                    Band(2621440, 2768896, 1), Band(3145728, 3375104, 1)} : Around(b)
      BY <1>1, <1>4, SMT DEF RegionIs, Band
    <3> QED BY <3>1, SMT DEF LatencyBands
  <2>2. \A h \in r.base + r.first .. r.base + r.last : h \in Nat /\ h \in b.first .. b.last
    BY <1>2, <2>1
  <2> QED BY <2>1, <2>2, BandDecides
<1> QED BY <1>3, <1>4

-----------------------------------------------------------------------------
(* The pieces of a transfer *)

(* The pieces of a transfer follow one another and cover it. *)
LEMMA PiecesRight ==
  ASSUME NEW size \in Nat, NEW most \in Nat \ {0}
  PROVE  /\ Pieces(size, most) \in Nat /\ (Pieces(size, most) = 0 <=> size = 0)
         /\ \A i \in 1 .. Pieces(size, most) :
              /\ most * (i - 1) \in Nat
              /\ PieceLen(size, most, i) \in 1 .. most
              /\ most * (i - 1) + PieceLen(size, most, i) <= size
              /\ most * (i - 1) + PieceLen(size, most, i) =
                   IF i = Pieces(size, most) THEN size ELSE most * i
<1> DEFINE n == Pieces(size, most)
<1>1. n \in Nat /\ size <= n * most /\ (n # 0 => (n - 1) * most < size)
  BY DivRight DEF Pieces
<1> HIDE DEF n
<1>2. n = 0 <=> size = 0
  <2>1. n = 0 => size = 0
    <3>1. 0 * most = 0 OBVIOUS
    <3> QED BY <1>1, <3>1
  <2>2. n # 0 => size > 0
    <3>1. n # 0 => n - 1 \in Nat BY <1>1
    <3>2. n # 0 => (n - 1) * most \in Nat BY <3>1, Times
    <3> QED BY <1>1, <3>2
  <2> QED BY <2>1, <2>2
<1>3. ASSUME NEW i \in 1 .. n
      PROVE  /\ most * (i - 1) \in Nat
             /\ PieceLen(size, most, i) \in 1 .. most
             /\ most * (i - 1) + PieceLen(size, most, i) <= size
             /\ most * (i - 1) + PieceLen(size, most, i) =
                  IF i = n THEN size ELSE most * i
  <2>1. i \in Nat /\ i >= 1 /\ i <= n /\ i - 1 \in Nat BY <1>1
  <2>2. (i - 1) * most \in Nat /\ i * most \in Nat /\ (i - 1) * most + most = i * most
    BY <2>1, Times
  <2>3. (i - 1) * most = most * (i - 1) /\ i * most = most * i BY <2>1
  <2> DEFINE x == most * (i - 1)
             y == most * i
  <2>4. x \in Nat /\ y \in Nat /\ x + most = y BY <2>2, <2>3
  <2>5. PieceLen(size, most, i) = IF i < n THEN most ELSE size - x BY DEF PieceLen, n
  <2>6. CASE i < n
    <3>1. n - 1 \in Nat /\ i <= n - 1 BY <1>1, <2>1, <2>6
    <3>2. i * most <= (n - 1) * most /\ (n - 1) * most \in Int BY <2>1, <3>1, Times
    <3>3. y < size
      <4> DEFINE z == (n - 1) * most
      <4>1. y <= z /\ z < size /\ z \in Int BY <1>1, <2>3, <3>1, <3>2
      <4> HIDE DEF y, z
      <4> QED BY <2>4, <4>1
    <3> HIDE DEF x, y
    <3>4. /\ x \in Nat /\ PieceLen(size, most, i) \in 1 .. most
          /\ x + PieceLen(size, most, i) <= size
          /\ x + PieceLen(size, most, i) = IF i = n THEN size ELSE y
      BY <2>1, <2>4, <2>5, <2>6, <3>3
    <3> QED BY <3>4 DEF x, y
  <2>7. CASE i = n
    <3>1. x < size /\ size <= y BY <1>1, <2>1, <2>3, <2>7
    <3> HIDE DEF x, y
    <3>2. /\ x \in Nat /\ PieceLen(size, most, i) \in 1 .. most
          /\ x + PieceLen(size, most, i) <= size
          /\ x + PieceLen(size, most, i) = IF i = n THEN size ELSE y
      BY <2>1, <2>4, <2>5, <2>7, <3>1
    <3> QED BY <3>2 DEF x, y
  <2> QED BY <1>1, <2>1, <2>6, <2>7
<1> QED BY <1>1, <1>2, <1>3 DEF n

(* Frames that are these pieces, each moving consecutive bytes, move the   *)
(* transfer.                                                               *)
LEMMA PiecesMove ==
  ASSUME NEW size \in Nat, NEW most \in Nat \ {0}, NEW first \in Nat, NEW frames,
         Len(frames) = Pieces(size, most),
         \A i \in 1 .. Pieces(size, most) :
           /\ frames[i].len = PieceLen(size, most, i)
           /\ FrameBytes(frames[i]) =
                [j \in 1 .. frames[i].len |-> (first + most * (i - 1)) + j - 1]
  PROVE  FramesExact(frames, first, size)
<1> DEFINE n == Pieces(size, most)
           parts == [i \in 1 .. Len(frames) |->
                      [host |-> FrameBytes(frames[i])[1], size |-> frames[i].len]]
<1>1. n \in Nat /\ (n = 0 <=> size = 0) BY PiecesRight
<1>2. ASSUME NEW i \in 1 .. n
      PROVE  /\ FrameBytes(frames[i])[1] = first + most * (i - 1)
             /\ most * (i - 1) \in Nat
             /\ frames[i].len \in Nat /\ frames[i].len > 0
             /\ most * (i - 1) + frames[i].len = IF i = n THEN size ELSE most * i
  <2>1. /\ most * (i - 1) \in Nat /\ frames[i].len \in 1 .. most
        /\ most * (i - 1) + frames[i].len = IF i = n THEN size ELSE most * i
    <3>1. /\ most * (i - 1) \in Nat /\ PieceLen(size, most, i) \in 1 .. most
          /\ most * (i - 1) + PieceLen(size, most, i) = IF i = n THEN size ELSE most * i
      BY PiecesRight
    <3>2. frames[i].len = PieceLen(size, most, i) OBVIOUS
    <3> QED BY <3>1, <3>2, Zenon
  <2>2. frames[i].len \in Nat /\ frames[i].len > 0 /\ 1 \in 1 .. frames[i].len BY <2>1
  <2>3. FrameBytes(frames[i])[1] = (first + most * (i - 1)) + 1 - 1 BY <2>2
  <2> DEFINE x == most * (i - 1)
  <2> HIDE DEF x
  <2>4. x \in Nat /\ FrameBytes(frames[i])[1] = (first + x) + 1 - 1 BY <2>1, <2>3 DEF x
  <2>5. FrameBytes(frames[i])[1] = first + x BY <2>4
  <2> QED BY <2>1, <2>2, <2>5 DEF x
<1>3. ASSUME NEW i \in 1 .. n
      PROVE  FrameBytes(frames[i]) =
               [j \in 1 .. frames[i].len |-> FrameBytes(frames[i])[1] + j - 1]
  BY <1>2
<1>4. Len(parts) = n /\ (parts = <<>> <=> n = 0)
  BY <1>1
<1>5. ASSUME NEW i \in 1 .. n
      PROVE  parts[i].host = first + most * (i - 1) /\ parts[i].size = frames[i].len
  BY <1>2
<1> HIDE DEF parts
<1>6. ASSUME NEW i \in 1 .. n, i # 1
      PROVE  parts[i].host = parts[i - 1].host + parts[i - 1].size
  <2>1. i - 1 \in 1 .. n /\ i - 1 # n /\ i \in Nat BY <1>1, <1>6
  <2>2. most * ((i - 1) - 1) + frames[i - 1].len = most * (i - 1)
    BY <1>2, <2>1
  <2> DEFINE x == most * ((i - 1) - 1)
             y == most * (i - 1)
  <2>3. x \in Nat /\ y \in Nat /\ frames[i - 1].len \in Nat BY <1>2, <2>1
  <2>4. /\ parts[i].host = first + y /\ parts[i - 1].host = first + x
        /\ parts[i - 1].size = frames[i - 1].len
    BY <1>5, <2>1
  <2> HIDE DEF x, y
  <2>5. x + frames[i - 1].len = y BY <2>2 DEF x, y
  <2> QED BY <2>3, <2>4, <2>5
<1>7. ASSUME n # 0 PROVE size = parts[n].host + parts[n].size - first
  <2>1. n \in 1 .. n BY <1>1, <1>7
  <2> DEFINE x == most * (n - 1)
  <2>2. /\ parts[n].host = first + x /\ parts[n].size = frames[n].len
        /\ x \in Nat /\ frames[n].len \in Nat /\ x + frames[n].len = size
    BY <1>2, <1>5, <2>1
  <2> HIDE DEF x
  <2> QED BY <2>2
<1>8. ASSUME 1 \in 1 .. n PROVE parts[1].host = first
  <2>1. most * (1 - 1) = 0 OBVIOUS
  <2> QED BY <1>5, <1>8, <2>1
<1>9. InOrder(parts, first, size)
  <2>1. ASSUME NEW i \in 1 .. Len(parts)
        PROVE  /\ parts[i].size > 0
               /\ parts[i].host = IF i = 1 THEN first
                                  ELSE parts[i - 1].host + parts[i - 1].size
    BY <1>2, <1>4, <1>5, <1>6, <1>8
  <2> QED BY <1>1, <1>4, <1>7, <2>1 DEF InOrder
<1> QED BY <1>3, <1>9 DEF FramesExact, parts

-----------------------------------------------------------------------------
(* The address mask *)

(* The sum of no weight, and of one *)
LEMMA SumNone == SumSet({}) = 0
<1> DEFINE Is(g) == g = [s \in SUBSET {} |->
                          IF s = {} THEN 0
                          ELSE (CHOOSE x \in s : TRUE) + g[s \ {CHOOSE x \in s : TRUE}]]
           f == CHOOSE g : Is(g)
<1>1. SumSet({}) = f[{}] BY DEF SumSet, FoldSet, MapThenFoldSet
<1>2. Is([s \in SUBSET {} |-> 0])
  OBVIOUS
<1>3. Is(f) BY <1>2
<1> QED BY <1>1, <1>3
LEMMA SumOne == ASSUME NEW n \in Int PROVE SumSet({n}) = n
<1> DEFINE Is(g) == g = [s \in SUBSET {n} |->
                          IF s = {} THEN 0
                          ELSE (CHOOSE x \in s : TRUE) + g[s \ {CHOOSE x \in s : TRUE}]]
           f == CHOOSE g : Is(g)
<1>1. SumSet({n}) = f[{n}] BY DEF SumSet, FoldSet, MapThenFoldSet
<1>2. (CHOOSE x \in {n} : TRUE) = n /\ {n} \ {n} = {} OBVIOUS
<1>3. \A s \in SUBSET {n} : s = {} \/ s = {n} OBVIOUS
<1>4. Is([s \in SUBSET {n} |-> IF s = {} THEN 0 ELSE n])
  <2> DEFINE h == [s \in SUBSET {n} |-> IF s = {} THEN 0 ELSE n]
  <2>1. h[{}] = 0 OBVIOUS
  <2>2. ASSUME NEW s \in SUBSET {n}
        PROVE  h[s] = IF s = {} THEN 0
                      ELSE (CHOOSE x \in s : TRUE) + h[s \ {CHOOSE x \in s : TRUE}]
    <3>1. CASE s = {} BY <2>1, <3>1
    <3>2. CASE s # {}
      <4>1. s = {n} BY <1>3, <3>2
      <4>2. (CHOOSE x \in s : TRUE) = n BY <1>2, <4>1
      <4>3. h[s] = n /\ s \ {n} = {} BY <3>2, <4>1
      <4>4. h[s] = n + h[s \ {n}] BY <2>1, <4>3
      <4> QED BY <3>2, <4>2, <4>4
    <3> QED BY <3>1, <3>2
  <2>3. h = [s \in SUBSET {n} |-> h[s]] OBVIOUS
  <2> HIDE DEF h
  <2>4. h = [s \in SUBSET {n} |->
              IF s = {} THEN 0
              ELSE (CHOOSE x \in s : TRUE) + h[s \ {CHOOSE x \in s : TRUE}]]
    BY <2>2, <2>3
  <2>5. Is(h) BY <2>4
  <2> QED BY <2>5 DEF h
<1>5. Is(f) BY <1>4
<1> HIDE DEF f
<1>6. f[{}] = 0 BY <1>5
<1>7. f[{n}] = (CHOOSE x \in {n} : TRUE) + f[{n} \ {CHOOSE x \in {n} : TRUE}]
  BY <1>5
<1>8. f[{n}] = n + f[{}] BY <1>2, <1>7
<1> QED BY <1>1, <1>6, <1>8

(* The bits that the incrementing mask adds and removes; no mask has none. *)
LEMMA MaskBits ==
  ASSUME NEW n \in Nat, n < IncrementingBit
  PROVE  /\ SetBits(n, {IncrementingBit}) = n + IncrementingBit
         /\ ClearBits(n, {IncrementingBit}) = n
         /\ SetBits(n, {}) = n
<1>1. ~HasBit(n, IncrementingBit)
  BY SMT DEF HasBit, IncrementingBit
<1>2. IncrementingBit \in Int BY SMT DEF IncrementingBit
<1>3. {w \in {IncrementingBit} : ~HasBit(n, w)} = {IncrementingBit}
      /\ {w \in {IncrementingBit} : HasBit(n, w)} = {}
      /\ {w \in {} : ~HasBit(n, w)} = {}
  BY <1>1, Zenon
<1> QED BY <1>2, <1>3, SumNone, SumOne DEF SetBits, ClearBits

(* What is on the wire, and what the device takes from it *)
LEMMA WireRight ==
  ASSUME NEW n \in Nat, n < IncrementingBit, NEW config
  PROVE  /\ config.mask = {IncrementingBit} => WireAddress(config, n) = n + IncrementingBit
         /\ config.mask = {} => WireAddress(config, n) = n
         /\ n % AddressSpace = n
         /\ n % IncrementingBit = n /\ (n + IncrementingBit) % IncrementingBit = n
         /\ ~HasBit(n, IncrementingBit) /\ HasBit(n + IncrementingBit, IncrementingBit)
<1>1. /\ n % AddressSpace = n /\ (n + IncrementingBit) % AddressSpace = n + IncrementingBit
      /\ n % IncrementingBit = n /\ (n + IncrementingBit) % IncrementingBit = n
      /\ ~HasBit(n, IncrementingBit) /\ HasBit(n + IncrementingBit, IncrementingBit)
  BY SMT DEF HasBit, IncrementingBit, AddressSpace
<1> QED BY <1>1, MaskBits DEF WireAddress

-----------------------------------------------------------------------------
(* The frames of a transfer *)

(* A frame with the incrementing bit moves consecutive bytes. *)
LEMMA IncrementingFrame ==
  ASSUME NEW first \in Nat, first < IncrementingBit, NEW frame, frame.len \in Nat,
         frame.wire = first + IncrementingBit
  PROVE  FrameBytes(frame) = [j \in 1 .. frame.len |-> first + j - 1]
<1>1. /\ frame.wire % IncrementingBit = first /\ HasBit(frame.wire, IncrementingBit)
  BY WireRight
<1> QED BY <1>1 DEF FrameBytes

(* One without it stays at a word, *)
LEMMA PlainFrame ==
  ASSUME NEW first \in Nat, first < IncrementingBit, NEW frame, frame.len \in Nat,
         frame.wire = first
  PROVE  FrameBytes(frame) = [j \in 1 .. frame.len |-> first + ((j - 1) % WordLen)]
<1>1. first % IncrementingBit = first /\ ~HasBit(first, IncrementingBit)
  BY WireRight
<1> QED BY <1>1 DEF FrameBytes

(* and moves consecutive bytes if it is at most that word. *)
LEMMA WordFrame ==
  ASSUME NEW first \in Nat, first < IncrementingBit, NEW frame, frame.len \in 1 .. WordLen,
         frame.wire = first
  PROVE  FrameBytes(frame) = [j \in 1 .. frame.len |-> first + j - 1]
<1>1. \A j \in 1 .. frame.len : first + ((j - 1) % WordLen) = first + j - 1
  BY DEF WordLen
<1>2. frame.len \in Nat BY DEF WordLen
<1> QED BY <1>1, <1>2, PlainFrame

(* The pieces of a transfer on the bus are there. *)
LEMMA PieceThere ==
  ASSUME NEW size \in Nat, NEW most \in Nat \ {0}, NEW host \in Nat,
         host + size <= IncrementingBit, NEW i \in 1 .. Pieces(size, most)
  PROVE  /\ host + most * (i - 1) \in Nat
         /\ host + most * (i - 1) < IncrementingBit
         /\ PieceLen(size, most, i) \in Nat /\ PieceLen(size, most, i) > 0
         /\ host <= host + most * (i - 1)
         /\ (host + most * (i - 1)) + PieceLen(size, most, i) <= host + size
<1>1. /\ most * (i - 1) \in Nat /\ PieceLen(size, most, i) \in 1 .. most
      /\ most * (i - 1) + PieceLen(size, most, i) <= size
  BY PiecesRight
<1> DEFINE x == most * (i - 1)
           l == PieceLen(size, most, i)
<1> HIDE DEF x, l
<1>2. x \in Nat /\ l \in 1 .. most /\ x + l <= size BY <1>1 DEF x, l
<1>3. IncrementingBit \in Nat BY SMT DEF IncrementingBit
<1>4. /\ host + x \in Nat /\ host + x < IncrementingBit /\ l \in Nat /\ l > 0
      /\ host <= host + x /\ (host + x) + l <= host + size
  BY <1>2, <1>3
<1> QED BY <1>4 DEF x, l

(* write_block moves the bytes of a transfer. *)
LEMMA WriteMoves ==
  ASSUME NEW host \in Nat, NEW size \in Nat, host + size <= IncrementingBit,
         NEW config, config.mask = {IncrementingBit}
  PROVE  FramesExact(WriteFrames(config, host, size), host, size)
<1> DEFINE frames == WriteFrames(config, host, size)
<1>1. MaxChunk \in Nat \ {0} BY ChunkAssumption
<1>2. Pieces(size, MaxChunk) \in Nat BY <1>1, PiecesRight
<1>3. Len(frames) = Pieces(size, MaxChunk) BY <1>2 DEF WriteFrames
<1>4. ASSUME NEW i \in 1 .. Pieces(size, MaxChunk)
      PROVE  /\ frames[i].len = PieceLen(size, MaxChunk, i)
             /\ FrameBytes(frames[i]) =
                  [j \in 1 .. frames[i].len |-> (host + MaxChunk * (i - 1)) + j - 1]
  <2> DEFINE x == host + MaxChunk * (i - 1)
             l == PieceLen(size, MaxChunk, i)
  <2>1. x \in Nat /\ x < IncrementingBit /\ l \in Nat BY <1>1, PieceThere
  <2>2. frames[i] = Frame(WireAddress(config, x), l, 0) BY DEF WriteFrames
  <2> HIDE DEF frames, x, l
  <2>3. frames[i].len = l /\ frames[i].wire = x + IncrementingBit
    BY <2>1, <2>2, WireRight DEF Frame
  <2>4. FrameBytes(frames[i]) = [j \in 1 .. l |-> x + j - 1]
    BY <2>1, <2>3, IncrementingFrame
  <2> QED BY <2>3, <2>4 DEF x, l
<1> HIDE DEF frames
<1>5. FramesExact(frames, host, size)
  BY <1>1, <1>3, <1>4, PiecesMove
<1> QED BY <1>5 DEF frames

(* A frame of one piece: what read_block relies on *)
ReadsRightly(config, frame, most) ==
  /\ FitsBuffer(frame)
  /\ frame.len <= most
  /\ \A k \in 1 .. frame.len :
       ReadLatency(config, FrameBytes(frame)[k]) = frame.latency

(* The frame of a piece, and bytes of one latency *)
PieceFrame(frame, config, host, size, most, i) ==
  /\ frame.len = PieceLen(size, most, i)
  /\ frame.latency = ReadLatency(config, host + most * (i - 1))
  /\ FrameBytes(frame) = [j \in 1 .. frame.len |-> (host + most * (i - 1)) + j - 1]
OneLatency(config, host, size, latency) ==
  \A b \in host .. host + size - 1 : ReadLatency(config, b) = latency

(* Of such bytes, it is read rightly. *)
LEMMA PieceReads ==
  ASSUME NEW host \in Nat, NEW size \in Nat, host + size <= IncrementingBit,
         NEW most \in Nat \ {0}, most <= MaxChunk, NEW i \in 1 .. Pieces(size, most),
         NEW config, NEW latency \in 0 .. MaxLatencyWords,
         OneLatency(config, host, size, latency),
         NEW frame, PieceFrame(frame, config, host, size, most, i)
  PROVE  ReadsRightly(config, frame, most) /\ frame.latency = latency
<1> DEFINE x == host + most * (i - 1)
<1> HIDE DEF x
<1>1. /\ x \in Nat /\ frame.len \in Nat /\ frame.len > 0
      /\ host <= x /\ x + frame.len <= host + size
  BY PieceThere DEF x, PieceFrame
<1>2. x \in host .. host + size - 1 BY <1>1
<1>3. frame.latency = latency BY <1>2 DEF x, PieceFrame, OneLatency
<1>4. frame.len <= most
  <2>1. PieceLen(size, most, i) \in 1 .. most BY PiecesRight
  <2> QED BY <2>1 DEF PieceFrame
<1>5. FitsBuffer(frame)
  <2>1. latency \in Nat /\ latency <= 8 /\ MaxChunk \in Nat
    BY ChunkAssumption DEF MaxLatencyWords
  <2> QED BY <1>1, <1>3, <1>4, <2>1 DEF FitsBuffer, IoBufferLen, ReadHeaderLen, MaxLatencyWords
<1>6. ASSUME NEW k \in 1 .. frame.len
      PROVE  ReadLatency(config, FrameBytes(frame)[k]) = frame.latency
  <2>1. FrameBytes(frame)[k] = x + k - 1 BY DEF x, PieceFrame
  <2>2. x + k - 1 \in host .. host + size - 1 BY <1>1
  <2> QED BY <1>3, <2>1, <2>2 DEF OneLatency
<1> QED BY <1>3, <1>4, <1>5, <1>6 DEF ReadsRightly

(* The frames of read: word by word where the memory map names a latency,  *)
(* otherwise in frames like those of write, all with that latency.         *)
Words(config, latency)   == config.map /\ latency # 0
Most(config, latency)    == IF Words(config, latency) THEN WordLen ELSE MaxChunk
ReadFrame(config, words, x) ==
  IF words THEN x % AddressSpace ELSE WireAddress(config, x)

LEMMA ReadFramesAre ==
  ASSUME NEW host \in Nat, NEW size \in Nat \ {0}, host + size <= IncrementingBit,
         NEW config, NEW latency \in 0 .. MaxLatencyWords,
         OneLatency(config, host, size, latency)
  PROVE  LET frames == ReadFrames(config, host, size)
             most   == Most(config, latency)
             n      == Pieces(size, most)
         IN /\ most \in Nat \ {0} /\ most <= MaxChunk
            /\ n \in Nat /\ n # 0 /\ Len(frames) = n
            /\ \A i \in 1 .. n :
                 /\ frames[i].wire =
                      ReadFrame(config, Words(config, latency), host + most * (i - 1))
                 /\ frames[i].len = PieceLen(size, most, i)
                 /\ frames[i].latency = ReadLatency(config, host + most * (i - 1))
                 /\ frames[i].latency = latency
                 /\ frames[i].len \in 1 .. most /\ frames[i].len <= size
<1> DEFINE frames == ReadFrames(config, host, size)
           words  == Words(config, latency)
           most   == Most(config, latency)
           n      == Pieces(size, most)
<1>1. ReadLatency(config, host) = latency
  <2>1. host \in host .. host + size - 1 OBVIOUS
  <2> QED BY <2>1 DEF OneLatency
<1>2. most \in Nat \ {0} /\ most <= MaxChunk BY ChunkAssumption DEF WordLen, Most
<1>3. n \in Nat /\ n # 0 BY <1>2, PiecesRight
<1>4. frames = [i \in 1 .. n |->
                 Frame(ReadFrame(config, words, host + most * (i - 1)),
                       PieceLen(size, most, i), ReadLatency(config, host + most * (i - 1)))]
  <2>1. CASE words BY <1>1, <2>1 DEF ReadFrames, ReadFrame, Words, Most
  <2>2. CASE ~words BY <1>1, <2>2 DEF ReadFrames, ReadFrame, Words, Most
  <2> QED BY <2>1, <2>2
<1> HIDE DEF frames, words, most, n
<1>5. Len(frames) = n BY <1>3, <1>4
<1>6. ASSUME NEW i \in 1 .. n
      PROVE  /\ frames[i].wire = ReadFrame(config, words, host + most * (i - 1))
             /\ frames[i].len = PieceLen(size, most, i)
             /\ frames[i].latency = ReadLatency(config, host + most * (i - 1))
             /\ frames[i].latency = latency
             /\ frames[i].len \in 1 .. most /\ frames[i].len <= size
  <2> DEFINE x == host + most * (i - 1)
             l == PieceLen(size, most, i)
  <2>1. frames[i] = Frame(ReadFrame(config, words, x), l, ReadLatency(config, x))
    BY <1>4
  <2>2. l \in 1 .. most BY <1>2, PiecesRight DEF n
  <2>3. x \in Nat /\ l \in Nat /\ l > 0 /\ host <= x /\ x + l <= host + size
    BY <1>2, PieceThere DEF n
  <2> HIDE DEF x, l
  <2>4. /\ frames[i].wire = ReadFrame(config, words, x) /\ frames[i].len = l
        /\ frames[i].latency = ReadLatency(config, x)
    BY <2>1 DEF Frame
  <2>5. ReadLatency(config, x) = latency
    <3>1. x \in host .. host + size - 1 BY <2>3
    <3> QED BY <3>1 DEF OneLatency
  <2>6. l <= size BY <2>3
  <2> QED BY <2>2, <2>4, <2>5, <2>6 DEF x, l
<1> QED BY <1>2, <1>3, <1>5, <1>6 DEF frames, words, most, n

(* With the incrementing mask they move the bytes of the transfer and wait *)
(* for each.                                                               *)
Waiting(config, frames) ==
  \A j \in 1 .. Len(frames) : \A k \in 1 .. frames[j].len :
    ReadLatency(config, FrameBytes(frames[j])[k]) = frames[j].latency

LEMMA ReadMoves ==
  ASSUME NEW host \in Nat, NEW size \in Nat \ {0}, host + size <= IncrementingBit,
         NEW config, config.mask = {IncrementingBit}, NEW latency \in 0 .. MaxLatencyWords,
         OneLatency(config, host, size, latency)
  PROVE  /\ FramesExact(ReadFrames(config, host, size), host, size)
         /\ Waiting(config, ReadFrames(config, host, size))
<1> DEFINE frames == ReadFrames(config, host, size)
           words  == Words(config, latency)
           most   == Most(config, latency)
           n      == Pieces(size, most)
<1>1. /\ most \in Nat \ {0} /\ most <= MaxChunk
      /\ n \in Nat /\ n # 0 /\ Len(frames) = n
      /\ \A i \in 1 .. n :
           /\ frames[i].wire = ReadFrame(config, words, host + most * (i - 1))
           /\ frames[i].len = PieceLen(size, most, i)
           /\ frames[i].latency = ReadLatency(config, host + most * (i - 1))
           /\ frames[i].latency = latency
           /\ frames[i].len \in 1 .. most /\ frames[i].len <= size
  BY ReadFramesAre
<1>2. words => most = WordLen BY DEF Most
<1> HIDE DEF frames, words, most, n
<1>3. ASSUME NEW i \in 1 .. n PROVE PieceFrame(frames[i], config, host, size, most, i)
  <2> DEFINE x == host + most * (i - 1)
  <2>1. x \in Nat /\ x < IncrementingBit BY <1>1, PieceThere DEF n
  <2>2. frames[i].wire = ReadFrame(config, words, x) /\ frames[i].len \in 1 .. most
    BY <1>1
  <2>3. frames[i].len \in Nat BY <1>1, <2>2
  <2> HIDE DEF x
  <2>4. FrameBytes(frames[i]) = [j \in 1 .. frames[i].len |-> x + j - 1]
    <3>1. CASE words
      <4>1. frames[i].wire = x BY <2>1, <2>2, <3>1, WireRight DEF ReadFrame
      <4>2. frames[i].len \in 1 .. WordLen BY <1>2, <2>2, <3>1
      <4> QED BY <2>1, <4>1, <4>2, WordFrame
    <3>2. CASE ~words
      <4>1. frames[i].wire = x + IncrementingBit
        BY <2>1, <2>2, <3>2, WireRight DEF ReadFrame
      <4> QED BY <2>1, <2>3, <4>1, IncrementingFrame
    <3> QED BY <3>1, <3>2
  <2> QED BY <1>1, <2>4 DEF x, PieceFrame
<1>4. FramesExact(frames, host, size)
  BY <1>1, <1>3, PiecesMove DEF PieceFrame, n
<1>5. ASSUME NEW j \in 1 .. n PROVE ReadsRightly(config, frames[j], most)
  <2>1. size \in Nat OBVIOUS
  <2> QED BY <1>1, <1>3, <2>1, PieceReads DEF n
<1>6. Waiting(config, frames) BY <1>1, <1>5 DEF ReadsRightly, Waiting
<1> QED BY <1>4, <1>6 DEF frames

(* Without a mask, frames move the bytes of a transfer only if it is one   *)
(* word: a longer frame repeats its first word.                            *)
LEMMA PlainExact ==
  ASSUME NEW host \in Nat, NEW size \in Nat \ {0}, host + size <= IncrementingBit,
         NEW frames, Len(frames) = Pieces(size, MaxChunk),
         \A i \in 1 .. Pieces(size, MaxChunk) :
           /\ frames[i].wire = host + MaxChunk * (i - 1)
           /\ frames[i].len = PieceLen(size, MaxChunk, i)
  PROVE  FramesExact(frames, host, size) <=> size <= WordLen
<1> DEFINE n == Pieces(size, MaxChunk)
<1>1. MaxChunk \in Nat \ {0} /\ MaxChunk > 4 BY ChunkAssumption
<1>2. n \in Nat /\ n # 0 BY <1>1, PiecesRight
<1>3. ASSUME size <= WordLen PROVE FramesExact(frames, host, size)
  <2>1. ASSUME NEW i \in 1 .. n
        PROVE  FrameBytes(frames[i]) =
                 [j \in 1 .. frames[i].len |-> (host + MaxChunk * (i - 1)) + j - 1]
    <3> DEFINE x == host + MaxChunk * (i - 1)
               l == PieceLen(size, MaxChunk, i)
    <3>1. /\ x \in Nat /\ x < IncrementingBit /\ l \in Nat /\ l > 0 /\ host <= x
          /\ x + l <= host + size
      BY <1>1, PieceThere
    <3>2. frames[i].wire = x /\ frames[i].len = l OBVIOUS
    <3> HIDE DEF x, l
    <3>3. l \in 1 .. WordLen BY <1>3, <3>1 DEF WordLen
    <3> QED BY <3>1, <3>2, <3>3, WordFrame DEF x
  <2> QED BY <1>1, <2>1, PiecesMove
<1>4. ASSUME size > WordLen PROVE ~FramesExact(frames, host, size)
  <2> DEFINE l == PieceLen(size, MaxChunk, 1)
             bytes == FrameBytes(frames[1])
  <2>1. MaxChunk * (1 - 1) = 0 BY <1>1
  <2>2. 1 \in 1 .. n BY <1>2
  <2>3. frames[1].wire = host /\ frames[1].len = l BY <2>1, <2>2
  <2>4. l \in Nat /\ l > 4 BY <1>1, <1>4, <2>1 DEF PieceLen, WordLen
  <2>5. host < IncrementingBit
    <3>1. IncrementingBit \in Nat BY SMT DEF IncrementingBit
    <3> QED BY <3>1
  <2> HIDE DEF l
  <2>6. bytes = [j \in 1 .. l |-> host + ((j - 1) % WordLen)]
    BY <2>3, <2>4, <2>5, PlainFrame
  <2> HIDE DEF bytes
  <2>7. 1 \in 1 .. l /\ 5 \in 1 .. l BY <2>4
  <2>8. bytes[1] = host /\ bytes[5] = host BY <2>6, <2>7 DEF WordLen
  <2> SUFFICES ASSUME FramesExact(frames, host, size) PROVE FALSE OBVIOUS
  <2>9. bytes = [j \in 1 .. l |-> bytes[1] + j - 1]
    BY <2>2, <2>3 DEF FramesExact, bytes
  <2>10. bytes[5] = host + 5 - 1 BY <2>7, <2>8, <2>9
  <2> QED BY <2>8, <2>10
<1> QED BY <1>3, <1>4 DEF WordLen

(* What SpiConfig can be *)
LEMMA ConfigCases ==
  ASSUME NEW config \in Configs
  PROVE  \/ config.map = FALSE /\ config.latency \in 0 .. MaxLatencyWords
         \/ config.map = TRUE /\ config.latency = 0 /\ config.mask = {IncrementingBit}
<1> DEFINE Chosen == [mask : SUBSET Weights, map : {FALSE}, latency : 0 .. MaxLatencyWords]
<1>1. CASE config \in Chosen
  <2>1. config.map \in {FALSE} /\ config.latency \in 0 .. MaxLatencyWords BY <1>1
  <2> QED BY <2>1, Zenon
<1>2. CASE config = NordicMemoryMap
  BY <1>2 DEF NordicMemoryMap
<1> QED BY <1>1, <1>2 DEF Configs

(* All of it: the frames of a transfer whose bytes have one latency *)
LEMMA FramesAreRight ==
  ASSUME NEW t, t.host \in Nat, t.size \in Nat \ {0}, t.host + t.size <= IncrementingBit,
         NEW config \in Configs, NEW latency \in 0 .. MaxLatencyWords,
         OneLatency(config, t.host, t.size, latency)
  PROVE  FramesRight(config, t)
<1> DEFINE host   == t.host
           size   == t.size
           writes == WriteFrames(config, host, size)
           reads  == ReadFrames(config, host, size)
           most   == Most(config, latency)
           n      == Pieces(size, most)
<1> HIDE DEF host, size
<1>1. /\ host \in Nat /\ size \in Nat \ {0} /\ host + size <= IncrementingBit
      /\ OneLatency(config, host, size, latency)
  BY DEF host, size
<1>2. /\ most \in Nat \ {0} /\ most <= MaxChunk
      /\ n \in Nat /\ n # 0 /\ Len(reads) = n
      /\ \A i \in 1 .. n :
           /\ reads[i].wire = ReadFrame(config, Words(config, latency), host + most * (i - 1))
           /\ reads[i].len = PieceLen(size, most, i)
           /\ reads[i].latency = latency
           /\ reads[i].len \in 1 .. most /\ reads[i].len <= size
  BY <1>1, ReadFramesAre
<1>3. \/ config.map = FALSE /\ config.latency \in 0 .. MaxLatencyWords
      \/ config.map = TRUE /\ config.latency = 0 /\ config.mask = {IncrementingBit}
  BY ConfigCases
<1>4. MaxChunk \in Nat /\ MaxChunk > 4 BY ChunkAssumption
<1>5. ASSUME NEW j \in 1 .. Len(reads) PROVE FitsBuffer(reads[j])
  <2>1. reads[j].len \in Nat /\ reads[j].len <= MaxChunk /\ reads[j].latency = latency
    BY <1>2, <1>4
  <2>2. latency \in Nat /\ latency <= 8 BY DEF MaxLatencyWords
  <2> QED BY <1>4, <2>1, <2>2 DEF FitsBuffer, IoBufferLen, ReadHeaderLen, MaxLatencyWords
<1>6. ASSUME config.mask = {IncrementingBit}
      PROVE  /\ FramesExact(writes, host, size) /\ FramesExact(reads, host, size)
             /\ Waiting(config, reads)
  <2>1. size \in Nat BY <1>1
  <2>2. FramesExact(writes, host, size) BY <1>1, <1>6, <2>1, WriteMoves
  <2>3. FramesExact(reads, host, size) /\ Waiting(config, reads)
    BY <1>1, <1>6, ReadMoves
  <2> QED BY <2>2, <2>3
<1>7. ASSUME config.mask = {}
      PROVE  /\ FramesExact(writes, host, size) <=> size <= WordLen
             /\ FramesExact(reads, host, size) <=> size <= WordLen
  <2>1. config.map = FALSE BY <1>3, <1>7
  <2>2. ~Words(config, latency) /\ most = MaxChunk BY <2>1 DEF Words, Most
  <2> HIDE DEF writes, reads, most
  <2>3. ASSUME NEW i \in 1 .. Pieces(size, MaxChunk)
        PROVE  /\ writes[i].wire = host + MaxChunk * (i - 1)
               /\ writes[i].len = PieceLen(size, MaxChunk, i)
               /\ reads[i].wire = host + MaxChunk * (i - 1)
               /\ reads[i].len = PieceLen(size, MaxChunk, i)
    <3> DEFINE x == host + MaxChunk * (i - 1)
    <3>1. x \in Nat /\ x < IncrementingBit
      <4>1. MaxChunk \in Nat \ {0} /\ size \in Nat BY <1>1, <1>4
      <4> QED BY <1>1, <4>1, PieceThere
    <3>2. /\ writes[i] = Frame(WireAddress(config, x), PieceLen(size, MaxChunk, i), 0)
          /\ reads[i].wire = ReadFrame(config, Words(config, latency), x)
          /\ reads[i].len = PieceLen(size, MaxChunk, i)
      <4>1. writes[i] = Frame(WireAddress(config, x), PieceLen(size, MaxChunk, i), 0)
        BY DEF WriteFrames, writes
      <4> QED BY <1>2, <2>2, <4>1, Zenon
    <3> HIDE DEF x
    <3>3. WireAddress(config, x) = x BY <1>7, <3>1, WireRight
    <3>4. /\ writes[i].wire = x /\ writes[i].len = PieceLen(size, MaxChunk, i)
          /\ reads[i].wire = x
      BY <2>2, <3>2, <3>3 DEF Frame, ReadFrame
    <3> QED BY <3>2, <3>4 DEF x
  <2>4. Len(writes) = Pieces(size, MaxChunk) /\ Len(reads) = Pieces(size, MaxChunk)
    <3>1. Pieces(size, MaxChunk) \in Nat BY <1>2, <2>2
    <3> QED BY <1>2, <2>2, <3>1 DEF WriteFrames, writes
  <2> QED BY <1>1, <2>3, <2>4, PlainExact
<1>8. KeepsWordRule(reads) <=> config.latency = 0 \/ size <= WordLen
  <2> HIDE DEF reads
  <2>1. CASE config.map = TRUE
    <3>1. latency # 0 => most = WordLen BY <2>1 DEF Words, Most
    <3> HIDE DEF most, n
    <3>2. \A j \in 1 .. Len(reads) : reads[j].latency # 0 => reads[j].len <= WordLen
      BY <1>2, <3>1 DEF WordLen
    <3> QED BY <1>3, <2>1, <3>2 DEF KeepsWordRule
  <2>2. CASE config.map = FALSE
    <3>1. latency = config.latency
      <4>1. host \in host .. host + size - 1 BY <1>1
      <4>2. ReadLatency(config, host) = latency BY <1>1, <4>1 DEF OneLatency
      <4> QED BY <2>2, <4>2 DEF ReadLatency
    <3>2. most = MaxChunk BY <2>2 DEF Words, Most
    <3>3. CASE latency = 0 BY <1>2, <3>1, <3>3 DEF KeepsWordRule
    <3>4. CASE size <= WordLen
      <4> HIDE DEF most, n
      <4>1. \A j \in 1 .. n : reads[j].len <= WordLen BY <1>1, <1>2, <3>4 DEF WordLen
      <4> QED BY <1>2, <3>4, <4>1 DEF KeepsWordRule
    <3>5. CASE latency # 0 /\ ~(size <= WordLen)
      <4>1. MaxChunk * (1 - 1) = 0 BY <1>4
      <4>2. PieceLen(size, MaxChunk, 1) > 4 BY <1>1, <1>4, <3>5, <4>1 DEF PieceLen, WordLen
      <4> HIDE DEF most, n
      <4>3. 1 \in 1 .. Len(reads) BY <1>2
      <4>4. reads[1].latency = latency /\ reads[1].len = PieceLen(size, MaxChunk, 1)
            /\ reads[1].len \in Nat
        BY <1>2, <3>2, <4>3
      <4>5. ~(reads[1].len <= WordLen) BY <4>2, <4>4 DEF WordLen
      <4>6. ~KeepsWordRule(reads) BY <3>5, <4>3, <4>4, <4>5 DEF KeepsWordRule
      <4> QED BY <3>1, <3>5, <4>6
    <3> QED BY <3>3, <3>4, <3>5
  <2> QED BY <1>3, <2>1, <2>2
<1> HIDE DEF writes, reads
<1>9. /\ \A j \in 1 .. Len(reads) : FitsBuffer(reads[j])
      /\ config.mask = {IncrementingBit} =>
           /\ FramesExact(writes, host, size) /\ FramesExact(reads, host, size)
           /\ \A j \in 1 .. Len(reads) : \A k \in 1 .. reads[j].len :
                ReadLatency(config, FrameBytes(reads[j])[k]) = reads[j].latency
      /\ config.mask = {} =>
           (FramesExact(writes, host, size) /\ FramesExact(reads, host, size)
              <=> size <= WordLen)
      /\ KeepsWordRule(reads) <=> config.latency = 0 \/ size <= WordLen
  BY <1>5, <1>6, <1>7, <1>8 DEF Waiting
<1> QED BY <1>9, Zenon DEF FramesRight, writes, reads, host, size

-----------------------------------------------------------------------------
(* The transfers of an access *)

(* The words of an indirect write are the bytes of its range. *)
LEMMA IndirectRight ==
  ASSUME NEW a, a.low \in Nat, NEW n \in Nat, ValidateIndirect(a, n) = "ok"
  PROVE  IndirectBytes(a, n) = [i \in 1 .. n |-> a.low + i - 1]
<1>1. a.low % 4 = 0 /\ n % 4 = 0 BY DEF ValidateIndirect
<1>2. 4 * (n \div 4) = n BY <1>1
<1>3. ASSUME NEW i \in 1 .. n
      PROVE  4 * ((a.low \div 4) + ((i - 1) \div 4)) + ((i - 1) % 4) = a.low + i - 1
  <2> DEFINE u == a.low \div 4
             v == (i - 1) \div 4
  <2>1. u \in Int /\ 4 * u = a.low BY <1>1
  <2>2. v \in Int /\ 4 * v + ((i - 1) % 4) = i - 1
    <3> DEFINE j == i - 1
    <3>1. j \in Nat OBVIOUS
    <3> HIDE DEF j
    <3>2. j \div 4 \in Int /\ 4 * (j \div 4) + (j % 4) = j BY <3>1
    <3> QED BY <3>2 DEF j
  <2>3. (i - 1) % 4 \in Int OBVIOUS
  <2> HIDE DEF u, v
  <2>4. 4 * (u + v) + ((i - 1) % 4) = a.low + i - 1 BY <2>1, <2>2, <2>3
  <2> QED BY <2>4 DEF u, v
<1> QED BY <1>2, <1>3 DEF IndirectBytes

(* An empty slice makes no transfer. *)
LEMMA NoTransfer == Count(0) = 0
<1>1. Count(0) \in Nat BY FirstTransfer
<1>2. Count(0) # 0 => 1 \in 1 .. Count(0) BY <1>1
<1>3. 1 \in 1 .. Count(0) => FALSE
  BY TransfersRight
<1> QED BY <1>1, <1>2, <1>3

(* The transfers of n bytes follow one another on the bus, from first on,  *)
(* and in the slice.                                                       *)
Follow(ts, first, n) ==
  /\ InOrder(ts, first, Align4(n))
  /\ \A i \in 1 .. Len(ts) :
       /\ ts[i].host = first + ts[i].from
       /\ ts[i].from \in Nat /\ ts[i].size \in Nat /\ ts[i].size > 0
       /\ ts[i].from + ts[i].size <= Align4(n)
       /\ ts[i].from + ts[i].data = IF i = Len(ts) THEN n ELSE ts[i + 1].from

(* They do, when the range is consecutive on the bus. *)
LEMMA TransfersInOrder ==
  ASSUME NEW p, NEW a, NEW n \in Nat, NEW first \in Nat,
         Consecutive(p, a, Align4(n), first)
  PROVE  Follow(Transfers(p, a, n), first, n)
<1> DEFINE ts == Transfers(p, a, n)
           c == Count(n)
<1>1. c \in Nat /\ (IF 1 <= c THEN From(n, 1) = 0 ELSE n = 0) BY FirstTransfer
<1>2. ts = [i \in 1 .. c |->
              [host |-> HostOffset(p, Advance(a, From(n, i))),
               from |-> From(n, i), data |-> Data(n, i), size |-> Align4(Data(n, i))]]
  BY TransfersAre
<1>3. Len(ts) = c /\ (ts = <<>> <=> c = 0)
  <2> HIDE DEF c, ts
  <2> QED BY <1>1, <1>2
<1>4. Align4(n) \in Nat BY AlignRight
<1> HIDE DEF ts
<1>5. ASSUME NEW i \in 1 .. c
      PROVE  /\ ts[i].from = From(n, i) /\ ts[i].data = Data(n, i)
             /\ ts[i].size = Align4(Data(n, i))
             /\ ts[i].host = HostOffset(p, Advance(a, From(n, i)))
  BY <1>2
<1>6. ASSUME NEW i \in 1 .. c
      PROVE  /\ From(n, i) \in Nat /\ ts[i].size \in Nat /\ ts[i].size > 0
             /\ ts[i].host = first + From(n, i)
             /\ From(n, i) + ts[i].size <= Align4(n)
             /\ From(n, i) + ts[i].size = IF i = c THEN Align4(n) ELSE From(n, i + 1)
             /\ From(n, i) + ts[i].data = IF i = c THEN n ELSE From(n, i + 1)
  <2>1. /\ From(n, i) \in Nat /\ Data(n, i) \in Nat /\ Data(n, i) > 0
        /\ From(n, i) + Data(n, i) = IF i = c THEN n ELSE From(n, i + 1)
        /\ From(n, i) + Align4(Data(n, i)) <= Align4(n)
        /\ From(n, i) + Align4(Data(n, i)) = IF i = c THEN Align4(n) ELSE From(n, i + 1)
    BY TransfersRight
  <2>2. Align4(Data(n, i)) \in Nat /\ Align4(Data(n, i)) > 0
    BY <2>1, AlignRight
  <2>3. From(n, i) \in 0 .. Align4(n) - 1 BY <1>4, <2>1, <2>2
  <2>4. HostOffset(p, Advance(a, From(n, i))) = first + From(n, i) BY <2>3 DEF Consecutive
  <2> QED BY <1>5, <2>1, <2>2, <2>4
<1> HIDE DEF c
<1>7. ASSUME NEW i \in 1 .. c
      PROVE  ts[i].host = IF i = 1 THEN first ELSE ts[i - 1].host + ts[i - 1].size
  <2>1. CASE i = 1 BY <1>1, <1>6, <2>1
  <2>2. CASE i # 1
    <3>1. i - 1 \in 1 .. c /\ i - 1 # c /\ (i - 1) + 1 = i BY <1>1, <2>2
    <3>2. From(n, i - 1) + ts[i - 1].size = From(n, i) BY <1>6, <3>1
    <3> QED BY <1>6, <2>2, <3>1, <3>2
  <2> QED BY <2>1, <2>2
<1>8. Align4(n) = IF ts = <<>> THEN 0 ELSE ts[c].host + ts[c].size - first
  <2>1. CASE c = 0
    <3>1. n = 0 BY <1>1, <2>1
    <3> QED BY <1>3, <2>1, <3>1 DEF Align4
  <2>2. CASE c # 0
    <3>1. c \in 1 .. c BY <1>1, <2>2
    <3> QED BY <1>3, <1>4, <1>6, <2>2, <3>1
  <2> QED BY <2>1, <2>2
<1>9. InOrder(ts, first, Align4(n))
  BY <1>3, <1>6, <1>7, <1>8 DEF InOrder
<1>10. ASSUME NEW i \in 1 .. c
       PROVE  /\ ts[i].host = first + ts[i].from
              /\ ts[i].from \in Nat /\ ts[i].size \in Nat /\ ts[i].size > 0
              /\ ts[i].from + ts[i].size <= Align4(n)
              /\ ts[i].from + ts[i].data = IF i = c THEN n ELSE ts[i + 1].from
  <2>1. ts[i].from = From(n, i) /\ (i # c => ts[i + 1].from = From(n, i + 1))
    <3>1. i # c => i + 1 \in 1 .. c BY <1>1
    <3> QED BY <1>5, <3>1
  <2> QED BY <1>6, <2>1
<1> QED BY <1>3, <1>9, <1>10 DEF ts, Follow

(* The latency of a region, as read finds it *)
LEMMA RegionReads ==
  ASSUME NEW p \in Processors, NEW r \in Regions(p), NEW config \in Configs
  PROVE  \E latency \in 0 .. MaxLatencyWords :
           \A h \in r.base + r.first .. r.base + r.last : ReadLatency(config, h) = latency
<1>1. PICK w \in 0 .. 2 : \A h \in r.base + r.first .. r.base + r.last : MapLatency(h) = w
  BY RegionLatency
<1>2. ASSUME NEW h \in r.base + r.first .. r.base + r.last
      PROVE  ClearBits(h, {IncrementingBit}) = h
  <2>1. /\ r.first \in Nat /\ r.last \in Nat /\ r.base \in Nat
        /\ r.base + r.last < IncrementingBit /\ IncrementingBit \in Nat
    BY RegionEnds, SMT DEF IncrementingBit
  <2>2. h \in Nat /\ h < IncrementingBit BY <2>1
  <2> QED BY <2>2, MaskBits
<1>3. CASE config.map = TRUE /\ config.mask = {IncrementingBit}
  <2>1. w \in 0 .. MaxLatencyWords BY DEF MaxLatencyWords
  <2> QED BY <1>1, <1>2, <1>3, <2>1 DEF ReadLatency
<1>4. CASE config.map = FALSE /\ config.latency \in 0 .. MaxLatencyWords
  BY <1>4 DEF ReadLatency
<1> QED BY <1>3, <1>4, ConfigCases

(* Behind a region is a hole of more than two chunks. *)
LEMMA HoleBehind ==
  ASSUME NEW p \in Processors, NEW r \in Regions(p), NEW q \in Regions(p), r.top = q.top
  PROVE  (q.first > r.last + 8192 \/ q.last <= r.last) /\ r.last + 8192 < LowBits
<1>1. RegionIs(p, r) /\ RegionIs(p, q) BY RegionNumbers
<1> QED BY <1>1, SMT DEF RegionIs, LowBits

(* The two ends of an accepted range are in memory under one top byte, as  *)
(* far from each other as the range is long.                               *)
LEMMA AcceptedEnds ==
  ASSUME NEW p \in Processors, NEW top \in Nat, NEW low \in Nat, low < LowBits,
         NEW m \in Nat \ {0}, CheckedRange(p, Address(top, low), m) = "ok"
  PROVE  \E r, q \in Regions(p) :
           /\ r.top = top /\ q.top = top
           /\ r.first <= low /\ low <= r.last
           /\ q.first <= low + m - 1 /\ low + m - 1 <= q.last
<1> DEFINE a   == Address(top, low)
           e   == low + (m - 1)
           end == Advance(a, m - 1)
<1>1. /\ Mapped(p, a) /\ Mapped(p, end)
      /\ HostOffset(p, end) - HostOffset(p, a) = m - 1
  BY DEF CheckedRange
<1>2. PICK r \in Regions(p) : Holds(r, a) BY <1>1 DEF Mapped
<1>3. PICK q \in Regions(p) : Holds(q, end) BY <1>1 DEF Mapped
<1>4. /\ r.first \in Nat /\ r.last \in Nat /\ r.base \in Nat /\ r.base + r.last < IncrementingBit
      /\ q.first \in Nat /\ q.last \in Nat /\ q.base \in Nat /\ q.base + q.last < IncrementingBit
  BY RegionEnds
<1>5. a.top = top /\ a.low = low /\ end.top = top + (e \div LowBits) /\ end.low = e % LowBits
  BY DEF Address, Advance
<1>6. HostOffset(p, a) = r.base + low /\ HostOffset(p, end) = q.base + (e % LowBits)
  BY <1>2, <1>3, <1>5, HostOffsetIn
<1> DEFINE d == e \div LowBits
           l == e % LowBits
<1>7. e \in Nat /\ e = low + (m - 1) OBVIOUS
<1> HIDE DEF e
<1>8. d \in Nat /\ l \in Nat /\ e = 16777216 * d + l
  BY <1>7, SMT DEF LowBits
<1>9. (q.base + l) - (r.base + low) = m - 1 BY <1>1, <1>6
<1> HIDE DEF d, l, end, a
<1>10. q.base - r.base = 16777216 * d
  <2> DEFINE y == 16777216 * d
  <2>1. y \in Nat /\ e = y + l BY <1>8, SMT
  <2> HIDE DEF y
  <2>2. q.base - r.base = y
    <3>1. q.base \in Nat /\ r.base \in Nat BY <1>4
    <3>2. l \in Nat BY <1>8
    <3>3. y + l = low + (m - 1) BY <1>7, <2>1
    <3> QED BY <1>9, <2>1, <3>1, <3>2, <3>3, SMT
  <2> QED BY <2>2 DEF y
<1>11. d = 0
  <2>1. q.base < 8388608 BY <1>4, SMT DEF IncrementingBit
  <2> QED BY <1>4, <1>8, <1>10, <2>1, SMT
<1>12. end.top = top /\ end.low = low + m - 1 BY <1>5, <1>7, <1>8, <1>11 DEF d, l
<1>13. r.top = top /\ r.first <= low /\ low <= r.last BY <1>2, <1>4, <1>5 DEF Holds
<1>14. q.top = top /\ q.first <= low + m - 1 /\ low + m - 1 <= q.last
  BY <1>3, <1>4, <1>12 DEF Holds
<1> QED BY <1>13, <1>14

(* An accepted range that is not all in memory ends with an error: a chunk *)
(* begins in the hole behind the region of its first byte.                 *)
LEMMA HoleFails ==
  ASSUME NEW p \in Processors, NEW top \in Nat, NEW low \in Nat, low < LowBits,
         NEW n \in Nat, ValidateAccess(p, Address(top, low), n) = "ok",
         ~InMemory(p, Address(top, low), Align4(n))
  PROVE  ~Reached(p, Address(top, low), n, Len(Transfers(p, Address(top, low), n)))
<1> DEFINE a == Address(top, low)
           m == Align4(n)
           ts == Transfers(p, a, n)
<1>1. m \in Nat BY AlignRight
<1>2. m # 0 BY <1>1 DEF InMemory
<1>3. CheckedRange(p, a, m) = "ok" BY DEF ValidateAccess
<1>4. LowBits \in Nat BY LowBitsNat
<1> HIDE DEF m, ts
<1>5. PICK r, q \in Regions(p) :
        /\ r.top = top /\ q.top = top
        /\ r.first <= low /\ low <= r.last
        /\ q.first <= low + m - 1 /\ low + m - 1 <= q.last
  BY <1>1, <1>2, <1>3, AcceptedEnds
<1>6. /\ r.first \in Nat /\ r.last \in Nat /\ q.first \in Nat /\ q.last \in Nat
      /\ r.last + 8192 < LowBits
  BY <1>5, RegionEnds, HoleBehind
<1>7. low + m - 1 > r.last
  <2> SUFFICES ASSUME low + m - 1 <= r.last PROVE FALSE BY <1>1, <1>6
  <2>1. ASSUME NEW b \in 0 .. m - 1 PROVE Mapped(p, Advance(a, b))
    <3>1. b \in Nat /\ low + b \in Nat /\ low + b <= r.last /\ low + b < LowBits
      BY <1>1, <1>4, <1>6
    <3>2. Advance(a, b) = Address(top, low + b) BY <3>1, AdvanceWithin
    <3>3. Holds(r, Address(top, low + b)) BY <1>5, <1>6, <3>1 DEF Holds, Address
    <3> QED BY <3>2, <3>3 DEF Mapped
  <2> QED BY <2>1 DEF InMemory, m
<1>8. q.first > r.last + 8192
  <2>1. q.first > r.last + 8192 \/ q.last <= r.last BY <1>5, HoleBehind
  <2> QED BY <1>1, <1>5, <1>6, <1>7, <2>1
<1>9. MaxChunk \in Nat /\ MaxChunk > 0 /\ MaxChunk <= 4096 BY ChunkAssumption
<1> DEFINE g == r.last - low
           k == g \div MaxChunk
           b == (k + 1) * MaxChunk
<1>10. g \in Nat BY <1>5, <1>6
<1>11. k \in Nat /\ b \in Nat /\ g < b /\ b <= g + MaxChunk
  <2> HIDE DEF g
  <2>1. k \in Nat /\ g % MaxChunk \in Nat /\ g % MaxChunk < MaxChunk
        /\ g = MaxChunk * k + (g % MaxChunk)
    BY <1>9, <1>10
  <2> HIDE DEF k
  <2>2. b = MaxChunk * k + MaxChunk /\ MaxChunk * k \in Nat BY <1>9, <2>1
  <2> HIDE DEF b
  <2> DEFINE y == MaxChunk * k
             z == g % MaxChunk
  <2>3. y \in Nat /\ z \in Nat /\ z < MaxChunk /\ g = y + z /\ b = y + MaxChunk BY <2>1, <2>2
  <2> HIDE DEF y, z
  <2> QED BY <1>9, <2>1, <2>3
<1> HIDE DEF k, b
<1>12. low + b > r.last /\ low + b <= r.last + 4096 /\ low + b < LowBits
  BY <1>4, <1>6, <1>9, <1>10, <1>11
<1>13. b < Whole(n)
  <2>1. Whole(n) \in Nat /\ m <= Whole(n) + 4
    <3>1. Whole(n) \in Nat /\ m = IF n = Whole(n) THEN Whole(n) ELSE Whole(n) + 4
      BY WholeWords DEF m
    <3> HIDE DEF m
    <3> QED BY <3>1
  <2> QED BY <1>1, <1>5, <1>6, <1>8, <1>12, <1>11, <2>1
<1>14. k + 2 <= Chunks(n)
  <2>1. Chunks(n) \in Nat /\ Whole(n) <= Chunks(n) * MaxChunk /\ Whole(n) \in Nat
    BY ChunksRight, WholeWords
  <2> SUFFICES ASSUME Chunks(n) <= k + 1 PROVE FALSE BY <1>11, <2>1
  <2>2. k + 1 \in Nat BY <1>11
  <2>3. Chunks(n) * MaxChunk <= (k + 1) * MaxChunk /\ Chunks(n) * MaxChunk \in Nat
    BY <1>9, <2>1, <2>2, Times
  <2> DEFINE c == Chunks(n) * MaxChunk
  <2>4. c <= b /\ c \in Nat /\ Whole(n) <= c BY <2>1, <2>3 DEF b
  <2> HIDE DEF c
  <2> QED BY <1>11, <1>13, <2>1, <2>4
<1>15. k + 2 \in 1 .. Count(n) /\ From(n, k + 2) = b
  <2>1. Chunks(n) \in Nat BY ChunksRight
  <2>2. Count(n) >= Chunks(n) /\ Count(n) \in Nat BY <2>1 DEF Count
  <2>3. (k + 2) - 1 = k + 1 BY <1>11
  <2> QED BY <1>11, <1>14, <2>1, <2>2, <2>3 DEF From, b
<1>16. ~Mapped(p, Address(top, low + b))
  <2> SUFFICES ASSUME NEW s \in Regions(p), Holds(s, Address(top, low + b)) PROVE FALSE
    BY DEF Mapped
  <2>1. s.first \in Nat /\ s.last \in Nat BY RegionEnds
  <2>2. s.top = r.top /\ s.first <= low + b /\ low + b <= s.last
    BY <1>5, <2>1 DEF Holds, Address
  <2>3. s.first > r.last + 8192 \/ s.last <= r.last BY <2>2, HoleBehind
  <2> QED BY <1>6, <1>11, <1>12, <2>1, <2>2, <2>3
<1>17. Advance(a, b) = Address(top, low + b) BY <1>11, <1>12, AdvanceWithin
<1>18. ts[k + 2].host = Unmapped
  <2>1. ts[k + 2].host = HostOffset(p, Advance(a, From(n, k + 2)))
    BY <1>15, TransfersAre DEF ts
  <2> QED BY <1>15, <1>16, <1>17, <2>1 DEF HostOffset
<1>19. Len(ts) = Count(n) /\ k + 2 <= Count(n)
  <2>1. Count(n) \in Nat BY FirstTransfer
  <2> QED BY <1>15, <2>1, TransfersAre DEF ts
<1> QED BY <1>15, <1>18, <1>19 DEF Reached, ts

(* TransfersExact is a fact about every access. *)
LEMMA AccessExact == ASSUME input.access \in AccessType PROVE TransfersExact
<1> DEFINE x == input.access
           ts == Transfers(x.p, x.a, x.len)
           Host(i) == HostOffset(x.p, Advance(x.a, i))
           m == Align4(x.len)
<1>1. /\ x.p \in Processors /\ x.len \in Nat /\ x.spi \in Configs
      /\ x.a.top \in Nat /\ x.a.low \in Nat /\ x.a.low < LowBits
      /\ x.a = Address(x.a.top, x.a.low)
  <2>1. /\ x.p \in Processors /\ x.len \in Nat /\ x.spi \in Configs
        /\ x.a \in [top : 0 .. 255, low : 0 .. LowBits - 1]
    BY DEF AccessType
  <2>2. x.a.top \in 0 .. 255 /\ x.a.low \in 0 .. LowBits - 1
        /\ x.a = [top |-> x.a.top, low |-> x.a.low]
    BY <2>1
  <2> QED BY <2>1, <2>2, LowBitsNat DEF Address
<1>2. m \in Nat /\ x.len <= m BY <1>1, AlignRight
<1> HIDE DEF x
<1>3. ASSUME m # 0, InMemory(x.p, x.a, m) PROVE AccessRight(x)
  <2>1. m \in Nat \ {0} BY <1>2, <1>3
  <2>2. PICK r \in Regions(x.p) :
          /\ r.first <= x.a.low /\ x.a.low + m - 1 <= r.last
          /\ Consecutive(x.p, x.a, m, r.base + x.a.low)
    <3>1. InMemory(x.p, Address(x.a.top, x.a.low), m) BY <1>1, <1>3
    <3> HIDE DEF m
    <3> QED BY <1>1, <2>1, <3>1, OneRegion
  <2>3. r.first \in Nat /\ r.last \in Nat /\ r.base \in Nat /\ r.base + r.last < IncrementingBit
    BY <1>1, RegionEnds
  <2> DEFINE first == r.base + x.a.low
  <2> HIDE DEF m
  <2>4. first \in Nat BY <1>1, <2>3
  <2>5. \A b \in 0 .. m - 1 : Host(b) = first + b BY <2>2 DEF Consecutive
  <2>6. Host(0) = first
    <3>1. 0 \in 0 .. m - 1 BY <2>1
    <3> QED BY <2>4, <2>5, <3>1
  <2>7. r.base + r.first <= first /\ first + m <= r.base + r.last + 1
    BY <1>1, <2>1, <2>2, <2>3
  <2>8. PICK latency \in 0 .. MaxLatencyWords :
          \A h \in r.base + r.first .. r.base + r.last : ReadLatency(x.spi, h) = latency
    BY <1>1, RegionReads
  <2> HIDE DEF first, ts
  <2>9. /\ InOrder(ts, first, m)
        /\ \A i \in 1 .. Len(ts) :
              /\ ts[i].host = first + ts[i].from
              /\ ts[i].from \in Nat /\ ts[i].size \in Nat /\ ts[i].size > 0
              /\ ts[i].from + ts[i].size <= m
              /\ ts[i].from + ts[i].data = IF i = Len(ts) THEN x.len ELSE ts[i + 1].from
    <3>1. Consecutive(x.p, x.a, Align4(x.len), first) BY <2>2 DEF first, m
    <3>2. Follow(ts, first, x.len) BY <1>1, <2>4, <3>1, TransfersInOrder DEF ts
    <3> QED BY <3>2 DEF Follow, m
  <2>10. ASSUME NEW i \in 1 .. Len(ts) PROVE FramesRight(x.spi, ts[i])
    <3> DEFINE host == ts[i].host
               size == ts[i].size
    <3>1. IncrementingBit \in Nat BY SMT DEF IncrementingBit
    <3>2. /\ host \in Nat /\ size \in Nat \ {0} /\ host + size <= IncrementingBit
          /\ r.base + r.first <= host /\ host + size <= r.base + r.last + 1
      <4> DEFINE from == ts[i].from
      <4>1. /\ host = first + from /\ from \in Nat /\ size \in Nat /\ size > 0
            /\ from + size <= m
        BY <2>9
      <4> HIDE DEF from, host, size
      <4> QED BY <2>1, <2>3, <2>4, <2>7, <3>1, <4>1
    <3> HIDE DEF host, size
    <3>3. OneLatency(x.spi, host, size, latency)
      BY <2>3, <2>8, <3>2 DEF OneLatency
    <3> QED BY <1>1, <3>2, <3>3, FramesAreRight DEF host, size
  <2>11. \A i \in 0 .. x.len - 1 : Host(i) = Host(0) + i
    BY <1>1, <1>2, <2>5, <2>6
  <2>12. /\ InOrder(ts, Host(0), m)
         /\ \A i \in 1 .. Len(ts) :
              /\ ts[i].host = Host(0) + ts[i].from
              /\ ts[i].from + ts[i].data = IF i = Len(ts) THEN x.len ELSE ts[i + 1].from
              /\ FramesRight(x.spi, ts[i])
    BY <2>6, <2>9, <2>10
  <2> QED BY <2>11, <2>12, Zenon DEF AccessRight, ts, m
<1>4. ASSUME m = 0 PROVE AccessRight(x)
  <2>1. x.len = 0 BY <1>1, <1>2, <1>4
  <2>2. ts = <<>> BY <2>1, NoTransfer, TransfersAre
  <2>3. InOrder(ts, Host(0), m) /\ Len(ts) = 0 BY <1>4, <2>2 DEF InOrder
  <2>4. 0 .. x.len - 1 = {} /\ 1 .. Len(ts) = {} BY <2>1, <2>3
  <2> HIDE DEF ts, m
  <2> QED BY <2>3, <2>4 DEF AccessRight, ts, m
<1>5. ValidateIndirect(x.a, x.len) = "ok" =>
        IndirectBytes(x.a, x.len) = [i \in 1 .. x.len |-> x.a.low + i - 1]
  BY <1>1, IndirectRight
<1>6. InMemory(x.p, x.a, m) => AccessRight(x) BY <1>3, <1>4
<1>7. ASSUME ~InMemory(x.p, x.a, m), ValidateAccess(x.p, x.a, x.len) = "ok"
      PROVE  ~Reached(x.p, x.a, x.len, Len(ts))
  BY <1>1, <1>7, HoleFails
<1>8. InMemory(x.p, x.a, m) <=> \A i \in 0 .. m - 1 : Mapped(x.p, Advance(x.a, i))
  BY DEF InMemory
<1> HIDE DEF ts, m
<1> QED BY <1>5, <1>6, <1>7, <1>8, Zenon DEF TransfersExact, x, ts, m

(* Whatever its address and length, the configuration and the size of a    *)
(* chunk, an access that validate_access accepts is either in memory, and  *)
(* moves the bytes of its range each once and in order, in frames that are *)
(* right as FramesRight says, or ends with an error in the hole between    *)
(* its two ends (read and write of memory.rs and of bus.rs).               *)
THEOREM TransfersExactly == Spec => []TransfersExact
<1>1. IInv => TransfersExact
  <2>1. IInv => input \in Cases BY DEF IInv
  <2>2. input \in Cases => input.access \in AccessType BY BringupAssumption
  <2> QED BY <2>1, <2>2, AccessExact
<1> QED BY <1>1, Invariance, PTL
=============================================================================
