------------------------ MODULE EventTransportProofs ------------------------
(***************************************************************************)
(* Proofs about the event transport, for every pool of event buffers,      *)
(* every number and length of events, every set of caller's buffers and    *)
(* every body.                                                             *)
(*                                                                         *)
(* The host takes fragments one by one, keeps its place in pending_event   *)
(* and returns their buffers, and a call may end at any of these steps.    *)
(* The argument is about the fragments yet to come (Stream): each follows  *)
(* the one before it (Ordered), and a ready driver's progress agrees with  *)
(* the fragment in hand and the one that comes next (Place).  Hence what   *)
(* is returned is whole, a header is read only where one is, and every     *)
(* lent buffer is counted once (Count).  A driver that went on after a     *)
(* failed transfer would lose its place, so these theorems are about a     *)
(* driver that the wrapper, or its caller, takes down then (~Retries).     *)
(*                                                                         *)
(* ParsedWithin needs no invariant: each parser is a sequence of steps,    *)
(* and a lemma per parser says when it accepts and that it reads within    *)
(* the message (the conversion of a packet: in all cases but one).         *)
(***************************************************************************)
EXTENDS EventTransport, SequenceTheorems, FiniteSetTheorems, FunctionTheorems, TLAPS

(* The fragments the host has yet to take, in the order they will come *)
Stream == queue \o rest

(* f is the last fragment of its event. *)
Ends(f) == f.index >= f.len

(* What may come after f: the next fragment of its event, or the first of  *)
(* a later one                                                             *)
Follows(f, g) ==
  IF Ends(f) THEN g.index = 1 /\ g.event > f.event
  ELSE g = [f EXCEPT !.index = f.index + 1]

After(f, s) == /\ s # <<>> => Follows(f, s[1])
               /\ s = <<>> => Ends(f)

Proper(f) == f.index = 1 \/ f.index <= f.len

Ordered(s, n) ==
  /\ s \in Seq(Fragments)
  /\ \A i \in 1 .. Len(s) : Proper(s[i]) /\ s[i].event <= n
  /\ \A i \in 1 .. Len(s) - 1 : Follows(s[i], s[i + 1])
  /\ s # <<>> => Ends(s[Len(s)])

(* Everything that was returned, g, is older than event e. *)
Newer(e, g) == \A k \in 1 .. Len(g) : g[k][1].event < e

(* The stream is at the start of an event. *)
AtStart(s, g) == s # <<>> => s[1].index = 1 /\ Newer(s[1].event, g)

(* The fragments that p says were copied are those of f's event, and lie   *)
(* in p's buffer, where c is what the buffers hold.                        *)
Copied(p, f, g, c) ==
  /\ f.len = p.declared
  /\ Newer(f.event, g)
  /\ ~p.discard =>
       \A i \in 1 .. p.copied :
         c[p.scratch][i] = [event |-> f.event, index |-> i, len |-> p.declared]

(* ... and f is the next of them. *)
Matches(p, f, g, c) ==
  /\ Copied(p, f, g, c)
  /\ f.index = p.copied + 1
  /\ p.resubmit = (f.event \notin Kept)

(* The stream goes on with the event that p is the progress of. *)
Inside(p, s, g, c) == s # <<>> /\ Matches(p, s[1], g, c)

Taking == pc \in {"fragment", "header", "first"}

LocalType == [declared : Lengths, copied : 0 .. MaxLen, resubmit : BOOLEAN,
              scratch : Scratch \cup {Nobody}, discard : BOOLEAN]
ContentType == [Scratch -> [1 .. MaxLen -> Fragments \cup {NoFragment}]]

(* p is the progress of an event that is not all there. *)
Unfinished(p) ==
  /\ p \in Pending /\ p.copied < p.declared
  /\ ~p.discard => p.scratch \in Scratch

HostType ==
  /\ wrapped \in BOOLEAN
  /\ drv \in {"Ready", "Down"}
  /\ pc \in {"idle", "drain", "fragment", "ack", "new", "header", "first"}
  /\ buf \in Scratch \cup {Nobody}
  /\ local \in LocalType
  /\ removed \in BOOLEAN
  /\ frag \in Fragments \cup {NoFragment}
  /\ content \in ContentType
  /\ strayed \in BOOLEAN
  /\ faults \in 0 .. MaxFaults
  /\ pending = NoPending \/ Unfinished(pending)

(* What holds in the middle of a call, on any driver *)
CallInv ==
  /\ pc # "idle" => buf \in Scratch
  /\ Taking => frag \in Fragments
  /\ pc \in {"new", "header", "first"} => pending = NoPending
  /\ pc \in {"drain", "fragment", "ack"} =>
       /\ local \in Pending /\ local.copied <= local.declared
       /\ ~local.discard => local.scratch = buf
       /\ pending # NoPending
  /\ pc = "fragment" => local.copied < local.declared
  /\ pc = "drain" /\ ~removed => local = pending
  /\ pc = "first" => /\ local.copied = (IF local.declared = 0 THEN 0 ELSE 1)
                     /\ local.scratch = buf /\ local.discard = FALSE

(* The firmware's side *)
StreamInv ==
  /\ sent \in 0 .. MaxEvents
  /\ queue \in Seq(Fragments) /\ rest \in Seq(Fragments)
  /\ Len(queue) + Len(rest) <= sent * MaxLen
  /\ Len(rest) <= MaxLen
  /\ Ordered(Stream, sent)
  /\ frag.event <= sent

(* The buffers that are with the host *)
Loan(f) == IF f.event \in Kept THEN 0 ELSE 1
InQueue(q) == {i \in 1 .. Len(q) : q[i].event \notin Kept}
Count == Cardinality(InQueue(queue)) + IF Taking THEN Loan(frag) ELSE 0

CountInv == free \in 0 .. Pool /\ free + Count <= Pool

(* What was returned: whole events, each later than the one before *)
GotInv(g, n) ==
  /\ g \in Seq(Seq(Fragments))
  /\ \A k \in 1 .. Len(g) :
       /\ g[k] = Pieces(g[k][1].event, Len(g[k]))
       /\ g[k][1].len = Len(g[k])
       /\ g[k][1].event \in k .. n
  /\ \A j, k \in 1 .. Len(g) : j < k => g[j][1].event < g[k][1].event

(* Where the host is in the stream, as long as the driver is ready *)
Place ==
  /\ pc = "idle" /\ pending = NoPending => AtStart(Stream, got)
  /\ pc = "idle" /\ pending # NoPending => Inside(pending, Stream, got, content)
  /\ pc \in {"drain", "ack"} /\ local.copied < local.declared =>
       Inside(local, Stream, got, content)
  /\ pc \in {"drain", "ack"} /\ local.copied = local.declared =>
       /\ Copied(local, frag, got, content) /\ frag.index = frag.len
       /\ frag \in Fragments /\ After(frag, Stream)
  /\ pc = "fragment" => Matches(local, frag, got, content) /\ After(frag, Stream)
  /\ pc = "new" => AtStart(Stream, got)
  /\ pc \in {"header", "first"} =>
       frag.index = 1 /\ Newer(frag.event, got) /\ After(frag, Stream)
  /\ pc = "first" => local.declared = frag.len /\ local.resubmit = (frag.event \notin Kept)

IInv ==
  /\ HostType /\ CallInv /\ StreamInv /\ CountInv /\ GotInv(got, sent)
  /\ drv = "Ready" => Place /\ free + Count = Pool

-----------------------------------------------------------------------------
(* The stream of fragments *)

(* A fragment taken from the queue is the first of the stream. *)
LEMMA Dequeued ==
  ASSUME NEW q \in Seq(Fragments), NEW r \in Seq(Fragments), q # <<>>
  PROVE  /\ Tail(q) \in Seq(Fragments) /\ Head(q) \in Fragments
         /\ q \o r # <<>> /\ (q \o r)[1] = Head(q)
         /\ Tail(q) \o r = Tail(q \o r)
         /\ Len(Tail(q)) = Len(q) - 1
<1> DEFINE s == q \o r
<1>1. /\ s \in Seq(Fragments) /\ Len(s) = Len(q) + Len(r)
      /\ \A i \in 1 .. Len(s) : s[i] = IF i <= Len(q) THEN q[i] ELSE r[i - Len(q)]
  BY ConcatProperties
<1>2. Len(q) \in Nat \ {0} /\ Len(r) \in Nat
  BY EmptySeq, LenProperties
<1>3. /\ Tail(q) \in Seq(Fragments) /\ Len(Tail(q)) = Len(q) - 1
      /\ \A i \in 1 .. Len(q) - 1 : Tail(q)[i] = q[i + 1]
      /\ Head(q) \in Fragments /\ Head(q) = q[1]
  BY HeadTailProperties
<1> HIDE DEF s
<1>4. s # <<>> /\ s[1] = q[1]
  BY <1>1, <1>2
<1>5. /\ Tail(s) \in Seq(Fragments) /\ Len(Tail(s)) = Len(s) - 1
      /\ \A i \in 1 .. Len(s) - 1 : Tail(s)[i] = s[i + 1]
  BY <1>1, <1>4, HeadTailProperties
<1> DEFINE t == Tail(q) \o r
<1>6. /\ t \in Seq(Fragments) /\ Len(t) = Len(q) - 1 + Len(r)
      /\ \A i \in 1 .. Len(t) : t[i] = IF i <= Len(q) - 1 THEN Tail(q)[i]
                                       ELSE r[i - (Len(q) - 1)]
  BY <1>3, ConcatProperties
<1> HIDE DEF t
<1>7. Len(t) = Len(Tail(s)) /\ \A i \in 1 .. Len(t) : t[i] = Tail(s)[i]
  BY <1>1, <1>2, <1>3, <1>5, <1>6
<1>8. t = Tail(s)
  BY <1>5, <1>6, <1>7, SeqEqual
<1> QED BY <1>3, <1>4, <1>8 DEF s, t

(* The firmware queues what it was going to: the stream stays the same. *)
LEMMA Queued ==
  ASSUME NEW q \in Seq(Fragments), NEW r \in Seq(Fragments), r # <<>>
  PROVE  /\ Append(q, Head(r)) \o Tail(r) = q \o r
         /\ Append(q, Head(r)) \in Seq(Fragments)
         /\ Tail(r) \in Seq(Fragments)
         /\ Len(Append(q, Head(r))) = Len(q) + 1 /\ Len(Tail(r)) = Len(r) - 1
<1> DEFINE a == Append(q, Head(r))
           b == Tail(r)
<1>1. /\ b \in Seq(Fragments) /\ Len(b) = Len(r) - 1
      /\ \A i \in 1 .. Len(r) - 1 : b[i] = r[i + 1]
      /\ Head(r) \in Fragments /\ Head(r) = r[1]
  BY HeadTailProperties
<1>2. /\ a \in Seq(Fragments) /\ Len(a) = Len(q) + 1
      /\ \A i \in 1 .. Len(q) : a[i] = q[i]
      /\ a[Len(q) + 1] = r[1]
  BY <1>1, AppendProperties
<1>3. Len(r) \in Nat \ {0} /\ Len(q) \in Nat
  BY EmptySeq, LenProperties
<1> HIDE DEF a, b
<1>4. /\ a \o b \in Seq(Fragments) /\ Len(a \o b) = Len(a) + Len(b)
      /\ \A i \in 1 .. Len(a) + Len(b) :
           (a \o b)[i] = IF i <= Len(a) THEN a[i] ELSE b[i - Len(a)]
  BY <1>1, <1>2, ConcatProperties
<1>5. /\ q \o r \in Seq(Fragments) /\ Len(q \o r) = Len(q) + Len(r)
      /\ \A i \in 1 .. Len(q) + Len(r) :
           (q \o r)[i] = IF i <= Len(q) THEN q[i] ELSE r[i - Len(q)]
  BY ConcatProperties
<1>6. Len(a \o b) = Len(q \o r)
  BY <1>1, <1>2, <1>3, <1>4, <1>5
<1>7. ASSUME NEW i \in 1 .. Len(q \o r) PROVE (a \o b)[i] = (q \o r)[i]
  <2>0. i \in 1 .. Len(q) + Len(r) /\ i \in 1 .. Len(a) + Len(b)
    BY <1>1, <1>2, <1>3, <1>5
  <2>1. CASE i <= Len(q)
    BY <1>2, <1>3, <1>4, <1>5, <2>0, <2>1
  <2>2. CASE i = Len(q) + 1
    BY <1>2, <1>3, <1>4, <1>5, <2>0, <2>2
  <2>3. CASE i > Len(q) + 1
    <3>1. i - Len(a) \in 1 .. Len(r) - 1 /\ i - Len(a) + 1 = i - Len(q)
      BY <1>2, <1>3, <2>0, <2>3
    <3>2. (a \o b)[i] = b[i - Len(a)] /\ (q \o r)[i] = r[i - Len(q)]
      BY <1>2, <1>3, <1>4, <1>5, <2>0, <2>3
    <3> QED BY <1>1, <3>1, <3>2
  <2> QED BY <1>3, <2>0, <2>1, <2>2, <2>3
<1>8. a \o b = q \o r
  BY <1>4, <1>5, <1>6, <1>7, SeqEqual
<1> QED BY <1>1, <1>2, <1>8 DEF a, b

(* The stream without its first fragment *)
LEMMA OrderedTail ==
  ASSUME NEW n \in Nat, NEW s, Ordered(s, n), s # <<>>
  PROVE  /\ Ordered(Tail(s), n) /\ After(s[1], Tail(s))
         /\ s[1] \in Fragments /\ Proper(s[1]) /\ s[1].event <= n
<1>1. s \in Seq(Fragments) /\ Len(s) \in Nat \ {0}
  BY EmptySeq DEF Ordered
<1>2. /\ Tail(s) \in Seq(Fragments) /\ Len(Tail(s)) = Len(s) - 1
      /\ \A i \in 1 .. Len(s) - 1 : Tail(s)[i] = s[i + 1]
  BY <1>1, HeadTailProperties
<1> DEFINE t == Tail(s)
<1> HIDE DEF t
<1>3. /\ t \in Seq(Fragments) /\ Len(t) = Len(s) - 1
      /\ \A i \in 1 .. Len(s) - 1 : t[i] = s[i + 1]
  BY <1>2 DEF t
<1>4. \A i \in 1 .. Len(t) : Proper(t[i]) /\ t[i].event <= n
  BY <1>1, <1>3 DEF Ordered
<1>5. ASSUME NEW i \in 1 .. Len(t) - 1 PROVE Follows(t[i], t[i + 1])
  <2>1. i + 1 \in 1 .. Len(s) - 1 /\ i \in 1 .. Len(s) - 1
    BY <1>1, <1>3
  <2>2. t[i] = s[i + 1] /\ t[i + 1] = s[i + 1 + 1]
    BY <1>3, <2>1
  <2> QED BY <2>1, <2>2 DEF Ordered
<1>6. t # <<>> => Ends(t[Len(t)])
  <2>1. SUFFICES ASSUME t # <<>> PROVE Ends(t[Len(t)])
    OBVIOUS
  <2>2. Len(t) \in Nat \ {0}
    BY <1>3, <2>1, EmptySeq
  <2>3. Len(t) \in 1 .. Len(s) - 1 /\ Len(t) + 1 = Len(s)
    BY <1>1, <1>3, <2>2
  <2>4. t[Len(t)] = s[Len(t) + 1]
    BY <1>3, <2>3
  <2>5. t[Len(t)] = s[Len(s)]
    BY <2>3, <2>4
  <2> QED BY <2>5 DEF Ordered
<1>7. After(s[1], t)
  <2>1. CASE t = <<>>
    <3>1. Len(s) = 1
      BY <1>1, <1>3, <2>1, EmptySeq
    <3> QED BY <2>1, <3>1 DEF After, Ordered
  <2>2. CASE t # <<>>
    <3>1. Len(t) \in Nat \ {0}
      BY <1>3, <2>2, EmptySeq
    <3>2. 1 \in 1 .. Len(s) - 1
      BY <1>1, <1>3, <3>1
    <3>3. t[1] = s[1 + 1]
      BY <1>3, <3>2
    <3> QED BY <2>2, <3>2, <3>3 DEF After, Ordered
  <2> QED BY <2>1, <2>2
<1>8. s[1] \in Fragments /\ Proper(s[1]) /\ s[1].event <= n
  BY <1>1, ElementOfSeq DEF Ordered
<1> QED BY <1>3, <1>4, <1>5, <1>6, <1>7, <1>8 DEF Ordered, t

(* What an event is cut into *)
LEMMA PiecesFields ==
  ASSUME NEW e \in Events, NEW len \in Lengths
  PROVE  /\ Pieces(e, len) \in Seq(Fragments)
         /\ Len(Pieces(e, len)) = IF len = 0 THEN 1 ELSE len
         /\ \A i \in 1 .. Len(Pieces(e, len)) :
              Pieces(e, len)[i] = [event |-> e, index |-> i, len |-> len]
<1>1. CASE len = 0
  <2>1. 1 \in 1 .. MaxLen
    BY EventAssumption
  <2> QED BY <1>1, <2>1 DEF Pieces, Fragments
<1>2. CASE len # 0
  <2>1. len \in Nat /\ 1 .. len \subseteq 1 .. MaxLen
    BY EventAssumption DEF Lengths
  <2> QED BY <1>2, <2>1 DEF Pieces, Fragments
<1> QED BY <1>1, <1>2

(* A new event at the end of the stream *)
LEMMA OrderedMore ==
  ASSUME NEW n \in Nat, n < MaxEvents, NEW s, Ordered(s, n), NEW len \in Lengths
  PROVE  /\ Ordered(s \o Pieces(n + 1, len), n + 1)
         /\ s \o Pieces(n + 1, len) # <<>>
         /\ s # <<>> => (s \o Pieces(n + 1, len))[1] = s[1]
         /\ s = <<>> =>
              (s \o Pieces(n + 1, len))[1] = [event |-> n + 1, index |-> 1, len |-> len]
<1> DEFINE p == Pieces(n + 1, len)
           t == s \o p
<1>1. n + 1 \in Events /\ len \in Nat
  BY EventAssumption DEF Events, Lengths
<1>2. /\ p \in Seq(Fragments) /\ Len(p) = IF len = 0 THEN 1 ELSE len
      /\ \A i \in 1 .. Len(p) : p[i] = [event |-> n + 1, index |-> i, len |-> len]
  BY <1>1, PiecesFields
<1>3. Len(p) \in Nat \ {0} /\ Len(p) >= len /\ (Len(p) = 1 \/ Len(p) = len)
  <2> DEFINE k == Len(p)
  <2>1. k = IF len = 0 THEN 1 ELSE len
    BY <1>2
  <2> HIDE DEF k
  <2>2. k \in Nat \ {0} /\ k >= len /\ (k = 1 \/ k = len)
    BY <1>1, <2>1
  <2> QED BY <2>2 DEF k
<1>4. s \in Seq(Fragments) /\ Len(s) \in Nat
  BY LenProperties DEF Ordered
<1> HIDE DEF p
<1>5. /\ t \in Seq(Fragments) /\ Len(t) = Len(s) + Len(p)
      /\ \A i \in 1 .. Len(s) + Len(p) : t[i] = IF i <= Len(s) THEN s[i] ELSE p[i - Len(s)]
  BY <1>2, <1>4, ConcatProperties
<1> HIDE DEF t
<1>6. /\ \A i \in 1 .. Len(s) : t[i] = s[i]
      /\ \A i \in 1 .. Len(p) : t[Len(s) + i] = p[i]
  BY <1>3, <1>4, <1>5
<1>7. ASSUME NEW i \in 1 .. Len(t)
      PROVE  i \in 1 .. Len(s) \/ \E j \in 1 .. Len(p) : i = Len(s) + j
  <2>1. i > Len(s) => i - Len(s) \in 1 .. Len(p) /\ i = Len(s) + (i - Len(s))
    BY <1>3, <1>4, <1>5
  <2> QED BY <1>4, <1>5, <2>1
<1>8. ASSUME NEW j \in 1 .. Len(p)
      PROVE  Proper(p[j]) /\ p[j].event <= n + 1 /\ p[j].event = n + 1
             /\ (j < Len(p) => Follows(p[j], p[j + 1]))
             /\ (j = Len(p) => Ends(p[j]))
  <2>1. p[j] = [event |-> n + 1, index |-> j, len |-> len]
    BY <1>2
  <2>2. j <= len \/ j = 1
    BY <1>1, <1>2
  <2>3. j < Len(p) => j < len /\ p[j + 1] = [event |-> n + 1, index |-> j + 1, len |-> len]
    <3>1. j < Len(p) => j + 1 \in 1 .. Len(p)
      BY <1>3
    <3> QED BY <1>2, <1>3, <3>1
  <2>4. j < Len(p) => Follows(p[j], p[j + 1])
    BY <1>1, <2>1, <2>3 DEF Follows, Ends
  <2>5. j = Len(p) => Ends(p[j])
    BY <1>3, <2>1 DEF Ends
  <2> QED BY <2>1, <2>2, <2>4, <2>5 DEF Proper
<1>9. \A i \in 1 .. Len(t) : Proper(t[i]) /\ t[i].event <= n + 1
  <2>1. ASSUME NEW i \in 1 .. Len(s) PROVE Proper(t[i]) /\ t[i].event <= n + 1
    <3>1. t[i] = s[i] /\ s[i] \in Fragments /\ Proper(s[i]) /\ s[i].event <= n
      BY <1>4, <1>6, ElementOfSeq DEF Ordered
    <3>2. s[i].event \in Int
      BY <3>1 DEF Fragments, Events
    <3> QED BY <3>1, <3>2
  <2>2. ASSUME NEW j \in 1 .. Len(p) PROVE Proper(t[Len(s) + j]) /\ t[Len(s) + j].event <= n + 1
    BY <1>6, <1>8
  <2> QED BY <1>7, <2>1, <2>2
<1>10. ASSUME NEW i \in 1 .. Len(t) - 1 PROVE Follows(t[i], t[i + 1])
  <2>1. CASE i < Len(s)
    <3>1. i \in 1 .. Len(s) - 1 /\ i \in 1 .. Len(s) /\ i + 1 \in 1 .. Len(s)
      BY <1>4, <2>1
    <3> QED BY <1>6, <3>1 DEF Ordered
  <2>2. CASE i = Len(s)
    <3>1. s # <<>> /\ Len(s) \in 1 .. Len(s) /\ 1 \in 1 .. Len(p)
      BY <1>3, <1>4, <2>2, EmptySeq
    <3>2. t[i] = s[Len(s)] /\ t[i + 1] = p[1]
      BY <1>6, <2>2, <3>1
    <3>3. Ends(s[Len(s)]) /\ s[Len(s)].event <= n /\ s[Len(s)] \in Fragments
      BY <1>4, <3>1, ElementOfSeq DEF Ordered
    <3>4. s[Len(s)].event \in Int
      BY <3>3 DEF Fragments, Events
    <3>5. p[1].index = 1 /\ p[1].event = n + 1
      <4>1. p[1] = [event |-> n + 1, index |-> 1, len |-> len]
        BY <1>2, <3>1
      <4> QED BY <4>1
    <3> QED BY <3>2, <3>3, <3>4, <3>5 DEF Follows
  <2>3. CASE i > Len(s)
    <3> DEFINE j == i - Len(s)
    <3>1. j \in 1 .. Len(p) /\ j + 1 \in 1 .. Len(p) /\ j < Len(p)
          /\ i = Len(s) + j /\ i + 1 = Len(s) + (j + 1)
      BY <1>3, <1>4, <1>5, <2>3
    <3> HIDE DEF j
    <3>2. t[i] = p[j] /\ t[i + 1] = p[j + 1]
      BY <1>6, <3>1
    <3> QED BY <1>8, <3>1, <3>2
  <2> QED BY <1>4, <2>1, <2>2, <2>3
<1>11. Ends(t[Len(t)])
  <2>1. Len(p) \in 1 .. Len(p)
    BY <1>3
  <2> QED BY <1>5, <1>6, <1>8, <2>1
<1>12. Len(t) > 0 /\ t # <<>>
  BY <1>3, <1>4, <1>5
<1>13. s # <<>> => t[1] = s[1]
  <2>1. s # <<>> => 1 \in 1 .. Len(s)
    BY <1>4, EmptySeq
  <2> QED BY <1>6, <2>1
<1>14. s = <<>> => t[1] = [event |-> n + 1, index |-> 1, len |-> len]
  <2>1. s = <<>> => Len(s) = 0
    OBVIOUS
  <2>2. 1 \in 1 .. Len(p)
    BY <1>3
  <2>3. s = <<>> => t[0 + 1] = p[1]
    BY <1>6, <2>1, <2>2
  <2> QED BY <1>2, <2>2, <2>3
<1> QED BY <1>5, <1>9, <1>10, <1>11, <1>12, <1>13, <1>14 DEF Ordered, t, p

-----------------------------------------------------------------------------
(* Event buffers at the host *)

(* The fragments in a queue that hold a lent buffer are finitely many. *)
LEMMA InQueueFinite ==
  ASSUME NEW q \in Seq(Fragments)
  PROVE  IsFiniteSet(InQueue(q)) /\ Cardinality(InQueue(q)) \in Nat
<1>1. Len(q) \in Nat
  BY LenProperties
<1>2. InQueue(q) \subseteq 1 .. Len(q)
  BY DEF InQueue
<1>3. IsFiniteSet(1 .. Len(q))
  BY <1>1, FS_Interval
<1>4. IsFiniteSet(InQueue(q))
  BY <1>2, <1>3, FS_Subset
<1> QED BY <1>4, FS_CardinalityType

(* The buffers at the host are those in the queue and the one in hand. *)
LEMMA HostBuffers ==
  ASSUME queue \in Seq(Fragments)
  PROVE  Cardinality(AtHost) =
           Cardinality(InQueue(queue)) + IF Taking THEN Loan(frag) ELSE 0
<1> DEFINE S == InQueue(queue)
<1>1. IsFiniteSet(S) /\ Cardinality(S) \in Nat
  BY InQueueFinite
<1>2. Len(queue) \in Nat
  BY LenProperties
<1>3. 0 \notin S /\ S \subseteq 0 .. Len(queue)
  BY <1>2 DEF InQueue
<1>4. \A i \in 0 .. Len(queue) :
        i \in AtHost <=> i \in S \/ (i = 0 /\ Taking /\ frag.event \notin Kept)
  <2>1. \A i \in 0 .. Len(queue) : i # 0 => i \in 1 .. Len(queue)
    BY <1>2
  <2> QED BY <1>2, <1>3, <2>1 DEF AtHost, InQueue, Taking
<1>5. AtHost \subseteq 0 .. Len(queue) /\ 0 \in 0 .. Len(queue)
  BY <1>2 DEF AtHost
<1> HIDE DEF S
<1>6. CASE Taking /\ frag.event \notin Kept
  <2>1. AtHost = S \cup {0}
    BY <1>3, <1>4, <1>5, <1>6
  <2>2. Cardinality(S \cup {0}) = Cardinality(S) + 1
    BY <1>1, <1>3, FS_AddElement
  <2> QED BY <1>6, <2>1, <2>2 DEF Loan, S
<1>7. CASE ~(Taking /\ frag.event \notin Kept)
  <2>1. AtHost = S
    BY <1>3, <1>4, <1>5, <1>7
  <2> QED BY <1>1, <1>7, <2>1 DEF Loan, S
<1> QED BY <1>6, <1>7

(* A fragment leaves the queue. *)
LEMMA LoanTaken ==
  ASSUME NEW q \in Seq(Fragments), q # <<>>
  PROVE  Cardinality(InQueue(q)) = Cardinality(InQueue(Tail(q))) + Loan(Head(q))
<1> DEFINE t == Tail(q)
           S == InQueue(q)
           R == S \ {1}
           T == InQueue(t)
           m == [i \in R |-> i - 1]
<1>1. Len(q) \in Nat \ {0}
  BY EmptySeq
<1>2. /\ t \in Seq(Fragments) /\ Len(t) = Len(q) - 1
      /\ \A i \in 1 .. Len(q) - 1 : t[i] = q[i + 1]
      /\ Head(q) = q[1]
  BY HeadTailProperties
<1> HIDE DEF t
<1>3. ASSUME NEW i \in 1 .. Len(q) - 1
      PROVE  i \in T <=> i + 1 \in R
  <2>1. i + 1 \in 1 .. Len(q) /\ i + 1 # 1 /\ i \in 1 .. Len(t)
    BY <1>1, <1>2
  <2> QED BY <1>2, <2>1 DEF InQueue
<1>4. T \subseteq 1 .. Len(q) - 1 /\ R \subseteq 2 .. Len(q)
  BY <1>1, <1>2 DEF InQueue
<1>5. 1 \in S <=> Head(q).event \notin Kept
  BY <1>1, <1>2 DEF InQueue
<1>6. IsFiniteSet(S) /\ Cardinality(S) \in Nat /\ IsFiniteSet(T) /\ Cardinality(T) \in Nat
  BY <1>2, InQueueFinite
<1> HIDE DEF S, T
<1>7. /\ IsFiniteSet(R)
      /\ Cardinality(R) = IF 1 \in S THEN Cardinality(S) - 1 ELSE Cardinality(S)
  BY <1>6, FS_RemoveElement
<1> HIDE DEF R
<1>8. m \in Bijection(R, T)
  <2>1. ASSUME NEW i \in R PROVE m[i] \in T
    <3>1. i \in 2 .. Len(q) /\ i - 1 \in 1 .. Len(q) - 1 /\ i - 1 + 1 = i
      BY <1>1, <1>4
    <3>2. i - 1 \in T
      BY <1>3, <3>1
    <3> QED BY <3>2
  <2>2. m \in [R -> T]
    BY <2>1
  <2>3. ASSUME NEW i \in R, NEW j \in R, m[i] = m[j] PROVE i = j
    BY <1>1, <1>4, <2>3
  <2>4. ASSUME NEW j \in T PROVE \E i \in R : m[i] = j
    <3>1. j \in 1 .. Len(q) - 1 /\ j + 1 \in R /\ j + 1 - 1 = j
      BY <1>1, <1>3, <1>4
    <3>2. m[j + 1] = j
      BY <3>1
    <3> QED BY <3>1, <3>2
  <2> HIDE DEF m
  <2> QED BY <2>2, <2>3, <2>4, Fun_IsBij
<1>9. ExistsBijection(R, T)
  BY <1>8 DEF ExistsBijection
<1>10. Cardinality(T) = Cardinality(R)
  BY <1>7, <1>9, FS_Bijection
<1> QED BY <1>5, <1>6, <1>7, <1>10 DEF S, T, t, Loan

(* A fragment joins the queue. *)
LEMMA LoanQueued ==
  ASSUME NEW q \in Seq(Fragments), NEW x \in Fragments
  PROVE  Cardinality(InQueue(Append(q, x))) = Cardinality(InQueue(q)) + Loan(x)
<1> DEFINE S == InQueue(q)
           a == Append(q, x)
           n == Len(q) + 1
<1>1. IsFiniteSet(S) /\ Cardinality(S) \in Nat
  BY InQueueFinite
<1>2. Len(q) \in Nat
  BY LenProperties
<1>3. /\ Len(a) = n /\ a[n] = x /\ \A i \in 1 .. Len(q) : a[i] = q[i]
  BY AppendProperties
<1> HIDE DEF a
<1>4. n \notin S /\ S \subseteq 1 .. Len(q)
  BY <1>2 DEF InQueue
<1>5. /\ \A i \in 1 .. Len(q) : i \in InQueue(a) <=> i \in S
      /\ n \in InQueue(a) <=> x.event \notin Kept
      /\ InQueue(a) \subseteq (1 .. Len(q)) \cup {n}
  BY <1>2, <1>3 DEF InQueue
<1>6. Cardinality(S \cup {n}) = Cardinality(S) + 1
  <2> HIDE DEF S, n
  <2> QED BY <1>1, <1>4, FS_AddElement
<1> HIDE DEF S, n
<1>7. CASE x.event \in Kept
  <2>1. InQueue(a) = S
    BY <1>4, <1>5, <1>7
  <2> QED BY <1>1, <1>7, <2>1 DEF Loan, S, a
<1>8. CASE x.event \notin Kept
  <2>1. InQueue(a) = S \cup {n}
    BY <1>4, <1>5, <1>8
  <2> QED BY <1>6, <1>8, <2>1 DEF Loan, S, a
<1> QED BY <1>7, <1>8

-----------------------------------------------------------------------------
(* The beginning, and the end of a call *)

(* The constants, and the values that stand for no event and no fragment *)
LEMMA Ranges ==
  /\ MaxLen \in Nat \ {0} /\ MaxEvents \in Nat /\ Pool \in Nat /\ MaxFaults \in Nat
  /\ NoPending \in LocalType /\ NoFragment \notin Fragments /\ NoFragment.event = 0
  /\ Empty \in [1 .. MaxLen -> Fragments \cup {NoFragment}]
<1>1. MaxLen \in Nat \ {0} /\ MaxEvents \in Nat /\ Pool \in Nat /\ MaxFaults \in Nat
  BY EventAssumption
<1>2. NoPending \in LocalType
  BY <1>1 DEF NoPending, LocalType, Lengths
<1>3. NoFragment.event = 0
  BY DEF NoFragment
<1>4. NoFragment \notin Fragments
  BY <1>3 DEF Fragments, Events
<1>5. Empty \in [1 .. MaxLen -> Fragments \cup {NoFragment}]
  BY DEF Empty
<1> QED BY <1>1, <1>2, <1>3, <1>4, <1>5

(* Nothing is in an empty stream. *)
LEMMA EmptyStream ==
  /\ <<>> \in Seq(Fragments) /\ <<>> \o <<>> = <<>>
  /\ Len(<<>>) = 0 /\ Cardinality(InQueue(<<>>)) = 0
  /\ \A n : Ordered(<<>>, n)
<1>1. <<>> \in Seq(Fragments) /\ Len(<<>>) = 0
  BY EmptySeq
<1>2. <<>> \o <<>> = <<>>
  BY <1>1, ConcatEmptySeq
<1>3. InQueue(<<>>) = {}
  BY DEF InQueue
<1>4. \A n : Ordered(<<>>, n)
  BY <1>1 DEF Ordered
<1> QED BY <1>1, <1>2, <1>3, <1>4, FS_EmptySet

(* The number of buffers at the host *)
LEMMA CountType ==
  ASSUME queue \in Seq(Fragments)
  PROVE  Count \in Nat /\ Cardinality(InQueue(queue)) \in Nat /\ Loan(frag) \in {0, 1}
<1>1. Cardinality(InQueue(queue)) \in Nat
  BY InQueueFinite
<1>2. Loan(frag) \in {0, 1}
  BY DEF Loan
<1> QED BY <1>1, <1>2 DEF Count

(* A driver just brought up: nothing was sent, and every buffer is free. *)
LEMMA InitHolds == Init => IInv
<1> SUFFICES ASSUME Init PROVE IInv
  OBVIOUS
<1>1. HostType
  <2>1. content \in ContentType
    BY Ranges DEF Init, ContentType
  <2>2. faults \in 0 .. MaxFaults
    BY Ranges DEF Init
  <2> QED BY <2>1, <2>2, Ranges DEF Init, HostType
<1>2. CallInv
  BY DEF Init, CallInv, Taking
<1>3. StreamInv
  <2>1. Stream = <<>>
    BY EmptyStream DEF Init, Stream
  <2>2. Len(queue) + Len(rest) <= sent * MaxLen /\ Len(rest) <= MaxLen /\
          sent \in 0 .. MaxEvents
        /\ frag.event <= sent
    BY Ranges, EmptyStream DEF Init
  <2> QED BY <2>1, <2>2, EmptyStream DEF Init, StreamInv
<1>4. Count = 0 /\ free = Pool
  BY EmptyStream DEF Init, Count, Taking
<1>5. GotInv(got, sent)
  <2>1. <<>> \in Seq(Seq(Fragments)) /\ Len(<<>>) = 0
    BY EmptySeq
  <2> QED BY <2>1 DEF Init, GotInv
<1>6. Place
  <2>1. Stream = <<>>
    BY EmptyStream DEF Init, Stream
  <2> QED BY <2>1 DEF Init, Place, AtStart
<1>7. CountInv /\ free + Count = Pool
  BY <1>4, Ranges DEF CountInv
<1> QED BY <1>1, <1>2, <1>3, <1>5, <1>6, <1>7 DEF IInv

(* Every return leaves the variables of the call as they were at first. *)
LEMMA Returned ==
  ASSUME HostType, Idle, drv' \in {"Ready", "Down"}, wrapped' = wrapped,
         content' \in ContentType, strayed' \in BOOLEAN, faults' \in 0 .. MaxFaults,
         pending' = NoPending \/ Unfinished(pending')
  PROVE  HostType' /\ CallInv' /\ ~Taking' /\ frag' = NoFragment /\ pc' = "idle"
<1>1. /\ pc' = "idle" /\ buf' = Nobody /\ local' = NoPending /\ removed' = FALSE
      /\ frag' = NoFragment
  BY DEF Idle
<1>2. HostType'
  BY <1>1, Ranges DEF HostType
<1>3. CallInv' /\ ~Taking'
  BY <1>1 DEF CallInv, Taking
<1> QED BY <1>1, <1>2, <1>3

(* The driver after a call has returned *)
LEMMA ReturnDriver ==
  ASSUME HostType, NEW r, Return(r)
  PROVE  /\ Idle /\ drv' \in {drv, "Down"} /\ drv' \in {"Ready", "Down"}
         /\ r = "ok" => drv' = drv
         /\ r = "rpu" /\ ~Retries => drv' = "Down"
<1>1. Fatal("ok") <=> FALSE
  BY DEF Fatal
<1>2. ~Retries => Fatal("rpu")
  BY DEF Fatal
<1> QED BY <1>1, <1>2 DEF Return, HostType

(* The host looks at no fragment. *)
LEMMA StreamKept ==
  ASSUME StreamInv, UNCHANGED <<sent, rest, queue>>, frag' \in {frag, NoFragment}
  PROVE  StreamInv' /\ Stream' = Stream
<1>1. Stream' = Stream
  BY DEF Stream
<1>2. frag'.event <= sent
  BY Ranges DEF StreamInv
<1> QED BY <1>1, <1>2 DEF StreamInv

(* The host takes one from the queue. *)
LEMMA StreamTail ==
  ASSUME StreamInv, queue # <<>>, UNCHANGED <<sent, rest>>, queue' = Tail(queue),
         frag' \in {Head(queue), NoFragment}
  PROVE  /\ StreamInv' /\ Stream # <<>> /\ Stream[1] = Head(queue)
         /\ Head(queue) \in Fragments /\ After(Head(queue), Stream')
         /\ Cardinality(InQueue(queue)) = Cardinality(InQueue(queue')) + Loan(Head(queue))
         /\ queue' \in Seq(Fragments)
<1>0. /\ sent \in Nat /\ queue \in Seq(Fragments) /\ rest \in Seq(Fragments)
  BY Ranges DEF StreamInv
<1>1. /\ queue' \in Seq(Fragments) /\ Head(queue) \in Fragments
      /\ Stream # <<>> /\ Stream[1] = Head(queue)
      /\ Stream' = Tail(Stream) /\ Len(queue') = Len(queue) - 1
  BY <1>0, Dequeued DEF Stream
<1>2. Ordered(Stream, sent)
  BY DEF StreamInv
<1>3. /\ Ordered(Stream', sent) /\ After(Head(queue), Stream') /\ Head(queue).event <= sent
  BY <1>0, <1>1, <1>2, OrderedTail
<1>4. frag'.event <= sent
  BY <1>0, <1>3, Ranges
<1>5. Len(queue') + Len(rest) <= sent * MaxLen
  <2>1. Len(queue) \in Int /\ Len(rest) \in Int /\ sent * MaxLen \in Int
    BY <1>0, LenProperties, Ranges
  <2> QED BY <1>1, <2>1 DEF StreamInv
<1>6. StreamInv'
  BY <1>1, <1>3, <1>4, <1>5 DEF StreamInv
<1>7. Cardinality(InQueue(queue)) = Cardinality(InQueue(queue')) + Loan(Head(queue))
  BY <1>0, LoanTaken
<1> QED BY <1>1, <1>3, <1>6, <1>7

(* A failed transfer: the driver is down, and nothing depends on where the *)
(* host is in the stream.                                                  *)
LEMMA FailHolds ==
  ASSUME IInv, ~Retries, Failure, Return("rpu"),
         UNCHANGED <<wrapped, sent, rest, pending, content, got, strayed>>,
         \/ queue' = queue
         \/ queue # <<>> /\ queue' = Tail(queue),
         free' \in 0 .. Pool, free' + Cardinality(InQueue(queue)) <= Pool
  PROVE  IInv'
<1>0. HostType /\ StreamInv /\ queue \in Seq(Fragments)
  BY DEF IInv, StreamInv
<1>1. Idle /\ drv' = "Down"
  BY <1>0, ReturnDriver
<1>2. faults' \in 0 .. MaxFaults
  BY <1>0, Ranges DEF Failure, HostType
<1>3. HostType' /\ CallInv' /\ ~Taking' /\ frag' = NoFragment
  BY <1>0, <1>1, <1>2, Returned DEF HostType
<1>4. /\ StreamInv' /\ queue' \in Seq(Fragments)
      /\ free' + Cardinality(InQueue(queue')) <= Pool
  <2>1. CASE queue' = queue
    BY <1>0, <1>3, <2>1, StreamKept
  <2>2. CASE queue # <<>> /\ queue' = Tail(queue)
    <3>1. /\ StreamInv' /\ queue' \in Seq(Fragments)
          /\ Cardinality(InQueue(queue)) = Cardinality(InQueue(queue')) + Loan(Head(queue))
      BY <1>0, <1>3, <2>2, StreamTail
    <3>2. Cardinality(InQueue(queue')) \in Nat
      BY <3>1, InQueueFinite
    <3>3. Loan(Head(queue)) \in {0, 1}
      BY DEF Loan
    <3> QED BY <3>1, <3>2, <3>3, Ranges
  <2> QED BY <2>1, <2>2
<1>5. CountInv'
  <2>1. Cardinality(InQueue(queue')) \in Nat
    BY <1>4, InQueueFinite
  <2>2. Count' = Cardinality(InQueue(queue'))
    BY <1>3, <2>1 DEF Count
  <2> QED BY <1>4, <2>2 DEF CountInv
<1>6. GotInv(got', sent')
  BY DEF IInv
<1> QED BY <1>1, <1>3, <1>4, <1>5, <1>6 DEF IInv
-----------------------------------------------------------------------------
(* What has been returned *)

(* The events of what was returned are numbers. *)
LEMMA GotFields ==
  ASSUME NEW n \in Nat, NEW g, GotInv(g, n)
  PROVE  /\ Len(g) \in Nat
         /\ \A k \in 1 .. Len(g) : g[k][1].event \in k .. n /\ g[k][1].event \in Nat
<1>1. Len(g) \in Nat
  BY LenProperties DEF GotInv
<1>2. ASSUME NEW k \in 1 .. Len(g)
      PROVE  g[k][1].event \in k .. n /\ g[k][1].event \in Nat
  <2>1. g[k][1].event \in k .. n
    BY DEF GotInv
  <2> QED BY <1>1, <2>1
<1> QED BY <1>1, <1>2

(* What is newer than all of it, and what is later still *)
LEMMA NewerLater ==
  ASSUME NEW n \in Nat, NEW g, GotInv(g, n), NEW e \in Int, NEW x \in Int, x > e
  PROVE  Newer(e, g) => Newer(x, g)
  BY GotFields DEF Newer

(* A later event of the firmware is newer than all of it. *)
LEMMA GotLater ==
  ASSUME NEW n \in Nat, NEW g, GotInv(g, n)
  PROVE  Newer(n + 1, g) /\ GotInv(g, n + 1)
<1>1. ASSUME NEW k \in 1 .. Len(g)
      PROVE  g[k][1].event \in k .. n + 1 /\ g[k][1].event < n + 1
  BY GotFields
<1> QED BY <1>1 DEF Newer, GotInv

(* One more event that is newer than the others *)
LEMMA GotMore ==
  ASSUME NEW n \in Nat, NEW g, GotInv(g, n), NEW e \in Events, e <= n, Newer(e, g),
         NEW len \in Lengths, len >= 1
  PROVE  /\ GotInv(Append(g, Pieces(e, len)), n)
         /\ \A x \in Int : x > e => Newer(x, Append(g, Pieces(e, len)))
<1> DEFINE w == Pieces(e, len)
           h == Append(g, w)
<1>1. len \in Nat \ {0} /\ e \in Nat \ {0}
  BY EventAssumption DEF Lengths, Events
<1>2. w \in Seq(Fragments) /\ Len(w) = len /\ w[1] = [event |-> e, index |-> 1, len |-> len]
  <2>1. Len(w) = len
    BY <1>1, PiecesFields
  <2>2. 1 \in 1 .. Len(w)
    BY <1>1, <2>1
  <2> QED BY <2>1, <2>2, PiecesFields
<1>3. w[1].event = e /\ w[1].len = Len(w) /\ w = Pieces(w[1].event, Len(w))
  <2> HIDE DEF w
  <2>1. w[1].event = e /\ w[1].len = len
    BY <1>2
  <2> QED BY <1>2, <2>1 DEF w
<1> HIDE DEF w
<1>4. g \in Seq(Seq(Fragments)) /\ Len(g) \in Nat
  BY GotFields DEF GotInv
<1>5. /\ h \in Seq(Seq(Fragments)) /\ Len(h) = Len(g) + 1
      /\ \A k \in 1 .. Len(g) : h[k] = g[k]
      /\ h[Len(g) + 1] = w
  BY <1>2, <1>4, AppendProperties
<1> HIDE DEF h
<1>6. e \in Len(g) + 1 .. n
  <2>1. CASE Len(g) = 0
    BY <1>1, <2>1
  <2>2. CASE Len(g) # 0
    <3>1. Len(g) \in 1 .. Len(g)
      BY <1>4, <2>2
    <3>2. g[Len(g)][1].event \in Len(g) .. n /\ g[Len(g)][1].event < e
      BY <3>1, GotFields DEF Newer
    <3> QED BY <1>1, <1>4, <3>2
  <2> QED BY <2>1, <2>2
<1>7. ASSUME NEW k \in 1 .. Len(h)
      PROVE  \/ k \in 1 .. Len(g) /\ h[k] = g[k]
             \/ k = Len(g) + 1 /\ h[k] = w
  BY <1>4, <1>5
<1>8. ASSUME NEW k \in 1 .. Len(h)
      PROVE  /\ h[k] = Pieces(h[k][1].event, Len(h[k]))
             /\ h[k][1].len = Len(h[k])
             /\ h[k][1].event \in k .. n
  BY <1>3, <1>6, <1>7 DEF GotInv
<1>9. ASSUME NEW j \in 1 .. Len(h), NEW k \in 1 .. Len(h), j < k
      PROVE  h[j][1].event < h[k][1].event
  <2>1. j \in 1 .. Len(g) /\ h[j] = g[j]
    BY <1>4, <1>5, <1>9
  <2>2. CASE k \in 1 .. Len(g) /\ h[k] = g[k]
    BY <1>9, <2>1, <2>2 DEF GotInv
  <2>3. CASE h[k] = w
    BY <1>3, <2>1, <2>3 DEF Newer
  <2> QED BY <1>7, <2>2, <2>3
<1>10. ASSUME NEW x \in Int, x > e PROVE Newer(x, h)
  <2>1. ASSUME NEW k \in 1 .. Len(h) PROVE h[k][1].event < x
    <3>1. CASE k \in 1 .. Len(g) /\ h[k] = g[k]
      BY <1>1, <1>10, <3>1, GotFields DEF Newer
    <3>2. CASE h[k] = w
      BY <1>3, <1>10, <3>2
    <3> QED BY <1>7, <3>1, <3>2
  <2> QED BY <2>1 DEF Newer
<1>11. GotInv(h, n)
  BY <1>5, <1>8, <1>9 DEF GotInv
<1> QED BY <1>10, <1>11 DEF h, w

(* A buffer that holds all the fragments of an event holds the event. *)
LEMMA WholeBuffer ==
  ASSUME NEW e \in Events, NEW len \in Lengths, len >= 1, NEW c,
         \A i \in 1 .. len : c[i] = [event |-> e, index |-> i, len |-> len]
  PROVE  SubSeq(c, 1, len) = Pieces(e, len)
<1> DEFINE w == Pieces(e, len)
           t == SubSeq(c, 1, len)
<1>1. len \in Nat \ {0}
  BY EventAssumption DEF Lengths
<1>2. /\ w \in Seq(Fragments) /\ Len(w) = len
      /\ \A i \in 1 .. len : w[i] = [event |-> e, index |-> i, len |-> len]
  <2>1. Len(w) = len
    BY <1>1, PiecesFields
  <2> QED BY <2>1, PiecesFields
<1> HIDE DEF w
<1>3. \A i \in 1 .. len : c[i] \in Fragments
  <2>1. \A i \in 1 .. len : w[i] \in Fragments
    BY <1>2, ElementOfSeq
  <2> QED BY <1>2, <2>1
<1>4. /\ t \in Seq(Fragments)
      /\ Len(t) = IF 1 <= len THEN len - 1 + 1 ELSE 0
      /\ \A i \in 1 .. (len - 1 + 1) : t[i] = c[1 + i - 1]
  BY <1>1, <1>3, SubSeqProperties
<1> HIDE DEF t
<1>5. Len(t) = len
  BY <1>1, <1>4
<1>6. ASSUME NEW i \in 1 .. len PROVE t[i] = c[i]
  <2>1. i \in 1 .. (len - 1 + 1) /\ 1 + i - 1 = i
    BY <1>1
  <2> QED BY <1>4, <2>1
<1>7. \A i \in 1 .. Len(t) : t[i] = w[i]
  BY <1>2, <1>5, <1>6
<1>8. t = w
  BY <1>2, <1>4, <1>5, <1>7, SeqEqual
<1> QED BY <1>8 DEF t, w

(* What a delivery leaves behind: on a ready driver the fragment read last *)
(* is the last of its event, and the buffer holds all of them.             *)
LEMMA Delivers ==
  ASSUME NEW bytes, Deliver(bytes), HostType, sent \in Nat, GotInv(got, sent),
         buf \in Scratch, local.declared \in Lengths, local.declared >= 1,
         drv = "Ready" =>
           /\ frag \in Fragments /\ frag.event <= sent /\ Newer(frag.event, got)
           /\ \A i \in 1 .. local.declared :
                bytes[buf][i] = [event |-> frag.event, index |-> i, len |-> local.declared]
  PROVE  /\ GotInv(got', sent)
         /\ Idle /\ drv' \in {drv, "Down"} /\ drv' \in {"Ready", "Down"}
         /\ content' \in ContentType /\ strayed' \in BOOLEAN
         /\ drv = "Ready" => \A x \in Int : x > frag.event => Newer(x, got')
<1>1. drv = "Ready" => frag.event \in Events /\ frag.event \in Int
  BY DEF Fragments, Events
<1>2. PICK r \in Results[drv = "Ready"] :
        /\ got' = IF drv = "Ready" /\ r.result = "ok"
                  THEN Append(got, SubSeq(bytes[buf], 1, local.declared)) ELSE got
        /\ strayed' = (strayed \/ ~r.within)
        /\ Return(r.result)
  BY DEF Deliver
<1>3. Idle /\ drv' \in {drv, "Down"} /\ drv' \in {"Ready", "Down"}
  BY <1>2, ReturnDriver
<1>4. strayed' \in BOOLEAN
  BY <1>2 DEF HostType
<1>5. content' \in ContentType
  <2>1. content' = [content EXCEPT ![buf] = Empty]
    BY DEF Deliver
  <2> QED BY <2>1, Ranges DEF HostType, ContentType
<1>6. CASE drv = "Ready" /\ r.result = "ok"
  <2>1. SubSeq(bytes[buf], 1, local.declared) = Pieces(frag.event, local.declared)
    BY <1>1, <1>6, WholeBuffer
  <2>2. got' = Append(got, Pieces(frag.event, local.declared))
    BY <1>2, <1>6, <2>1
  <2>3. /\ GotInv(got', sent)
        /\ \A x \in Int : x > frag.event => Newer(x, got')
    BY <1>1, <1>6, <2>2, GotMore
  <2> QED BY <1>3, <1>4, <1>5, <2>3
<1>7. CASE ~(drv = "Ready" /\ r.result = "ok")
  <2>1. got' = got
    BY <1>2, <1>7
  <2>2. drv = "Ready" => \A x \in Int : x > frag.event => Newer(x, got)
    BY <1>1, NewerLater
  <2> QED BY <1>3, <1>4, <1>5, <2>1, <2>2
<1> QED BY <1>6, <1>7

-----------------------------------------------------------------------------
(* The firmware's steps *)

(* A longer stream: wherever the host is, it finds its way. *)
LEMMA PlaceMore ==
  ASSUME NEW n \in Nat, NEW s, NEW t, NEW g, t # <<>>, GotInv(g, n),
         s # <<>> => t[1] = s[1],
         s = <<>> => t[1].event = n + 1 /\ t[1].index = 1
  PROVE  /\ AtStart(s, g) => AtStart(t, g)
         /\ \A p, c : Inside(p, s, g, c) => Inside(p, t, g, c)
         /\ \A f : f.event <= n /\ f.event \in Int /\ After(f, s) => After(f, t)
<1>1. AtStart(s, g) => AtStart(t, g)
  BY GotLater DEF AtStart
<1>2. \A p, c : Inside(p, s, g, c) => Inside(p, t, g, c)
  BY DEF Inside
<1>3. ASSUME NEW f, f.event <= n, f.event \in Int, After(f, s) PROVE After(f, t)
  <2>1. CASE s # <<>>
    BY <1>3, <2>1 DEF After
  <2>2. CASE s = <<>>
    <3>1. Ends(f)
      BY <1>3, <2>2 DEF After
    <3>2. Follows(f, t[1])
      BY <1>3, <2>2, <3>1 DEF Follows
    <3> QED BY <3>2 DEF After
  <2> QED BY <2>1, <2>2
<1> QED BY <1>1, <1>2, <1>3

(* The firmware makes an event. *)
LEMMA FirmwareEventHolds == IInv /\ FirmwareEvent => IInv'
<1> SUFFICES ASSUME IInv, FirmwareEvent PROVE IInv'
  OBVIOUS
<1>0. /\ HostType /\ CallInv /\ StreamInv /\ CountInv /\ GotInv(got, sent)
      /\ sent \in Nat /\ queue \in Seq(Fragments)
  BY Ranges DEF IInv, StreamInv
<1>1. /\ rest = <<>> /\ sent < MaxEvents /\ sent' = sent + 1
      /\ UNCHANGED <<wrapped, queue, free, pending, drv, call, content, got, strayed, faults>>
  BY DEF FirmwareEvent
<1>2. PICK len \in Lengths : rest' = Pieces(sent + 1, len)
  BY DEF FirmwareEvent
<1>3. Stream = queue /\ Stream' = queue \o Pieces(sent + 1, len)
  BY <1>0, <1>1, <1>2, ConcatEmptySeq DEF Stream
<1>4. /\ Ordered(Stream', sent + 1)
      /\ Stream' # <<>>
      /\ Stream # <<>> => Stream'[1] = Stream[1]
      /\ Stream = <<>> => Stream'[1] = [event |-> sent + 1, index |-> 1, len |-> len]
  BY <1>0, <1>1, <1>3, OrderedMore DEF StreamInv
<1>5. HostType' /\ CallInv' /\ (Taking' <=> Taking) /\ frag' = frag
  BY <1>0, <1>1 DEF HostType, CallInv, call, Taking
<1>6. StreamInv'
  <2>1. sent + 1 \in Events /\ sent' \in 0 .. MaxEvents
    BY <1>0, <1>1, Ranges DEF Events
  <2>2. /\ rest' \in Seq(Fragments)
        /\ Len(rest') = IF len = 0 THEN 1 ELSE len
    BY <1>2, <2>1, PiecesFields
  <2>3. len \in Nat /\ len <= MaxLen /\ MaxLen \in Nat \ {0}
    BY Ranges DEF Lengths
  <2>4. Len(rest') \in Nat /\ Len(rest') <= MaxLen
    BY <2>2, <2>3
  <2>5. Len(queue) \in Nat /\ Len(queue) <= sent * MaxLen
    BY <1>0, <1>1, LenProperties DEF StreamInv
  <2>6. (sent + 1) * MaxLen = sent * MaxLen + MaxLen /\ sent * MaxLen \in Nat
    BY <1>0, <2>3
  <2>7. Len(queue) + Len(rest') <= (sent + 1) * MaxLen
    BY <2>3, <2>4, <2>5, <2>6
  <2>8. frag.event <= sent + 1
    <3>1. frag.event \in Int /\ frag.event <= sent
      BY <1>0, Ranges DEF HostType, StreamInv, Fragments, Events
    <3> QED BY <1>0, <3>1
  <2> QED BY <1>0, <1>1, <1>4, <1>5, <2>1, <2>2, <2>4, <2>7, <2>8 DEF StreamInv
<1>7. Count' = Count /\ CountInv'
  <2>1. Count' = Count
    BY <1>1, <1>5 DEF Count
  <2> QED BY <1>0, <1>1, <2>1 DEF CountInv
<1>8. GotInv(got', sent')
  BY <1>0, <1>1, GotLater
<1>9. ASSUME Place PROVE Place'
  <2>1. frag.event \in Int /\ frag.event <= sent
    BY <1>0, Ranges DEF HostType, StreamInv, Fragments, Events
  <2>2. /\ AtStart(Stream, got) => AtStart(Stream', got)
        /\ \A p, c : Inside(p, Stream, got, c) => Inside(p, Stream', got, c)
        /\ After(frag, Stream) => After(frag, Stream')
    <3> DEFINE s == Stream
               t == Stream'
    <3>1. /\ t # <<>> /\ (s # <<>> => t[1] = s[1])
          /\ s = <<>> => t[1].event = sent + 1 /\ t[1].index = 1
      BY <1>4
    <3> HIDE DEF s, t
    <3>2. /\ AtStart(s, got) => AtStart(t, got)
          /\ \A p, c : Inside(p, s, got, c) => Inside(p, t, got, c)
          /\ After(frag, s) => After(frag, t)
      BY <1>0, <2>1, <3>1, PlaceMore
    <3> QED BY <3>2 DEF s, t
  <2> QED BY <1>1, <1>9, <2>2 DEF Place, call
<1> QED BY <1>0, <1>1, <1>5, <1>6, <1>7, <1>8, <1>9 DEF IInv

(* The firmware queues a fragment of it. *)
LEMMA FirmwareQueuesHolds == IInv /\ FirmwareQueues => IInv'
<1> SUFFICES ASSUME IInv, FirmwareQueues PROVE IInv'
  OBVIOUS
<1>0. /\ HostType /\ CallInv /\ StreamInv /\ CountInv /\ GotInv(got, sent)
      /\ sent \in Nat /\ queue \in Seq(Fragments) /\ rest \in Seq(Fragments)
  BY Ranges DEF IInv, StreamInv
<1>1. /\ rest # <<>> /\ free > 0
      /\ queue' = Append(queue, Head(rest)) /\ rest' = Tail(rest)
      /\ free' = (IF Head(rest).event \in Kept THEN free ELSE free - 1)
      /\ UNCHANGED <<wrapped, sent, pending, drv, call, content, got, strayed, faults>>
  BY DEF FirmwareQueues
<1>2. /\ Stream' = Stream /\ queue' \in Seq(Fragments) /\ rest' \in Seq(Fragments)
      /\ Len(queue') = Len(queue) + 1 /\ Len(rest') = Len(rest) - 1
      /\ Head(rest) \in Fragments
  BY <1>0, <1>1, Queued, HeadTailProperties DEF Stream
<1>3. HostType' /\ CallInv' /\ (Taking' <=> Taking) /\ frag' = frag
  BY <1>0, <1>1 DEF HostType, CallInv, call, Taking
<1>4. StreamInv'
  <2>1. Len(queue) \in Nat /\ Len(rest) \in Nat
    BY <1>0, LenProperties
  <2>2. Len(queue') + Len(rest') = Len(queue) + Len(rest) /\ Len(rest') <= MaxLen
    BY <1>0, <1>2, <2>1, Ranges DEF StreamInv
  <2> QED BY <1>0, <1>1, <1>2, <1>3, <2>2 DEF StreamInv
<1>5. Cardinality(InQueue(queue')) = Cardinality(InQueue(queue)) + Loan(Head(rest))
  BY <1>0, <1>1, <1>2, LoanQueued
<1>6. free' = free - Loan(Head(rest)) /\ Loan(Head(rest)) \in {0, 1} /\ free \in 0 .. Pool
  BY <1>0, <1>1 DEF CountInv, Loan
<1>7. free' \in 0 .. Pool /\ free' + Count' = free + Count
  <2>1. Cardinality(InQueue(queue)) \in Nat /\ Loan(frag) \in {0, 1}
    BY <1>0, CountType
  <2>2. Count' = Count + Loan(Head(rest)) /\ Count \in Nat
    <3>1. CASE Taking
      BY <1>3, <1>5, <1>6, <2>1, <3>1 DEF Count, Loan
    <3>2. CASE ~Taking
      BY <1>3, <1>5, <1>6, <2>1, <3>2 DEF Count
    <3> QED BY <3>1, <3>2
  <2>3. free' \in 0 .. Pool
    BY <1>1, <1>6, Ranges
  <2> QED BY <1>6, <2>2, <2>3
<1>8. Place => Place'
  BY <1>1, <1>2 DEF Place, call
<1> QED BY <1>0, <1>1, <1>3, <1>4, <1>7, <1>8 DEF IInv, CountInv
-----------------------------------------------------------------------------
(* The steps of a call *)

(* The buffer of the fragment in hand goes back, or stays lent. *)
LEMMA ReleasedIs ==
  ASSUME NEW r, free \in Int
  PROVE  /\ Released(r) \in {free, free + Loan(frag)}
         /\ r <=> (frag.event \notin Kept) => Released(r) = free + Loan(frag)
  BY DEF Released, Loan

(* A call that returns without a failed transfer *)
LEMMA IdleHolds ==
  ASSUME IInv, Idle, UNCHANGED <<wrapped, sent, rest, queue, faults>>,
         drv' \in {drv, "Down"},
         content' \in ContentType, strayed' \in BOOLEAN,
         pending' = NoPending \/ Unfinished(pending'),
         GotInv(got', sent),
         free' \in Int, free' >= free, free' <= free + (IF Taking THEN Loan(frag) ELSE 0),
         drv = "Ready" =>
           /\ free' = free + IF Taking THEN Loan(frag) ELSE 0
           /\ pending' = NoPending => AtStart(Stream, got')
           /\ pending' # NoPending => Inside(pending', Stream, got', content')
  PROVE  IInv'
<1>0. /\ HostType /\ StreamInv /\ CountInv /\ queue \in Seq(Fragments)
  BY DEF IInv, StreamInv
<1>1. HostType' /\ CallInv' /\ ~Taking' /\ frag' = NoFragment /\ pc' = "idle"
  <2>1. drv' \in {"Ready", "Down"} /\ faults' \in 0 .. MaxFaults
    BY <1>0 DEF HostType
  <2> QED BY <1>0, <2>1, Returned
<1>2. StreamInv' /\ Stream' = Stream
  BY <1>0, <1>1, StreamKept
<1>3. /\ Cardinality(InQueue(queue)) \in Nat /\ Loan(frag) \in {0, 1}
      /\ Count' = Cardinality(InQueue(queue))
      /\ Count = Cardinality(InQueue(queue)) + IF Taking THEN Loan(frag) ELSE 0
  <2>1. Cardinality(InQueue(queue)) \in Nat /\ Loan(frag) \in {0, 1}
    BY <1>0, CountType
  <2>2. Count' = Cardinality(InQueue(queue))
    BY <1>1, <2>1 DEF Count
  <2> QED BY <2>1, <2>2 DEF Count
<1>4. CountInv' /\ (drv = "Ready" /\ free + Count = Pool => free' + Count' = Pool)
  <2> DEFINE x == IF Taking THEN Loan(frag) ELSE 0
  <2>1. x \in {0, 1}
    BY <1>3
  <2>2. Count = Cardinality(InQueue(queue)) + x /\ free' <= free + x
        /\ (drv = "Ready" => free' = free + x)
    BY <1>3
  <2> HIDE DEF x
  <2>3. free \in 0 .. Pool /\ free + Count <= Pool
    BY <1>0 DEF CountInv
  <2>4. free' \in 0 .. Pool /\ free' + Count' <= Pool
    BY <1>3, <2>1, <2>2, <2>3, Ranges
  <2>5. drv = "Ready" /\ free + Count = Pool => free' + Count' = Pool
    BY <1>3, <2>1, <2>2, <2>3
  <2> QED BY <2>4, <2>5 DEF CountInv
<1>5. drv' = "Ready" => Place'
  <2> SUFFICES ASSUME drv' = "Ready" PROVE Place'
    OBVIOUS
  <2>1. drv = "Ready"
    OBVIOUS
  <2> QED BY <1>1, <1>2, <2>1 DEF Place
<1>6. drv' = "Ready" => drv = "Ready" /\ free + Count = Pool
  BY DEF IInv
<1> QED BY <1>1, <1>2, <1>4, <1>5, <1>6 DEF IInv

(* A step of a call that leaves the queue alone *)
LEMMA StepHolds ==
  ASSUME IInv, UNCHANGED <<sent, rest, queue, free, frag, got, drv>>,
         HostType', CallInv', Taking' <=> Taking,
         drv = "Ready" /\ Place => Place'
  PROVE  IInv'
<1>1. StreamInv'
  BY StreamKept DEF IInv
<1>2. Count' = Count
  BY DEF Count
<1> QED BY <1>1, <1>2 DEF IInv, CountInv

(* The progress of an event, marked for removal *)
LEMMA MarkedIs ==
  ASSUME NEW p \in Pending
  PROVE  /\ Marked(p) \in Pending /\ Marked(p).discard = TRUE
         /\ Marked(p).declared = p.declared /\ Marked(p).copied = p.copied
         /\ Marked(p).resubmit = p.resubmit
         /\ Unfinished(p) => Unfinished(Marked(p))
         /\ \A s, g, c, d : Inside(p, s, g, c) => Inside(Marked(p), s, g, d)
<1>1. /\ Marked(p) \in Pending /\ Marked(p).discard = TRUE
      /\ Marked(p).declared = p.declared /\ Marked(p).copied = p.copied
      /\ Marked(p).resubmit = p.resubmit
  BY DEF Marked, Pending
<1>2. Unfinished(p) => Unfinished(Marked(p))
  BY <1>1 DEF Unfinished
<1>3. \A s, g, c, d : Inside(p, s, g, c) => Inside(Marked(p), s, g, d)
  BY <1>1 DEF Inside, Matches, Copied
<1> QED BY <1>1, <1>2, <1>3

(* An event that is being read is not NoPending. *)
LEMMA SomePending ==
  ASSUME NEW p \in Pending
  PROVE  p # NoPending /\ p \in LocalType /\ p.declared \in Nat /\ p.copied \in Nat \ {0}
<1>1. p.declared \in 2 .. MaxLen /\ p.copied \in 1 .. MaxLen
  BY DEF Pending
<1>2. p.declared # 0
  BY <1>1
<1>3. p # NoPending
  BY <1>2 DEF NoPending
<1>4. 2 .. MaxLen \subseteq Lengths /\ 1 .. MaxLen \subseteq 0 .. MaxLen
  BY Ranges DEF Lengths
<1>5. p \in LocalType
  BY <1>4 DEF Pending, LocalType
<1> QED BY <1>1, <1>3, <1>5, Ranges

(* pending_buffer_changed and discard_pending_event *)
LEMMA MarkHolds ==
  ASSUME IInv, pc = "idle", pending # NoPending, pending' = Marked(pending),
         UNCHANGED <<wrapped, firmware, drv, call, content, got, strayed, faults>>
  PROVE  IInv'
<1>1. pending \in Pending /\ Unfinished(pending)
  BY DEF IInv, HostType, Unfinished
<1>2. pending' \in Pending /\ Unfinished(pending') /\ pending' # NoPending
  BY <1>1, MarkedIs, SomePending
<1>3. /\ UNCHANGED <<sent, rest, queue, free, frag, got, drv, pc, buf, local, removed>>
      /\ UNCHANGED <<wrapped, content, strayed, faults>>
  BY DEF firmware, call
<1>4. HostType'
  BY <1>2, <1>3 DEF IInv, HostType
<1>5. CallInv' /\ (Taking' <=> Taking)
  BY <1>3 DEF CallInv, Taking
<1>6. ASSUME Place PROVE Place'
  <2>1. Inside(pending, Stream, got, content)
    BY <1>6 DEF Place
  <2>2. Inside(pending', Stream, got, content)
    BY <1>1, <2>1, MarkedIs
  <2>3. Stream' = Stream
    BY <1>3 DEF Stream
  <2> QED BY <1>2, <1>3, <2>2, <2>3 DEF Place
<1> QED BY <1>3, <1>4, <1>5, <1>6, StepHolds

(* A call with another buffer while an event is pending *)
LEMMA PollChangedHolds == ASSUME NEW b \in Scratch PROVE IInv /\ PollChanged(b) => IInv'
  BY MarkHolds DEF PollChanged

(* discard_pending_event *)
LEMMA DiscardPendingHolds == IInv /\ DiscardPending => IInv'
  BY MarkHolds DEF DiscardPending

(* A call that goes on with the pending event *)
LEMMA PollPendingHolds == ASSUME NEW b \in Scratch PROVE IInv /\ PollPending(b) => IInv'
<1> SUFFICES ASSUME IInv, PollPending(b) PROVE IInv'
  OBVIOUS
<1>1. /\ pc = "idle" /\ pending # NoPending /\ ~BufferChanged(b)
      /\ pc' = "drain" /\ buf' = b /\ local' = pending /\ removed' = FALSE
      /\ UNCHANGED <<wrapped, frag, sent, rest, queue, free, pending, drv, content, got,
                     strayed, faults>>
  BY DEF PollPending, firmware
<1>2. pending \in Pending /\ Unfinished(pending)
  BY <1>1 DEF IInv, HostType, Unfinished
<1>3. pending \in LocalType /\ pending.declared \in Nat /\ pending.copied \in Nat
  BY <1>2, SomePending
<1>4. HostType'
  BY <1>1, <1>3 DEF IInv, HostType
<1>5. ~pending.discard => pending.scratch = b
  BY <1>1 DEF BufferChanged
<1>6. CallInv' /\ (Taking' <=> Taking)
  <2>1. pending.copied <= pending.declared /\ pending.copied # pending.declared
    BY <1>2, <1>3 DEF Unfinished
  <2> QED BY <1>1, <1>2, <1>5, <2>1 DEF CallInv, Taking
<1>7. ASSUME Place PROVE Place'
  <2>1. Inside(pending, Stream, got, content)
    BY <1>1, <1>7 DEF Place
  <2>2. Stream' = Stream
    BY <1>1 DEF Stream
  <2>3. pending.copied < pending.declared /\ pending.copied # pending.declared
    BY <1>2, <1>3 DEF Unfinished
  <2> QED BY <1>1, <2>1, <2>2, <2>3 DEF Place
<1> QED BY <1>1, <1>4, <1>6, <1>7, StepHolds

(* A call while no event is pending *)
LEMMA PollNewHolds == ASSUME NEW b \in Scratch PROVE IInv /\ PollNew(b) => IInv'
<1> SUFFICES ASSUME IInv, PollNew(b) PROVE IInv'
  OBVIOUS
<1>1. /\ pc = "idle" /\ pending = NoPending /\ pc' = "new" /\ buf' = b
      /\ UNCHANGED <<wrapped, local, removed, frag, sent, rest, queue, free, pending, drv,
                     content, got, strayed, faults>>
  BY DEF PollNew, firmware
<1>2. HostType' /\ CallInv' /\ (Taking' <=> Taking)
  BY <1>1 DEF IInv, HostType, CallInv, Taking
<1>3. ASSUME Place PROVE Place'
  <2>1. Stream' = Stream
    BY <1>1 DEF Stream
  <2> QED BY <1>1, <1>3, <2>1 DEF Place
<1> QED BY <1>1, <1>2, <1>3, StepHolds
(* A failed dequeue *)
LEMMA FailedDequeueHolds ==
  ASSUME IInv, ~Retries, FailedDequeue,
         UNCHANGED <<wrapped, sent, rest, free, pending, content, got, strayed>>
  PROVE  IInv'
<1>1. Failure /\ Return("rpu") /\ (queue' = queue \/ (queue # <<>> /\ queue' = Tail(queue)))
  BY DEF FailedDequeue
<1>2. free' \in 0 .. Pool /\ free' + Cardinality(InQueue(queue)) <= Pool
  <2>1. free \in 0 .. Pool /\ free + Count <= Pool
    BY DEF IInv, CountInv
  <2>2. Cardinality(InQueue(queue)) \in Nat /\ Loan(frag) \in {0, 1}
    BY CountType DEF IInv, StreamInv
  <2>3. Count >= Cardinality(InQueue(queue)) /\ Count \in Nat
    BY <2>2 DEF Count
  <2> QED BY <2>1, <2>2, <2>3, Ranges
<1> QED BY <1>1, <1>2, FailHolds

(* A call that takes a fragment from the queue *)
LEMMA TakeHolds ==
  ASSUME IInv, queue # <<>>, queue' = Tail(queue), frag' = Head(queue), ~Taking, Taking',
         UNCHANGED <<wrapped, sent, rest, free, pending, drv, content, got, strayed, faults,
                     buf, local, removed>>,
         pc' \in {"fragment", "header"}, CallInv',
         Stream # <<>> /\ Stream[1] = frag' /\ After(frag', Stream') /\ drv = "Ready" /\ Place
           => Place'
  PROVE  IInv'
<1>0. HostType /\ StreamInv /\ CountInv /\ queue \in Seq(Fragments)
  BY DEF IInv, StreamInv
<1>1. /\ StreamInv' /\ Stream # <<>> /\ Stream[1] = frag'
      /\ frag' \in Fragments /\ After(frag', Stream')
      /\ Cardinality(InQueue(queue)) = Cardinality(InQueue(queue')) + Loan(frag')
      /\ queue' \in Seq(Fragments)
  BY <1>0, StreamTail
<1>2. HostType'
  BY <1>0, <1>1 DEF HostType
<1>3. Count' = Count
  <2>1. Count = Cardinality(InQueue(queue))
    <3>1. Cardinality(InQueue(queue)) \in Nat
      BY <1>0, InQueueFinite
    <3> QED BY <3>1 DEF Count
  <2>2. Count' = Cardinality(InQueue(queue')) + Loan(frag')
    BY DEF Count, Loan
  <2> QED BY <1>1, <2>1, <2>2
<1> QED BY <1>1, <1>2, <1>3 DEF IInv, CountInv

(* The rest of an event marked for removal is taken from the queue. *)
LEMMA DrainHolds == ASSUME ~Retries PROVE IInv /\ Drain => IInv'
<1> SUFFICES ASSUME IInv, Drain PROVE IInv'
  OBVIOUS
<1>0. /\ pc = "drain" /\ HostType /\ CallInv /\ ~Taking
      /\ UNCHANGED <<wrapped, sent, rest, free, pending, content, got, strayed>>
  BY DEF IInv, Drain, Taking
<1>1. /\ local \in Pending /\ local.copied <= local.declared /\ pending # NoPending
      /\ local.declared \in Nat /\ local.copied \in Nat /\ buf \in Scratch
  BY <1>0, SomePending DEF CallInv
<1>2. CASE Ok /\ Goto("ack") /\ UNCHANGED <<queue, drv>>
  <2>1. pc' = "ack" /\ UNCHANGED <<buf, local, removed, frag, queue, drv, faults>>
    BY <1>2 DEF Goto, Ok
  <2>2. HostType' /\ CallInv' /\ (Taking' <=> Taking)
    BY <1>0, <1>1, <2>1 DEF HostType, CallInv, Taking
  <2>3. Stream' = Stream
    BY <1>0, <2>1 DEF Stream
  <2>4. Place => Place'
    BY <1>0, <2>1, <2>3 DEF Place
  <2> QED BY <1>0, <2>1, <2>2, <2>4, StepHolds
<1>3. CASE /\ local.copied < local.declared /\ queue = <<>> /\ ~removed
           /\ Ok /\ Return("ok") /\ UNCHANGED queue
  <2>1. Idle /\ drv' = drv
    BY <1>0, <1>3, ReturnDriver
  <2>2. local = pending /\ Unfinished(pending)
    BY <1>0, <1>3 DEF CallInv, HostType
  <2>3. drv = "Ready" => Inside(pending, Stream, got, content)
    BY <1>0, <1>3, <2>2 DEF IInv, Place
  <2>4. free \in Int /\ GotInv(got, sent) /\ content \in ContentType /\ strayed \in BOOLEAN
    BY DEF IInv, CountInv, HostType
  <2> QED BY <1>0, <1>1, <1>3, <2>1, <2>2, <2>3, <2>4, IdleHolds DEF Ok
<1>4. CASE /\ local.copied < local.declared /\ queue # <<>>
           /\ Ok
           /\ frag' = Head(queue) /\ queue' = Tail(queue)
           /\ pc' = "fragment" /\ UNCHANGED <<buf, local, removed, drv>>
  <2>1. frag' \in Fragments
    BY <1>4, HeadTailProperties DEF IInv, StreamInv
  <2>2. CallInv' /\ Taking'
    BY <1>0, <1>1, <1>4, <2>1 DEF CallInv, Taking
  <2>3. ASSUME Stream # <<>>, Stream[1] = frag', After(frag', Stream'), Place PROVE Place'
    <3>1. Inside(local, Stream, got, content)
      BY <1>0, <1>4, <2>3 DEF Place
    <3>2. Matches(local, frag', got, content)
      BY <2>3, <3>1 DEF Inside
    <3> QED BY <1>0, <1>4, <2>3, <3>2 DEF Place
  <2> QED BY <1>0, <1>4, <2>2, <2>3, TakeHolds DEF Ok
<1>5. CASE local.copied < local.declared /\ FailedDequeue
  BY <1>0, <1>5, FailedDequeueHolds
<1> QED BY <1>2, <1>3, <1>4, <1>5 DEF Drain

(* A call that looks for the next event *)
LEMMA BeginNewHolds == ASSUME ~Retries PROVE IInv /\ BeginNew => IInv'
<1> SUFFICES ASSUME IInv, BeginNew PROVE IInv'
  OBVIOUS
<1>0. /\ pc = "new" /\ HostType /\ CallInv /\ ~Taking /\ pending = NoPending /\ buf \in Scratch
      /\ UNCHANGED <<wrapped, sent, rest, free, pending, content, got, strayed>>
  BY DEF IInv, BeginNew, Taking, CallInv
<1>1. CASE queue = <<>> /\ Ok /\ Return("ok") /\ UNCHANGED queue
  <2>1. Idle /\ drv' = drv
    BY <1>0, <1>1, ReturnDriver
  <2>2. drv = "Ready" => AtStart(Stream, got)
    BY <1>0 DEF IInv, Place
  <2>3. free \in Int /\ GotInv(got, sent) /\ content \in ContentType /\ strayed \in BOOLEAN
    BY DEF IInv, CountInv, HostType
  <2> QED BY <1>0, <1>1, <2>1, <2>2, <2>3, IdleHolds DEF Ok
<1>2. CASE /\ queue # <<>>
           /\ Ok
           /\ frag' = Head(queue) /\ queue' = Tail(queue)
           /\ pc' = "header" /\ UNCHANGED <<buf, local, removed, drv>>
  <2>1. frag' \in Fragments
    BY <1>2, HeadTailProperties DEF IInv, StreamInv
  <2>2. CallInv' /\ Taking'
    BY <1>0, <1>2, <2>1 DEF CallInv, Taking
  <2>3. ASSUME Stream # <<>>, Stream[1] = frag', After(frag', Stream'), Place PROVE Place'
    <3>1. AtStart(Stream, got)
      BY <1>0, <2>3 DEF Place
    <3>2. frag'.index = 1 /\ Newer(frag'.event, got)
      BY <2>3, <3>1 DEF AtStart
    <3> QED BY <1>0, <1>2, <2>3, <3>2 DEF Place
  <2> QED BY <1>0, <1>2, <2>2, <2>3, TakeHolds DEF Ok
<1>3. CASE FailedDequeue
  BY <1>0, <1>3, FailedDequeueHolds
<1> QED BY <1>1, <1>2, <1>3 DEF BeginNew

(* A new bring-up after a bus error *)
LEMMA RecoverHolds == IInv /\ Recover => IInv'
<1> SUFFICES ASSUME IInv, Recover PROVE IInv'
  OBVIOUS
<1>1. /\ pc = "idle" /\ rest' = <<>> /\ queue' = <<>> /\ free' = Pool
      /\ pending' = NoPending /\ drv' = "Ready"
      /\ UNCHANGED <<wrapped, sent, pc, buf, local, removed, frag, content, got, strayed,
                     faults>>
  BY DEF Recover, call
<1>2. HostType' /\ CallInv' /\ ~Taking'
  BY <1>1 DEF IInv, HostType, CallInv, Taking
<1>3. Stream' = <<>>
  BY <1>1, EmptyStream DEF Stream
<1>4. StreamInv'
  <2>1. sent \in Nat /\ sent * MaxLen \in Nat /\ MaxLen \in Nat
    BY Ranges DEF IInv, StreamInv
  <2> QED BY <1>1, <1>3, <2>1, EmptyStream DEF IInv, StreamInv
<1>5. Count' = 0 /\ CountInv'
  <2>1. Count' = 0
    BY <1>1, <1>2, EmptyStream DEF Count
  <2> QED BY <1>1, <2>1, Ranges DEF CountInv
<1>6. Place'
  BY <1>1, <1>3 DEF Place, AtStart
<1>7. GotInv(got', sent')
  BY <1>1 DEF IInv
<1> QED BY <1>1, <1>2, <1>4, <1>5, <1>6, <1>7, Ranges DEF IInv

(* read_event_header *)
LEMMA ReadHeaderHolds == ASSUME ~Retries PROVE IInv /\ ReadHeader => IInv'
<1> SUFFICES ASSUME IInv, ReadHeader PROVE IInv'
  OBVIOUS
<1>0. /\ pc = "header" /\ HostType /\ CallInv /\ Taking /\ pending = NoPending
      /\ buf \in Scratch /\ frag \in Fragments
      /\ UNCHANGED <<wrapped, sent, rest, queue, free, pending, content, got, strayed>>
  BY DEF IInv, ReadHeader, Taking, CallInv, firmware
<1>1. CASE Failure /\ Return("rpu")
  <2>1. free' \in 0 .. Pool /\ free' + Cardinality(InQueue(queue)) <= Pool
    <3>1. free \in 0 .. Pool /\ free + Count <= Pool
      BY DEF IInv, CountInv
    <3>2. Cardinality(InQueue(queue)) \in Nat /\ Loan(frag) \in {0, 1}
      BY CountType DEF IInv, StreamInv
    <3>3. Count = Cardinality(InQueue(queue)) + Loan(frag)
      BY <1>0 DEF Count, Loan
    <3> QED BY <1>0, <3>1, <3>2, <3>3, Ranges
  <2> QED BY <1>0, <1>1, <2>1, FailHolds
<1>2. CASE /\ Ok
           /\ \E declared \in IF frag.index = 1 THEN {frag.len} ELSE Lengths,
                 resubmit \in IF frag.index = 1 THEN {frag.event \notin Kept} ELSE BOOLEAN :
                local' = [declared |-> declared, copied |-> IF declared = 0 THEN 0 ELSE 1,
                          resubmit |-> resubmit, scratch |-> buf, discard |-> FALSE]
           /\ pc' = "first" /\ UNCHANGED <<buf, removed, frag, drv>>
  <2>1. PICK declared \in IF frag.index = 1 THEN {frag.len} ELSE Lengths,
             resubmit \in IF frag.index = 1 THEN {frag.event \notin Kept} ELSE BOOLEAN :
          local' = [declared |-> declared, copied |-> IF declared = 0 THEN 0 ELSE 1,
                    resubmit |-> resubmit, scratch |-> buf, discard |-> FALSE]
    BY <1>2
  <2>2. declared \in Lengths /\ (frag.index = 1 => declared = frag.len)
    BY <1>0, <2>1 DEF Fragments
  <2>3. resubmit \in BOOLEAN /\ (frag.index = 1 => resubmit = (frag.event \notin Kept))
    BY <2>1
  <2>4. (IF declared = 0 THEN 0 ELSE 1) \in 0 .. MaxLen
    BY <2>2, Ranges DEF Lengths
  <2>5. local' \in LocalType
    BY <1>0, <2>1, <2>2, <2>3, <2>4 DEF LocalType
  <2>6. HostType' /\ (Taking' <=> Taking)
    BY <1>0, <1>2, <2>5 DEF HostType, Taking, Ok
  <2>7. /\ local'.declared = declared /\ local'.copied = (IF declared = 0 THEN 0 ELSE 1)
        /\ local'.resubmit = resubmit /\ local'.scratch = buf /\ local'.discard = FALSE
    BY <2>1
  <2>8. CallInv'
    BY <1>0, <1>2, <2>7 DEF CallInv, Taking
  <2>9. ASSUME Place PROVE Place'
    <3>1. Stream' = Stream
      BY <1>0 DEF Stream
    <3>2. frag.index = 1 /\ Newer(frag.event, got) /\ After(frag, Stream)
      BY <1>0, <2>9 DEF Place
    <3>3. local'.declared = frag.len /\ local'.resubmit = (frag.event \notin Kept)
      BY <2>2, <2>3, <2>7, <3>2
    <3> QED BY <1>0, <1>2, <3>1, <3>2, <3>3 DEF Place
  <2> QED BY <1>0, <1>2, <2>6, <2>8, <2>9, StepHolds
<1> QED BY <1>1, <1>2 DEF ReadHeader
(* A fragment read to its place in the buffer *)
LEMMA WrittenIs ==
  ASSUME HostType, buf \in Scratch, frag \in Fragments,
         NEW k \in Nat, k < MaxLen
  PROVE  /\ Written(k) \in ContentType
         /\ Written(k)[buf][k + 1] = frag
         /\ k # 0 => \A i \in 1 .. k : Written(k)[buf][i] = content[buf][i]
<1> DEFINE old == IF k = 0 THEN Empty ELSE content[buf]
           new == [old EXCEPT ![k + 1] = frag]
<1>1. content \in ContentType /\ content[buf] \in [1 .. MaxLen -> Fragments \cup {NoFragment}]
  BY DEF HostType, ContentType
<1>2. old \in [1 .. MaxLen -> Fragments \cup {NoFragment}]
  BY <1>1, Ranges
<1>3. Written(k) = [content EXCEPT ![buf] = new]
  BY DEF Written
<1> HIDE DEF old
<1>4. k + 1 \in 1 .. MaxLen
  BY Ranges
<1>5. /\ new \in [1 .. MaxLen -> Fragments \cup {NoFragment}]
      /\ new[k + 1] = frag
      /\ \A i \in 1 .. k : new[i] = old[i]
  <2>1. \A i \in 1 .. k : i \in 1 .. MaxLen /\ i # k + 1
    BY Ranges
  <2> QED BY <1>2, <1>4, <2>1
<1> HIDE DEF new
<1>6. Written(k) \in ContentType
  BY <1>1, <1>3, <1>5 DEF ContentType
<1>7. Written(k)[buf] = new
  BY <1>1, <1>3 DEF ContentType
<1> QED BY <1>5, <1>6, <1>7 DEF old

(* A fragment is known by its fields. *)
LEMMA FragmentIs ==
  ASSUME NEW f \in Fragments
  PROVE  /\ f = [event |-> f.event, index |-> f.index, len |-> f.len]
         /\ f.event \in Nat \ {0} /\ f.event \in Events /\ f.index \in Nat \ {0}
         /\ f.len \in Nat /\ f.len \in Lengths
<1>1. f = [event |-> f.event, index |-> f.index, len |-> f.len]
  BY DEF Fragments
<1>2. f.event \in Events /\ f.index \in 1 .. MaxLen /\ f.len \in Lengths
  BY DEF Fragments
<1> QED BY <1>1, <1>2, Ranges DEF Events, Lengths

(* Once an event is complete the stream is at the start of the next one. *)
LEMMA AfterEnd ==
  ASSUME StreamInv, NEW n \in Nat, NEW g, GotInv(g, n), NEW f \in Fragments, Ends(f),
         After(f, Stream), \A x \in Int : x > f.event => Newer(x, g)
  PROVE  AtStart(Stream, g)
<1> SUFFICES ASSUME Stream # <<>> PROVE Stream[1].index = 1 /\ Newer(Stream[1].event, g)
  BY DEF AtStart
<1>1. Stream[1].index = 1 /\ Stream[1].event > f.event
  BY DEF After, Follows
<1>2. Stream[1].event \in Int
  <2>1. Ordered(Stream, sent) /\ sent \in Nat
    BY Ranges DEF StreamInv
  <2>2. Stream[1] \in Fragments
    BY <2>1, OrderedTail
  <2> QED BY <2>2, FragmentIs
<1> QED BY <1>1, <1>2

(* Before it is, the stream goes on with the next fragment. *)
LEMMA AfterMiddle ==
  ASSUME NEW f \in Fragments, ~Ends(f), NEW s, After(f, s)
  PROVE  /\ s # <<>> /\ s[1].event = f.event /\ s[1].len = f.len
         /\ s[1].index = f.index + 1
<1>1. s # <<>> /\ s[1] = [f EXCEPT !.index = f.index + 1]
  BY DEF After, Follows
<1> QED BY <1>1 DEF Fragments

(* A fragment of a pending event *)
LEMMA ConsumeFragmentHolds == ASSUME ~Retries PROVE IInv /\ ConsumeFragment => IInv'
<1> SUFFICES ASSUME IInv, ConsumeFragment PROVE IInv'
  OBVIOUS
<1>0. /\ pc = "fragment" /\ HostType /\ CallInv /\ StreamInv /\ CountInv /\ Taking
      /\ buf \in Scratch /\ frag \in Fragments /\ pending # NoPending
      /\ local \in Pending /\ local.copied < local.declared
      /\ ~local.discard => local.scratch = buf
      /\ UNCHANGED <<wrapped, sent, rest, queue, pending, got, strayed>>
  BY DEF IInv, ConsumeFragment, Taking, CallInv
<1>1. /\ Cardinality(InQueue(queue)) \in Nat /\ Loan(frag) \in {0, 1}
      /\ Count = Cardinality(InQueue(queue)) + Loan(frag)
      /\ free \in 0 .. Pool /\ free + Count <= Pool /\ free \in Int
  <2>1. Cardinality(InQueue(queue)) \in Nat /\ Loan(frag) \in {0, 1}
    BY <1>0, CountType DEF StreamInv
  <2> QED BY <1>0, <2>1 DEF Count, CountInv
<1>2. /\ Released(local.resubmit) \in {free, free + Loan(frag)}
      /\ local.resubmit = (frag.event \notin Kept) =>
           Released(local.resubmit) = free + Loan(frag)
  BY <1>1, ReleasedIs
<1>3. CASE /\ Failure
           /\ free' \in {free, Released(local.resubmit)}
           /\ Return("rpu")
           /\ UNCHANGED content
  <2>1. free' \in 0 .. Pool /\ free' + Cardinality(InQueue(queue)) <= Pool
    BY <1>1, <1>2, <1>3, Ranges
  <2> QED BY <1>0, <1>3, <2>1, FailHolds
<1>4. CASE /\ Ok
           /\ content' = IF local.discard THEN content ELSE Written(local.copied)
           /\ free' = Released(local.resubmit)
           /\ local' = [local EXCEPT !.copied = @ + 1]
           /\ removed' = TRUE
           /\ pc' = "drain" /\ UNCHANGED <<buf, frag, drv>>
  <2> DEFINE k == local.copied
             d == local.declared
  <2>1. k \in Nat \ {0} /\ k < MaxLen /\ d \in Nat /\ d <= MaxLen /\ k + 1 \in 1 .. MaxLen
        /\ k < d
    <3>1. d \in 2 .. MaxLen /\ k \in 1 .. MaxLen
      BY <1>0 DEF Pending
    <3> QED BY <1>0, <3>1, Ranges
  <2>2. /\ local' \in Pending /\ local'.copied = k + 1 /\ local'.declared = d
        /\ local'.resubmit = local.resubmit /\ local'.scratch = local.scratch
        /\ local'.discard = local.discard
    BY <1>0, <1>4, <2>1 DEF Pending
  <2>3. /\ Written(k) \in ContentType
        /\ Written(k)[buf][k + 1] = frag
        /\ \A i \in 1 .. k : Written(k)[buf][i] = content[buf][i]
    BY <1>0, <2>1, WrittenIs
  <2>4. content' \in ContentType
    BY <1>0, <1>4, <2>3 DEF HostType
  <2>5. HostType'
    BY <1>0, <1>4, <2>2, <2>4, SomePending DEF HostType, Ok
  <2>6. CallInv' /\ ~Taking'
    BY <1>0, <1>4, <2>1, <2>2 DEF CallInv, Taking
  <2>7. StreamInv' /\ Stream' = Stream
    BY <1>0, <1>4, StreamKept
  <2>8. Count' = Cardinality(InQueue(queue))
    BY <1>0, <1>1, <2>6 DEF Count
  <2>9. CountInv' /\ (local.resubmit = (frag.event \notin Kept) =>
          free' + Count' = free + Count)
    <3>1. free' \in 0 .. Pool /\ free' + Count' <= Pool
      BY <1>1, <1>2, <1>4, <2>8, Ranges
    <3> QED BY <1>1, <1>2, <1>4, <2>8, <3>1 DEF CountInv
  <2>10. ASSUME Place PROVE Place' /\ local.resubmit = (frag.event \notin Kept)
    <3>1. /\ Matches(local, frag, got, content) /\ After(frag, Stream)
      BY <1>0, <2>10 DEF Place
    <3>2. /\ frag.len = d /\ Newer(frag.event, got) /\ frag.index = k + 1
          /\ local.resubmit = (frag.event \notin Kept)
      BY <3>1 DEF Matches, Copied
    <3>3. frag = [event |-> frag.event, index |-> k + 1, len |-> d]
      BY <1>0, <3>2, FragmentIs
    <3>4. ASSUME ~local.discard, NEW i \in 1 .. k + 1
          PROVE  content'[local.scratch][i] = [event |-> frag.event, index |-> i, len |-> d]
      <4>1. local.scratch = buf /\ content' = Written(k)
        BY <1>0, <1>4, <3>4
      <4>2. CASE i = k + 1
        BY <2>3, <3>3, <4>1, <4>2
      <4>3. CASE i # k + 1
        <5>1. i \in 1 .. k
          BY <2>1, <4>3
        <5>2. content[buf][i] = [event |-> frag.event, index |-> i, len |-> d]
          BY <3>1, <3>4, <4>1, <5>1 DEF Matches, Copied
        <5> QED BY <2>3, <4>1, <5>1, <5>2
      <4> QED BY <4>2, <4>3
    <3>5. \A f : f.event = frag.event /\ f.len = d => Copied(local', f, got, content')
      BY <2>2, <3>2, <3>4 DEF Copied
    <3>6. CASE k + 1 = d
      <4>1. Copied(local', frag, got, content') /\ frag.index = frag.len
        BY <3>2, <3>5, <3>6
      <4>2. ~(local'.copied < local'.declared)
        BY <2>1, <2>2, <3>6
      <4> QED BY <1>0, <1>4, <2>2, <2>7, <3>1, <3>2, <4>1, <4>2 DEF Place
    <3>7. CASE k + 1 # d
      <4>1. ~Ends(frag)
        BY <2>1, <3>2, <3>7 DEF Ends
      <4>2. /\ Stream # <<>> /\ Stream[1].event = frag.event /\ Stream[1].len = d
            /\ Stream[1].index = k + 1 + 1
        BY <1>0, <3>1, <3>2, <4>1, AfterMiddle
      <4>3. Inside(local', Stream, got, content')
        BY <2>2, <3>2, <3>5, <4>2 DEF Inside, Matches
      <4>4. local'.copied # local'.declared
        BY <2>2, <3>7
      <4> QED BY <1>0, <1>4, <2>7, <3>2, <4>3, <4>4 DEF Place
    <3> QED BY <3>6, <3>7
  <2>11. GotInv(got', sent')
    BY <1>0 DEF IInv
  <2> QED BY <1>0, <1>4, <2>5, <2>6, <2>7, <2>9, <2>10, <2>11 DEF IInv
<1> QED BY <1>3, <1>4 DEF ConsumeFragment

(* The end of a call that took a fragment: its buffer goes back. *)
LEMMA AcknowledgeHolds == ASSUME ~Retries PROVE IInv /\ Acknowledge => IInv'
<1> SUFFICES ASSUME IInv, Acknowledge PROVE IInv'
  OBVIOUS
<1>0. /\ pc = "ack" /\ HostType /\ CallInv /\ StreamInv /\ CountInv /\ ~Taking
      /\ buf \in Scratch /\ pending # NoPending /\ GotInv(got, sent) /\ sent \in Nat
      /\ local \in Pending /\ local.copied <= local.declared
      /\ ~local.discard => local.scratch = buf
      /\ UNCHANGED <<wrapped, sent, rest, queue, free>>
  BY Ranges DEF IInv, StreamInv, Acknowledge, Taking, CallInv, firmware
<1>1. /\ local.declared \in Nat /\ local.copied \in Nat /\ free \in Int
      /\ local.declared \in Lengths /\ local.declared >= 1
      /\ content \in ContentType /\ strayed \in BOOLEAN
  <2>1. local.declared \in 2 .. MaxLen
    BY <1>0 DEF Pending
  <2> QED BY <1>0, <2>1, SomePending, Ranges DEF Lengths, CountInv, HostType
<1>2. CASE /\ Ok
           /\ local.copied < local.declared
           /\ pending' = local
           /\ Return("ok") /\ UNCHANGED <<got, strayed, content>>
  <2>1. Idle /\ drv' = drv
    BY <1>0, <1>2, ReturnDriver
  <2>2. Unfinished(pending') /\ pending' # NoPending
    BY <1>0, <1>2, SomePending DEF Unfinished
  <2>3. drv = "Ready" => Inside(local, Stream, got, content)
    BY <1>0, <1>2 DEF IInv, Place
  <2> QED BY <1>0, <1>1, <1>2, <2>1, <2>2, <2>3, IdleHolds DEF Ok
<1>3. ASSUME drv = "Ready", local.copied = local.declared
      PROVE  /\ Copied(local, frag, got, content) /\ frag.index = frag.len
             /\ frag \in Fragments /\ After(frag, Stream) /\ Ends(frag)
  <2>1. /\ Copied(local, frag, got, content) /\ frag.index = frag.len
        /\ frag \in Fragments /\ After(frag, Stream)
    BY <1>0, <1>3 DEF IInv, Place
  <2>2. Ends(frag)
    BY <2>1, FragmentIs DEF Ends
  <2> QED BY <2>1, <2>2
<1>4. CASE /\ Ok
           /\ local.copied = local.declared
           /\ pending' = NoPending
           /\ local.discard /\ Goto("new") /\ UNCHANGED <<got, strayed, content, drv>>
  <2>1. pc' = "new" /\ UNCHANGED <<buf, local, removed, frag, faults>>
    BY <1>4 DEF Goto, Ok
  <2>2. HostType' /\ CallInv' /\ (Taking' <=> Taking)
    BY <1>0, <1>4, <2>1 DEF HostType, CallInv, Taking
  <2>3. ASSUME drv = "Ready" PROVE Place'
    <3>1. Stream' = Stream
      BY <1>0 DEF Stream
    <3>2. \A x \in Int : x > frag.event => Newer(x, got)
      BY <1>0, <1>3, <1>4, <2>3, NewerLater, FragmentIs DEF Copied
    <3>3. AtStart(Stream, got)
      BY <1>0, <1>3, <1>4, <2>3, <3>2, AfterEnd
    <3> QED BY <1>4, <2>1, <3>1, <3>3 DEF Place
  <2> QED BY <1>0, <1>4, <2>1, <2>2, <2>3, StepHolds
<1>5. CASE /\ Ok
           /\ local.copied = local.declared
           /\ pending' = NoPending
           /\ ~local.discard /\ Deliver(content)
  <2>1. drv = "Ready" =>
          /\ frag \in Fragments /\ frag.event <= sent /\ Newer(frag.event, got)
          /\ \A i \in 1 .. local.declared :
               content[buf][i] = [event |-> frag.event, index |-> i, len |-> local.declared]
    BY <1>0, <1>3, <1>5 DEF StreamInv, Copied
  <2>2. /\ GotInv(got', sent)
        /\ Idle /\ drv' \in {drv, "Down"}
        /\ content' \in ContentType /\ strayed' \in BOOLEAN
        /\ drv = "Ready" => \A x \in Int : x > frag.event => Newer(x, got')
    BY <1>0, <1>1, <1>5, <2>1, Delivers
  <2>3. drv = "Ready" => AtStart(Stream, got')
    BY <1>0, <1>3, <1>5, <2>2, AfterEnd
  <2> QED BY <1>0, <1>1, <1>5, <2>2, <2>3, IdleHolds DEF Ok
<1>6. CASE Failure /\ Return("rpu") /\ UNCHANGED <<pending, got, strayed, content>>
  <2>1. free' \in 0 .. Pool /\ free' + Cardinality(InQueue(queue)) <= Pool
    <3>1. Cardinality(InQueue(queue)) \in Nat
      BY <1>0, CountType DEF StreamInv
    <3> QED BY <1>0, <3>1 DEF CountInv, Count
  <2> QED BY <1>0, <1>6, <2>1, FailHolds
<1> QED BY <1>2, <1>4, <1>5, <1>6 DEF Acknowledge

(* The first fragment of an event *)
LEMMA FirstFragmentHolds == ASSUME ~Retries PROVE IInv /\ FirstFragment => IInv'
<1> SUFFICES ASSUME IInv, FirstFragment PROVE IInv'
  OBVIOUS
<1> DEFINE d == local.declared
<1>0. /\ pc = "first" /\ HostType /\ CallInv /\ StreamInv /\ CountInv /\ Taking
      /\ buf \in Scratch /\ frag \in Fragments /\ pending = NoPending
      /\ GotInv(got, sent) /\ sent \in Nat
      /\ UNCHANGED <<wrapped, sent, rest, queue>>
  BY Ranges DEF IInv, StreamInv, FirstFragment, Taking, CallInv
<1>1. /\ local \in LocalType /\ d \in Lengths /\ d \in Nat
      /\ local.copied = (IF d = 0 THEN 0 ELSE 1) /\ local.scratch = buf /\ local.discard = FALSE
      /\ content \in ContentType /\ strayed \in BOOLEAN /\ frag.event <= sent
      /\ Capacity[buf] \in Nat
  BY <1>0, EventAssumption DEF HostType, LocalType, Lengths, CallInv, StreamInv
<1>2. /\ Cardinality(InQueue(queue)) \in Nat /\ Loan(frag) \in {0, 1}
      /\ Count = Cardinality(InQueue(queue)) + Loan(frag)
      /\ free \in 0 .. Pool /\ free + Count <= Pool /\ free \in Int
  <2>1. Cardinality(InQueue(queue)) \in Nat /\ Loan(frag) \in {0, 1}
    BY <1>0, CountType DEF StreamInv
  <2> QED BY <1>0, <2>1 DEF Count, CountInv
<1>3. /\ Released(local.resubmit) \in {free, free + Loan(frag)}
      /\ local.resubmit = (frag.event \notin Kept) =>
           Released(local.resubmit) = free + Loan(frag)
  BY <1>2, ReleasedIs
<1>4. CASE /\ Failure
           /\ free' \in {free, Released(local.resubmit)}
           /\ Return("rpu")
           /\ UNCHANGED <<pending, content, got, strayed>>
  <2>1. free' \in 0 .. Pool /\ free' + Cardinality(InQueue(queue)) <= Pool
    BY <1>2, <1>3, <1>4, Ranges
  <2> QED BY <1>0, <1>4, <2>1, FailHolds
(* Where a ready driver is: at the first fragment of an event *)
<1>5. ASSUME drv = "Ready"
      PROVE  /\ frag.index = 1 /\ Newer(frag.event, got) /\ After(frag, Stream)
             /\ d = frag.len /\ local.resubmit = (frag.event \notin Kept)
             /\ frag = [event |-> frag.event, index |-> 1, len |-> d]
             /\ \A x \in Int : x > frag.event => Newer(x, got)
  <2>1. /\ frag.index = 1 /\ Newer(frag.event, got) /\ After(frag, Stream)
        /\ d = frag.len /\ local.resubmit = (frag.event \notin Kept)
    BY <1>0, <1>5 DEF IInv, Place
  <2>2. frag = [event |-> frag.event, index |-> 1, len |-> d]
    BY <1>0, <2>1, FragmentIs
  <2>3. \A x \in Int : x > frag.event => Newer(x, got)
    BY <1>0, <2>1, NewerLater, FragmentIs
  <2> QED BY <2>1, <2>2, <2>3
<1>6. ASSUME drv = "Ready", d <= 1 PROVE Ends(frag)
  BY <1>0, <1>1, <1>5, <1>6, FragmentIs DEF Ends
<1>7. ASSUME free' = Released(local.resubmit)
      PROVE  /\ free' \in Int /\ free' >= free
             /\ free' <= free + (IF Taking THEN Loan(frag) ELSE 0)
             /\ drv = "Ready" => free' = free + (IF Taking THEN Loan(frag) ELSE 0)
  <2>1. (IF Taking THEN Loan(frag) ELSE 0) = Loan(frag)
    BY <1>0, <1>2
  <2>2. free' \in {free, free + Loan(frag)} /\ (drv = "Ready" => free' = free + Loan(frag))
    BY <1>3, <1>5, <1>7
  <2> QED BY <1>2, <2>1, <2>2
<1>8. ASSUME d >= 2
      PROVE  /\ local \in Pending /\ Unfinished(local) /\ local # NoPending /\ local.copied = 1
             /\ 0 < MaxLen
  <2>1. d \in 2 .. MaxLen /\ local.copied = 1 /\ 1 \in 1 .. MaxLen /\ 0 < MaxLen
    BY <1>1, <1>8, Ranges DEF Lengths
  <2>2. local \in Pending
    BY <1>1, <2>1 DEF LocalType, Pending
  <2>3. Unfinished(local)
    BY <1>0, <1>1, <1>8, <2>1, <2>2 DEF Unfinished
  <2> QED BY <2>1, <2>2, <2>3, SomePending
<1>9. /\ Written(0) \in ContentType /\ Written(0)[buf][1] = frag
  <2>1. 0 \in Nat /\ 0 < MaxLen /\ 0 + 1 = 1
    BY Ranges
  <2>2. Written(0) \in ContentType /\ Written(0)[buf][0 + 1] = frag
    BY <1>0, <2>1, WrittenIs
  <2> QED BY <2>1, <2>2
(* The second fragment comes next. *)
<1>10. ASSUME drv = "Ready", d >= 2 PROVE Inside(local, Stream, got, Written(0))
  <2>1. ~Ends(frag)
    BY <1>1, <1>5, <1>10 DEF Ends
  <2>2. /\ Stream # <<>> /\ Stream[1].event = frag.event /\ Stream[1].len = d
        /\ Stream[1].index = 1 + 1
    BY <1>0, <1>5, <1>10, <2>1, AfterMiddle
  <2>3. \A i \in 1 .. local.copied :
          Written(0)[local.scratch][i] = [event |-> frag.event, index |-> i, len |-> d]
    BY <1>1, <1>5, <1>8, <1>9, <1>10
  <2>4. Copied(local, Stream[1], got, Written(0))
    BY <1>5, <1>10, <2>2, <2>3 DEF Copied
  <2> QED BY <1>5, <1>8, <1>10, <2>2, <2>4 DEF Inside, Matches
<1>11. CASE /\ Ok /\ free' = Released(local.resubmit) /\ d = 0
            /\ Return("protocol") /\ UNCHANGED <<pending, content, got, strayed>>
  <2>1. Idle /\ drv' \in {drv, "Down"}
    BY <1>0, <1>11, ReturnDriver
  <2>2. drv = "Ready" => AtStart(Stream, got)
    BY <1>0, <1>5, <1>6, <1>11, AfterEnd
  <2> QED BY <1>0, <1>1, <1>7, <1>11, <2>1, <2>2, IdleHolds DEF Ok
<1>12. CASE /\ Ok /\ free' = Released(local.resubmit) /\ d > Capacity[buf]
            /\ pending' = (IF d > 1 THEN Marked(local) ELSE pending)
            /\ Return("large") /\ UNCHANGED <<content, got, strayed>>
  <2>1. Idle /\ drv' \in {drv, "Down"}
    BY <1>0, <1>12, ReturnDriver
  <2>2. CASE d > 1
    <3>1. d >= 2 /\ pending' = Marked(local)
      BY <1>1, <1>12, <2>2
    <3>2. pending' \in Pending /\ Unfinished(pending') /\ pending' # NoPending
      BY <1>8, <3>1, MarkedIs, SomePending
    <3>3. drv = "Ready" => Inside(pending', Stream, got, content)
      BY <1>8, <1>10, <3>1, MarkedIs
    <3> QED BY <1>0, <1>1, <1>7, <1>12, <2>1, <3>2, <3>3, IdleHolds DEF Ok
  <2>3. CASE ~(d > 1)
    <3>1. pending' = NoPending /\ d <= 1
      BY <1>0, <1>1, <1>12, <2>3
    <3>2. drv = "Ready" => AtStart(Stream, got)
      BY <1>0, <1>5, <1>6, <3>1, AfterEnd
    <3> QED BY <1>0, <1>1, <1>7, <1>12, <2>1, <3>1, <3>2, IdleHolds DEF Ok
  <2> QED BY <2>2, <2>3
<1>13. CASE /\ Ok /\ free' = Released(local.resubmit) /\ d = 1 /\ Capacity[buf] >= 1
            /\ Deliver(Written(0)) /\ UNCHANGED pending
  <2>1. drv = "Ready" =>
          /\ frag \in Fragments /\ frag.event <= sent /\ Newer(frag.event, got)
          /\ \A i \in 1 .. d :
               Written(0)[buf][i] = [event |-> frag.event, index |-> i, len |-> d]
    BY <1>0, <1>1, <1>5, <1>9, <1>13
  <2>2. /\ GotInv(got', sent)
        /\ Idle /\ drv' \in {drv, "Down"}
        /\ content' \in ContentType /\ strayed' \in BOOLEAN
        /\ drv = "Ready" => \A x \in Int : x > frag.event => Newer(x, got')
    BY <1>0, <1>1, <1>13, <2>1, Delivers
  <2>3. drv = "Ready" => AtStart(Stream, got')
    BY <1>0, <1>5, <1>6, <1>13, <2>2, AfterEnd
  <2> QED BY <1>0, <1>1, <1>7, <1>13, <2>2, <2>3, IdleHolds DEF Ok
<1>14. CASE /\ Ok /\ free' = Released(local.resubmit) /\ d \in 2 .. Capacity[buf]
            /\ content' = Written(0) /\ pending' = local
            /\ Return("ok") /\ UNCHANGED <<got, strayed>>
  <2>1. Idle /\ drv' \in {drv, "Down"}
    BY <1>0, <1>14, ReturnDriver
  <2>2. d >= 2
    BY <1>14
  <2>3. Unfinished(pending') /\ pending' # NoPending
    BY <1>8, <1>14, <2>2
  <2>4. drv = "Ready" => Inside(pending', Stream, got, content')
    BY <1>10, <1>14, <2>2
  <2> QED BY <1>0, <1>1, <1>7, <1>9, <1>14, <2>1, <2>3, <2>4, IdleHolds DEF Ok
<1> QED BY <1>4, <1>11, <1>12, <1>13, <1>14 DEF FirstFragment
-----------------------------------------------------------------------------
(***************************************************************************)
(* The parsers of a message                                                 *)
(***************************************************************************)

(* A parser, as a sequence of steps *)
StepType == [reads : Int, ok : BOOLEAN]
Steps    == Seq(StepType)

(* A parser of one, two, three or four steps: when it accepts, and what it  *)
(* reads.                                                                  *)
LEMMA One ==
  ASSUME NEW x
  PROVE  /\ Accepted(<<x>>) <=> x.ok
         /\ \A e : ReadsWithin(<<x>>, e) <=> x.reads <= e
  BY DEF Accepted, ReadsWithin

LEMMA Two ==
  ASSUME NEW x, NEW y
  PROVE  /\ Accepted(<<x, y>>) <=> x.ok /\ y.ok
         /\ \A e : ReadsWithin(<<x, y>>, e) <=> x.reads <= e /\ (x.ok => y.reads <= e)
  BY DEF Accepted, ReadsWithin

LEMMA Three ==
  ASSUME NEW x, NEW y, NEW z
  PROVE  /\ Accepted(<<x, y, z>>) <=> x.ok /\ y.ok /\ z.ok
         /\ \A e : ReadsWithin(<<x, y, z>>, e) <=>
              /\ x.reads <= e /\ (x.ok => y.reads <= e) /\ (x.ok /\ y.ok => z.reads <= e)
  BY DEF Accepted, ReadsWithin

LEMMA Four ==
  ASSUME NEW x, NEW y, NEW z, NEW w
  PROVE  /\ Accepted(<<x, y, z, w>>) <=> x.ok /\ y.ok /\ z.ok /\ w.ok
         /\ \A e : ReadsWithin(<<x, y, z, w>>, e) <=>
              /\ x.reads <= e /\ (x.ok => y.reads <= e) /\ (x.ok /\ y.ok => z.reads <= e)
              /\ (x.ok /\ y.ok /\ z.ok => w.reads <= e)
  BY DEF Accepted, ReadsWithin

(* No steps *)
LEMMA None ==
  /\ <<>> \in Steps /\ Accepted(<<>>)
  /\ \A e : ReadsWithin(<<>>, e)
<1>1. <<>> \in Steps
  BY EmptySeq DEF Steps
<1> QED BY <1>1 DEF Accepted, ReadsWithin

(* One parser after another *)
LEMMA Joined ==
  ASSUME NEW s \in Steps, NEW t \in Steps
  PROVE  /\ s \o t \in Steps
         /\ Accepted(s \o t) <=> Accepted(s) /\ Accepted(t)
         /\ \A e \in Int : ReadsWithin(s, e) /\ (Accepted(s) => ReadsWithin(t, e))
                             => ReadsWithin(s \o t, e)
         /\ \A e \in Int : ReadsWithin(s \o t, e) => ReadsWithin(s, e)
<1> DEFINE u == s \o t
<1>1. Len(s) \in Nat /\ Len(t) \in Nat /\ DOMAIN s = 1 .. Len(s) /\ DOMAIN t = 1 .. Len(t)
  BY LenProperties DEF Steps
<1>2. /\ u \in Steps /\ Len(u) = Len(s) + Len(t)
      /\ \A i \in 1 .. Len(s) + Len(t) : u[i] = IF i <= Len(s) THEN s[i] ELSE t[i - Len(s)]
  BY ConcatProperties DEF Steps
<1>3. DOMAIN u = 1 .. Len(s) + Len(t)
  BY <1>2, LenProperties DEF Steps
<1> HIDE DEF u
<1>4. /\ \A i \in 1 .. Len(s) : u[i] = s[i] /\ i \in DOMAIN u
      /\ \A i \in 1 .. Len(t) : u[Len(s) + i] = t[i] /\ Len(s) + i \in DOMAIN u
  BY <1>1, <1>2, <1>3
<1>5. ASSUME NEW i \in DOMAIN u
      PROVE  i \in 1 .. Len(s) \/ \E j \in 1 .. Len(t) : i = Len(s) + j
  <2>1. i > Len(s) => i - Len(s) \in 1 .. Len(t) /\ i = Len(s) + (i - Len(s))
    BY <1>1, <1>3
  <2> QED BY <1>1, <1>3, <2>1
<1>6. Accepted(u) <=> Accepted(s) /\ Accepted(t)
  <2>1. ASSUME Accepted(u) PROVE Accepted(s) /\ Accepted(t)
    <3>1. ASSUME NEW i \in 1 .. Len(s) PROVE s[i].ok
      BY <1>4, <2>1 DEF Accepted
    <3>2. ASSUME NEW i \in 1 .. Len(t) PROVE t[i].ok
      BY <1>4, <2>1 DEF Accepted
    <3> QED BY <1>1, <3>1, <3>2 DEF Accepted
  <2>2. ASSUME Accepted(s), Accepted(t) PROVE Accepted(u)
    <3>1. ASSUME NEW i \in DOMAIN u PROVE u[i].ok
      <4>1. CASE i \in 1 .. Len(s)
        BY <1>1, <1>4, <2>2, <4>1 DEF Accepted
      <4>2. ASSUME NEW j \in 1 .. Len(t), i = Len(s) + j PROVE u[i].ok
        BY <1>1, <1>4, <2>2, <4>2 DEF Accepted
      <4> QED BY <1>5, <4>1, <4>2
    <3> QED BY <3>1 DEF Accepted
  <2> QED BY <2>1, <2>2
<1>7. ASSUME NEW e \in Int, ReadsWithin(s, e), Accepted(s) => ReadsWithin(t, e)
      PROVE  ReadsWithin(u, e)
  <2> SUFFICES ASSUME NEW i \in DOMAIN u, \A j \in 1 .. i - 1 : u[j].ok
               PROVE  u[i].reads <= e
    BY DEF ReadsWithin
  <2>1. CASE i \in 1 .. Len(s)
    <3>1. \A j \in 1 .. i - 1 : s[j].ok
      BY <1>1, <1>4, <2>1
    <3> QED BY <1>1, <1>4, <1>7, <2>1, <3>1 DEF ReadsWithin
  <2>2. CASE \E k \in 1 .. Len(t) : i = Len(s) + k
    <3>1. PICK k \in 1 .. Len(t) : i = Len(s) + k
      BY <2>2
    <3>2. Accepted(s)
      BY <1>1, <1>4, <3>1 DEF Accepted
    <3>3. \A j \in 1 .. k - 1 : t[j].ok
      <4>1. \A j \in 1 .. k - 1 : j \in 1 .. Len(t) /\ Len(s) + j \in 1 .. i - 1
        BY <1>1, <3>1
      <4> QED BY <1>4, <4>1
    <3> QED BY <1>1, <1>4, <1>7, <3>1, <3>2, <3>3 DEF ReadsWithin
  <2> QED BY <1>5, <2>1, <2>2
<1>8. ASSUME NEW e \in Int, ReadsWithin(u, e)
      PROVE  ReadsWithin(s, e)
  <2> SUFFICES ASSUME NEW i \in DOMAIN s, \A j \in 1 .. i - 1 : s[j].ok
               PROVE  s[i].reads <= e
    BY DEF ReadsWithin
  <2>1. \A j \in 1 .. i - 1 : u[j].ok
    BY <1>1, <1>4
  <2>2. i \in DOMAIN u /\ u[i] = s[i]
    BY <1>1, <1>4
  <2> QED BY <1>8, <2>1, <2>2 DEF ReadsWithin
<1> QED BY <1>2, <1>6, <1>7, <1>8 DEF u

(* The fields of a message are numbers. *)
LEMMA MessageFields ==
  ASSUME NEW m \in MessageType
  PROVE  /\ m.have \in Nat /\ m.declared \in Nat /\ m.kind \in Int /\ m.id \in Nat
         /\ m.inner \in Nat /\ m.a \in Int /\ m.b \in Nat /\ m.packet \in PacketType
  BY DEF MessageType

(* The sizes of the protocol *)
LEMMA Sizes ==
  /\ HOST_MESSAGE_HEADER_LEN = 12 /\ UMAC_HEADER_LEN = 36 /\ SYSTEM_HEADER_LEN = 8
  /\ MLME_FIXED_BODY_LEN = 439 /\ SCAN_RESULT_FIXED_BODY_LEN = 70
  /\ RX_EVENT_FIXED_LEN = 20 /\ RX_INFO_LEN = 17 /\ TX_DONE_FIXED_LEN = 22
  /\ ETHERNET_HEADER_LEN = 14
  /\ \A m : Payload(m) = m.declared - 12 /\ Body(m) = m.declared - 12 - 36
  /\ \A n : AtPayload(n) = 12 + n /\ AtBody(n) = 12 + 36 + n
  BY DEF HOST_MESSAGE_HEADER_LEN, UMAC_HEADER_LEN, SYSTEM_HEADER_LEN, MLME_FIXED_BODY_LEN,
         SCAN_RESULT_FIXED_BODY_LEN, RX_EVENT_FIXED_LEN, RX_INFO_LEN, TX_DONE_FIXED_LEN,
         ETHERNET_HEADER_LEN, Payload, Body, AtPayload, AtBody

(* The parts the parsers are put together from *)
ControlHead(m) == <<Step(0, Payload(m) >= UMAC_HEADER_LEN), Step(AtBody(0), TRUE)>>
CarrierBody(m) == <<Step(0, m.inner >= 12), Step(AtPayload(12), TRUE)>>
TxStatuses(m)  == <<Step(AtPayload(10), m.inner = TX_DONE_FIXED_LEN + m.a)>>
RxPackets(m)   == <<Step(AtPayload(20), RX_EVENT_FIXED_LEN + m.a * RX_INFO_LEN <= m.inner)>>
MsduHead(p)    == <<Step(0, p.len >= LlcAt(p)), Step(LlcAt(p) - 2, TRUE)>>
MpduHead(p, a) ==
  << Step(0, p.mac >= 24), Step(2, p.len >= 24),
     Step(22, p.ds = {"to", "from"} => p.len >= 30), Step(a + 6, TRUE) >>
LlcPart(p) ==
  << Step(0, LlcAt(p) + 8 <= p.len), Step(LlcAt(p) + 8, PayloadAt(p) <= p.len),
     Step(0, EthernetLen(p) <= p.len), Step(ETHERNET_HEADER_LEN, TRUE) >>

(* The host header *)
LEMMA HostMessage ==
  ASSUME NEW m \in MessageType
  PROVE  /\ ParseHostMessage(m) \in Steps
         /\ Accepted(ParseHostMessage(m)) <=> (m.have >= 12 /\ m.declared \in 12 .. m.have /\
              m.kind \in {System, Supplicant, Data, Umac})
         /\ ReadsWithin(ParseHostMessage(m), m.have)
<1> DEFINE x == Step(0, m.have >= HOST_MESSAGE_HEADER_LEN)
           y == Step(4, m.declared \in HOST_MESSAGE_HEADER_LEN .. m.have)
           z == Step(12, m.kind \in {System, Supplicant, Data, Umac})
<1>1. x \in StepType /\ x.reads = 0 /\ (x.ok <=> m.have >= 12)
  <2>1. m.have >= HOST_MESSAGE_HEADER_LEN <=> m.have >= 12
    BY MessageFields, Sizes
  <2>2. x.reads = 0 /\ (x.ok <=> m.have >= HOST_MESSAGE_HEADER_LEN)
    BY DEF Step
  <2>3. x \in StepType
    BY <2>1 DEF Step, StepType
  <2> QED BY <2>1, <2>2, <2>3
<1>2. y \in StepType /\ y.reads = 4 /\ (y.ok <=> m.declared \in 12 .. m.have)
  <2>1. m.declared \in HOST_MESSAGE_HEADER_LEN .. m.have <=> m.declared \in 12 .. m.have
    BY MessageFields, Sizes
  <2>2. y.reads = 4 /\ (y.ok <=> m.declared \in HOST_MESSAGE_HEADER_LEN .. m.have)
    BY DEF Step
  <2>3. y \in StepType
    BY <2>1 DEF Step, StepType
  <2> QED BY <2>1, <2>2, <2>3
<1>3. z \in StepType /\ z.reads = 12 /\ (z.ok <=> m.kind \in {System, Supplicant, Data, Umac})
  <2>1. z.reads = 12 /\ (z.ok <=> m.kind \in {System, Supplicant, Data, Umac})
    BY DEF Step
  <2>2. z \in StepType
    BY DEF Step, StepType
  <2> QED BY <2>1, <2>2
<1>4. ParseHostMessage(m) = <<x, y, z>>
  BY DEF ParseHostMessage
<1> HIDE DEF x, y, z
<1>5. <<x, y, z>> \in Steps
  BY <1>1, <1>2, <1>3 DEF Steps
<1>6. Accepted(<<x, y, z>>) <=> (m.have >= 12 /\ m.declared \in 12 .. m.have /\
              m.kind \in {System, Supplicant, Data, Umac})
  BY <1>1, <1>2, <1>3, Three, MessageFields
<1>7. ReadsWithin(<<x, y, z>>, m.have)
  BY <1>1, <1>2, <1>3, Three, MessageFields
<1> QED BY <1>4, <1>5, <1>6, <1>7

(* A system event *)
LEMMA SystemEvent ==
  ASSUME NEW m \in MessageType
  PROVE  /\ ParseSystemEvent(m) \in Steps
         /\ Accepted(ParseSystemEvent(m)) <=> (m.declared >= 20 /\ m.inner >= 8 /\
              m.inner + 12 <= m.declared /\
              (m.id \in {InitDone, DeinitDone} => m.inner = 8))
         /\ m.declared <= m.have => ReadsWithin(ParseSystemEvent(m), m.have)
<1> DEFINE x == Step(0, Payload(m) >= SYSTEM_HEADER_LEN)
           y == Step(AtPayload(8), m.inner \in SYSTEM_HEADER_LEN .. Payload(m))
           z == Step(0, (m.id \in {InitDone, DeinitDone} => m.inner = SYSTEM_HEADER_LEN))
<1>1. x \in StepType /\ x.reads = 0 /\ (x.ok <=> m.declared >= 20)
  <2>1. Payload(m) >= SYSTEM_HEADER_LEN <=> m.declared >= 20
    BY MessageFields, Sizes
  <2>2. x.reads = 0 /\ (x.ok <=> Payload(m) >= SYSTEM_HEADER_LEN)
    BY DEF Step
  <2>3. x \in StepType
    BY <2>1 DEF Step, StepType
  <2> QED BY <2>1, <2>2, <2>3
<1>2. y \in StepType /\ y.reads = 20 /\ (y.ok <=> m.inner >= 8 /\ m.inner + 12 <= m.declared)
  <2>1. AtPayload(8) = 20 /\ (m.inner \in SYSTEM_HEADER_LEN .. Payload(m) <=> m.inner >= 8 /\
          m.inner + 12 <= m.declared)
    BY MessageFields, Sizes
  <2>2. y.reads = AtPayload(8) /\ (y.ok <=> m.inner \in SYSTEM_HEADER_LEN .. Payload(m))
    BY DEF Step
  <2>3. y \in StepType
    BY <2>1 DEF Step, StepType
  <2> QED BY <2>1, <2>2, <2>3
<1>3. z \in StepType /\ z.reads = 0 /\ (z.ok <=> (m.id \in {InitDone, DeinitDone} =>
        m.inner = 8))
  <2>1. (m.id \in {InitDone, DeinitDone} => m.inner = SYSTEM_HEADER_LEN) <=>
          (m.id \in {InitDone, DeinitDone} => m.inner = 8)
    BY MessageFields, Sizes
  <2>2. z.reads = 0 /\ (z.ok <=> (m.id \in {InitDone, DeinitDone} =>
          m.inner = SYSTEM_HEADER_LEN))
    BY DEF Step
  <2>3. z \in StepType
    BY <2>1 DEF Step, StepType
  <2> QED BY <2>1, <2>2, <2>3
<1>4. ParseSystemEvent(m) = <<x, y, z>>
  BY DEF ParseSystemEvent
<1> HIDE DEF x, y, z
<1>5. <<x, y, z>> \in Steps
  BY <1>1, <1>2, <1>3 DEF Steps
<1>6. Accepted(<<x, y, z>>) <=> (m.declared >= 20 /\ m.inner >= 8 /\
        m.inner + 12 <= m.declared /\
              (m.id \in {InitDone, DeinitDone} => m.inner = 8))
  BY <1>1, <1>2, <1>3, Three, MessageFields
<1>7. m.declared <= m.have => ReadsWithin(<<x, y, z>>, m.have)
  BY <1>1, <1>2, <1>3, Three, MessageFields
<1> QED BY <1>4, <1>5, <1>6, <1>7

(* The header of a control event *)
LEMMA ControlHeader ==
  ASSUME NEW m \in MessageType
  PROVE  /\ ControlHead(m) \in Steps
         /\ Accepted(ControlHead(m)) <=> m.declared >= 48
         /\ m.declared <= m.have => ReadsWithin(ControlHead(m), m.have)
<1> DEFINE x == Step(0, Payload(m) >= UMAC_HEADER_LEN)
           y == Step(AtBody(0), TRUE)
<1>1. x \in StepType /\ x.reads = 0 /\ (x.ok <=> m.declared >= 48)
  <2>1. Payload(m) >= UMAC_HEADER_LEN <=> m.declared >= 48
    BY MessageFields, Sizes
  <2>2. x.reads = 0 /\ (x.ok <=> Payload(m) >= UMAC_HEADER_LEN)
    BY DEF Step
  <2>3. x \in StepType
    BY <2>1 DEF Step, StepType
  <2> QED BY <2>1, <2>2, <2>3
<1>2. y \in StepType /\ y.reads = 48 /\ (y.ok <=> TRUE)
  <2>1. AtBody(0) = 48
    BY MessageFields, Sizes
  <2>2. y.reads = AtBody(0) /\ (y.ok <=> TRUE)
    BY DEF Step
  <2>3. y \in StepType
    BY <2>1 DEF Step, StepType
  <2> QED BY <2>1, <2>2, <2>3
<1>3. ControlHead(m) = <<x, y>>
  BY DEF ControlHead
<1> HIDE DEF x, y
<1>4. <<x, y>> \in Steps
  BY <1>1, <1>2 DEF Steps
<1>5. Accepted(<<x, y>>) <=> m.declared >= 48
  BY <1>1, <1>2, Two, MessageFields
<1>6. m.declared <= m.have => ReadsWithin(<<x, y>>, m.have)
  BY <1>1, <1>2, Two, MessageFields
<1> QED BY <1>3, <1>4, <1>5, <1>6

(* A body of a fixed length *)
LEMMA RequiredBody ==
  ASSUME NEW m \in MessageType, NEW n \in Nat
  PROVE  /\ Required(m, n) \in Steps
         /\ Accepted(Required(m, n)) <=> m.declared >= 48 + n
         /\ m.declared <= m.have => ReadsWithin(Required(m, n), m.have)
<1> DEFINE x == Step(0, Body(m) >= n)
           y == Step(AtBody(n), TRUE)
<1>1. x \in StepType /\ x.reads = 0 /\ (x.ok <=> m.declared >= 48 + n)
  <2>1. Body(m) >= n <=> m.declared >= 48 + n
    BY MessageFields, Sizes
  <2>2. x.reads = 0 /\ (x.ok <=> Body(m) >= n)
    BY DEF Step
  <2>3. x \in StepType
    BY <2>1 DEF Step, StepType
  <2> QED BY <2>1, <2>2, <2>3
<1>2. y \in StepType /\ y.reads = 48 + n /\ (y.ok <=> TRUE)
  <2>1. AtBody(n) = 48 + n /\ 48 + n \in Int
    BY MessageFields, Sizes
  <2>2. y.reads = AtBody(n) /\ (y.ok <=> TRUE)
    BY DEF Step
  <2>3. y \in StepType
    BY <2>1 DEF Step, StepType
  <2> QED BY <2>1, <2>2, <2>3
<1>3. Required(m, n) = <<x, y>>
  BY DEF Required
<1> HIDE DEF x, y
<1>4. <<x, y>> \in Steps
  BY <1>1, <1>2 DEF Steps
<1>5. Accepted(<<x, y>>) <=> m.declared >= 48 + n
  BY <1>1, <1>2, Two, MessageFields
<1>6. m.declared <= m.have => ReadsWithin(<<x, y>>, m.have)
  BY <1>1, <1>2, Two, MessageFields
<1> QED BY <1>3, <1>4, <1>5, <1>6

(* An MLME event *)
LEMMA MlmeEvent ==
  ASSUME NEW m \in MessageType
  PROVE  /\ ParseMlme(m) \in Steps
         /\ Accepted(ParseMlme(m)) <=> m.a \in 0 .. 400 /\ 487 + m.b <= m.declared /\
              m.declared >= 487
         /\ m.declared <= m.have => ReadsWithin(ParseMlme(m), m.have)
<1> DEFINE x == Step(0, Body(m) >= MLME_FIXED_BODY_LEN)
           y == Step(AtBody(28), m.a \in 0 .. 400)
           z == Step(AtBody(439), MLME_FIXED_BODY_LEN + m.b <= Body(m))
<1>1. x \in StepType /\ x.reads = 0 /\ (x.ok <=> m.declared >= 487)
  <2>1. Body(m) >= MLME_FIXED_BODY_LEN <=> m.declared >= 487
    BY MessageFields, Sizes
  <2>2. x.reads = 0 /\ (x.ok <=> Body(m) >= MLME_FIXED_BODY_LEN)
    BY DEF Step
  <2>3. x \in StepType
    BY <2>1 DEF Step, StepType
  <2> QED BY <2>1, <2>2, <2>3
<1>2. y \in StepType /\ y.reads = 76 /\ (y.ok <=> m.a \in 0 .. 400)
  <2>1. AtBody(28) = 76
    BY MessageFields, Sizes
  <2>2. y.reads = AtBody(28) /\ (y.ok <=> m.a \in 0 .. 400)
    BY DEF Step
  <2>3. y \in StepType
    BY <2>1 DEF Step, StepType
  <2> QED BY <2>1, <2>2, <2>3
<1>3. z \in StepType /\ z.reads = 487 /\ (z.ok <=> 487 + m.b <= m.declared)
  <2>1. AtBody(439) = 487 /\ (MLME_FIXED_BODY_LEN + m.b <= Body(m) <=> 487 + m.b <= m.declared)
    BY MessageFields, Sizes
  <2>2. z.reads = AtBody(439) /\ (z.ok <=> MLME_FIXED_BODY_LEN + m.b <= Body(m))
    BY DEF Step
  <2>3. z \in StepType
    BY <2>1 DEF Step, StepType
  <2> QED BY <2>1, <2>2, <2>3
<1>4. ParseMlme(m) = <<x, y, z>>
  BY DEF ParseMlme
<1> HIDE DEF x, y, z
<1>5. <<x, y, z>> \in Steps
  BY <1>1, <1>2, <1>3 DEF Steps
<1>6. Accepted(<<x, y, z>>) <=> m.a \in 0 .. 400 /\ 487 + m.b <= m.declared /\ m.declared >= 487
  BY <1>1, <1>2, <1>3, Three, MessageFields
<1>7. m.declared <= m.have => ReadsWithin(<<x, y, z>>, m.have)
  BY <1>1, <1>2, <1>3, Three, MessageFields
<1> QED BY <1>4, <1>5, <1>6, <1>7

(* A scan result *)
LEMMA ScanResultEvent ==
  ASSUME NEW m \in MessageType
  PROVE  /\ ParseScanResult(m) \in Steps
         /\ Accepted(ParseScanResult(m)) <=> m.declared >= 118 /\ 118 + m.a + m.b <= m.declared
         /\ m.declared <= m.have => ReadsWithin(ParseScanResult(m), m.have)
<1> DEFINE x == Step(0, Body(m) >= SCAN_RESULT_FIXED_BODY_LEN)
           y == Step(AtBody(70), SCAN_RESULT_FIXED_BODY_LEN + m.a + m.b <= Body(m))
<1>1. x \in StepType /\ x.reads = 0 /\ (x.ok <=> m.declared >= 118)
  <2>1. Body(m) >= SCAN_RESULT_FIXED_BODY_LEN <=> m.declared >= 118
    BY MessageFields, Sizes
  <2>2. x.reads = 0 /\ (x.ok <=> Body(m) >= SCAN_RESULT_FIXED_BODY_LEN)
    BY DEF Step
  <2>3. x \in StepType
    BY <2>1 DEF Step, StepType
  <2> QED BY <2>1, <2>2, <2>3
<1>2. y \in StepType /\ y.reads = 118 /\ (y.ok <=> 118 + m.a + m.b <= m.declared)
  <2>1. AtBody(70) = 118 /\ (SCAN_RESULT_FIXED_BODY_LEN + m.a + m.b <= Body(m) <=>
          118 + m.a + m.b <= m.declared)
    BY MessageFields, Sizes
  <2>2. y.reads = AtBody(70) /\ (y.ok <=> SCAN_RESULT_FIXED_BODY_LEN + m.a + m.b <= Body(m))
    BY DEF Step
  <2>3. y \in StepType
    BY <2>1 DEF Step, StepType
  <2> QED BY <2>1, <2>2, <2>3
<1>3. ParseScanResult(m) = <<x, y>>
  BY DEF ParseScanResult
<1> HIDE DEF x, y
<1>4. <<x, y>> \in Steps
  BY <1>1, <1>2 DEF Steps
<1>5. Accepted(<<x, y>>) <=> m.declared >= 118 /\ 118 + m.a + m.b <= m.declared
  BY <1>1, <1>2, Two, MessageFields
<1>6. m.declared <= m.have => ReadsWithin(<<x, y>>, m.have)
  BY <1>1, <1>2, Two, MessageFields
<1> QED BY <1>3, <1>4, <1>5, <1>6

(* The payload of a data event *)
LEMMA DataHeader ==
  ASSUME NEW m \in MessageType, NEW n \in Nat, n >= 8
  PROVE  /\ DataPayload(m, n) \in Steps
         /\ Accepted(DataPayload(m, n)) <=> m.declared >= 12 + n /\ m.inner >= n /\
              m.inner + 12 <= m.declared
         /\ m.declared <= m.have => ReadsWithin(DataPayload(m, n), m.have)
<1> DEFINE x == Step(0, Payload(m) >= n)
           y == Step(AtPayload(8), m.inner \in n .. Payload(m))
<1>1. x \in StepType /\ x.reads = 0 /\ (x.ok <=> m.declared >= 12 + n)
  <2>1. Payload(m) >= n <=> m.declared >= 12 + n
    BY MessageFields, Sizes
  <2>2. x.reads = 0 /\ (x.ok <=> Payload(m) >= n)
    BY DEF Step
  <2>3. x \in StepType
    BY <2>1 DEF Step, StepType
  <2> QED BY <2>1, <2>2, <2>3
<1>2. y \in StepType /\ y.reads = 20 /\ (y.ok <=> m.inner >= n /\ m.inner + 12 <= m.declared)
  <2>1. AtPayload(8) = 20 /\ (m.inner \in n .. Payload(m) <=> m.inner >= n /\
          m.inner + 12 <= m.declared)
    BY MessageFields, Sizes
  <2>2. y.reads = AtPayload(8) /\ (y.ok <=> m.inner \in n .. Payload(m))
    BY DEF Step
  <2>3. y \in StepType
    BY <2>1 DEF Step, StepType
  <2> QED BY <2>1, <2>2, <2>3
<1>3. DataPayload(m, n) = <<x, y>>
  BY DEF DataPayload
<1> HIDE DEF x, y
<1>4. <<x, y>> \in Steps
  BY <1>1, <1>2 DEF Steps
<1>5. Accepted(<<x, y>>) <=> m.declared >= 12 + n /\ m.inner >= n /\ m.inner + 12 <= m.declared
  BY <1>1, <1>2, Two, MessageFields
<1>6. m.declared <= m.have => ReadsWithin(<<x, y>>, m.have)
  BY <1>1, <1>2, Two, MessageFields
<1> QED BY <1>3, <1>4, <1>5, <1>6

(* A carrier event *)
LEMMA CarrierEvent ==
  ASSUME NEW m \in MessageType
  PROVE  /\ CarrierBody(m) \in Steps
         /\ Accepted(CarrierBody(m)) <=> m.inner >= 12
         /\ m.declared <= m.have /\ m.inner + 12 <= m.declared =>
              ReadsWithin(CarrierBody(m), m.have)
<1> DEFINE x == Step(0, m.inner >= 12)
           y == Step(AtPayload(12), TRUE)
<1>1. x \in StepType /\ x.reads = 0 /\ (x.ok <=> m.inner >= 12)
  <2>1. x.reads = 0 /\ (x.ok <=> m.inner >= 12)
    BY DEF Step
  <2>2. x \in StepType
    BY DEF Step, StepType
  <2> QED BY <2>1, <2>2
<1>2. y \in StepType /\ y.reads = 24 /\ (y.ok <=> TRUE)
  <2>1. AtPayload(12) = 24
    BY MessageFields, Sizes
  <2>2. y.reads = AtPayload(12) /\ (y.ok <=> TRUE)
    BY DEF Step
  <2>3. y \in StepType
    BY <2>1 DEF Step, StepType
  <2> QED BY <2>1, <2>2, <2>3
<1>3. CarrierBody(m) = <<x, y>>
  BY DEF CarrierBody
<1> HIDE DEF x, y
<1>4. <<x, y>> \in Steps
  BY <1>1, <1>2 DEF Steps
<1>5. Accepted(<<x, y>>) <=> m.inner >= 12
  BY <1>1, <1>2, Two, MessageFields
<1>6. m.declared <= m.have /\ m.inner + 12 <= m.declared => ReadsWithin(<<x, y>>, m.have)
  BY <1>1, <1>2, Two, MessageFields
<1> QED BY <1>3, <1>4, <1>5, <1>6

(* The status bytes of a TX-done event *)
LEMMA TxStatus ==
  ASSUME NEW m \in MessageType
  PROVE  /\ TxStatuses(m) \in Steps
         /\ Accepted(TxStatuses(m)) <=> m.inner = 22 + m.a
         /\ m.declared <= m.have /\ m.inner + 12 <= m.declared /\ m.inner >= 22 =>
              ReadsWithin(TxStatuses(m), m.have)
<1> DEFINE x == Step(AtPayload(10), m.inner = TX_DONE_FIXED_LEN + m.a)
<1>1. x \in StepType /\ x.reads = 22 /\ (x.ok <=> m.inner = 22 + m.a)
  <2>1. AtPayload(10) = 22 /\ (m.inner = TX_DONE_FIXED_LEN + m.a <=> m.inner = 22 + m.a)
    BY MessageFields, Sizes
  <2>2. x.reads = AtPayload(10) /\ (x.ok <=> m.inner = TX_DONE_FIXED_LEN + m.a)
    BY DEF Step
  <2>3. x \in StepType
    BY <2>1 DEF Step, StepType
  <2> QED BY <2>1, <2>2, <2>3
<1>2. TxStatuses(m) = <<x>>
  BY DEF TxStatuses
<1> HIDE DEF x
<1>3. <<x>> \in Steps
  BY <1>1 DEF Steps
<1>4. Accepted(<<x>>) <=> m.inner = 22 + m.a
  BY <1>1, One, MessageFields
<1>5. m.declared <= m.have /\ m.inner + 12 <= m.declared /\ m.inner >= 22 =>
        ReadsWithin(<<x>>, m.have)
  BY <1>1, One, MessageFields
<1> QED BY <1>2, <1>3, <1>4, <1>5

(* The packet count of an RX event *)
LEMMA RxCount ==
  ASSUME NEW m \in MessageType
  PROVE  /\ RxPackets(m) \in Steps
         /\ Accepted(RxPackets(m)) <=> 20 + m.a * 17 <= m.inner
         /\ m.declared <= m.have /\ m.inner + 12 <= m.declared /\ m.inner >= 20 =>
              ReadsWithin(RxPackets(m), m.have)
<1> DEFINE x == Step(AtPayload(20), RX_EVENT_FIXED_LEN + m.a * RX_INFO_LEN <= m.inner)
<1>1. x \in StepType /\ x.reads = 32 /\ (x.ok <=> 20 + m.a * 17 <= m.inner)
  <2>1. AtPayload(20) = 32 /\ (RX_EVENT_FIXED_LEN + m.a * RX_INFO_LEN <= m.inner <=>
          20 + m.a * 17 <= m.inner)
    BY MessageFields, Sizes
  <2>2. x.reads = AtPayload(20) /\ (x.ok <=> RX_EVENT_FIXED_LEN + m.a * RX_INFO_LEN <= m.inner)
    BY DEF Step
  <2>3. x \in StepType
    BY <2>1 DEF Step, StepType
  <2> QED BY <2>1, <2>2, <2>3
<1>2. RxPackets(m) = <<x>>
  BY DEF RxPackets
<1> HIDE DEF x
<1>3. <<x>> \in Steps
  BY <1>1 DEF Steps
<1>4. Accepted(<<x>>) <=> 20 + m.a * 17 <= m.inner
  BY <1>1, One, MessageFields
<1>5. m.declared <= m.have /\ m.inner + 12 <= m.declared /\ m.inner >= 20 =>
        ReadsWithin(<<x>>, m.have)
  BY <1>1, One, MessageFields
<1> QED BY <1>2, <1>3, <1>4, <1>5

-----------------------------------------------------------------------------
(* Which control and data events are accepted *)

ControlOk(m) ==
  /\ m.declared >= 48
  /\ m.id \in {ScanDone, CommandStatus} => m.declared >= 56
  /\ m.id = ScanResult => m.declared >= 118 /\ 118 + m.a + m.b <= m.declared
  /\ m.id \in Mlme => m.a \in 0 .. 400 /\ 487 + m.b <= m.declared
  /\ m.id = InterfaceFlagsStatus => m.declared >= 52
  /\ m.id = RegulatoryChange => m.declared >= 57

DataOk(m) ==
  /\ m.inner >= 8 /\ m.inner + 12 <= m.declared
  /\ m.id = TransmitDone => m.inner >= 22 /\ m.inner = 22 + m.a
  /\ m.id = ReceiveBuffer => m.inner >= 20 /\ 20 + m.a * 17 <= m.inner
  /\ m.id \in Carrier => m.inner >= 12

(* Which control events are accepted, and that none is read past its end *)
LEMMA ControlEventIs ==
  ASSUME NEW m \in MessageType
  PROVE  /\ ParseControlEvent(m) \in Steps
         /\ Accepted(ParseControlEvent(m)) <=> ControlOk(m)
         /\ m.declared <= m.have => ReadsWithin(ParseControlEvent(m), m.have)
<1> DEFINE head == ControlHead(m)
           body == CASE m.id = ScanDone             -> Required(m, 8)
                     [] m.id = ScanResult           -> ParseScanResult(m)
                     [] m.id \in Mlme               -> ParseMlme(m)
                     [] m.id = CommandStatus        -> Required(m, 8)
                     [] m.id = InterfaceFlagsStatus -> Required(m, 4)
                     [] m.id = RegulatoryChange     -> Required(m, 9)
                     [] OTHER                       -> <<>>
<1>1. ParseControlEvent(m) = head \o body
  BY DEF ParseControlEvent, ControlHead
<1>2. /\ head \in Steps /\ (Accepted(head) <=> m.declared >= 48)
      /\ m.declared <= m.have => ReadsWithin(head, m.have)
  BY ControlHeader
<1>3. /\ m.declared \in Nat /\ m.have \in Nat /\ m.have \in Int
      /\ m.id \in Nat /\ m.a \in Int /\ m.b \in Nat
  BY MessageFields
<1>4. /\ body \in Steps
      /\ m.declared >= 48 => (Accepted(body) <=> ControlOk(m))
      /\ m.declared <= m.have => ReadsWithin(body, m.have)
  <2>1. CASE m.id \in {ScanDone, CommandStatus}
    <3>1. body = Required(m, 8)
      BY <2>1 DEF ScanDone, ScanResult, Mlme, CommandStatus, InterfaceFlagsStatus,
                    RegulatoryChange
    <3> HIDE DEF body
    <3>2. ControlOk(m) <=> m.declared >= 56
      BY <1>3, <2>1 DEF ControlOk, ScanDone, ScanResult, Mlme, CommandStatus,
                        InterfaceFlagsStatus, RegulatoryChange
    <3> QED BY <1>3, <3>1, <3>2, RequiredBody
  <2>2. CASE m.id = ScanResult
    <3>1. body = ParseScanResult(m)
      BY <2>2 DEF ScanDone, ScanResult, Mlme, CommandStatus, InterfaceFlagsStatus,
                    RegulatoryChange
    <3> HIDE DEF body
    <3>2. ControlOk(m) <=> m.declared >= 118 /\ 118 + m.a + m.b <= m.declared
      BY <1>3, <2>2 DEF ControlOk, ScanDone, ScanResult, Mlme, CommandStatus,
                        InterfaceFlagsStatus, RegulatoryChange
    <3> QED BY <3>1, <3>2, ScanResultEvent
  <2>3. CASE m.id \in Mlme
    <3>1. body = ParseMlme(m)
      BY <2>3 DEF ScanDone, ScanResult, Mlme, CommandStatus, InterfaceFlagsStatus,
                    RegulatoryChange
    <3> HIDE DEF body
    <3>2. ControlOk(m) <=> m.a \in 0 .. 400 /\ 487 + m.b <= m.declared /\ m.declared >= 487
      BY <1>3, <2>3 DEF ControlOk, ScanDone, ScanResult, Mlme, CommandStatus,
                        InterfaceFlagsStatus, RegulatoryChange
    <3> QED BY <3>1, <3>2, MlmeEvent
  <2>4. CASE m.id = InterfaceFlagsStatus
    <3>1. body = Required(m, 4)
      BY <2>4 DEF ScanDone, ScanResult, Mlme, CommandStatus, InterfaceFlagsStatus,
                    RegulatoryChange
    <3> HIDE DEF body
    <3>2. ControlOk(m) <=> m.declared >= 52
      BY <1>3, <2>4 DEF ControlOk, ScanDone, ScanResult, Mlme, CommandStatus,
                        InterfaceFlagsStatus, RegulatoryChange
    <3> QED BY <1>3, <3>1, <3>2, RequiredBody
  <2>5. CASE m.id = RegulatoryChange
    <3>1. body = Required(m, 9)
      BY <2>5 DEF ScanDone, ScanResult, Mlme, CommandStatus, InterfaceFlagsStatus,
                    RegulatoryChange
    <3> HIDE DEF body
    <3>2. ControlOk(m) <=> m.declared >= 57
      BY <1>3, <2>5 DEF ControlOk, ScanDone, ScanResult, Mlme, CommandStatus,
                        InterfaceFlagsStatus, RegulatoryChange
    <3> QED BY <1>3, <3>1, <3>2, RequiredBody
  <2>6. CASE /\ m.id \notin {ScanDone, CommandStatus, ScanResult, InterfaceFlagsStatus}
             /\ m.id # RegulatoryChange /\ m.id \notin Mlme
    <3>1. body = <<>>
      BY <2>6
    <3> HIDE DEF body
    <3>2. ControlOk(m) <=> m.declared >= 48
      BY <2>6 DEF ControlOk
    <3> QED BY <3>1, <3>2, None
  <2> QED BY <2>1, <2>2, <2>3, <2>4, <2>5, <2>6
<1> HIDE DEF head, body
<1>5. ControlOk(m) => m.declared >= 48
  BY DEF ControlOk
<1> QED BY <1>1, <1>2, <1>3, <1>4, <1>5, Joined

(* The two parsers of a TX-done event are the same. *)
LEMMA TxDoneIs ==
  ASSUME NEW m \in MessageType
  PROVE  /\ ParseTxDone(m) \in Steps
         /\ Accepted(ParseTxDone(m)) <=>
              m.inner >= 22 /\ m.inner + 12 <= m.declared /\ m.inner = 22 + m.a
         /\ m.declared <= m.have => ReadsWithin(ParseTxDone(m), m.have)
<1> DEFINE head == DataPayload(m, TX_DONE_FIXED_LEN)
           body == TxStatuses(m)
<1>1. ParseTxDone(m) = head \o body
  BY DEF ParseTxDone, TxStatuses
<1>2. /\ m.declared \in Nat /\ m.have \in Int /\ m.inner \in Nat
  BY MessageFields
<1>3. /\ head \in Steps
      /\ Accepted(head) <=> m.inner >= 22 /\ m.inner + 12 <= m.declared
      /\ m.declared <= m.have => ReadsWithin(head, m.have)
  BY <1>2, DataHeader, Sizes
<1>4. /\ body \in Steps
      /\ Accepted(body) <=> m.inner = 22 + m.a
      /\ m.declared <= m.have /\ m.inner + 12 <= m.declared /\ m.inner >= 22
           => ReadsWithin(body, m.have)
  BY TxStatus
<1> HIDE DEF head, body
<1> QED BY <1>1, <1>2, <1>3, <1>4, Joined

(* Which receive events are accepted, and that none is read past its end *)
LEMMA RxEventIs ==
  ASSUME NEW m \in MessageType
  PROVE  /\ ParseRxEvent(m) \in Steps
         /\ Accepted(ParseRxEvent(m)) <=>
              m.inner >= 20 /\ m.inner + 12 <= m.declared /\ 20 + m.a * 17 <= m.inner
         /\ m.declared <= m.have => ReadsWithin(ParseRxEvent(m), m.have)
<1> DEFINE head == DataPayload(m, RX_EVENT_FIXED_LEN)
           body == RxPackets(m)
<1>1. ParseRxEvent(m) = head \o body
  BY DEF ParseRxEvent, RxPackets
<1>2. /\ m.declared \in Nat /\ m.have \in Int /\ m.inner \in Nat
  BY MessageFields
<1>3. /\ head \in Steps
      /\ Accepted(head) <=> m.inner >= 20 /\ m.inner + 12 <= m.declared
      /\ m.declared <= m.have => ReadsWithin(head, m.have)
  BY <1>2, DataHeader, Sizes
<1>4. /\ body \in Steps
      /\ Accepted(body) <=> 20 + m.a * 17 <= m.inner
      /\ m.declared <= m.have /\ m.inner + 12 <= m.declared /\ m.inner >= 20
           => ReadsWithin(body, m.have)
  BY RxCount
<1> HIDE DEF head, body
<1> QED BY <1>1, <1>2, <1>3, <1>4, Joined

(* Which data events are accepted, and that none is read past its end *)
LEMMA DataEventIs ==
  ASSUME NEW m \in MessageType
  PROVE  /\ ParseDataEvent(m) \in Steps
         /\ Accepted(ParseDataEvent(m)) <=> DataOk(m)
         /\ m.declared <= m.have => ReadsWithin(ParseDataEvent(m), m.have)
<1> DEFINE head == DataPayload(m, 8)
           body == CASE m.id = TransmitDone  -> ParseTxDone(m) \o ParseTxDone(m)
                     [] m.id = ReceiveBuffer -> ParseRxEvent(m)
                     [] m.id \in Carrier     -> CarrierBody(m)
                     [] OTHER                -> <<>>
<1>1. ParseDataEvent(m) = head \o body
  BY DEF ParseDataEvent, DataPayload, CarrierBody
<1>2. /\ m.declared \in Nat /\ m.have \in Int /\ m.inner \in Nat /\ m.id \in Nat /\ m.a \in Int
  BY MessageFields
<1>3. /\ head \in Steps
      /\ Accepted(head) <=> m.inner >= 8 /\ m.inner + 12 <= m.declared
      /\ m.declared <= m.have => ReadsWithin(head, m.have)
  BY <1>2, DataHeader
<1>4. /\ body \in Steps
      /\ m.inner >= 8 /\ m.inner + 12 <= m.declared => (Accepted(body) <=> DataOk(m))
      /\ m.declared <= m.have /\ m.inner + 12 <= m.declared => ReadsWithin(body, m.have)
  <2>1. CASE m.id = TransmitDone
    <3>1. body = ParseTxDone(m) \o ParseTxDone(m)
      BY <2>1 DEF TransmitDone, ReceiveBuffer, Carrier
    <3> HIDE DEF body
    <3>2. DataOk(m) <=> m.inner + 12 <= m.declared /\ m.inner >= 22 /\ m.inner = 22 + m.a
      BY <1>2, <2>1 DEF DataOk, TransmitDone, ReceiveBuffer, Carrier
    <3> QED BY <1>2, <3>1, <3>2, TxDoneIs, Joined
  <2>2. CASE m.id = ReceiveBuffer
    <3>1. body = ParseRxEvent(m)
      BY <2>2 DEF TransmitDone, ReceiveBuffer, Carrier
    <3> HIDE DEF body
    <3>2. DataOk(m) <=> m.inner + 12 <= m.declared /\ m.inner >= 20 /\ 20 + m.a * 17 <= m.inner
      BY <1>2, <2>2 DEF DataOk, TransmitDone, ReceiveBuffer, Carrier
    <3> QED BY <3>1, <3>2, RxEventIs
  <2>3. CASE m.id \in Carrier
    <3>0. m.id # TransmitDone /\ m.id # ReceiveBuffer
      BY <2>3 DEF TransmitDone, ReceiveBuffer, Carrier
    <3>1. body = CarrierBody(m)
      BY <2>3, <3>0
    <3> HIDE DEF body
    <3>2. DataOk(m) <=> m.inner + 12 <= m.declared /\ m.inner >= 12
      BY <1>2, <2>3 DEF DataOk, TransmitDone, ReceiveBuffer, Carrier
    <3> QED BY <3>1, <3>2, CarrierEvent
  <2>4. CASE m.id # TransmitDone /\ m.id # ReceiveBuffer /\ m.id \notin Carrier
    <3>1. body = <<>>
      BY <2>4
    <3> HIDE DEF body
    <3>2. DataOk(m) <=> m.inner >= 8 /\ m.inner + 12 <= m.declared
      BY <2>4 DEF DataOk
    <3> QED BY <3>1, <3>2, None
  <2> QED BY <2>1, <2>2, <2>3, <2>4
<1> HIDE DEF head, body
<1>5. DataOk(m) => m.inner >= 8 /\ m.inner + 12 <= m.declared
  BY DEF DataOk
<1> QED BY <1>1, <1>2, <1>3, <1>4, <1>5, Joined

(* The packets of an RX event whose count was accepted *)
LEMMA PacketsAre ==
  ASSUME NEW m \in MessageType, m.a >= 0
  PROVE  /\ ReadPackets(m) \in Steps
         /\ m.packet.type \in 0 .. 2 => Accepted(ReadPackets(m))
         /\ m.declared <= m.have /\ m.inner + 12 <= m.declared /\ 20 + m.a * 17 <= m.inner
              => ReadsWithin(ReadPackets(m), m.have)
<1> DEFINE at(i) == AtPayload(RX_EVENT_FIXED_LEN + (i - 1) * RX_INFO_LEN + 5)
           r == ReadPackets(m)
<1>1. /\ m.declared \in Nat /\ m.have \in Nat /\ m.inner \in Nat /\ m.a \in Nat
  BY MessageFields
<1>2. ASSUME NEW i \in 1 .. m.a PROVE at(i) = 37 + (i - 1) * 17 /\ at(i) \in Int
  <2>1. i \in Int
    BY <1>1
  <2> QED BY <2>1, Sizes
<1>3. r = [i \in 1 .. m.a |-> Step(at(i), m.packet.type \in 0 .. 2)]
  BY DEF ReadPackets
<1> HIDE DEF at, r
<1>4. ASSUME NEW i \in 1 .. m.a
      PROVE  r[i] \in StepType /\ r[i].reads = at(i) /\ (r[i].ok <=> m.packet.type \in 0 .. 2)
  <2>1. r[i] = Step(at(i), m.packet.type \in 0 .. 2)
    BY <1>3
  <2>2. Step(at(i), m.packet.type \in 0 .. 2) \in StepType
    BY <1>2 DEF Step, StepType
  <2>3. /\ Step(at(i), m.packet.type \in 0 .. 2).reads = at(i)
        /\ Step(at(i), m.packet.type \in 0 .. 2).ok <=> m.packet.type \in 0 .. 2
    BY DEF Step
  <2> QED BY <2>1, <2>2, <2>3
<1>5. r \in [1 .. m.a -> StepType]
  BY <1>3, <1>4
<1>6. r \in Steps /\ DOMAIN r = 1 .. m.a
  BY <1>1, <1>5 DEF Steps
<1>7. m.packet.type \in 0 .. 2 => Accepted(r)
  BY <1>4, <1>6 DEF Accepted
<1>8. ASSUME m.declared <= m.have, m.inner + 12 <= m.declared, 20 + m.a * 17 <= m.inner
      PROVE  ReadsWithin(r, m.have)
  <2>1. ASSUME NEW i \in 1 .. m.a PROVE r[i].reads <= m.have
    <3>1. i \in Int /\ i <= m.a
      BY <1>1
    <3>2. 37 + (i - 1) * 17 <= m.have
      BY <1>1, <1>8, <3>1
    <3> QED BY <1>2, <1>4, <3>2
  <2> QED BY <1>6, <2>1 DEF ReadsWithin
<1> QED BY <1>6, <1>7, <1>8 DEF r

-----------------------------------------------------------------------------
(* The conversion of a packet *)

(* The fields of a received packet *)
LEMMA PacketFields ==
  ASSUME NEW p \in PacketType, p.type \in 0 .. 2
  PROVE  /\ p.mac \in Nat /\ p.len \in Nat /\ LlcAt(p) \in Nat /\ PayloadAt(p) \in Nat
         /\ PayloadAt(p) <= LlcAt(p) + 8 /\ PayloadAt(p) >= LlcAt(p) + 2
         /\ p.type # Mpdu => LlcAt(p) >= 14
         /\ p.type = Mpdu => LlcAt(p) = p.mac
         /\ EthernetLen(p) = 14 + p.len - PayloadAt(p)
<1>1. p.mac \in Nat /\ p.len \in Nat
  BY DEF PacketType
<1>2. LlcAt(p) \in Nat /\ (p.type # Mpdu => LlcAt(p) >= 14) /\ (p.type = Mpdu =>
        LlcAt(p) = p.mac)
  BY <1>1 DEF LlcAt, Mpdu, MsduWithMac
<1>3. /\ PayloadAt(p) \in Nat
      /\ PayloadAt(p) <= LlcAt(p) + 8 /\ PayloadAt(p) >= LlcAt(p) + 2
  BY <1>2 DEF PayloadAt
<1> QED BY <1>1, <1>2, <1>3, Sizes DEF EthernetLen

(* The LLC header of a packet, and the frame that is built *)
LEMMA LlcSteps ==
  ASSUME NEW p \in PacketType, p.type \in 0 .. 2
  PROVE  /\ LlcPart(p) \in Steps
         /\ Accepted(LlcPart(p)) <=> LlcAt(p) + 8 <= p.len /\ PayloadAt(p) >= 14
         /\ LlcAt(p) >= 6 => ReadsWithin(LlcPart(p), p.len)
<1> DEFINE x == Step(0, LlcAt(p) + 8 <= p.len)
           y == Step(LlcAt(p) + 8, PayloadAt(p) <= p.len)
           z == Step(0, EthernetLen(p) <= p.len)
           w == Step(ETHERNET_HEADER_LEN, TRUE)
<1>1. x \in StepType /\ x.reads = 0 /\ (x.ok <=> LlcAt(p) + 8 <= p.len)
  <2>1. x.reads = 0 /\ (x.ok <=> LlcAt(p) + 8 <= p.len)
    BY DEF Step
  <2>2. x \in StepType
    BY DEF Step, StepType
  <2> QED BY <2>1, <2>2
<1>2. y \in StepType /\ y.reads = LlcAt(p) + 8 /\ (y.ok <=> PayloadAt(p) <= p.len)
  <2>1. LlcAt(p) + 8 \in Int
    BY PacketFields, Sizes
  <2>2. y.reads = LlcAt(p) + 8 /\ (y.ok <=> PayloadAt(p) <= p.len)
    BY DEF Step
  <2>3. y \in StepType
    BY <2>1 DEF Step, StepType
  <2> QED BY <2>1, <2>2, <2>3
<1>3. z \in StepType /\ z.reads = 0 /\ (z.ok <=> PayloadAt(p) >= 14)
  <2>1. EthernetLen(p) <= p.len <=> PayloadAt(p) >= 14
    BY PacketFields, Sizes
  <2>2. z.reads = 0 /\ (z.ok <=> EthernetLen(p) <= p.len)
    BY DEF Step
  <2>3. z \in StepType
    BY <2>1 DEF Step, StepType
  <2> QED BY <2>1, <2>2, <2>3
<1>4. w \in StepType /\ w.reads = 14 /\ (w.ok <=> TRUE)
  <2>1. ETHERNET_HEADER_LEN = 14
    BY PacketFields, Sizes
  <2>2. w.reads = ETHERNET_HEADER_LEN /\ (w.ok <=> TRUE)
    BY DEF Step
  <2>3. w \in StepType
    BY <2>1 DEF Step, StepType
  <2> QED BY <2>1, <2>2, <2>3
<1>5. LlcPart(p) = <<x, y, z, w>>
  BY DEF LlcPart
<1> HIDE DEF x, y, z, w
<1>6. <<x, y, z, w>> \in Steps
  BY <1>1, <1>2, <1>3, <1>4 DEF Steps
<1>7. Accepted(<<x, y, z, w>>) <=> LlcAt(p) + 8 <= p.len /\ PayloadAt(p) >= 14
  BY <1>1, <1>2, <1>3, <1>4, Four, PacketFields
<1>8. LlcAt(p) >= 6 => ReadsWithin(<<x, y, z, w>>, p.len)
  BY <1>1, <1>2, <1>3, <1>4, Four, PacketFields
<1> QED BY <1>5, <1>6, <1>7, <1>8

(* The header of an MSDU *)
LEMMA MsduSteps ==
  ASSUME NEW p \in PacketType, p.type \in 0 .. 2
  PROVE  /\ MsduHead(p) \in Steps
         /\ Accepted(MsduHead(p)) <=> p.len >= LlcAt(p)
         /\ ReadsWithin(MsduHead(p), p.len)
<1> DEFINE x == Step(0, p.len >= LlcAt(p))
           y == Step(LlcAt(p) - 2, TRUE)
<1>1. x \in StepType /\ x.reads = 0 /\ (x.ok <=> p.len >= LlcAt(p))
  <2>1. x.reads = 0 /\ (x.ok <=> p.len >= LlcAt(p))
    BY DEF Step
  <2>2. x \in StepType
    BY DEF Step, StepType
  <2> QED BY <2>1, <2>2
<1>2. y \in StepType /\ y.reads = LlcAt(p) - 2 /\ (y.ok <=> TRUE)
  <2>1. LlcAt(p) - 2 \in Int
    BY PacketFields, Sizes
  <2>2. y.reads = LlcAt(p) - 2 /\ (y.ok <=> TRUE)
    BY DEF Step
  <2>3. y \in StepType
    BY <2>1 DEF Step, StepType
  <2> QED BY <2>1, <2>2, <2>3
<1>3. MsduHead(p) = <<x, y>>
  BY DEF MsduHead
<1> HIDE DEF x, y
<1>4. <<x, y>> \in Steps
  BY <1>1, <1>2 DEF Steps
<1>5. Accepted(<<x, y>>) <=> p.len >= LlcAt(p)
  BY <1>1, <1>2, Two, PacketFields
<1>6. ReadsWithin(<<x, y>>, p.len)
  BY <1>1, <1>2, Two, PacketFields
<1> QED BY <1>3, <1>4, <1>5, <1>6

(* The header of an MPDU *)
LEMMA MpduSteps ==
  ASSUME NEW p \in PacketType, p.type \in 0 .. 2, NEW a \in 4 .. 24, p.ds # {"to", "from"} =>
           a <= 16
  PROVE  /\ MpduHead(p, a) \in Steps
         /\ Accepted(MpduHead(p, a)) <=> (p.mac >= 24 /\ p.len >= 24 /\
              (p.ds = {"to", "from"} => p.len >= 30))
         /\ ReadsWithin(MpduHead(p, a), p.len) <=> ~(p.mac >= 24 /\ p.len < 2)
<1> DEFINE x == Step(0, p.mac >= 24)
           y == Step(2, p.len >= 24)
           z == Step(22, (p.ds = {"to", "from"} => p.len >= 30))
           w == Step(a + 6, TRUE)
<1>1. x \in StepType /\ x.reads = 0 /\ (x.ok <=> p.mac >= 24)
  <2>1. x.reads = 0 /\ (x.ok <=> p.mac >= 24)
    BY DEF Step
  <2>2. x \in StepType
    BY DEF Step, StepType
  <2> QED BY <2>1, <2>2
<1>2. y \in StepType /\ y.reads = 2 /\ (y.ok <=> p.len >= 24)
  <2>1. y.reads = 2 /\ (y.ok <=> p.len >= 24)
    BY DEF Step
  <2>2. y \in StepType
    BY DEF Step, StepType
  <2> QED BY <2>1, <2>2
<1>3. z \in StepType /\ z.reads = 22 /\ (z.ok <=> (p.ds = {"to", "from"} => p.len >= 30))
  <2>1. z.reads = 22 /\ (z.ok <=> (p.ds = {"to", "from"} => p.len >= 30))
    BY DEF Step
  <2>2. z \in StepType
    BY DEF Step, StepType
  <2> QED BY <2>1, <2>2
<1>4. w \in StepType /\ w.reads = a + 6 /\ (w.ok <=> TRUE)
  <2>1. a + 6 \in Int
    BY PacketFields, Sizes
  <2>2. w.reads = a + 6 /\ (w.ok <=> TRUE)
    BY DEF Step
  <2>3. w \in StepType
    BY <2>1 DEF Step, StepType
  <2> QED BY <2>1, <2>2, <2>3
<1>5. MpduHead(p, a) = <<x, y, z, w>>
  BY DEF MpduHead
<1> HIDE DEF x, y, z, w
<1>6. <<x, y, z, w>> \in Steps
  BY <1>1, <1>2, <1>3, <1>4 DEF Steps
<1>7. Accepted(<<x, y, z, w>>) <=> (p.mac >= 24 /\ p.len >= 24 /\ (p.ds = {"to", "from"} =>
        p.len >= 30))
  BY <1>1, <1>2, <1>3, <1>4, Four, PacketFields
<1>8. ReadsWithin(<<x, y, z, w>>, p.len) <=> ~(p.mac >= 24 /\ p.len < 2)
  BY <1>1, <1>2, <1>3, <1>4, Four, PacketFields
<1> QED BY <1>5, <1>6, <1>7, <1>8

(* The two addresses that are taken from an MPDU are those IEEE 802.11     *)
(* names, and only with four addresses the source lies in the fourth.      *)
LEMMA AddressesAre ==
  ASSUME NEW p \in PacketType
  PROVE  /\ Ieee80211Addresses(p) = <<DestinationAddress(p), SourceAddress(p)>>
         /\ SourceAddress(p) \in 4 .. 24
         /\ p.ds # {"to", "from"} => SourceAddress(p) <= 16
<1>0. p.ds \subseteq {"to", "from"}
  BY DEF PacketType
<1>1. CASE "to" \in p.ds /\ "from" \in p.ds
  <2>1. p.ds = {"to", "from"}
    BY <1>0, <1>1
  <2>2. Ieee80211Addresses(p) = <<16, 24>>
    BY <2>1 DEF Ieee80211Addresses
  <2>3. DestinationAddress(p) = 16 /\ SourceAddress(p) = 24
    BY <1>1 DEF DestinationAddress, SourceAddress, Address
  <2> QED BY <2>1, <2>2, <2>3
<1>2. CASE "to" \in p.ds /\ "from" \notin p.ds
  <2>1. p.ds = {"to"} /\ p.ds # {"to", "from"} /\ p.ds # {"from"}
    BY <1>0, <1>2
  <2>2. Ieee80211Addresses(p) = <<16, 10>>
    BY <2>1 DEF Ieee80211Addresses
  <2>3. DestinationAddress(p) = 16 /\ SourceAddress(p) = 10
    BY <1>2 DEF DestinationAddress, SourceAddress, Address
  <2> QED BY <2>1, <2>2, <2>3
<1>3. CASE "to" \notin p.ds /\ "from" \in p.ds
  <2>1. p.ds = {"from"} /\ p.ds # {"to", "from"} /\ p.ds # {"to"}
    BY <1>0, <1>3
  <2>2. Ieee80211Addresses(p) = <<4, 16>>
    BY <2>1 DEF Ieee80211Addresses
  <2>3. DestinationAddress(p) = 4 /\ SourceAddress(p) = 16
    BY <1>3 DEF DestinationAddress, SourceAddress, Address
  <2> QED BY <2>1, <2>2, <2>3
<1>4. CASE "to" \notin p.ds /\ "from" \notin p.ds
  <2>1. p.ds # {"from"} /\ p.ds # {"to", "from"} /\ p.ds # {"to"}
    BY <1>4
  <2>2. Ieee80211Addresses(p) = <<4, 10>>
    BY <2>1 DEF Ieee80211Addresses
  <2>3. DestinationAddress(p) = 4 /\ SourceAddress(p) = 10
    BY <1>4 DEF DestinationAddress, SourceAddress, Address
  <2> QED BY <2>1, <2>2, <2>3
<1> QED BY <1>1, <1>2, <1>3, <1>4

(* Which packets are converted *)
ConvertOk(p) ==
  /\ p.type = Mpdu => p.mac >= 24 /\ (p.ds = {"to", "from"} => p.len >= 30)
  /\ LlcAt(p) + 8 <= p.len

(* Which packets are made an Ethernet frame, and which are read past their *)
(* end                                                                     *)
LEMMA ConversionIs ==
  ASSUME NEW p \in PacketType, p.type \in 0 .. 2
  PROVE  /\ Accepted(ConvertToEthernet(p)) <=> ConvertOk(p)
         /\ ReadsWithin(ConvertToEthernet(p), p.len) <=> ~LacksFrameControl(p)
<1> DEFINE mpdu == MpduHead(p, Addresses(p)[2])
           msdu == MsduHead(p)
           llc  == LlcPart(p)
<1>1. ConvertToEthernet(p) = (IF p.type = Mpdu THEN mpdu ELSE msdu) \o llc
  BY DEF ConvertToEthernet, MpduHead, MsduHead, LlcPart
<1>2. /\ llc \in Steps
      /\ Accepted(llc) <=> LlcAt(p) + 8 <= p.len /\ PayloadAt(p) >= 14
      /\ LlcAt(p) >= 6 => ReadsWithin(llc, p.len)
  BY LlcSteps
<1>3. /\ p.mac \in Nat /\ p.len \in Nat /\ p.len \in Int
      /\ LlcAt(p) \in Nat /\ PayloadAt(p) \in Nat /\ PayloadAt(p) >= LlcAt(p) + 2
      /\ p.type # Mpdu => LlcAt(p) >= 14
      /\ p.type = Mpdu => LlcAt(p) = p.mac
  BY PacketFields
<1>4. CASE p.type = Mpdu
  <2>1. Addresses(p)[2] = SourceAddress(p)
    BY <1>4, AddressesAre DEF Addresses
  <2>2. /\ mpdu \in Steps
        /\ Accepted(mpdu) <=>
             (p.mac >= 24 /\ p.len >= 24 /\ (p.ds = {"to", "from"} => p.len >= 30))
        /\ ReadsWithin(mpdu, p.len) <=> ~LacksFrameControl(p)
    <3>1. SourceAddress(p) \in 4 .. 24 /\ (p.ds # {"to", "from"} => SourceAddress(p) <= 16)
      BY AddressesAre
    <3>2. mpdu = MpduHead(p, SourceAddress(p))
      BY <2>1
    <3> HIDE DEF mpdu
    <3> QED BY <1>4, <3>1, <3>2, MpduSteps DEF LacksFrameControl
  <2> HIDE DEF mpdu, msdu, llc
  <2>3. ConvertToEthernet(p) = mpdu \o llc
    BY <1>1, <1>4
  <2>4. Accepted(mpdu) /\ Accepted(llc) <=> ConvertOk(p)
    BY <1>2, <1>3, <1>4, <2>2 DEF ConvertOk
  <2>5. Accepted(mpdu) => LlcAt(p) >= 6
    BY <1>3, <1>4, <2>2
  <2>6. ReadsWithin(mpdu \o llc, p.len) <=> ReadsWithin(mpdu, p.len)
    BY <1>2, <1>3, <2>2, <2>5, Joined
  <2> QED BY <1>2, <1>3, <2>2, <2>3, <2>4, <2>6, Joined
<1>5. CASE p.type # Mpdu
  <2>1. /\ msdu \in Steps
        /\ Accepted(msdu) <=> p.len >= LlcAt(p)
        /\ ReadsWithin(msdu, p.len)
    BY MsduSteps
  <2> HIDE DEF mpdu, msdu, llc
  <2>2. ConvertToEthernet(p) = msdu \o llc
    BY <1>1, <1>5
  <2>3. Accepted(msdu) /\ Accepted(llc) <=> ConvertOk(p)
    BY <1>2, <1>3, <1>5, <2>1 DEF ConvertOk
  <2>4. LlcAt(p) >= 6
    BY <1>3, <1>5
  <2>5. ~LacksFrameControl(p)
    BY <1>5 DEF LacksFrameControl
  <2> QED BY <1>2, <1>3, <2>1, <2>2, <2>3, <2>4, <2>5, Joined
<1> QED BY <1>4, <1>5

(* The conversion is right for every packet. *)
LEMMA ConversionRight == ASSUME NEW p \in PacketType PROVE ConvertsRight(p)
<1>1. CASE p.type \notin 0 .. 2
  BY <1>1 DEF ConvertsRight
<1>2. CASE p.type \in 0 .. 2
  <2>1. /\ Accepted(ConvertToEthernet(p)) <=> ConvertOk(p)
        /\ ReadsWithin(ConvertToEthernet(p), p.len) <=> ~LacksFrameControl(p)
    BY <1>2, ConversionIs
  <2>2. /\ p.mac \in Nat /\ p.len \in Nat /\ LlcAt(p) \in Nat /\ PayloadAt(p) \in Nat
        /\ PayloadAt(p) <= LlcAt(p) + 8 /\ PayloadAt(p) >= LlcAt(p) + 2
        /\ p.type # Mpdu => LlcAt(p) >= 14
        /\ p.type = Mpdu => LlcAt(p) = p.mac
        /\ EthernetLen(p) = 14 + p.len - PayloadAt(p)
    BY <1>2, PacketFields
  <2>3. ASSUME ConvertOk(p)
        PROVE  /\ EthernetLen(p) \in ETHERNET_HEADER_LEN .. p.len
               /\ p.len - LlcAt(p) - 8 <= EthernetLen(p) - ETHERNET_HEADER_LEN
    BY <2>2, <2>3, Sizes DEF ConvertOk
  <2>4. p.type = Mpdu => Addresses(p) = <<DestinationAddress(p), SourceAddress(p)>>
    BY AddressesAre DEF Addresses
  <2>5. ASSUME p.type = Mpdu => p.mac >= (IF p.ds = {"to", "from"} THEN 30 ELSE 24),
               LlcAt(p) + 8 <= p.len
        PROVE  ConvertOk(p)
    BY <2>2, <2>5 DEF ConvertOk
  <2> QED BY <2>1, <2>3, <2>4, <2>5 DEF ConvertsRight
<1> QED BY <1>1, <1>2

-----------------------------------------------------------------------------
(* Every message: the parsers stay within it, and take it if the firmware's *)
(* structures allow it.                                                    *)

EventOk(m) ==
  /\ m.kind = System => /\ m.declared >= 20 /\ m.inner >= 8 /\ m.inner + 12 <= m.declared
                        /\ m.id \in {InitDone, DeinitDone} => m.inner = 8
  /\ m.kind = Umac => ControlOk(m)
  /\ m.kind = Data => DataOk(m)

(* Which events of any kind are accepted, and that none is read past its end *)
LEMMA EventIs ==
  ASSUME NEW m \in MessageType
  PROVE  /\ ParseEvent(m) \in Steps
         /\ Accepted(ParseEvent(m)) <=> EventOk(m)
         /\ m.declared <= m.have => ReadsWithin(ParseEvent(m), m.have)
<1>0. System = 0 /\ Umac = 3 /\ Data = 2
  BY DEF System, Umac, Data
<1>1. CASE m.kind = System
  <2>1. ParseEvent(m) = ParseSystemEvent(m)
    BY <1>1 DEF ParseEvent, System, Umac, Data
  <2>2. EventOk(m) <=> (m.declared >= 20 /\ m.inner >= 8 /\ m.inner + 12 <= m.declared /\
                        (m.id \in {InitDone, DeinitDone} => m.inner = 8))
    BY <1>0, <1>1 DEF EventOk
  <2> QED BY <2>1, <2>2, SystemEvent
<1>2. CASE m.kind = Umac
  <2>1. ParseEvent(m) = ParseControlEvent(m)
    BY <1>2 DEF ParseEvent, System, Umac, Data
  <2>2. EventOk(m) <=> ControlOk(m)
    BY <1>0, <1>2 DEF EventOk
  <2> QED BY <2>1, <2>2, ControlEventIs
<1>3. CASE m.kind = Data
  <2>1. ParseEvent(m) = ParseDataEvent(m)
    BY <1>3 DEF ParseEvent, System, Umac, Data
  <2>2. EventOk(m) <=> DataOk(m)
    BY <1>0, <1>3 DEF EventOk
  <2> QED BY <2>1, <2>2, DataEventIs
<1>4. CASE m.kind \notin {System, Umac, Data}
  <2>1. ParseEvent(m) = <<>>
    BY <1>4 DEF ParseEvent
  <2>2. EventOk(m)
    BY <1>4 DEF EventOk
  <2> QED BY <2>1, <2>2, None
<1> QED BY <1>1, <1>2, <1>3, <1>4

(* Every message is parsed within its bounds, and a well-formed one is     *)
(* accepted.                                                               *)
LEMMA MessageWithin ==
  ASSUME NEW m \in MessageType, m.a < 0 => m.kind = Umac /\ m.id \in Mlme
  PROVE  Within(m)
<1> DEFINE host == ParseHostMessage(m)
           event == ParseEvent(m)
           packets == IF m.kind = Data /\ m.id = ReceiveBuffer THEN ReadPackets(m) ELSE <<>>
           rx == m.kind = Data /\ m.id = ReceiveBuffer
<1>0. /\ m.have \in Nat /\ m.declared \in Nat /\ m.kind \in Int /\ m.id \in Nat
      /\ m.inner \in Nat /\ m.a \in Int /\ m.b \in Nat /\ m.packet \in PacketType
  BY MessageFields
<1>1. System = 0 /\ Supplicant = 1 /\ Data = 2 /\ Umac = 3
  BY DEF System, Supplicant, Data, Umac
<1>2. /\ host \in Steps
      /\ Accepted(host) <=> (m.have >= 12 /\ m.declared \in 12 .. m.have /\
                             m.kind \in {System, Supplicant, Data, Umac})
      /\ ReadsWithin(host, m.have)
  BY HostMessage
<1>3. /\ event \in Steps /\ (Accepted(event) <=> EventOk(m))
      /\ m.declared <= m.have => ReadsWithin(event, m.have)
  BY EventIs
<1>4. /\ packets \in Steps
      /\ (rx => m.packet.type \in 0 .. 2) => Accepted(packets)
      /\ m.declared <= m.have /\ EventOk(m) => ReadsWithin(packets, m.have)
  <2>1. CASE rx
    <3>1. packets = ReadPackets(m) /\ m.a >= 0
      BY <1>0, <1>1, <2>1
    <3>2. EventOk(m) => m.inner + 12 <= m.declared /\ 20 + m.a * 17 <= m.inner
      BY <2>1 DEF EventOk, DataOk
    <3> HIDE DEF packets
    <3> QED BY <2>1, <3>1, <3>2, PacketsAre
  <2>2. CASE ~rx
    <3>1. packets = <<>>
      BY <2>2
    <3> HIDE DEF packets
    <3> QED BY <3>1, None
  <2> QED BY <2>1, <2>2
<1>5. ParseMessage(m) = (host \o event) \o packets
  BY DEF ParseMessage
<1> HIDE DEF host, event, packets
<1>6. /\ host \o event \in Steps
      /\ Accepted(host \o event) <=> Accepted(host) /\ Accepted(event)
      /\ ReadsWithin(host \o event, m.have)
  <2>1. Accepted(host) => ReadsWithin(event, m.have)
    BY <1>0, <1>2, <1>3
  <2> QED BY <1>0, <1>2, <1>3, <2>1, Joined
<1>7. /\ Accepted(ParseMessage(m)) <=> Accepted(host) /\ Accepted(event) /\ Accepted(packets)
      /\ ReadsWithin(ParseMessage(m), m.have)
  <2>1. Accepted(host \o event) => ReadsWithin(packets, m.have)
    BY <1>0, <1>2, <1>3, <1>4, <1>6
  <2> QED BY <1>0, <1>4, <1>5, <1>6, <2>1, Joined
<1>8. ASSUME EventOk(m), NEW v \in Views(m) PROVE v[1] <= v[2] /\ v[2] <= m.declared
  <2>1. CASE m.kind = System
    <3>1. v = <<AtPayload(8), AtPayload(m.inner)>>
      BY <1>8, <2>1 DEF Views, System, Umac, Data
    <3>2. m.inner >= 8 /\ m.inner + 12 <= m.declared
      BY <1>8, <2>1 DEF EventOk
    <3>3. AtPayload(8) = 20 /\ AtPayload(m.inner) = 12 + m.inner
      BY Sizes
    <3> QED BY <1>0, <3>1, <3>2, <3>3
  <2>2. CASE m.kind = Umac /\ m.id \in Mlme
    <3>1. \/ v = <<AtBody(28), AtBody(28 + m.a)>>
          \/ v = <<AtBody(MLME_FIXED_BODY_LEN), AtBody(MLME_FIXED_BODY_LEN + m.b)>>
      <4>1. m.kind # System
        BY <1>1, <2>2
      <4>2. Views(m) = {<<AtBody(28), AtBody(28 + m.a)>>,
                        <<AtBody(MLME_FIXED_BODY_LEN), AtBody(MLME_FIXED_BODY_LEN + m.b)>>}
        <5>1. m.id # ScanResult
          BY <2>2 DEF Mlme, ScanResult
        <5>2. m.kind # Data
          BY <1>1, <2>2
        <5> QED BY <2>2, <4>1, <5>1, <5>2 DEF Views
      <4> QED BY <1>8, <4>2
    <3>2. m.a \in 0 .. 400 /\ 487 + m.b <= m.declared
      BY <1>8, <2>2 DEF EventOk, ControlOk
    <3>3. /\ AtBody(28) = 76 /\ AtBody(28 + m.a) = 76 + m.a
          /\ AtBody(MLME_FIXED_BODY_LEN) = 487 /\ AtBody(MLME_FIXED_BODY_LEN + m.b) = 487 + m.b
      BY <1>0, Sizes
    <3> QED BY <1>0, <3>1, <3>2, <3>3
  <2>3. CASE m.kind = Umac /\ m.id = ScanResult
    <3> DEFINE ies == AtBody(SCAN_RESULT_FIXED_BODY_LEN)
    <3>0. m.id \notin Mlme
      BY <2>3 DEF Mlme, ScanResult
    <3>1. v = <<ies, ies + m.a>> \/ v = <<ies + m.a, ies + m.a + m.b>>
      BY <1>8, <2>3, <3>0 DEF Views, System, Umac, Data
    <3>2. 118 + m.a + m.b <= m.declared /\ m.a >= 0
      BY <1>0, <1>8, <2>3, <3>0 DEF EventOk, ControlOk
    <3>3. ies = 118
      BY Sizes
    <3> HIDE DEF ies
    <3> QED BY <1>0, <3>1, <3>2, <3>3
  <2>4. CASE m.kind = Data /\ m.id = TransmitDone
    <3>1. v = <<AtPayload(TX_DONE_FIXED_LEN), AtPayload(TX_DONE_FIXED_LEN + m.a)>>
      <4>1. m.kind # System /\ m.kind # Umac /\ m.id # ReceiveBuffer
        BY <1>1, <2>4 DEF TransmitDone, ReceiveBuffer
      <4>2. Views(m) = {<<AtPayload(TX_DONE_FIXED_LEN), AtPayload(TX_DONE_FIXED_LEN + m.a)>>}
        BY <2>4, <4>1 DEF Views
      <4> QED BY <1>8, <4>2
    <3>2. m.inner = 22 + m.a /\ m.inner >= 22 /\ m.inner + 12 <= m.declared
      BY <1>8, <2>4 DEF EventOk, DataOk
    <3>3. AtPayload(TX_DONE_FIXED_LEN) = 34 /\ AtPayload(TX_DONE_FIXED_LEN + m.a) = 34 + m.a
      BY <1>0, Sizes
    <3> QED BY <1>0, <3>1, <3>2, <3>3
  <2>5. CASE m.kind = Data /\ m.id = ReceiveBuffer
    <3>1. v = <<AtPayload(0), AtPayload(m.inner)>>
      BY <1>8, <2>5 DEF Views, System, Umac, Data, TransmitDone, ReceiveBuffer
    <3>2. m.inner + 12 <= m.declared
      BY <1>8, <2>5 DEF EventOk, DataOk
    <3>3. AtPayload(0) = 12 /\ AtPayload(m.inner) = 12 + m.inner
      BY <1>0, Sizes
    <3> QED BY <1>0, <3>1, <3>2, <3>3
  <2>6. CASE /\ m.kind # System /\ ~(m.kind = Umac /\ m.id \in Mlme)
             /\ ~(m.kind = Umac /\ m.id = ScanResult)
             /\ ~(m.kind = Data /\ m.id = TransmitDone)
             /\ ~(m.kind = Data /\ m.id = ReceiveBuffer)
    BY <1>8, <2>6 DEF Views
  <2> QED BY <2>1, <2>2, <2>3, <2>4, <2>5, <2>6
<1>9. ASSUME WellFormed(m) PROVE Accepted(host) /\ EventOk(m) /\ (rx =>
        m.packet.type \in 0 .. 2)
  <2>1. /\ m.kind \in {System, Supplicant, Data, Umac}
        /\ Extent(m) <= m.declared /\ m.declared <= m.have
    BY <1>9 DEF WellFormed
  <2>2. CASE m.kind = System
    <3>1. Extent(m) = 12 + m.inner
      BY <1>0, <2>2, Sizes DEF Extent, System, Umac, Data
    <3>2. m.inner >= 8 /\ (m.id \in {InitDone, DeinitDone} => m.inner = 8)
      BY <1>0, <1>9, <2>2 DEF WellFormed
    <3>3. EventOk(m) /\ ~rx
      BY <1>0, <1>1, <2>1, <2>2, <3>1, <3>2 DEF EventOk
    <3> QED BY <1>0, <1>2, <2>1, <3>1, <3>2, <3>3
  <2>3. CASE m.kind = Umac
    <3>1. /\ Extent(m) \in Int /\ Extent(m) >= 48
          /\ m.id \in {ScanDone, CommandStatus} => Extent(m) = 56
          /\ m.id = ScanResult => Extent(m) = 118 + m.a + m.b /\ m.a >= 0
          /\ m.id \in Mlme => Extent(m) = 487 + m.b
          /\ m.id = InterfaceFlagsStatus => Extent(m) = 52
          /\ m.id = RegulatoryChange => Extent(m) = 57
      <4> DEFINE c == CASE m.id \in {ScanDone, CommandStatus} -> 8
                        [] m.id = ScanResult -> SCAN_RESULT_FIXED_BODY_LEN + m.a + m.b
                        [] m.id \in Mlme -> MLME_FIXED_BODY_LEN + m.b
                        [] m.id = InterfaceFlagsStatus -> 4
                        [] m.id = RegulatoryChange -> 9
                        [] OTHER -> 0
      <4>1. Extent(m) = AtBody(c)
        BY <1>1, <2>3 DEF Extent
      <4>2. /\ m.id \in {ScanDone, CommandStatus} => c = 8
            /\ m.id = ScanResult => c = SCAN_RESULT_FIXED_BODY_LEN + m.a + m.b /\
                 m.id \notin Mlme
            /\ m.id \in Mlme => c = MLME_FIXED_BODY_LEN + m.b
            /\ m.id = InterfaceFlagsStatus => c = 4
            /\ m.id = RegulatoryChange => c = 9
            /\ /\ m.id \notin {ScanDone, CommandStatus, ScanResult, InterfaceFlagsStatus}
               /\ m.id # RegulatoryChange /\ m.id \notin Mlme
               => c = 0
        BY DEF ScanDone, ScanResult, Mlme, CommandStatus, InterfaceFlagsStatus, RegulatoryChange
      <4> HIDE DEF c
      <4>3. m.id = ScanResult => m.a >= 0
        BY <1>0, <4>2
      <4>4. /\ m.id = ScanResult => c = 70 + m.a + m.b /\ m.a >= 0
            /\ m.id \in Mlme => c = 439 + m.b
        BY <4>2, <4>3, Sizes
      <4>5. c \in Nat
        BY <1>0, <4>2, <4>4
      <4>6. Extent(m) = 48 + c
        BY <4>1, <4>5, Sizes
      <4> QED BY <1>0, <4>2, <4>4, <4>5, <4>6
    <3>2. ControlOk(m)
      <4>1. m.id \in Mlme => m.a \in 0 .. 400
        BY <1>9, <2>3 DEF WellFormed
      <4> QED BY <1>0, <2>1, <3>1, <4>1 DEF ControlOk
    <3>3. EventOk(m) /\ ~rx
      BY <1>0, <1>1, <2>3, <3>2 DEF EventOk
    <3> QED BY <1>0, <1>2, <2>1, <3>1, <3>3
  <2>4. CASE m.kind = Data
    <3>1. Extent(m) = 12 + m.inner
      BY <1>0, <2>4, Sizes DEF Extent, System, Umac, Data
    <3>2. DataOk(m) /\ (rx => m.packet.type \in 0 .. 2)
      <4> DEFINE w == CASE m.id = TransmitDone  -> m.inner = TX_DONE_FIXED_LEN + m.a
                        [] m.id = ReceiveBuffer ->
                             /\ m.inner >= RX_EVENT_FIXED_LEN + m.a * RX_INFO_LEN
                             /\ m.packet.type \in 0 .. 2
                        [] m.id \in Carrier     -> m.inner >= 12
                        [] OTHER                -> m.inner >= 8
      <4>1. w
        BY <1>9, <2>4 DEF WellFormed
      <4>2. m.a >= 0 /\ m.inner + 12 <= m.declared
        BY <1>0, <1>1, <2>1, <2>4, <3>1
      <4>3. CASE m.id = TransmitDone
        <5>1. m.inner = 22 + m.a /\ m.id # ReceiveBuffer /\ m.id \notin Carrier
          BY <4>1, <4>3, Sizes DEF TransmitDone, ReceiveBuffer, Carrier
        <5> QED BY <1>0, <4>2, <4>3, <5>1 DEF DataOk
      <4>4. CASE m.id = ReceiveBuffer
        <5>1. m.id # TransmitDone /\ m.id \notin Carrier
          BY <4>4 DEF TransmitDone, ReceiveBuffer, Carrier
        <5>2. m.inner >= 20 + m.a * 17 /\ m.packet.type \in 0 .. 2
          BY <4>1, <4>4, <5>1, Sizes
        <5>3. m.inner >= 20
          BY <1>0, <4>2, <5>2
        <5> QED BY <1>0, <4>2, <4>4, <5>1, <5>2, <5>3 DEF DataOk
      <4>5. CASE m.id \in Carrier
        <5>1. m.id # TransmitDone /\ m.id # ReceiveBuffer
          BY <4>5 DEF TransmitDone, ReceiveBuffer, Carrier
        <5>2. m.inner >= 12
          BY <4>1, <4>5, <5>1
        <5> QED BY <1>0, <4>2, <4>5, <5>1, <5>2 DEF DataOk
      <4>6. CASE m.id # TransmitDone /\ m.id # ReceiveBuffer /\ m.id \notin Carrier
        <5>1. m.inner >= 8
          BY <4>1, <4>6
        <5> QED BY <4>2, <4>6, <5>1 DEF DataOk
      <4> QED BY <4>3, <4>4, <4>5, <4>6
    <3>3. EventOk(m)
      BY <1>1, <2>4, <3>2 DEF EventOk
    <3> QED BY <1>0, <1>2, <2>1, <3>1, <3>2, <3>3
  <2>5. CASE m.kind = Supplicant
    <3>1. Extent(m) = 12
      BY <2>5, Sizes DEF Extent, System, Supplicant, Umac, Data
    <3>2. EventOk(m) /\ ~rx
      BY <1>1, <2>5 DEF EventOk
    <3> QED BY <1>0, <1>2, <2>1, <3>1, <3>2
  <2> QED BY <2>1, <2>2, <2>3, <2>4, <2>5
<1>10. ConvertsRight(m.packet)
  BY <1>0, ConversionRight
<1> QED BY <1>3, <1>4, <1>7, <1>8, <1>9, <1>10 DEF Within


(* The theorems *)

(* Every step keeps the invariant. *)
LEMMA NextHolds == ASSUME ~Retries PROVE IInv /\ [Next]_vars => IInv'
<1> SUFFICES ASSUME IInv, [Next]_vars PROVE IInv'
  OBVIOUS
<1>1. CASE FirmwareEvent
  BY <1>1, FirmwareEventHolds
<1>2. CASE FirmwareQueues
  BY <1>2, FirmwareQueuesHolds
<1>3. ASSUME NEW b \in Scratch, Poll(b) PROVE IInv'
  BY <1>3, PollChangedHolds, PollPendingHolds, PollNewHolds DEF Poll
<1>4. CASE DiscardPending
  BY <1>4, DiscardPendingHolds
<1>5. CASE Transfer
  BY <1>5, DrainHolds, ConsumeFragmentHolds, AcknowledgeHolds, BeginNewHolds,
     ReadHeaderHolds, FirstFragmentHolds DEF Transfer
<1>6. CASE Recover
  BY <1>6, RecoverHolds
<1>7. CASE UNCHANGED vars
  <2>1. /\ UNCHANGED <<sent, rest, queue, free, frag, got, drv, pc, buf, local, removed>>
        /\ UNCHANGED <<wrapped, pending, content, strayed, faults>>
    BY <1>7 DEF vars, firmware, call
  <2>2. HostType' /\ CallInv' /\ (Taking' <=> Taking)
    BY <2>1 DEF IInv, HostType, CallInv, Taking
  <2>3. Place => Place'
    <3>1. Stream' = Stream
      BY <2>1 DEF Stream
    <3> QED BY <2>1, <3>1 DEF Place
  <2> QED BY <2>1, <2>2, <2>3, StepHolds
<1> QED BY <1>1, <1>2, <1>3, <1>4, <1>5, <1>6, <1>7 DEF Next

(* The invariant is inductive, for a caller that recovers after a bus      *)
(* error.                                                                  *)
THEOREM Invariance == ASSUME ~Retries PROVE Spec => []IInv
<1>1. Init => IInv
  BY InitHolds
<1>2. IInv /\ [Next]_vars => IInv'
  BY NextHolds
<1> QED BY <1>1, <1>2, PTL DEF Spec

(* The invariant says that every variable has its type. *)
LEMMA TypeFromIInv == IInv => TypeOK
<1> SUFFICES ASSUME IInv PROVE TypeOK
  OBVIOUS
<1>1. HostType /\ StreamInv /\ CountInv /\ GotInv(got, sent)
  BY DEF IInv
<1>2. /\ sent \in 0 .. MaxEvents /\ rest \in Seq(Fragments) /\ queue \in Seq(Fragments)
      /\ Len(rest) <= MaxLen /\ Len(queue) + Len(rest) <= sent * MaxLen
  BY <1>1 DEF StreamInv
<1>3. Len(queue) <= MaxEvents * MaxLen
  <2>1. Len(queue) \in Nat /\ Len(rest) \in Nat
    BY <1>2, LenProperties
  <2>2. sent \in Nat /\ MaxEvents \in Nat /\ MaxLen \in Nat /\ sent <= MaxEvents
    BY <1>2, Ranges
  <2>3. sent * MaxLen <= MaxEvents * MaxLen
    BY <2>2
  <2>4. sent * MaxLen \in Nat /\ MaxEvents * MaxLen \in Nat
    BY <2>2
  <2> QED BY <1>2, <2>1, <2>3, <2>4
<1>4. Len(got) <= MaxEvents
  <2>1. sent \in Nat /\ sent <= MaxEvents /\ MaxEvents \in Nat
    BY <1>2, Ranges
  <2>2. Len(got) \in Nat /\ \A k \in 1 .. Len(got) : got[k][1].event \in k .. sent
    BY <1>1, <2>1, GotFields
  <2>3. CASE Len(got) = 0
    BY <2>1, <2>3
  <2>4. CASE Len(got) # 0
    <3>1. got[Len(got)][1].event \in Len(got) .. sent
      BY <2>2, <2>4
    <3> QED BY <2>1, <2>2, <3>1
  <2> QED BY <2>3, <2>4
<1>5. pending \in Pending \cup {NoPending}
  BY <1>1 DEF HostType, Unfinished
<1> QED BY <1>1, <1>2, <1>3, <1>4, <1>5
     DEF TypeOK, HostType, LocalType, ContentType, CountInv, GotInv

(* Every variable keeps its type, and neither the queue nor what was       *)
(* returned grows beyond what the firmware has sent.                       *)
THEOREM TypeCorrect == ASSUME ~Retries PROVE Spec => []TypeOK
  BY Invariance, TypeFromIInv, PTL

(* try_read_event of a ready driver returns whole events, each in order    *)
(* and once, whatever the caller's buffers, the length of the events and   *)
(* the moments at which fragments arrive.                                  *)
THEOREM ReturnsWhole == ASSUME ~Retries PROVE Spec => []Whole
<1>1. IInv => Whole
  BY DEF IInv, GotInv, Whole
<1> QED BY <1>1, Invariance, PTL

(* read_event_header reads a header and never the middle of an event: the  *)
(* rest of an oversized or discarded event is removed before the next one  *)
(* is begun.                                                               *)
THEOREM StaysAligned == ASSUME ~Retries PROVE Spec => []Aligned
<1>1. IInv => Aligned
  BY DEF IInv, Place, Aligned
<1> QED BY <1>1, Invariance, PTL

(* Every event buffer the firmware lends comes back: while the driver is   *)
(* up each is free, in the queue or in the hands of the call.              *)
THEOREM BuffersComeBack == ASSUME ~Retries PROVE Spec => []BuffersReturn
<1>1. IInv => BuffersReturn
  <2> SUFFICES ASSUME IInv, drv = "Ready" PROVE free + Cardinality(AtHost) = Pool
    BY DEF BuffersReturn
  <2>1. queue \in Seq(Fragments) /\ free + Count = Pool
    BY DEF IInv, StreamInv
  <2>2. Cardinality(AtHost) = Count
    BY <2>1, HostBuffers DEF Count
  <2> QED BY <2>1, <2>2
<1> QED BY <1>1, Invariance, PTL

(* Delivering an event is the only step that parses one. *)
LEMMA DeliverWithin ==
  ASSUME NEW bytes, Deliver(bytes), strayed = FALSE
  PROVE  strayed' = FALSE
<1>1. PICK r \in Results[drv = "Ready"] : strayed' = (strayed \/ ~r.within)
  BY DEF Deliver
<1>2. PICK m \in Bodies : r = [result |-> Dispatch(m, drv = "Ready"), within |-> Within(m)]
  BY <1>1 DEF Results
<1>3. Within(m)
  BY EventAssumption, MessageWithin
<1>4. r.within
  BY <1>2, <1>3
<1> QED BY <1>1, <1>4

(* No parser leaves its message, and none refuses a well-formed one:       *)
(* whatever the lengths, counts and selectors in it are, and whatever the  *)
(* caller does.  The conversion leaves the packet it is given exactly if   *)
(* that is an MPDU without a whole frame control field (data.rs:845).      *)
THEOREM ParsersStayWithin == Spec => []ParsedWithin
<1> DEFINE Safe == strayed = FALSE
<1>1. Init => Safe
  BY DEF Init
<1>2. Safe /\ [Next]_vars => Safe'
  <2> SUFFICES ASSUME Safe, [Next]_vars PROVE Safe'
    OBVIOUS
  <2>1. CASE UNCHANGED strayed
    BY <2>1
  <2>2. CASE Acknowledge
    BY <2>1, <2>2, DeliverWithin DEF Acknowledge
  <2>3. CASE FirstFragment
    BY <2>1, <2>3, DeliverWithin DEF FirstFragment
  <2>4. ~Acknowledge /\ ~FirstFragment => UNCHANGED strayed
    BY DEF Next, Poll, Transfer, FirmwareEvent, FirmwareQueues, PollChanged, PollPending,
           PollNew, DiscardPending, Drain, ConsumeFragment, BeginNew, ReadHeader, Recover, vars
  <2> QED BY <2>1, <2>2, <2>3, <2>4
<1>3. Safe => ParsedWithin
  BY DEF ParsedWithin
<1> QED BY <1>1, <1>2, <1>3, PTL DEF Spec
=============================================================================
