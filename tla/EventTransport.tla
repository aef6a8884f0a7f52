--------------------------- MODULE EventTransport ---------------------------
(***************************************************************************)
(* The event half of the device transport (device.rs): try_read_event and  *)
(* what it calls.  The firmware queues an event as fragments, each in one  *)
(* of its event buffers, and later fragments may come much later; the host *)
(* reassembles them in the caller's scratch buffer over several calls,     *)
(* keeps its progress in pending_event between calls, and gives every      *)
(* buffer back.                                                            *)
(*                                                                         *)
(* Lengths are counted in fragments; length 0 stands for an event whose    *)
(* header declares less than a header.  The header of a fragment that is   *)
(* not the first of its event is payload, so reading it gives anything.    *)
(* The transfers that read one fragment and give its buffer back are one   *)
(* step: only the firmware's queueing could come in between, and the       *)
(* failure of any of them has the same effect on the host.  What an event  *)
(* says is a message of Messages, chosen when it is parsed.  Under         *)
(* NativeDriver a dropped future has the effect of a failed transfer.      *)
(***************************************************************************)
EXTENDS Messages, FiniteSets

CONSTANTS
  Scratch,    \* the caller's buffers
  Capacity,   \* the capacity of each, in fragments
  Nobody,     \* no buffer: scratch_address is 0
  MaxLen,     \* the longest event the firmware sends
  MaxEvents,  \* bound on the events
  Pool,       \* event buffers of the firmware
  Bodies,     \* what events may say
  Kept,       \* events that do not ask for their buffers back (resubmit = 0)
  Retries,    \* without the wrapper, the caller goes on after a bus error
  MaxFaults   \* bound on failed transfers

ASSUME EventAssumption ==
  /\ Capacity \in [Scratch -> Nat]
  /\ Nobody \notin Scratch
  /\ MaxLen \in Nat \ {0} /\ MaxEvents \in Nat /\ Pool \in Nat \ {0}
  /\ Bodies \subseteq MessageType /\ Bodies # {}
  /\ \A m \in Bodies : m.a < 0 => m.kind = Umac /\ m.id \in Mlme  \* unsigned elsewhere
  /\ Kept \subseteq 1 .. MaxEvents
  /\ Retries \in BOOLEAN /\ MaxFaults \in Nat

Lengths   == 0 .. MaxLen
Events    == 1 .. MaxEvents
Fragments == [event : Events, index : 1 .. MaxLen, len : Lengths]
Pending   == [declared : 2 .. MaxLen, copied : 1 .. MaxLen,
              resubmit : BOOLEAN, scratch : Scratch \cup {Nobody}, discard : BOOLEAN]
NoPending == [declared |-> 0, copied |-> 0, resubmit |-> FALSE,
              scratch |-> Nobody, discard |-> FALSE]

VARIABLES
  sent,     \* events the firmware has begun
  rest,     \* the fragments of the last one it has yet to queue
  queue,    \* event_busy
  free,     \* event buffers the firmware may use
  pending,  \* pending_event
  wrapped,  \* MissionCriticalDriver is used, not NativeDriver or Device
  drv,      \* "Ready", or "Down" until a recovery
  pc,       \* the next transfer of try_read_event
  buf,      \* its scratch buffer
  local,    \* its copy of pending_event, or the NewEvent it has read
  removed,  \* it has removed a fragment of the pending event
  frag,     \* the fragment it has dequeued
  content,  \* what each scratch buffer holds of the event being read into it
  got,      \* the events a ready driver has returned to the caller
  strayed,  \* a parser has left its message
  faults

firmware == <<sent, rest, queue, free>>
call     == <<pc, buf, local, removed, frag>>
vars     == <<firmware, wrapped, pending, drv, call, content, got, strayed, faults>>

NoFragment == [event |-> 0, index |-> 0, len |-> 0]
Empty      == [i \in 1 .. MaxLen |-> NoFragment]

(* Every variable has its type, and no sequence outgrows what the firmware *)
(* can have sent.                                                          *)
TypeOK ==
  /\ sent \in 0 .. MaxEvents
  /\ rest \in Seq(Fragments) /\ queue \in Seq(Fragments)
  /\ Len(rest) <= MaxLen /\ Len(queue) <= MaxEvents * MaxLen
  /\ free \in 0 .. Pool
  /\ pending \in Pending \cup {NoPending}
  /\ wrapped \in BOOLEAN
  /\ drv \in {"Ready", "Down"}
  /\ pc \in {"idle", "drain", "fragment", "ack", "new", "header", "first"}
  /\ buf \in Scratch \cup {Nobody}
  /\ local \in [declared : Lengths, copied : 0 .. MaxLen, resubmit : BOOLEAN,
                scratch : Scratch \cup {Nobody}, discard : BOOLEAN]
  /\ removed \in BOOLEAN
  /\ frag \in Fragments \cup {NoFragment}
  /\ content \in [Scratch -> [1 .. MaxLen -> Fragments \cup {NoFragment}]]
  /\ got \in Seq(Seq(Fragments)) /\ Len(got) <= MaxEvents
  /\ strayed \in BOOLEAN
  /\ faults \in 0 .. MaxFaults

Init ==
  /\ sent = 0 /\ rest = <<>> /\ queue = <<>> /\ free = Pool
  /\ pending = NoPending
  /\ wrapped \in BOOLEAN
  /\ drv = "Ready"
  /\ pc = "idle" /\ buf = Nobody /\ local = NoPending /\ removed = FALSE
  /\ frag = NoFragment
  /\ content = [b \in Scratch |-> Empty] /\ got = <<>> /\ strayed = FALSE
  /\ faults = 0

-----------------------------------------------------------------------------
(* The firmware *)

Pieces(e, len) ==
  IF len = 0 THEN <<[event |-> e, index |-> 1, len |-> 0]>>
  ELSE [i \in 1 .. len |-> [event |-> e, index |-> i, len |-> len]]

FirmwareEvent ==
  /\ rest = <<>>
  /\ sent < MaxEvents
  /\ sent' = sent + 1
  /\ \E len \in Lengths : rest' = Pieces(sent + 1, len)
  /\ UNCHANGED <<wrapped, queue, free, pending, drv, call, content, got, strayed, faults>>

(* A fragment takes a buffer; one the firmware keeps is soon free again. *)
FirmwareQueues ==
  /\ rest # <<>>
  /\ free > 0
  /\ queue' = Append(queue, Head(rest))
  /\ rest' = Tail(rest)
  /\ free' = IF Head(rest).event \in Kept THEN free ELSE free - 1
  /\ UNCHANGED <<wrapped, sent, pending, drv, call, content, got, strayed, faults>>

-----------------------------------------------------------------------------
(* Steps of a call *)

Ok == faults' = faults
Failure == faults < MaxFaults /\ faults' = faults + 1

Idle ==
  /\ pc' = "idle" /\ buf' = Nobody /\ local' = NoPending /\ removed' = FALSE
  /\ frag' = NoFragment

Goto(p) == pc' = p /\ UNCHANGED <<buf, local, removed, frag>>

(* driver_error_requires_recovery: a bus error, an event larger than the   *)
(* buffer or one whose body does not parse, not a changed buffer or a bad  *)
(* header.  Without the wrapper the caller decides: it recovers after a    *)
(* bus error, or not.  An end of initialization that nobody waits for      *)
(* always makes the driver enter recovery.                                 *)
Fatal(r) ==
  \/ wrapped /\ r \in {"rpu", "large", "malformed"}
  \/ ~wrapped /\ ~Retries /\ r = "rpu"
  \/ r = "unexpected"

Return(r) ==
  /\ Idle
  /\ drv' = IF Fatal(r) THEN "Down" ELSE drv

(* Fault: buffers the firmware keeps are given back too. *)
ReleasedAlways(resubmit) == free + 1

(* Fault: the buffers of discarded fragments are not given back. *)
ReleasedUnlessDiscarded(resubmit) ==
  IF resubmit /\ frag.event \notin Kept /\ ~local.discard THEN free + 1 ELSE free

(* The buffer of the dequeued fragment goes back to event_available, if    *)
(* the event asks for that and the buffer is one of the pool.              *)
Released(resubmit) ==
  IF resubmit /\ frag.event \notin Kept THEN free + 1 ELSE free

(* The dequeued fragment is read to an offset of the scratch buffer.  What *)
(* lay there before a new event is read is of no interest.                 *)
Written(copied) ==
  [content EXCEPT ![buf] = [IF copied = 0 THEN Empty ELSE @ EXCEPT ![copied + 1] = frag]]

(* The results that parsing and dispatching an event can have *)
Results ==
  [ready \in BOOLEAN |->
    {[result |-> Dispatch(m, ready), within |-> Within(m)] : m \in Bodies}]

(* A complete message is parsed and dispatched, which ends the call.  The  *)
(* caller is then done with the buffer.                                    *)
Deliver(bytes) ==
  /\ \E r \in Results[drv = "Ready"] :
       /\ got' = IF drv = "Ready" /\ r.result = "ok"
                 THEN Append(got, SubSeq(bytes[buf], 1, local.declared)) ELSE got
       /\ strayed' = (strayed \/ ~r.within)
       /\ Return(r.result)
  /\ content' = [content EXCEPT ![buf] = Empty]

(* A failed dequeue may have removed the fragment. *)
FailedDequeue ==
  /\ Failure
  /\ queue' \in {queue, IF queue = <<>> THEN queue ELSE Tail(queue)}
  /\ Return("rpu")

-----------------------------------------------------------------------------
(* try_read_event with a pending event *)

Marked(p) == [p EXCEPT !.discard = TRUE, !.scratch = Nobody]

(* Fault: a changed buffer is not noticed. *)
BufferChangedNever(b) == FALSE

BufferChanged(b) ==
  /\ ~pending.discard
  /\ pending.scratch # b \/ Capacity[b] < pending.declared

(* pending_buffer_changed: the caller came with another buffer *)
PollChanged(b) ==
  /\ pc = "idle"
  /\ pending # NoPending
  /\ BufferChanged(b)
  /\ pending' = Marked(pending)
  /\ UNCHANGED <<wrapped, firmware, drv, call, content, got, strayed, faults>>

PollPending(b) ==
  /\ pc = "idle"
  /\ pending # NoPending
  /\ ~BufferChanged(b)
  /\ pc' = "drain" /\ buf' = b /\ local' = pending /\ removed' = FALSE
  /\ UNCHANGED <<wrapped, frag, firmware, pending, drv, content, got, strayed, faults>>

(* discard_pending_event, which the wrapper does not offer *)
DiscardPending ==
  /\ pc = "idle"
  /\ ~wrapped
  /\ pending # NoPending
  /\ pending' = Marked(pending)
  /\ UNCHANGED <<wrapped, firmware, drv, call, content, got, strayed, faults>>

(* drain_pending_fragments: the progress is in the local copy *)
Drain ==
  /\ pc = "drain"
  /\ \/ /\ local.copied = local.declared \/ (queue = <<>> /\ removed)
        /\ Ok /\ Goto("ack")
        /\ UNCHANGED <<queue, drv>>
     \/ /\ local.copied < local.declared /\ queue = <<>> /\ ~removed
        /\ Ok /\ Return("ok")
        /\ UNCHANGED queue
     \/ /\ local.copied < local.declared /\ queue # <<>>
        /\ Ok
        /\ frag' = Head(queue) /\ queue' = Tail(queue)
        /\ pc' = "fragment" /\ UNCHANGED <<buf, local, removed, drv>>
     \/ local.copied < local.declared /\ FailedDequeue
  /\ UNCHANGED <<wrapped, sent, rest, free, pending, content, got, strayed>>

(* consume_pending_fragment *)
ConsumeFragment ==
  /\ pc = "fragment"
  /\ \/ /\ Ok
        /\ content' = IF local.discard THEN content ELSE Written(local.copied)
        /\ free' = Released(local.resubmit)
        /\ local' = [local EXCEPT !.copied = @ + 1]
        /\ removed' = TRUE
        /\ pc' = "drain" /\ UNCHANGED <<buf, frag, drv>>
     \/ /\ Failure
        /\ free' \in {free, Released(local.resubmit)}
        /\ Return("rpu")
        /\ UNCHANGED content
  /\ UNCHANGED <<wrapped, sent, rest, queue, pending, got, strayed>>

(* acknowledge_removed_fragment, then finish_pending_event: wait for more, *)
(* go on with a new event after a discarded one, or deliver                *)
Acknowledge ==
  /\ pc = "ack"
  /\ \/ /\ Ok
        /\ local.copied < local.declared
        /\ pending' = local
        /\ Return("ok") /\ UNCHANGED <<got, strayed, content>>
     \/ /\ Ok
        /\ local.copied = local.declared
        /\ pending' = NoPending
        /\ \/ local.discard /\ Goto("new") /\ UNCHANGED <<got, strayed, content, drv>>
           \/ ~local.discard /\ Deliver(content)
     \/ Failure /\ Return("rpu") /\ UNCHANGED <<pending, got, strayed, content>>
  /\ UNCHANGED <<wrapped, firmware>>

-----------------------------------------------------------------------------
(* try_read_event without one: read_new_event *)

PollNew(b) ==
  /\ pc = "idle"
  /\ pending = NoPending
  /\ pc' = "new" /\ buf' = b
  /\ UNCHANGED <<wrapped, local, removed, frag, firmware, pending, drv, content, got, strayed, faults>>

BeginNew ==
  /\ pc = "new"
  /\ \/ queue = <<>> /\ Ok /\ Return("ok") /\ UNCHANGED queue
     \/ /\ queue # <<>>
        /\ Ok
        /\ frag' = Head(queue) /\ queue' = Tail(queue)
        /\ pc' = "header" /\ UNCHANGED <<buf, local, removed, drv>>
     \/ FailedDequeue
  /\ UNCHANGED <<wrapped, sent, rest, free, pending, content, got, strayed>>

(* read_event_header *)
ReadHeader ==
  /\ pc = "header"
  /\ \/ /\ Ok
        /\ \E declared \in IF frag.index = 1 THEN {frag.len} ELSE Lengths,
              resubmit \in IF frag.index = 1 THEN {frag.event \notin Kept} ELSE BOOLEAN :
             local' = [declared |-> declared, copied |-> IF declared = 0 THEN 0 ELSE 1,
                       resubmit |-> resubmit, scratch |-> buf, discard |-> FALSE]
        /\ pc' = "first" /\ UNCHANGED <<buf, removed, frag, drv>>
     \/ Failure /\ Return("rpu")
  /\ UNCHANGED <<wrapped, firmware, pending, content, got, strayed>>

(* Fault: the rest of an oversized event is forgotten. *)
FirstFragmentForgets ==
  /\ pc = "first"
  /\ Ok
  /\ free' = Released(local.resubmit)
  /\ \/ /\ local.declared > Capacity[buf]
        /\ Return("large")
        /\ UNCHANGED <<pending, content, got, strayed>>
     \/ /\ local.declared <= Capacity[buf]
        /\ IF local.declared = 1 THEN Deliver(Written(0)) /\ UNCHANGED pending
           ELSE Return("ok") /\ pending' = local /\ content' = Written(0) /\ UNCHANGED <<got, strayed>>
  /\ UNCHANGED <<wrapped, sent, rest, queue>>

(* validate_new_event, read_initial_event_fragment, finish_new_event and   *)
(* reject_oversized_event                                                  *)
FirstFragment ==
  /\ pc = "first"
  /\ \/ /\ Ok
        /\ free' = Released(local.resubmit)
        /\ \/ /\ local.declared = 0
              /\ Return("protocol")
              /\ UNCHANGED <<pending, content, got, strayed>>
           \/ /\ local.declared > Capacity[buf]
              /\ pending' = IF local.declared > 1 THEN Marked(local) ELSE pending
              /\ Return("large")
              /\ UNCHANGED <<content, got, strayed>>
           \/ /\ local.declared = 1 /\ Capacity[buf] >= 1
              /\ Deliver(Written(0))
              /\ UNCHANGED pending
           \/ /\ local.declared \in 2 .. Capacity[buf]
              /\ content' = Written(0)
              /\ pending' = local
              /\ Return("ok")
              /\ UNCHANGED <<got, strayed>>
     \/ /\ Failure
        /\ free' \in {free, Released(local.resubmit)}
        /\ Return("rpu")
        /\ UNCHANGED <<pending, content, got, strayed>>
  /\ UNCHANGED <<wrapped, sent, rest, queue>>

-----------------------------------------------------------------------------
(* recover: the reset empties the firmware, reset_queue_state forgets the  *)
(* pending event                                                           *)
Recover ==
  /\ pc = "idle"
  /\ rest' = <<>> /\ queue' = <<>> /\ free' = Pool
  /\ pending' = NoPending
  /\ drv' = "Ready"
  /\ UNCHANGED <<wrapped, sent, call, content, got, strayed, faults>>

Transfer ==
  Drain \/ ConsumeFragment \/ Acknowledge \/ BeginNew \/ ReadHeader \/ FirstFragment

Poll(b) == PollChanged(b) \/ PollPending(b) \/ PollNew(b)

Next ==
  \/ FirmwareEvent \/ FirmwareQueues
  \/ \E b \in Scratch : Poll(b)
  \/ DiscardPending \/ Transfer \/ Recover

Spec == Init /\ [][Next]_vars

(* Transfers end, the firmware goes on with an event it has begun, and the *)
(* caller polls after interrupts (docs/PORTING.md, step 11), with whatever *)
(* buffer.  A driver that is down is recovered, though polling competes    *)
(* with recover for the driver.                                            *)
FairSpec ==
  /\ Spec
  /\ WF_vars(Transfer)
  /\ WF_vars(FirmwareQueues)
  /\ WF_vars(\E b \in Scratch : Poll(b))
  /\ SF_vars(drv = "Down" /\ Recover)

-----------------------------------------------------------------------------
(* Properties *)

(* What a ready driver gives its caller is one event of the firmware,      *)
(* every fragment of it in its place, after the events sent before it and  *)
(* never twice: fragments of two events, or of one read twice or not at    *)
(* all, are never put together.                                            *)
Whole ==
  /\ \A k \in 1 .. Len(got) :
       got[k] = Pieces(got[k][1].event, Len(got[k])) /\ got[k][1].len = Len(got[k])
  /\ \A j, k \in 1 .. Len(got) : j < k => got[j][1].event < got[k][1].event

(* No parser indexes beyond the bytes of its message or lends a slice      *)
(* that ends beyond the length the message declares, whatever the lengths  *)
(* in it say, and every message the firmware's structures allow is         *)
(* accepted.  The conversion of a received packet is as safe with one      *)
(* exception, and that is unsafe always: an MPDU of fewer than two bytes,  *)
(* with a MAC header of at least 24, is indexed beyond its end             *)
(* (LacksFrameControl; convert_mpdu panics there).                         *)
ParsedWithin == ~strayed

(* While the driver is up, try_read_event takes only the first fragment of *)
(* an event for the start of one: after an oversized event, a changed      *)
(* buffer or a discard, the rest of that event is removed first.           *)
Aligned == drv = "Ready" /\ pc \in {"header", "first"} => frag.index = 1

(* The buffers that are with the host: the one of the fragment in hand, at *)
(* place 0, and those in the queue                                         *)
AtHost ==
  {i \in 0 .. Len(queue) :
     IF i = 0 THEN pc \in {"fragment", "header", "first"} /\ frag.event \notin Kept
     ELSE queue[i].event \notin Kept}

(* While the driver is up, every event buffer is with the firmware, in the *)
(* queue or in the hands of the call: the firmware cannot run dry.         *)
BuffersReturn == drv = "Ready" => free + Cardinality(AtHost) = Pool

(* What the firmware has queued or begun is drained in the end. *)
QueueDrains == (queue # <<>> \/ rest # <<>>) ~> (queue = <<>> /\ rest = <<>>)
=============================================================================
