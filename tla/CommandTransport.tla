-------------------------- MODULE CommandTransport --------------------------
(***************************************************************************)
(* The command half of the device transport (device.rs): send_control and  *)
(* send_control_with_wait.  A command goes out in fragments, each in a     *)
(* command buffer the firmware has made available; the firmware puts the   *)
(* fragments together.  A transfer can fail with or without effect, and a  *)
(* buffer may not come in time.  Whatever happens after the first change   *)
(* of ownership must end in success or in recovery_required.  The caller   *)
(* may also drop the future of a send at an await: nothing is marked then. *)
(*                                                                         *)
(* Abstractions: a command on its way is its number and its length in      *)
(* fragments, which comes from its encoding (ControlCommands); the         *)
(* firmware looks at its queue without the trigger as well, which only     *)
(* gives it more to do.                                                    *)
(***************************************************************************)
EXTENDS ControlCommands, Sequences

CONSTANTS
  MaxCommands,  \* bound on the commands
  Requests,     \* what the commands ask for
  FragmentLen,  \* command_fragment_len, in bytes
  Pool,         \* command buffers
  Attempts,     \* polls for a buffer before a timeout
  MaxFaults     \* bound on failed transfers and dropped sends

ASSUME CommandAssumption ==
  /\ MaxCommands \in Nat /\ Pool \in Nat
  /\ Requests \subseteq RequestType /\ FragmentLen \in 12 .. 400
  /\ Attempts \in Nat \ {0} /\ MaxFaults \in Nat

(* message.chunks(command_fragment_len) *)
Chunks(bytes) == (bytes + FragmentLen - 1) \div FragmentLen

MaxLen    == Chunks(MAX_STATION_MESSAGE_LEN)
Commands  == 1 .. MaxCommands
Fragments == [command : Commands, index : 1 .. MaxLen, len : 1 .. MaxLen]
Statuses  == {"new", "sending", "ok", "refused", "uncertain", "dropped", "lost"}

VARIABLES
  required,   \* recovery_required
  pc,         \* the next transfer of the send
  cmd, len,   \* the command being sent and its fragments
  index,      \* the fragment being sent
  tries,      \* polls left
  single,     \* the send is send_control
  free,       \* command_available: buffers
  busy,       \* command_busy: fragments
  assembly,   \* the fragments of the command the firmware is putting together
  received,   \* the commands it has received whole
  status,     \* what became of each command
  garbled,    \* a request was not encoded as it should be
  torn,       \* a dropped send has left part of a command with the firmware
  faults

send     == <<pc, cmd, len, index, tries, single>>
firmware == <<free, busy, assembly, received>>
vars     == <<required, send, firmware, status, torn, garbled, faults>>

(* Every variable has its type. *)
TypeOK ==
  /\ required \in BOOLEAN
  /\ pc \in {"idle", "buffer", "write", "enqueue", "trigger"}
  /\ cmd \in 0 .. MaxCommands
  /\ len \in 1 .. MaxLen /\ index \in 1 .. MaxLen
  /\ tries \in 0 .. Attempts
  /\ single \in BOOLEAN
  /\ free \in 0 .. Pool
  /\ busy \in Seq(Fragments) /\ Len(busy) <= Pool
  /\ assembly \in Seq(Fragments) /\ Len(assembly) < MaxLen
  /\ received \subseteq Commands
  /\ status \in [Commands -> Statuses]
  /\ torn \in BOOLEAN /\ garbled \in BOOLEAN
  /\ faults \in 0 .. MaxFaults

Init ==
  /\ required = FALSE
  /\ pc = "idle" /\ cmd = 0 /\ len = 1 /\ index = 1 /\ tries = 0 /\ single = FALSE
  /\ free = Pool /\ busy = <<>> /\ assembly = <<>> /\ received = {}
  /\ status = [c \in Commands |-> "new"]
  /\ torn = FALSE /\ garbled = FALSE
  /\ faults = 0

-----------------------------------------------------------------------------
(* Steps of a send *)

Ok == faults' = faults
Failure == faults < MaxFaults /\ faults' = faults + 1

End(verdict) ==
  /\ pc' = "idle" /\ len' = 1 /\ index' = 1 /\ tries' = 0 /\ single' = FALSE
  /\ status' = [status EXCEPT ![cmd] = verdict]
  /\ UNCHANGED cmd

Goto(p) == pc' = p /\ UNCHANGED <<cmd, len, index, tries, single, status, required>>

(* Fault: the device is not marked. *)
UncertainUnmarked == End("uncertain") /\ UNCHANGED required

(* mark_delivery_uncertain *)
Uncertain == End("uncertain") /\ required' = TRUE

Encodings ==
  {[sent |-> Encode(r) = "ok", len |-> Chunks(Total(r)), right |-> EncodesRight(r)] :
    r \in Requests}

(* A request is encoded, which may refuse it; then ensure_operational and  *)
(* the length rule of send_control                                         *)
Begin ==
  /\ pc = "idle"
  /\ ~required
  /\ cmd < MaxCommands
  /\ \E e \in Encodings :
       /\ garbled' = (garbled \/ ~e.right)
       /\ \/ ~e.sent /\ UNCHANGED <<send, status>>
          \/ /\ e.sent
             /\ cmd' = cmd + 1
             /\ len' = e.len
             /\ single' \in BOOLEAN
             /\ single' => len' = 1
             /\ index' = 1
             /\ tries' = IF single' THEN 1 ELSE Attempts
             /\ pc' = "buffer"
             /\ status' = [status EXCEPT ![cmd + 1] = "sending"]
  /\ UNCHANGED <<required, firmware, torn, faults>>

(* Fault: a wait that ends is a plain timeout, whatever was posted. *)
TimeoutAlwaysPlain == End("refused") /\ UNCHANGED required

(* command_wait_timeout *)
Timeout ==
  IF index > 1 THEN Uncertain ELSE End("refused") /\ UNCHANGED required

(* Fault: the dequeue does not write the buffer back to the register. *)
TakeBufferKeeps ==
  /\ pc = "buffer"
  /\ free > 0
  /\ Ok /\ Goto("write")
  /\ UNCHANGED <<firmware, torn, garbled>>

(* take_command_buffer and wait_for_command_buffer.  A failed dequeue may  *)
(* have taken a buffer.                                                    *)
TakeBuffer ==
  /\ pc = "buffer"
  /\ \/ Ok /\ free > 0 /\ free' = free - 1 /\ Goto("write")
     \/ /\ Ok /\ free = 0 /\ tries > 1
        /\ tries' = tries - 1
        /\ UNCHANGED <<pc, cmd, len, index, single, status, required, free>>
     \/ Ok /\ free = 0 /\ tries = 1 /\ Timeout /\ UNCHANGED free
     \/ /\ Failure
        /\ free' \in {free, IF free > 0 THEN free - 1 ELSE free}
        /\ Uncertain
  /\ UNCHANGED <<busy, assembly, received, torn, garbled>>

WriteFragment ==
  /\ pc = "write"
  /\ \/ Ok /\ Goto("enqueue")
     \/ Failure /\ Uncertain
  /\ UNCHANGED <<firmware, torn, garbled>>

Piece == [command |-> cmd, index |-> index, len |-> len]

Enqueue ==
  /\ pc = "enqueue"
  /\ \/ Ok /\ busy' = Append(busy, Piece) /\ Goto("trigger")
     \/ Failure /\ busy' \in {busy, Append(busy, Piece)} /\ Uncertain
  /\ UNCHANGED <<free, assembly, received, torn, garbled>>

(* Fault: the send ends one fragment early. *)
TriggerEndsEarly ==
  /\ pc = "trigger"
  /\ \/ /\ Ok /\ index < len - 1
        /\ index' = index + 1 /\ tries' = Attempts /\ pc' = "buffer"
        /\ UNCHANGED <<cmd, len, single, status, required>>
     \/ Ok /\ index >= len - 1 /\ End("ok") /\ UNCHANGED required
     \/ Failure /\ Uncertain
  /\ UNCHANGED <<firmware, torn, garbled>>

(* trigger_command, then the next fragment or the end *)
Trigger ==
  /\ pc = "trigger"
  /\ \/ /\ Ok /\ index < len
        /\ index' = index + 1 /\ tries' = Attempts /\ pc' = "buffer"
        /\ UNCHANGED <<cmd, len, single, status, required>>
     \/ Ok /\ index = len /\ End("ok") /\ UNCHANGED required
     \/ Failure /\ Uncertain
  /\ UNCHANGED <<firmware, torn, garbled>>

(* The future of the send is dropped at an await.  The transfer it waited  *)
(* for may have taken effect; a buffer that was taken stays taken.         *)
DropSend ==
  /\ pc # "idle"
  /\ Failure
  /\ free' \in IF pc = "buffer" /\ free > 0 THEN {free, free - 1} ELSE {free}
  /\ busy' \in IF pc = "enqueue" THEN {busy, Append(busy, Piece)} ELSE {busy}
  /\ LET posted == index - 1 + IF pc = "trigger" \/ busy' # busy THEN 1 ELSE 0
     IN torn' = (torn \/ posted \in 1 .. len - 1)
  /\ End("dropped")
  /\ UNCHANGED <<required, assembly, received, garbled>>

-----------------------------------------------------------------------------
(* The firmware takes a fragment out of its queue and frees the buffer; a  *)
(* command is received with its last fragment.                             *)
FirmwareTakes ==
  /\ busy # <<>>
  /\ busy' = Tail(busy)
  /\ free' = free + 1
  /\ LET got == Append(assembly, Head(busy)) IN
     IF Len(got) = got[1].len
     THEN assembly' = <<>> /\ received' = received \cup {got[1].command}
     ELSE assembly' = got /\ UNCHANGED received
  /\ UNCHANGED <<required, send, status, torn, garbled, faults>>

(* recover: the reset empties the firmware; reset_queue_state *)
Recover ==
  /\ pc = "idle"
  /\ required' = FALSE /\ torn' = FALSE
  /\ free' = Pool /\ busy' = <<>> /\ assembly' = <<>>
  /\ status' = [c \in Commands |->
       IF status[c] \in {"uncertain", "dropped"} \/ (status[c] = "ok" /\ c \notin received)
       THEN "lost" ELSE status[c]]
  /\ UNCHANGED <<send, received, garbled, faults>>

Transfer == TakeBuffer \/ WriteFragment \/ Enqueue \/ Trigger

Next == Begin \/ Transfer \/ DropSend \/ FirmwareTakes \/ Recover

Spec == Init /\ [][Next]_vars

(* Transfers end and the firmware empties its queue. *)
FairSpec == Spec /\ WF_vars(Transfer) /\ WF_vars(FirmwareTakes)

-----------------------------------------------------------------------------
(* Properties *)

(* Unless a send was dropped between two fragments and no recovery has     *)
(* come since, what the firmware is putting together is the beginning of   *)
(* one command: it never joins fragments of two.                           *)
NoSplice ==
  ~torn =>
    \A i \in 1 .. Len(assembly) :
      /\ assembly[i].index = i
      /\ assembly[i].command = assembly[1].command

(* Every request within the limits of its fields is encoded, to exactly    *)
(* the length its header declares, and every other one is refused before   *)
(* anything is sent.                                                       *)
EncodedRight == ~garbled

(* The transport is the channel of whole commands its callers rely on. *)
Channel == INSTANCE CommandChannel WITH
             MaxCommands <- MaxCommands, status <- status,
             received <- received, broken <- torn
IsChannel == Channel!CSpec

(* A command that was sent is received in the end, unless a recovery comes *)
(* first or a dropped send has broken the channel.                         *)
SentIsReceived ==
  \A c \in Commands :
    status[c] = "ok" ~> (c \in received \/ status[c] = "lost" \/ torn)
=============================================================================
