--------------------------- MODULE CommandChannel ---------------------------
(***************************************************************************)
(* What the command transport promises its callers: a channel of whole     *)
(* commands.  A command that is refused was never received and never will  *)
(* be; commands are received in order, each once; after a command of       *)
(* uncertain delivery nothing is sent before a reset, which forgets what   *)
(* was on its way.  A dropped send is of uncertain delivery as well but    *)
(* does not stop the next one; it may break the channel, which then        *)
(* promises nothing but that what was never sent is never received.        *)
(***************************************************************************)
EXTENDS Integers

CONSTANT MaxCommands   \* bound on the commands

VARIABLES
  status,     \* of each command
  received,   \* the commands the firmware has received
  broken      \* no order and no wholeness until a reset

channel == <<status, received, broken>>

Commands == 1 .. MaxCommands

CInit ==
  /\ status = [c \in Commands |-> "new"]
  /\ received = {}
  /\ broken = FALSE

(* Commands are sent one at a time, in order, and none while the delivery  *)
(* of another is uncertain.                                                *)
Begin(c) ==
  /\ status[c] = "new"
  /\ \A b \in Commands : status[b] \notin {"sending", "uncertain"}
  /\ \A b \in Commands : b < c => status[b] # "new"
  /\ status' = [status EXCEPT ![c] = "sending"]
  /\ UNCHANGED <<received, broken>>

(* The sender learns the outcome; a command may be refused only if the     *)
(* firmware does not have it.                                              *)
End(c) ==
  /\ status[c] = "sending"
  /\ \/ status' = [status EXCEPT ![c] = "ok"]
     \/ status' = [status EXCEPT ![c] = "uncertain"]
     \/ c \notin received /\ status' = [status EXCEPT ![c] = "refused"]
  /\ UNCHANGED <<received, broken>>

(* The sender walks away in the middle. *)
Drop(c) ==
  /\ status[c] = "sending"
  /\ status' = [status EXCEPT ![c] = "dropped"]
  /\ broken' \in {broken, TRUE}
  /\ UNCHANGED received

(* The firmware receives a command whole, after those accepted before it. *)
Receive(c) ==
  /\ status[c] \in {"sending", "ok", "uncertain", "dropped"}
  /\ c \notin received
  /\ broken \/ \A b \in Commands : b < c /\ status[b] = "ok" => b \in received
  /\ received' = received \cup {c}
  /\ UNCHANGED <<status, broken>>

Reset ==
  /\ \A c \in Commands : status[c] # "sending"
  /\ status' = [c \in Commands |->
       IF status[c] \in {"uncertain", "dropped"} \/ (status[c] = "ok" /\ c \notin received)
       THEN "lost" ELSE status[c]]
  /\ broken' = FALSE
  /\ UNCHANGED received

CNext ==
  \/ \E c \in Commands : Begin(c) \/ End(c) \/ Drop(c) \/ Receive(c)
  \/ Reset

CSpec == CInit /\ [][CNext]_channel
=============================================================================
