---------------------------- MODULE NetworkQueue ----------------------------
(***************************************************************************)
(* The Embassy network queue (embassy.rs): one RX slot and one TX slot     *)
(* shared by three processes without a lock.  The client is embassy-net    *)
(* (NetworkDriver and its tokens), the runner is the hardware task         *)
(* (NetworkRunner and its leases), and the link is whoever calls           *)
(* sync_station_link.                                                      *)
(*                                                                         *)
(* Each load, store, compare_exchange, register and wake of the code is a  *)
(* step, with these exceptions.  active_epoch and epoch_is_active are      *)
(* single steps: the epoch only grows, and it grows at every change of     *)
(* link_up, so each answer they give was true at one instant of the call.  *)
(* For the same reason a check of the epoch that follows another one with  *)
(* no store of the process in between is one step with it.  The looks at a *)
(* slot's state and then at its epoch are one step: only the owner of a    *)
(* slot stores its epoch, before it publishes.                             *)
(* What a process writes into a slot it owns is one step with the store    *)
(* that publishes it.  The wakers one process registers, or wakes, one     *)
(* after the other are registered, or woken, together.                     *)
(*                                                                         *)
(* Abstractions: a frame is the epoch of the connection it was made for    *)
(* and NoFrame stands for length 0; the oversize checks are left out; the  *)
(* epoch counter, a usize, is bounded by MaxEpoch; a local that no later   *)
(* step reads is 0.                                                        *)
(***************************************************************************)
EXTENDS Naturals

CONSTANT MaxEpoch   \* bound on the changes of the link

ASSUME QueueAssumption == MaxEpoch \in Nat

SlotStates == {"FREE", "READY", "CLIENT", "PRODUCER"}
Epochs     == 0 .. MaxEpoch
NoFrame    == MaxEpoch + 1      \* the slot's length is 0
Wakers     == {"link", "rx", "space", "ready"}

Ops        == {"receive", "transmit", "link_state"}

(* Where each process is: the name of its next step *)
ClientPcs ==
  {"idle", "try", "claimStale", "claim", "claimConfirm",
   "discard", "discardFree", "reserve", "reserveConfirm",
   "reserveFree", "reserveWake", "restoreCheck", "restore", "restoreWake",
   "releaseRx", "failed", "parked", "rxToken", "txToken", "txCheck",
   "txPublish", "txWake", "txFree", "txSpace", "rxEnd", "linkRegister",
   "linkRecheck"}
RunnerPcs ==
  {"idle", "push", "pushClaim", "pushCheck", "pushPublish", "pushConfirm",
   "pushDiscard", "pushFree", "pushWake", "poll", "register",
   "repoll", "parked", "take", "takeStale", "takeDiscard", "takeClaim",
   "takeConfirm", "lease", "leaseCheck", "leaseReturn", "leaseWake",
   "takeFree", "takeSpace", "leaseFree", "leaseSpace"}
LinkPcs == {"idle", "bump", "rxDiscard", "rxFree", "txDiscard", "txFree",
            "wake"}

VARIABLES
  up,       \* link_up
  epoch,    \* link_epoch
  rx, tx,   \* the slots: state, epoch, and data (the frame)
  client,   \* pc; op; e: the epoch it works in; again: the wakers are
            \* registered; saw: the link state it read; woken: its task is
            \* to run again
  runner,   \* pc; e: the epoch it works in; woken
  link,     \* pc
  armed,    \* the AtomicWakers that hold a waker
  polling   \* TRUE: the runner waits with poll_tx_ready and then takes;
            \* FALSE: it registers with register_tx_waker and takes.  The
            \* runner's author chooses once, so no step changes it.

queue == <<up, epoch, rx, tx, client, runner, link, armed>>
vars  == <<queue, polling>>

ClientType == [pc : ClientPcs, op : Ops, e : Epochs, again : BOOLEAN,
               saw : BOOLEAN, woken : BOOLEAN]
RunnerType == [pc : RunnerPcs, e : Epochs, woken : BOOLEAN]
Slot == [state : SlotStates, epoch : Epochs, data : Epochs \cup {NoFrame}]

TypeOK ==
  /\ up \in BOOLEAN
  /\ epoch \in Epochs
  /\ rx \in Slot
  /\ tx \in Slot
  /\ client \in ClientType
  /\ runner \in RunnerType
  /\ link \in LinkPcs
  /\ armed \subseteq Wakers

Init ==
  /\ up = FALSE
  /\ epoch = 0
  /\ rx = [state |-> "FREE", epoch |-> 0, data |-> NoFrame]
  /\ tx = [state |-> "FREE", epoch |-> 0, data |-> NoFrame]
  /\ client = [pc |-> "idle", op |-> "receive", e |-> 0, again |-> FALSE,
               saw |-> FALSE, woken |-> FALSE]
  /\ runner = [pc |-> "idle", e |-> 0, woken |-> FALSE]
  /\ link = "idle"
  /\ armed = {}
  /\ polling \in BOOLEAN

-----------------------------------------------------------------------------
(* active_epoch is Some(epoch) exactly when up *)
EpochIsActive(e) == up /\ epoch = e

SetRx(x) == rx' = [rx EXCEPT !.state = x]
SetTx(x) == tx' = [tx EXCEPT !.state = x]

(* The stores of release_rx and release_tx *)
FreeRx == rx' = [rx EXCEPT !.state = "FREE", !.data = NoFrame]
FreeTx == tx' = [tx EXCEPT !.state = "FREE", !.data = NoFrame]

ClientAt(p) ==
  [client EXCEPT !.pc = p, !.e = IF p \in {"idle", "failed"} THEN 0 ELSE @,
                 !.again = p # "idle" /\ @]
ClientGo(p) == client' = ClientAt(p)
RunnerAt(p) ==
  [runner EXCEPT !.pc = p,
     !.e = IF p \in {"idle", "poll", "register", "parked"} THEN 0 ELSE @]
RunnerGo(p) == runner' = RunnerAt(p)

(* Wake the wakers ws while the step also moves the processes to c and r.  *)
(* Those of the client are link, rx and space, that of the runner is ready.*)
WakeWith(ws, c, r) ==
  /\ armed' = armed \ ws
  /\ client' = [c EXCEPT !.woken = @ \/ (ws \cap armed) \ {"ready"} # {}]
  /\ runner' = [r EXCEPT !.woken = @ \/ "ready" \in ws \cap armed]

-----------------------------------------------------------------------------
(* The client: NetworkDriver::receive and transmit, RxToken and TxToken *)

ClientStart ==
  /\ client.pc = "idle"
  /\ \/ \E op \in {"receive", "transmit"} :
          client' = [client EXCEPT !.pc = "try", !.op = op]
     \/ client' = [client EXCEPT !.pc = "linkRegister", !.op = "link_state",
                                 !.saw = up]
  /\ UNCHANGED <<up, epoch, rx, tx, runner, link, armed>>

(* link_state registers between its two looks at the link, and wakes its   *)
(* own task when they differ.                                              *)
ClientLinkRegister ==
  /\ client.pc = "linkRegister"
  /\ armed' = armed \cup {"link"}
  /\ ClientGo("linkRecheck")
  /\ UNCHANGED <<up, epoch, rx, tx, runner, link>>

ClientLinkRecheck ==
  /\ client.pc = "linkRecheck"
  /\ client' = [client EXCEPT !.pc = "parked", !.saw = up,
                              !.woken = @ \/ client.saw # up]
  /\ UNCHANGED <<up, epoch, rx, tx, runner, link, armed>>

(* try_receive and try_transmit: active_epoch, and the check that          *)
(* claim_ready_rx and reserve_tx begin with                                *)
ClientTry ==
  /\ client.pc = "try"
  /\ IF up
     THEN client' = [client EXCEPT !.e = epoch,
                       !.pc = IF client.op = "receive" THEN "claimStale"
                              ELSE "reserve"]
     ELSE ClientGo("failed")
  /\ UNCHANGED <<up, epoch, rx, tx, runner, link, armed>>

(* claim_ready_rx *)
ClientClaimStale ==
  /\ client.pc = "claimStale"
  /\ ClientGo(IF rx.state = "READY" /\ rx.epoch # client.e THEN "discard"
              ELSE "claim")
  /\ UNCHANGED <<up, epoch, rx, tx, runner, link, armed>>

(* Fault: a store instead of the compare_exchange *)
ClientDiscardStores ==
  /\ client.pc = "discard"
  /\ SetRx("PRODUCER")
  /\ ClientGo("discardFree")
  /\ UNCHANGED <<up, epoch, tx, runner, link, armed>>

ClientDiscard ==
  /\ client.pc = "discard"
  /\ \/ rx.state = "READY" /\ SetRx("PRODUCER") /\ ClientGo("discardFree")
     \/ rx.state # "READY" /\ UNCHANGED rx /\ ClientGo("failed")
  /\ UNCHANGED <<up, epoch, tx, runner, link, armed>>

ClientClaim ==
  /\ client.pc = "claim"
  /\ \/ rx.state = "READY" /\ SetRx("CLIENT") /\ ClientGo("claimConfirm")
     \/ rx.state # "READY" /\ UNCHANGED rx /\ ClientGo("failed")
  /\ UNCHANGED <<up, epoch, tx, runner, link, armed>>

(* confirm_claimed_rx, and the check that reserve_tx begins with *)
ClientClaimConfirm ==
  /\ client.pc = "claimConfirm"
  /\ ClientGo(IF rx.epoch = client.e /\ EpochIsActive(client.e)
              THEN "reserve" ELSE "releaseRx")
  /\ UNCHANGED <<up, epoch, rx, tx, runner, link, armed>>

(* release_rx, on every path that ends without a token *)
ClientReleaseRx ==
  /\ client.pc \in {"discardFree", "releaseRx"}
  /\ FreeRx
  /\ ClientGo("failed")
  /\ UNCHANGED <<up, epoch, tx, runner, link, armed>>

(* reserve_tx; without it a receive puts its frame back *)
NotReserved == IF client.op = "receive" THEN "restoreCheck" ELSE "failed"
Reserved    == IF client.op = "receive" THEN "rxToken" ELSE "txToken"

ClientReserve ==
  /\ client.pc = "reserve"
  /\ \/ /\ tx.state = "FREE"
        /\ tx' = [tx EXCEPT !.state = "CLIENT", !.epoch = client.e]
        /\ ClientGo("reserveConfirm")
     \/ tx.state # "FREE" /\ UNCHANGED tx /\ ClientGo(NotReserved)
  /\ UNCHANGED <<up, epoch, rx, runner, link, armed>>

ClientReserveConfirm ==
  /\ client.pc = "reserveConfirm"
  /\ ClientGo(IF EpochIsActive(client.e) THEN Reserved ELSE "reserveFree")
  /\ UNCHANGED <<up, epoch, rx, tx, runner, link, armed>>

(* release_tx: free the slot, then wake whoever waits for it *)
ClientFreeTx ==
  /\ client.pc \in {"reserveFree", "txFree"}
  /\ FreeTx
  /\ ClientGo(IF client.pc = "txFree" THEN "txSpace" ELSE "reserveWake")
  /\ UNCHANGED <<up, epoch, rx, runner, link, armed>>

AfterTx == IF client.op = "receive" THEN "rxEnd" ELSE "idle"

ClientWakeSpace ==
  /\ client.pc \in {"reserveWake", "txSpace"}
  /\ WakeWith({"space"},
              ClientAt(IF client.pc = "txSpace" THEN AfterTx ELSE NotReserved),
              runner)
  /\ UNCHANGED <<up, epoch, rx, tx, link>>

(* restore_rx_after_tx_contention *)
ClientRestoreCheck ==
  /\ client.pc = "restoreCheck"
  /\ ClientGo(IF rx.epoch = client.e /\ EpochIsActive(client.e)
              THEN "restore" ELSE "releaseRx")
  /\ UNCHANGED <<up, epoch, rx, tx, runner, link, armed>>

ClientRestore ==
  /\ client.pc = "restore"
  /\ SetRx("READY")
  /\ ClientGo("restoreWake")
  /\ UNCHANGED <<up, epoch, tx, runner, link, armed>>

ClientRestoreWake ==
  /\ client.pc = "restoreWake"
  /\ WakeWith({"rx"}, ClientAt("failed"), runner)
  /\ UNCHANGED <<up, epoch, rx, tx, link>>

(* The first attempt failed: register and try again.  The second one       *)
(* failed: the operation returns None and the task waits to be woken.      *)
ClientFailed ==
  /\ client.pc = "failed"
  /\ IF client.again
     THEN ClientGo("parked") /\ UNCHANGED armed
     ELSE /\ client' = [client EXCEPT !.pc = "try", !.again = TRUE]
          /\ armed' = armed \cup {"link", "space"} \cup
                      (IF client.op = "receive" THEN {"rx"} ELSE {})
  /\ UNCHANGED <<up, epoch, rx, tx, runner, link>>

ClientWoken ==
  /\ client.pc = "parked"
  /\ client.woken
  /\ client' = [ClientAt("idle") EXCEPT !.saw = FALSE, !.woken = FALSE]
  /\ UNCHANGED <<up, epoch, rx, tx, runner, link, armed>>

(* RxToken::consume.  Its callback uses or drops the TX token, and only    *)
(* then is the slot released.  Dropped unused, the pair is released in     *)
(* order, RX first, and what remains is a TX token.                        *)
RxValid == EpochIsActive(client.e) /\ rx.epoch = client.e

ClientRxToken ==
  /\ client.pc = "rxToken"
  /\ \/ UNCHANGED rx /\ ClientGo("txToken")
     \/ /\ FreeRx
        /\ client' = [client EXCEPT !.pc = "txFree", !.op = "transmit"]
  /\ UNCHANGED <<up, epoch, tx, runner, link, armed>>

ClientRxEnd ==
  /\ client.pc = "rxEnd"
  /\ FreeRx
  /\ ClientGo("idle")
  /\ UNCHANGED <<up, epoch, tx, runner, link, armed>>

(* TxToken::consume and drop *)
ClientTxToken ==
  /\ client.pc = "txToken"
  /\ \/ tx' = [tx EXCEPT !.data = client.e] /\ ClientGo("txCheck")
     \/ UNCHANGED tx /\ ClientGo("txFree")
  /\ UNCHANGED <<up, epoch, rx, runner, link, armed>>

ClientTxCheck ==
  /\ client.pc = "txCheck"
  /\ ClientGo(IF EpochIsActive(client.e) /\ tx.epoch = client.e
              THEN "txPublish" ELSE "txFree")
  /\ UNCHANGED <<up, epoch, rx, tx, runner, link, armed>>

ClientTxPublish ==
  /\ client.pc = "txPublish"
  /\ SetTx("READY")
  /\ ClientGo("txWake")
  /\ UNCHANGED <<up, epoch, rx, runner, link, armed>>

ClientTxWake ==
  /\ client.pc = "txWake"
  /\ WakeWith({"ready"}, ClientAt(AfterTx), runner)
  /\ UNCHANGED <<up, epoch, rx, tx, link>>

Client ==
  \/ ClientStart \/ ClientLinkRegister \/ ClientLinkRecheck
  \/ ClientTry \/ ClientClaimStale
  \/ ClientDiscard \/ ClientClaim \/ ClientClaimConfirm \/ ClientReleaseRx
  \/ ClientReserve \/ ClientReserveConfirm
  \/ ClientFreeTx \/ ClientWakeSpace \/ ClientRestoreCheck \/ ClientRestore
  \/ ClientRestoreWake \/ ClientFailed \/ ClientWoken \/ ClientRxToken
  \/ ClientRxEnd \/ ClientTxToken \/ ClientTxCheck \/ ClientTxPublish
  \/ ClientTxWake

-----------------------------------------------------------------------------
(* The runner: push_rx, poll_tx_ready or register_tx_waker, take_tx, lease *)

TxIsReady == up /\ tx.state = "READY" /\ tx.epoch = epoch

(* How the runner waits for TX frames *)
Wait == IF polling THEN "poll" ELSE "register"

(* The runner's task runs: it goes on, or it was woken. *)
RunnerResume ==
  /\ \/ runner.pc = "idle"
     \/ runner.pc = "parked" /\ runner.woken
  /\ runner' = [RunnerAt(Wait) EXCEPT !.woken = FALSE]
  /\ UNCHANGED <<up, epoch, rx, tx, client, link, armed>>

(* The hardware has a frame. *)
RunnerFrame ==
  /\ runner.pc \in {"idle", "parked"}
  /\ RunnerGo("push")
  /\ UNCHANGED <<up, epoch, rx, tx, client, link, armed>>

(* push_rx; after it the runner looks at the TX slot again *)
RunnerPush ==
  /\ runner.pc = "push"
  /\ IF up THEN runner' = [runner EXCEPT !.e = epoch, !.pc = "pushClaim"]
     ELSE RunnerGo(Wait)
  /\ UNCHANGED <<up, epoch, rx, tx, client, link, armed>>

RunnerPushClaim ==
  /\ runner.pc = "pushClaim"
  /\ \/ rx.state = "FREE" /\ SetRx("PRODUCER") /\ RunnerGo("pushCheck")
     \/ rx.state # "FREE" /\ UNCHANGED rx /\ RunnerGo(Wait)
  /\ UNCHANGED <<up, epoch, tx, client, link, armed>>

RunnerPushCheck ==
  /\ runner.pc = "pushCheck"
  /\ RunnerGo(IF EpochIsActive(runner.e) THEN "pushPublish" ELSE "pushFree")
  /\ UNCHANGED <<up, epoch, rx, tx, client, link, armed>>

(* Fault: the frame is marked with the epoch of the moment *)
RunnerPushPublishLate ==
  /\ runner.pc = "pushPublish"
  /\ rx' = [state |-> "READY", epoch |-> epoch, data |-> runner.e]
  /\ RunnerGo("pushConfirm")
  /\ UNCHANGED <<up, epoch, tx, client, link, armed>>

RunnerPushPublish ==
  /\ runner.pc = "pushPublish"
  /\ rx' = [state |-> "READY", epoch |-> runner.e, data |-> runner.e]
  /\ RunnerGo("pushConfirm")
  /\ UNCHANGED <<up, epoch, tx, client, link, armed>>

RunnerPushConfirm ==
  /\ runner.pc = "pushConfirm"
  /\ RunnerGo(IF EpochIsActive(runner.e) THEN "pushWake" ELSE "pushDiscard")
  /\ UNCHANGED <<up, epoch, rx, tx, client, link, armed>>

(* discard_ready_rx_epoch *)
RunnerPushDiscard ==
  /\ runner.pc = "pushDiscard"
  /\ \/ /\ rx.epoch = runner.e /\ rx.state = "READY"
        /\ SetRx("PRODUCER")
        /\ RunnerGo("pushFree")
     \/ /\ ~(rx.epoch = runner.e /\ rx.state = "READY")
        /\ UNCHANGED rx
        /\ RunnerGo(Wait)
  /\ UNCHANGED <<up, epoch, tx, client, link, armed>>

RunnerPushFree ==
  /\ runner.pc = "pushFree"
  /\ FreeRx
  /\ RunnerGo(Wait)
  /\ UNCHANGED <<up, epoch, tx, client, link, armed>>

RunnerPushWake ==
  /\ runner.pc = "pushWake"
  /\ WakeWith({"rx"}, client, RunnerAt(Wait))
  /\ UNCHANGED <<up, epoch, rx, tx, link>>

(* poll_tx_ready looks, registers and looks again; it returns Pending to   *)
(* "parked" and Ready to "take".  register_tx_waker registers, and wakes   *)
(* its own task if a frame is there; the runner then takes.                *)
RunnerPoll ==
  /\ runner.pc = "poll"
  /\ RunnerGo(IF TxIsReady THEN "take" ELSE "register")
  /\ UNCHANGED <<up, epoch, rx, tx, client, link, armed>>

RunnerRegister ==
  /\ runner.pc = "register"
  /\ armed' = armed \cup {"ready"}
  /\ RunnerGo("repoll")
  /\ UNCHANGED <<up, epoch, rx, tx, client, link>>

(* Fault: no second look after the waker is registered *)
RunnerRepollBlind ==
  /\ runner.pc = "repoll"
  /\ RunnerGo(IF polling THEN "parked" ELSE "take")
  /\ UNCHANGED <<up, epoch, rx, tx, client, link, armed>>

RunnerRepoll ==
  /\ runner.pc = "repoll"
  /\ IF polling THEN RunnerGo(IF TxIsReady THEN "take" ELSE "parked")
     ELSE runner' = [runner EXCEPT !.pc = "take", !.woken = @ \/ TxIsReady]
  /\ UNCHANGED <<up, epoch, rx, tx, client, link, armed>>

(* take_tx.  A polling runner that gets nothing polls again. *)
NoLease == IF polling THEN "idle" ELSE "parked"

RunnerTake ==
  /\ runner.pc = "take"
  /\ IF up THEN runner' = [runner EXCEPT !.e = epoch, !.pc = "takeStale"]
     ELSE RunnerGo(NoLease)
  /\ UNCHANGED <<up, epoch, rx, tx, client, link, armed>>

RunnerTakeStale ==
  /\ runner.pc = "takeStale"
  /\ RunnerGo(IF tx.state = "READY" /\ tx.epoch # runner.e THEN "takeDiscard"
              ELSE "takeClaim")
  /\ UNCHANGED <<up, epoch, rx, tx, client, link, armed>>

RunnerTakeDiscard ==
  /\ runner.pc = "takeDiscard"
  /\ \/ tx.state = "READY" /\ SetTx("PRODUCER") /\ RunnerGo("takeFree")
     \/ tx.state # "READY" /\ UNCHANGED tx /\ RunnerGo(NoLease)
  /\ UNCHANGED <<up, epoch, rx, client, link, armed>>

RunnerTakeClaim ==
  /\ runner.pc = "takeClaim"
  /\ \/ tx.state = "READY" /\ SetTx("PRODUCER") /\ RunnerGo("takeConfirm")
     \/ tx.state # "READY" /\ UNCHANGED tx /\ RunnerGo(NoLease)
  /\ UNCHANGED <<up, epoch, rx, client, link, armed>>

LeaseIsCurrent == EpochIsActive(runner.e) /\ tx.epoch = runner.e

RunnerTakeConfirm ==
  /\ runner.pc = "takeConfirm"
  /\ RunnerGo(IF LeaseIsCurrent THEN "lease" ELSE "takeFree")
  /\ UNCHANGED <<up, epoch, rx, tx, client, link, armed>>

(* The lease is reported as Submitted or Dropped, or it is reported as     *)
(* WouldBlock or dropped, and then it goes back if it is current.          *)
RunnerLease ==
  /\ runner.pc = "lease"
  /\ RunnerGo("leaseFree") \/ RunnerGo("leaseCheck")
  /\ UNCHANGED <<up, epoch, rx, tx, client, link, armed>>

RunnerLeaseCheck ==
  /\ runner.pc = "leaseCheck"
  /\ RunnerGo(IF LeaseIsCurrent THEN "leaseReturn" ELSE "leaseFree")
  /\ UNCHANGED <<up, epoch, rx, tx, client, link, armed>>

RunnerLeaseReturn ==
  /\ runner.pc = "leaseReturn"
  /\ SetTx("READY")
  /\ RunnerGo("leaseWake")
  /\ UNCHANGED <<up, epoch, rx, client, link, armed>>

RunnerLeaseWake ==
  /\ runner.pc = "leaseWake"
  /\ WakeWith({"ready"}, client, RunnerAt("idle"))
  /\ UNCHANGED <<up, epoch, rx, tx, link>>

(* release_tx *)
RunnerFreeTx ==
  /\ runner.pc \in {"takeFree", "leaseFree"}
  /\ FreeTx
  /\ RunnerGo(IF runner.pc = "takeFree" THEN "takeSpace" ELSE "leaseSpace")
  /\ UNCHANGED <<up, epoch, rx, client, link, armed>>

RunnerWakeSpace ==
  /\ runner.pc \in {"takeSpace", "leaseSpace"}
  /\ WakeWith({"space"}, client,
              RunnerAt(IF runner.pc = "takeSpace" THEN NoLease ELSE "idle"))
  /\ UNCHANGED <<up, epoch, rx, tx, link>>

RunnerSteps ==
  \/ RunnerResume \/ RunnerPush \/ RunnerPushClaim \/ RunnerPushCheck
  \/ RunnerPushPublish \/ RunnerPushConfirm \/ RunnerPushDiscard
  \/ RunnerPushFree \/ RunnerPushWake \/ RunnerPoll
  \/ RunnerRegister \/ RunnerRepoll \/ RunnerTake \/ RunnerTakeStale
  \/ RunnerTakeDiscard \/ RunnerTakeClaim \/ RunnerTakeConfirm
  \/ RunnerLease \/ RunnerLeaseCheck \/ RunnerLeaseReturn
  \/ RunnerLeaseWake \/ RunnerFreeTx \/ RunnerWakeSpace

-----------------------------------------------------------------------------
(* set_authorized_link with a new value; with the old one it does nothing *)

LinkChange ==
  /\ link = "idle"
  /\ epoch < MaxEpoch
  /\ up' = ~up
  /\ link' = "bump"
  /\ UNCHANGED <<epoch, rx, tx, client, runner, armed>>

(* Fault: a change of the link counts twice *)
LinkBumpTwice ==
  /\ link = "bump"
  /\ epoch' = epoch + 2
  /\ link' = "rxDiscard"
  /\ UNCHANGED <<up, rx, tx, client, runner, armed>>

LinkBump ==
  /\ link = "bump"
  /\ epoch' = epoch + 1
  /\ link' = "rxDiscard"
  /\ UNCHANGED <<up, rx, tx, client, runner, armed>>

LinkRxDiscard ==
  /\ link = "rxDiscard"
  /\ \/ rx.state = "READY" /\ SetRx("PRODUCER") /\ link' = "rxFree"
     \/ rx.state # "READY" /\ UNCHANGED rx /\ link' = "txDiscard"
  /\ UNCHANGED <<up, epoch, tx, client, runner, armed>>

LinkRxFree ==
  /\ link = "rxFree"
  /\ FreeRx
  /\ link' = "txDiscard"
  /\ UNCHANGED <<up, epoch, tx, client, runner, armed>>

LinkTxDiscard ==
  /\ link = "txDiscard"
  /\ \/ tx.state = "READY" /\ SetTx("PRODUCER") /\ link' = "txFree"
     \/ tx.state # "READY" /\ UNCHANGED tx /\ link' = "wake"
  /\ UNCHANGED <<up, epoch, rx, client, runner, armed>>

(* release_tx; its wake is one with the wakes that follow *)
LinkTxFree ==
  /\ link = "txFree"
  /\ FreeTx
  /\ link' = "wake"
  /\ UNCHANGED <<up, epoch, rx, client, runner, armed>>

LinkWake ==
  /\ link = "wake"
  /\ WakeWith(Wakers, client, runner)
  /\ link' = "idle"
  /\ UNCHANGED <<up, epoch, rx, tx>>

LinkSteps == \/ LinkBump \/ LinkRxDiscard \/ LinkRxFree \/ LinkTxDiscard
             \/ LinkTxFree \/ LinkWake

Next ==
  /\ Client \/ RunnerFrame \/ RunnerSteps \/ LinkChange \/ LinkSteps
  /\ UNCHANGED polling

Spec == Init /\ [][Next]_vars

(* Every task that can go on goes on; frames and link changes need not come.*)
FairSpec ==
  /\ Spec
  /\ WF_queue(Client)
  /\ WF_queue(RunnerSteps)
  /\ WF_queue(LinkSteps)

-----------------------------------------------------------------------------
(* Properties *)

(* Who may touch a buffer.  Inside a receive the client holds the RX slot  *)
(* while it reserves and uses the TX slot.                                 *)
UsesTx == client.pc \in {"reserveConfirm", "reserveFree", "txToken", "txCheck",
                         "txPublish", "txFree", "rxToken"}
ClientHoldsRx ==
  \/ client.pc \in {"claimConfirm", "releaseRx", "restoreCheck", "restore",
                    "rxEnd"}
  \/ client.op = "receive" /\ (UsesTx \/ client.pc \in
       {"reserve", "reserveWake", "txWake", "txSpace"})
ClientDropsRx == client.pc = "discardFree"
RunnerHoldsRx == runner.pc \in {"pushCheck", "pushPublish", "pushFree"}
LinkHoldsRx   == link = "rxFree"
RunnerHoldsTx == runner.pc \in {"takeFree", "takeConfirm", "lease",
                                "leaseCheck", "leaseReturn", "leaseFree"}
LinkHoldsTx   == link = "txFree"

(* Every mutable buffer access is guarded by one atomic ownership state:   *)
(* a slot's state names the one process that may read, write or release    *)
(* it, and a FREE or READY slot has none.                                  *)
RxOwnership ==
  /\ rx.state = "CLIENT" <=> ClientHoldsRx
  /\ rx.state = "PRODUCER" <=> ClientDropsRx \/ RunnerHoldsRx \/ LinkHoldsRx
  /\ ~(ClientDropsRx /\ RunnerHoldsRx)
  /\ ~(ClientDropsRx /\ LinkHoldsRx)
  /\ ~(RunnerHoldsRx /\ LinkHoldsRx)
TxOwnership ==
  /\ tx.state = "CLIENT" <=> UsesTx
  /\ tx.state = "PRODUCER" <=> RunnerHoldsTx \/ LinkHoldsTx
  /\ ~(RunnerHoldsTx /\ LinkHoldsTx)
Ownership == RxOwnership /\ TxOwnership

(* No frame crosses a change of connection: what a current token or lease  *)
(* reads was written for its own epoch.                                    *)
NoStaleFrame ==
  /\ client.pc = "rxToken" /\ RxValid => rx.data = client.e
  /\ runner.pc = "lease" /\ LeaseIsCurrent => tx.data = runner.e

(* A process that sleeps has nothing to do, or a wake is on its way.       *)
(* The client after link_state: the link is as it last saw it.             *)
LinkChangeNotMissed ==
  client.pc = "parked" /\ client.op = "link_state" /\ ~client.woken =>
    client.saw = up \/ link # "idle"

(* The client after receive or transmit: it would not succeed now. *)
WakeForClient == runner.pc \in {"takeSpace", "leaseSpace"} \/ link # "idle"
RxNotMissed ==
  /\ client.pc = "parked" /\ client.op = "receive" /\ ~client.woken
  /\ up /\ rx.state = "READY" /\ rx.epoch = epoch /\ tx.state = "FREE"
  => WakeForClient \/ runner.pc \in {"pushConfirm", "pushWake"}
SpaceNotMissed ==
  /\ client.pc = "parked" /\ client.op = "transmit" /\ ~client.woken
  /\ up /\ tx.state = "FREE"
  => WakeForClient

(* The runner: no frame of the current connection waits. *)
TxNotMissed ==
  runner.pc = "parked" /\ ~runner.woken /\ TxIsReady =>
    client.pc = "txWake" \/ link # "idle"

(* No wake is lost, whatever is published, freed or changed between a look *)
(* and the registration of the waker (link_state, receive, transmit,       *)
(* poll_tx_ready, register_tx_waker).                                      *)
NoLostWake ==
  LinkChangeNotMissed /\ RxNotMissed /\ SpaceNotMissed /\ TxNotMissed

(* While the link stays up, a published frame is taken or discarded, so    *)
(* the only TX slot does not stay occupied.                                *)
TxDrains == (tx.state = "READY" /\ up) ~> (tx.state # "READY" \/ ~up)
=============================================================================
