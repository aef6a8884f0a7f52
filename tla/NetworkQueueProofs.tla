------------------------- MODULE NetworkQueueProofs -------------------------
(***************************************************************************)
(* Proofs about the Embassy network queue (NetworkQueue), for every number *)
(* of link changes and for both ways a runner waits: the type of its       *)
(* state, that no slot ever has two owners, and that no frame crosses a    *)
(* change of connection, which follow from one inductive invariant (IInv); *)
(* and that no wake is lost, from a second one on top of it (WInv).        *)
(***************************************************************************)
EXTENDS NetworkQueue, TLAPS

(* The step a client is at tells which operation it is in. *)
ClientPcOp ==
  /\ client.pc \in {"claimStale", "claim", "claimConfirm", "discard",
                    "discardFree", "restoreCheck", "restore", "restoreWake",
                    "releaseRx", "rxToken", "rxEnd"} => client.op = "receive"
  /\ client.op = "link_state" =>
       client.pc \in {"idle", "linkRegister", "linkRecheck", "parked"}

(* A change of the link starts only below the bound on epochs. *)
LinkBound == link = "bump" => epoch < MaxEpoch

(* A frame in a slot, published or in use, is one of the slot's epoch. *)
RxFresh == rx.state = "READY" \/ ClientHoldsRx => rx.data = rx.epoch
TxFresh ==
  /\ \/ tx.state = "READY"
     \/ runner.pc \in {"takeConfirm", "lease", "leaseCheck", "leaseReturn"}
     => tx.data = tx.epoch
  /\ UsesTx => tx.epoch = client.e
  /\ client.pc \in {"txCheck", "txPublish"} => tx.data = client.e

IInv ==
  /\ TypeOK
  /\ ClientPcOp
  /\ LinkBound
  /\ RxOwnership
  /\ TxOwnership
  /\ RxFresh
  /\ TxFresh

-----------------------------------------------------------------------------
(* Steps of the processes *)

(* Epoch 0, to which a process's local epoch is reset, is an epoch. *)
LEMMA Zero == 0 \in Epochs
  BY QueueAssumption DEF Epochs

(* The client moves: only its step changes and, where no later step reads  *)
(* it, its epoch.                                                          *)
LEMMA ClientMoves ==
  ASSUME client \in ClientType, NEW p \in ClientPcs
  PROVE  /\ ClientAt(p) \in ClientType
         /\ ClientAt(p).pc = p
         /\ ClientAt(p).op = client.op
         /\ p \notin {"idle", "failed"} => ClientAt(p).e = client.e
<1>1. ClientAt(p) \in ClientType
  BY Zero DEF ClientAt, ClientType
<1> QED BY <1>1 DEF ClientAt, ClientType

(* The runner moves in the same way. *)
LEMMA RunnerMoves ==
  ASSUME runner \in RunnerType, NEW p \in RunnerPcs
  PROVE  /\ RunnerAt(p) \in RunnerType
         /\ RunnerAt(p).pc = p
         /\ p \notin {"idle", "poll", "register", "parked"} =>
              RunnerAt(p).e = runner.e
<1>1. RunnerAt(p) \in RunnerType
  BY Zero DEF RunnerAt, RunnerType
<1> QED BY <1>1 DEF RunnerAt, RunnerType

(* A wake changes nothing of a process but whether it is to run again. *)
LEMMA WakeMoves ==
  ASSUME armed \subseteq Wakers, NEW ws,
         NEW c \in ClientType, NEW r \in RunnerType, WakeWith(ws, c, r)
  PROVE  /\ armed' \subseteq Wakers
         /\ client' \in ClientType
         /\ client'.pc = c.pc /\ client'.op = c.op /\ client'.e = c.e
         /\ runner' \in RunnerType
         /\ runner'.pc = r.pc /\ runner'.e = r.e
  BY DEF WakeWith, ClientType, RunnerType

(* The client moves and wakes others, or itself. *)
LEMMA ClientWakes ==
  ASSUME client \in ClientType, runner \in RunnerType, armed \subseteq Wakers,
         NEW ws, NEW p \in ClientPcs, WakeWith(ws, ClientAt(p), runner)
  PROVE  /\ armed' \subseteq Wakers
         /\ client' \in ClientType
         /\ client'.pc = p /\ client'.op = client.op
         /\ runner' \in RunnerType
         /\ runner'.pc = runner.pc /\ runner'.e = runner.e
<1>1. ClientAt(p) \in ClientType /\ ClientAt(p).pc = p
      /\ ClientAt(p).op = client.op
  BY ClientMoves
<1> QED BY <1>1, WakeMoves

(* The runner moves and wakes others, or itself. *)
LEMMA RunnerWakes ==
  ASSUME client \in ClientType, runner \in RunnerType, armed \subseteq Wakers,
         NEW ws, NEW p \in RunnerPcs, WakeWith(ws, client, RunnerAt(p))
  PROVE  /\ armed' \subseteq Wakers
         /\ client' \in ClientType
         /\ client'.pc = client.pc /\ client'.op = client.op
         /\ client'.e = client.e
         /\ runner' \in RunnerType
         /\ runner'.pc = p
<1>1. RunnerAt(p) \in RunnerType /\ RunnerAt(p).pc = p
  BY RunnerMoves
<1> QED BY <1>1, WakeMoves

(* The client moves and remembers the epoch it works in. *)
LEMMA ClientEnters ==
  ASSUME client \in ClientType, NEW p \in ClientPcs, NEW x \in Epochs,
         client' = [client EXCEPT !.e = x, !.pc = p]
  PROVE  client' \in ClientType /\ client'.pc = p /\ client'.op = client.op
  BY DEF ClientType

(* The client makes its second attempt. *)
LEMMA ClientRetries ==
  ASSUME client \in ClientType,
         client' = [client EXCEPT !.pc = "try", !.again = TRUE]
  PROVE  client' \in ClientType /\ client'.pc = "try"
         /\ client'.op = client.op
  BY DEF ClientType, ClientPcs

(* The client compares the link with what it last saw, and parks. *)
LEMMA ClientRechecks ==
  ASSUME client \in ClientType, up \in BOOLEAN,
         client' = [client EXCEPT !.pc = "parked", !.saw = up,
                                  !.woken = client.woken \/ client.saw # up]
  PROVE  client' \in ClientType /\ client'.pc = "parked"
         /\ client'.op = client.op
<1>1. (client.woken \/ client.saw # up) \in BOOLEAN
  BY Zenon DEF ClientType
<1> QED BY <1>1 DEF ClientType, ClientPcs

(* A woken client starts anew. *)
LEMMA ClientRestarts ==
  ASSUME client \in ClientType,
         client' = [ClientAt("idle") EXCEPT !.saw = FALSE, !.woken = FALSE]
  PROVE  client' \in ClientType /\ client'.pc = "idle"
         /\ client'.op = client.op
<1>1. ClientAt("idle") \in ClientType /\ ClientAt("idle").pc = "idle"
      /\ ClientAt("idle").op = client.op
  BY ClientMoves DEF ClientPcs
<1> QED BY <1>1 DEF ClientType

(* The runner moves and remembers the epoch it works in. *)
LEMMA RunnerEnters ==
  ASSUME runner \in RunnerType, NEW p \in RunnerPcs, NEW x \in Epochs,
         runner' = [runner EXCEPT !.e = x, !.pc = p]
  PROVE  runner' \in RunnerType /\ runner'.pc = p
  BY DEF RunnerType

(* A woken runner starts anew. *)
LEMMA RunnerRestarts ==
  ASSUME runner \in RunnerType, NEW p \in RunnerPcs,
         runner' = [RunnerAt(p) EXCEPT !.woken = FALSE]
  PROVE  runner' \in RunnerType /\ runner'.pc = p
<1>1. RunnerAt(p) \in RunnerType /\ RunnerAt(p).pc = p
  BY RunnerMoves
<1> QED BY <1>1 DEF RunnerType

(* A runner that registers goes on to take, and may wake itself. *)
LEMMA RunnerTakes ==
  ASSUME runner \in RunnerType,
         runner' = [runner EXCEPT !.pc = "take", !.woken = @ \/ TxIsReady]
  PROVE  runner' \in RunnerType /\ runner'.pc = "take"
  BY DEF RunnerType, RunnerPcs

(* Releasing a slot leaves a free one. *)
LEMMA RxFreed ==
  ASSUME rx \in Slot, FreeRx
  PROVE  rx' \in Slot /\ rx'.state = "FREE"
  BY DEF FreeRx, Slot, SlotStates

(* The same for the TX slot *)
LEMMA TxFreed ==
  ASSUME tx \in Slot, FreeTx
  PROVE  tx' \in Slot /\ tx'.state = "FREE"
  BY DEF FreeTx, Slot, SlotStates

(* Every step of the client keeps the invariant. *)
LEMMA ClientKeeps ==
  ASSUME IInv, Client PROVE IInv'
<1> USE DEF IInv, TypeOK, ClientPcOp, LinkBound, RxOwnership, TxOwnership,
        RxFresh, TxFresh, UsesTx, ClientHoldsRx, ClientDropsRx, RunnerHoldsRx,
        LinkHoldsRx, RunnerHoldsTx, LinkHoldsTx,
        ClientGo, ClientPcs, Slot, SlotStates
<1>1. CASE ClientLinkRegister
  BY <1>1, ClientMoves DEF ClientLinkRegister, Wakers
<1>2. CASE ClientLinkRecheck
  <2>1. client' \in ClientType /\ client'.pc = "parked"
        /\ client'.op = client.op
    BY <1>2, ClientRechecks DEF ClientLinkRecheck
  <2> QED BY <1>2, <2>1 DEF ClientLinkRecheck
<1>3. CASE ClientTry
  <2>1. CASE up
    <3> DEFINE p == IF client.op = "receive" THEN "claimStale" ELSE "reserve"
    <3>1. client' = [client EXCEPT !.e = epoch, !.pc = p]
      BY <1>3, <2>1 DEF ClientTry
    <3>2. p \in ClientPcs /\ client \in ClientType /\ epoch \in Epochs
      OBVIOUS
    <3> HIDE DEF p
    <3>3. client' \in ClientType /\ client'.op = client.op /\ client'.pc = p
      BY <3>1, <3>2, ClientEnters
    <3> QED BY <1>3, <3>3 DEF ClientTry, p
  <2>2. CASE ~up
    <3>1. client' \in ClientType /\ client'.op = client.op
          /\ client'.pc = "failed"
      BY <1>3, <2>2, ClientMoves DEF ClientTry
    <3> QED BY <1>3, <3>1 DEF ClientTry
  <2> QED BY <2>1, <2>2
<1>4. CASE ClientClaimStale
  BY <1>4, ClientMoves DEF ClientClaimStale
<1>5. CASE ClientDiscard
  BY <1>5, ClientMoves DEF ClientDiscard, SetRx
<1>6. CASE ClientClaim
  BY <1>6, ClientMoves DEF ClientClaim, SetRx
<1>7. CASE ClientClaimConfirm
  BY <1>7, ClientMoves DEF ClientClaimConfirm
<1>8. CASE ClientReleaseRx
  <2>1. client' \in ClientType /\ client'.op = client.op
        /\ client'.pc = "failed"
    BY <1>8, ClientMoves DEF ClientReleaseRx
  <2>2. rx' \in Slot /\ rx'.state = "FREE"
    BY <1>8, RxFreed DEF ClientReleaseRx
  <2> QED BY <1>8, <2>1, <2>2 DEF ClientReleaseRx
<1>9. CASE ClientReserve
  <2>1. CASE tx.state = "FREE"
    <3>1. tx' \in Slot /\ tx'.state = "CLIENT" /\ tx'.epoch = client.e
      BY <1>9, <2>1 DEF ClientReserve, ClientType
    <3>2. client' \in ClientType /\ client'.pc = "reserveConfirm"
          /\ client'.op = client.op /\ client'.e = client.e
      BY <1>9, <2>1, ClientMoves DEF ClientReserve
    <3> QED BY <1>9, <2>1, <3>1, <3>2 DEF ClientReserve
  <2>2. CASE tx.state # "FREE"
    <3>1. client' \in ClientType /\ client'.pc = NotReserved
          /\ client'.op = client.op
      BY <1>9, <2>2, ClientMoves DEF ClientReserve, NotReserved
    <3> QED BY <1>9, <2>2, <3>1 DEF ClientReserve, NotReserved
  <2> QED BY <2>1, <2>2
<1>10. CASE ClientReserveConfirm
  BY <1>10, ClientMoves DEF ClientReserveConfirm, Reserved
<1>11. CASE ClientFreeTx
  <2>1. client' \in ClientType /\ client'.op = client.op
        /\ client'.pc = IF client.pc = "txFree" THEN "txSpace"
                        ELSE "reserveWake"
    BY <1>11, ClientMoves DEF ClientFreeTx
  <2> QED BY <1>11, <2>1, TxFreed DEF ClientFreeTx
<1>12. CASE ClientRestoreCheck
  BY <1>12, ClientMoves DEF ClientRestoreCheck
<1>13. CASE ClientRestore
  BY <1>13, ClientMoves DEF ClientRestore, SetRx
<1>14. CASE ClientFailed
  <2>1. CASE client.again
    <3>1. client' \in ClientType /\ client'.op = client.op
          /\ client'.pc = "parked"
      BY <1>14, <2>1, ClientMoves DEF ClientFailed
    <3> QED BY <1>14, <2>1, <3>1 DEF ClientFailed
  <2>2. CASE ~client.again
    <3>1. client' = [client EXCEPT !.pc = "try", !.again = TRUE]
      BY <1>14, <2>2 DEF ClientFailed
    <3>2. client' \in ClientType /\ client'.op = client.op
          /\ client'.pc = "try"
      BY <3>1, ClientRetries
    <3>3. armed' \subseteq Wakers
      BY <1>14, <2>2 DEF ClientFailed, Wakers
    <3> QED BY <1>14, <3>2, <3>3 DEF ClientFailed
  <2> QED BY <2>1, <2>2
<1>15. CASE ClientWoken
  <2>1. client' \in ClientType /\ client'.pc = "idle"
        /\ client'.op = client.op
    BY <1>15, ClientRestarts DEF ClientWoken
  <2> QED BY <1>15, <2>1 DEF ClientWoken
<1>16. CASE ClientRxToken
  <2>1. CASE UNCHANGED rx /\ ClientGo("txToken")
    BY <1>16, <2>1, ClientMoves DEF ClientRxToken
  <2>2. CASE FreeRx /\ client' = [client EXCEPT !.pc = "txFree",
                                               !.op = "transmit"]
    <3>1. client' \in ClientType /\ client'.pc = "txFree"
          /\ client'.op = "transmit" /\ client'.e = client.e
      BY <2>2 DEF ClientType, Ops
    <3> QED BY <1>16, <2>2, <3>1, RxFreed DEF ClientRxToken
  <2> QED BY <1>16, <2>1, <2>2 DEF ClientRxToken
<1>17. CASE ClientRxEnd
  <2>1. client' \in ClientType /\ client'.pc = "idle"
        /\ client'.op = client.op
    BY <1>17, ClientMoves DEF ClientRxEnd
  <2> QED BY <1>17, <2>1, RxFreed DEF ClientRxEnd
<1>18. CASE ClientTxToken
  BY <1>18, ClientMoves DEF ClientTxToken, ClientType
<1>19. CASE ClientTxCheck
  BY <1>19, ClientMoves DEF ClientTxCheck
<1>20. CASE ClientTxPublish
  BY <1>20, ClientMoves DEF ClientTxPublish, SetTx
<1>21. CASE ClientStart
  <2>1. client' \in ClientType
    <3>1. ASSUME NEW op \in {"receive", "transmit"},
                 client' = [client EXCEPT !.pc = "try", !.op = op]
          PROVE  client' \in ClientType
      BY <3>1 DEF ClientType, Ops
    <3>2. ASSUME client' = [client EXCEPT !.pc = "linkRegister",
                                          !.op = "link_state", !.saw = up]
          PROVE  client' \in ClientType
      BY <3>2 DEF ClientType, Ops
    <3> QED BY <1>21, <3>1, <3>2 DEF ClientStart
  <2>2. \/ client'.pc = "try" /\ client'.op \in {"receive", "transmit"}
        \/ client'.pc = "linkRegister" /\ client'.op = "link_state"
    BY <1>21 DEF ClientStart, ClientType
  <2> QED BY <1>21, <2>1, <2>2 DEF ClientStart
<1>22. CASE ClientWakeSpace
  <2> DEFINE p == IF client.pc = "txSpace" THEN AfterTx ELSE NotReserved
  <2>1. p \in ClientPcs
    BY <1>22 DEF ClientWakeSpace, AfterTx, NotReserved
  <2>2. client' \in ClientType /\ client'.pc = p /\ client'.op = client.op
        /\ runner' \in RunnerType /\ runner'.pc = runner.pc
        /\ armed' \subseteq Wakers
    BY <1>22, <2>1, ClientWakes DEF ClientWakeSpace
  <2> QED BY <1>22, <2>2 DEF ClientWakeSpace, AfterTx, NotReserved
<1>23. CASE ClientRestoreWake
  <2> DEFINE p == "failed"
  <2>1. p \in ClientPcs
    BY <1>23 DEF ClientRestoreWake
  <2>2. client' \in ClientType /\ client'.pc = p /\ client'.op = client.op
        /\ runner' \in RunnerType /\ runner'.pc = runner.pc
        /\ armed' \subseteq Wakers
    BY <1>23, <2>1, ClientWakes DEF ClientRestoreWake
  <2> QED BY <1>23, <2>2 DEF ClientRestoreWake
<1>24. CASE ClientTxWake
  <2> DEFINE p == AfterTx
  <2>1. p \in ClientPcs
    BY <1>24 DEF ClientTxWake, AfterTx
  <2>2. client' \in ClientType /\ client'.pc = p /\ client'.op = client.op
        /\ runner' \in RunnerType /\ runner'.pc = runner.pc
        /\ armed' \subseteq Wakers
    BY <1>24, <2>1, ClientWakes DEF ClientTxWake
  <2> QED BY <1>24, <2>2 DEF ClientTxWake, AfterTx
<1> QED
  BY <1>1, <1>2, <1>3, <1>4, <1>5, <1>6, <1>7, <1>8, <1>9, <1>10, <1>11,
     <1>12, <1>13, <1>14, <1>15, <1>16, <1>17, <1>18, <1>19, <1>20,
     <1>21, <1>22, <1>23, <1>24 DEF Client

(* Every step of the runner keeps the invariant. *)
LEMMA RunnerKeeps ==
  ASSUME IInv, RunnerSteps \/ RunnerFrame PROVE IInv'
<1> USE DEF IInv, TypeOK, ClientPcOp, LinkBound, RxOwnership, TxOwnership,
        RxFresh, TxFresh, UsesTx, ClientHoldsRx, ClientDropsRx, RunnerHoldsRx,
        LinkHoldsRx, RunnerHoldsTx, LinkHoldsTx,
        RunnerGo, RunnerPcs, Slot, SlotStates
<1>1. CASE RunnerResume
  <2>1. Wait \in RunnerPcs
    BY DEF Wait
  <2>2. runner' = [RunnerAt(Wait) EXCEPT !.woken = FALSE]
    BY <1>1 DEF RunnerResume
  <2>3. runner' \in RunnerType /\ runner'.pc = Wait
    BY <2>1, <2>2, RunnerRestarts
  <2> QED BY <1>1, <2>3 DEF RunnerResume, Wait
<1>2. CASE RunnerPush
  <2>1. CASE up
    <3>1. runner' = [runner EXCEPT !.e = epoch, !.pc = "pushClaim"]
      BY <1>2, <2>1 DEF RunnerPush
    <3>2. runner' \in RunnerType /\ runner'.pc = "pushClaim"
      BY <3>1, RunnerEnters
    <3> QED BY <1>2, <3>2 DEF RunnerPush
  <2>2. CASE ~up
    <3>1. runner' \in RunnerType /\ runner'.pc = Wait
      BY <1>2, <2>2, RunnerMoves DEF RunnerPush, Wait
    <3> QED BY <1>2, <3>1 DEF RunnerPush, Wait
  <2> QED BY <2>1, <2>2
<1>3. CASE RunnerPushClaim
  BY <1>3, RunnerMoves DEF RunnerPushClaim, SetRx, Wait
<1>4. CASE RunnerPushCheck
  BY <1>4, RunnerMoves DEF RunnerPushCheck
<1>5. CASE RunnerPushPublish
  BY <1>5, RunnerMoves DEF RunnerPushPublish, RunnerType
<1>6. CASE RunnerPushConfirm
  BY <1>6, RunnerMoves DEF RunnerPushConfirm
<1>7. CASE RunnerPushDiscard
  BY <1>7, RunnerMoves DEF RunnerPushDiscard, SetRx, Wait
<1>8. CASE RunnerPushFree
  <2>1. runner' \in RunnerType /\ runner'.pc = Wait
    BY <1>8, RunnerMoves DEF RunnerPushFree, Wait
  <2> QED BY <1>8, <2>1, RxFreed DEF RunnerPushFree, Wait
<1>9. CASE RunnerPoll
  BY <1>9, RunnerMoves DEF RunnerPoll
<1>10. CASE RunnerRegister
  BY <1>10, RunnerMoves DEF RunnerRegister, Wakers
<1>11. CASE RunnerRepoll
  <2>1. CASE polling
    <3>1. runner' \in RunnerType /\ runner'.pc \in {"take", "parked"}
      BY <1>11, <2>1, RunnerMoves DEF RunnerRepoll
    <3> QED BY <1>11, <3>1 DEF RunnerRepoll
  <2>2. CASE ~polling
    <3>1. runner' = [runner EXCEPT !.pc = "take", !.woken = runner.woken \/ TxIsReady]
      BY <1>11, <2>2 DEF RunnerRepoll
    <3>2. runner' \in RunnerType /\ runner'.pc = "take"
      BY <3>1, RunnerTakes
    <3> QED BY <1>11, <3>2 DEF RunnerRepoll
  <2> QED BY <2>1, <2>2
<1>12. CASE RunnerTake
  <2>1. CASE up
    <3>1. runner' = [runner EXCEPT !.e = epoch, !.pc = "takeStale"]
      BY <1>12, <2>1 DEF RunnerTake
    <3>2. runner' \in RunnerType /\ runner'.pc = "takeStale"
      BY <3>1, RunnerEnters
    <3> QED BY <1>12, <3>2 DEF RunnerTake
  <2>2. CASE ~up
    <3>1. runner' \in RunnerType /\ runner'.pc = NoLease
      BY <1>12, <2>2, RunnerMoves DEF RunnerTake, NoLease
    <3> QED BY <1>12, <3>1 DEF RunnerTake, NoLease
  <2> QED BY <2>1, <2>2
<1>13. CASE RunnerTakeStale
  BY <1>13, RunnerMoves DEF RunnerTakeStale
<1>14. CASE RunnerTakeDiscard
  BY <1>14, RunnerMoves DEF RunnerTakeDiscard, SetTx, NoLease
<1>15. CASE RunnerTakeClaim
  BY <1>15, RunnerMoves DEF RunnerTakeClaim, SetTx, NoLease
<1>16. CASE RunnerTakeConfirm
  BY <1>16, RunnerMoves DEF RunnerTakeConfirm
<1>17. CASE RunnerLease
  BY <1>17, RunnerMoves DEF RunnerLease
<1>18. CASE RunnerLeaseCheck
  BY <1>18, RunnerMoves DEF RunnerLeaseCheck
<1>19. CASE RunnerLeaseReturn
  BY <1>19, RunnerMoves DEF RunnerLeaseReturn, SetTx
<1>20. CASE RunnerFreeTx
  <2>1. runner' \in RunnerType
        /\ runner'.pc \in {"takeSpace", "leaseSpace"}
    BY <1>20, RunnerMoves DEF RunnerFreeTx
  <2> QED BY <1>20, <2>1, TxFreed DEF RunnerFreeTx
<1>21. CASE RunnerFrame
  BY <1>21, RunnerMoves DEF RunnerFrame
<1>22. CASE RunnerPushWake
  <2> DEFINE p == Wait
  <2>1. p \in RunnerPcs
    BY <1>22 DEF RunnerPushWake, Wait
  <2>2. runner' \in RunnerType /\ runner'.pc = p
        /\ client' \in ClientType /\ client'.pc = client.pc
        /\ client'.op = client.op /\ client'.e = client.e
        /\ armed' \subseteq Wakers
    BY <1>22, <2>1, RunnerWakes DEF RunnerPushWake
  <2> QED BY <1>22, <2>2 DEF RunnerPushWake, Wait
<1>23. CASE RunnerLeaseWake
  <2> DEFINE p == "idle"
  <2>1. p \in RunnerPcs
    BY <1>23 DEF RunnerLeaseWake
  <2>2. runner' \in RunnerType /\ runner'.pc = p
        /\ client' \in ClientType /\ client'.pc = client.pc
        /\ client'.op = client.op /\ client'.e = client.e
        /\ armed' \subseteq Wakers
    BY <1>23, <2>1, RunnerWakes DEF RunnerLeaseWake
  <2> QED BY <1>23, <2>2 DEF RunnerLeaseWake
<1>24. CASE RunnerWakeSpace
  <2> DEFINE p == IF runner.pc = "takeSpace" THEN NoLease ELSE "idle"
  <2>1. p \in RunnerPcs
    BY <1>24 DEF RunnerWakeSpace, NoLease
  <2>2. runner' \in RunnerType /\ runner'.pc = p
        /\ client' \in ClientType /\ client'.pc = client.pc
        /\ client'.op = client.op /\ client'.e = client.e
        /\ armed' \subseteq Wakers
    BY <1>24, <2>1, RunnerWakes DEF RunnerWakeSpace
  <2> QED BY <1>24, <2>2 DEF RunnerWakeSpace, NoLease
<1> QED
  BY <1>1, <1>2, <1>3, <1>4, <1>5, <1>6, <1>7, <1>8, <1>9, <1>10, <1>11,
     <1>12, <1>13, <1>14, <1>15, <1>16, <1>17, <1>18, <1>19, <1>20,
     <1>21, <1>22, <1>23, <1>24 DEF RunnerSteps

(* Every step of a link change keeps the invariant. *)
LEMMA LinkKeeps ==
  ASSUME IInv, LinkChange \/ LinkSteps PROVE IInv'
<1> USE DEF IInv, TypeOK, ClientPcOp, LinkBound, RxOwnership, TxOwnership,
        RxFresh, TxFresh, UsesTx, ClientHoldsRx, ClientDropsRx, RunnerHoldsRx,
        LinkHoldsRx, RunnerHoldsTx, LinkHoldsTx,
        LinkPcs, Slot, SlotStates
<1>1. CASE LinkChange
  BY <1>1, QueueAssumption DEF LinkChange
<1>2. CASE LinkBump
  <2>1. epoch' \in Epochs
    BY <1>2, QueueAssumption DEF LinkBump, Epochs
  <2> QED BY <1>2, <2>1 DEF LinkBump
<1>3. CASE LinkRxDiscard
  BY <1>3 DEF LinkRxDiscard, SetRx
<1>4. CASE LinkRxFree
  <2>1. rx' \in Slot /\ rx'.state = "FREE"
    BY <1>4, RxFreed DEF LinkRxFree
  <2> QED BY <1>4, <2>1 DEF LinkRxFree
<1>5. CASE LinkTxDiscard
  BY <1>5 DEF LinkTxDiscard, SetTx
<1>6. CASE LinkTxFree
  <2>1. tx' \in Slot /\ tx'.state = "FREE"
    BY <1>6, TxFreed DEF LinkTxFree
  <2> QED BY <1>6, <2>1 DEF LinkTxFree
<1>7. CASE LinkWake
  BY <1>7, WakeMoves DEF LinkWake
<1> QED BY <1>1, <1>2, <1>3, <1>4, <1>5, <1>6, <1>7 DEF LinkSteps

-----------------------------------------------------------------------------
(* The queue starts empty, its processes idle (NetworkState::new). *)
LEMMA InitInv == Init => IInv
<1> SUFFICES ASSUME Init PROVE IInv
  OBVIOUS
<1>1. TypeOK
  BY Zero DEF Init, TypeOK, Slot, SlotStates, ClientType, ClientPcs, Ops,
     RunnerType, RunnerPcs, LinkPcs
<1> QED
  BY <1>1 DEF Init, IInv, ClientPcOp, LinkBound, RxOwnership, TxOwnership,
     RxFresh, TxFresh, UsesTx, ClientHoldsRx, ClientDropsRx, RunnerHoldsRx,
     LinkHoldsRx, RunnerHoldsTx, LinkHoldsTx

(* A step that changes nothing keeps the invariant. *)
LEMMA StutterKeeps == ASSUME IInv, UNCHANGED vars PROVE IInv'
  BY DEF vars, queue, IInv, TypeOK, ClientPcOp, LinkBound, RxOwnership, TxOwnership,
     RxFresh, TxFresh, UsesTx, ClientHoldsRx, ClientDropsRx, RunnerHoldsRx,
     LinkHoldsRx, RunnerHoldsTx, LinkHoldsTx

(* The invariant is inductive: it holds of every reachable state of the    *)
(* queue, over every interleaving of client, runner and link.              *)
THEOREM Invariance == Spec => []IInv
<1>1. IInv /\ [Next]_vars => IInv'
  BY ClientKeeps, RunnerKeeps, LinkKeeps, StutterKeeps DEF Next
<1> QED BY InitInv, <1>1, PTL DEF Spec

(* The state of embassy.rs's NetworkState, of its tokens and of its leases *)
(* has its type.                                                           *)
THEOREM TypeCorrect == Spec => []TypeOK
<1>1. IInv => TypeOK
  BY DEF IInv
<1> QED BY Invariance, <1>1, PTL

(* "Every mutable buffer access is guarded by one atomic ownership state": *)
(* a slot never has two owners, and its state says who the owner is.       *)
THEOREM ExclusiveSlots == Spec => []Ownership
<1>1. IInv => Ownership
  BY DEF IInv, Ownership
<1> QED BY Invariance, <1>1, PTL

(* What RxToken::consume and TxLease::as_slice hand out was written for    *)
(* the connection they are used in, however often the link has changed.    *)
THEOREM FreshFrames == Spec => []NoStaleFrame
<1>1. IInv => NoStaleFrame
  BY DEF IInv, NoStaleFrame, RxFresh, TxFresh, RxOwnership, TxOwnership,
     ClientPcOp, ClientHoldsRx, UsesTx, RxValid, LeaseIsCurrent
<1> QED BY Invariance, <1>1, PTL

-----------------------------------------------------------------------------
(* No wake is lost *)

(* A client that has registered its wakers still has them registered, or   *)
(* is to run again.                                                        *)
ClientArmed ==
  /\ client.pc = "idle" => ~client.again
  /\ client.pc = "parked" /\ client.op # "link_state" => client.again
  /\ client.again /\ ~client.woken =>
       /\ "link" \in armed /\ "space" \in armed
       /\ client.op = "receive" => "rx" \in armed
  /\ \/ client.pc = "linkRecheck"
     \/ client.pc = "parked" /\ client.op = "link_state"
     => client.woken \/ "link" \in armed

(* Only link_state takes these steps. *)
LinkOp == client.pc \in {"linkRegister", "linkRecheck"} => client.op = "link_state"

(* So has a runner, from its registration to its sleep. *)
Waits ==
  \/ runner.pc \in {"repoll", "parked"}
  \/ /\ ~polling
     /\ runner.pc \in {"take", "takeStale", "takeDiscard", "takeClaim",
                       "takeConfirm", "takeFree", "takeSpace"}
RunnerArmed ==
  /\ Waits => runner.woken \/ "ready" \in armed
  /\ runner.pc = "poll" => polling

(* The frame a runner has just published is of its epoch. *)
PushedEpoch ==
  runner.pc \in {"pushConfirm", "pushWake", "pushDiscard"} => rx.epoch = runner.e

(* From its failed second attempt on, a client would not succeed, or a     *)
(* wake is on its way; a runner from its second look on.                   *)
GivenUp == client.pc = "parked" \/ (client.pc = "failed" /\ client.again)
RxWatched ==
  /\ GivenUp /\ client.op = "receive" /\ ~client.woken
  /\ up /\ rx.state = "READY" /\ rx.epoch = epoch /\ tx.state = "FREE"
  => WakeForClient \/ runner.pc \in {"pushConfirm", "pushWake"}
SpaceWatched ==
  /\ GivenUp /\ client.op = "transmit" /\ ~client.woken
  /\ up /\ tx.state = "FREE"
  => WakeForClient
TxWatched ==
  Waits /\ runner.pc # "repoll" /\ ~runner.woken /\ TxIsReady =>
    client.pc = "txWake" \/ link # "idle"

WInv == /\ ClientArmed /\ LinkOp /\ RunnerArmed /\ PushedEpoch
        /\ LinkChangeNotMissed /\ RxWatched /\ SpaceWatched /\ TxWatched

(* What a process keeps of its record when it moves *)
LEMMA ClientFields ==
  ASSUME client \in ClientType, NEW p \in ClientPcs, client' = ClientAt(p)
  PROVE  /\ client'.pc = p /\ client'.op = client.op
         /\ client'.again = (p # "idle" /\ client.again)
         /\ client'.saw = client.saw /\ client'.woken = client.woken
  BY DEF ClientAt, ClientType

(* The same for the runner *)
LEMMA RunnerFields ==
  ASSUME runner \in RunnerType, NEW p \in RunnerPcs, runner' = RunnerAt(p)
  PROVE  runner'.pc = p /\ runner'.woken = runner.woken
  BY DEF RunnerAt, RunnerType

(* A step of the client that wakes no one and registers nothing: it gives  *)
(* up only after an attempt that failed, and publishes only to wake next.  *)
ClientQuiet ==
  /\ UNCHANGED <<up, epoch, link, runner, armed, polling>>
  /\ client.pc \notin {"txWake", "parked"}
  /\ client'.pc \notin {"linkRegister", "linkRecheck"}
  /\ client'.woken <=> client.woken
  /\ client'.again => client.again /\ client'.pc # "idle"
  /\ client'.op = client.op \/ (client'.op = "transmit" /\ client'.pc = "txFree")
  /\ client'.pc = "parked" =>
       client.pc = "failed" /\ client.again /\ client'.again /\ rx' = rx /\ tx' = tx
  /\ client'.pc = "failed" =>
       \/ ~up
       \/ client.op = "receive" /\ rx'.state # "READY"
       \/ client.op = "transmit" /\ tx'.state # "FREE"
  /\ rx'.epoch = rx.epoch
  /\ tx'.state = "READY" =>
       (tx.state = "READY" /\ tx'.epoch = tx.epoch) \/ client'.pc = "txWake"

(* Such a step loses no wake. *)
LEMMA QuietClientWatched == ASSUME IInv, WInv, ClientQuiet PROVE WInv'
<1> USE DEF ClientQuiet
<1>1. ClientArmed' /\ LinkOp' BY DEF LinkOp, IInv, ClientPcOp, WInv, ClientArmed
<1>2. RunnerArmed' BY DEF WInv, RunnerArmed, Waits
<1>3. PushedEpoch' BY DEF WInv, PushedEpoch
<1>4. LinkChangeNotMissed' BY DEF IInv, ClientPcOp, LinkChangeNotMissed
<1>5. RxWatched' BY DEF WInv, RxWatched, GivenUp, WakeForClient
<1>6. SpaceWatched' BY DEF WInv, SpaceWatched, GivenUp, WakeForClient
<1>7. TxWatched' BY DEF WInv, TxWatched, Waits, TxIsReady
<1> QED BY <1>1, <1>2, <1>3, <1>4, <1>5, <1>6, <1>7 DEF WInv

(* Most steps of the client are such steps. *)
LEMMA ClientIsQuiet ==
  ASSUME IInv, WInv, UNCHANGED polling,
         \/ ClientTry \/ ClientClaimStale \/ ClientDiscard \/ ClientClaim
         \/ ClientClaimConfirm \/ ClientReleaseRx \/ ClientReserve \/ ClientReserveConfirm
         \/ ClientFreeTx \/ ClientRestoreCheck \/ ClientRestore \/ ClientRxToken
         \/ ClientRxEnd \/ ClientTxToken \/ ClientTxCheck \/ ClientTxPublish
         \/ (ClientFailed /\ client.again)
  PROVE  ClientQuiet
<1> USE DEF ClientGo, ClientPcs
<1>0. client \in ClientType /\ rx \in Slot /\ tx \in Slot BY DEF IInv, TypeOK
<1>1. CASE ClientTry
  <2>1. CASE up
    <3>1. client' = [client EXCEPT !.e = epoch,
         !.pc = IF client.op = "receive" THEN "claimStale"
                                                       ELSE "reserve"]
      BY <1>1, <2>1 DEF ClientTry
    <3>2. /\ client'.op = client.op /\ client'.again = client.again
          /\ client'.woken = client.woken /\ client'.pc \in {"claimStale", "reserve"}
      BY <1>0, <3>1 DEF ClientType
    <3> QED BY <1>1, <3>2 DEF ClientTry, ClientQuiet
  <2>2. CASE ~up BY <1>0, <1>1, <2>2, ClientFields DEF ClientTry, ClientQuiet
  <2> QED BY <2>1, <2>2
<1>2. CASE ClientClaimStale \/ ClientClaimConfirm \/ ClientRestoreCheck
  BY <1>0, <1>2, ClientFields DEF ClientClaimStale, ClientClaimConfirm, ClientRestoreCheck,
       ClientQuiet
<1>3. CASE ClientDiscard \/ ClientClaim \/ ClientRestore
  <2>1. rx'.epoch = rx.epoch
    BY <1>0, <1>3 DEF ClientDiscard, ClientClaim, ClientRestore, SetRx, Slot
  <2> QED BY <1>0, <1>3, <2>1, ClientFields
      DEF ClientDiscard, ClientClaim, ClientRestore, ClientQuiet,
       IInv, ClientPcOp
<1>4. CASE ClientReleaseRx \/ ClientRxEnd
  <2>1. rx'.epoch = rx.epoch /\ rx'.state = "FREE"
    BY <1>0, <1>4 DEF ClientReleaseRx, ClientRxEnd, FreeRx, Slot
  <2> QED BY <1>0, <1>4, <2>1, ClientFields
      DEF ClientReleaseRx, ClientRxEnd, ClientQuiet, IInv, ClientPcOp
<1>5. CASE ClientReserve
  <2>1. CASE tx.state = "FREE"
    <3>1. tx'.state = "CLIENT" BY <1>0, <1>5, <2>1 DEF ClientReserve, Slot
    <3> QED BY <1>0, <1>5, <2>1, <3>1, ClientFields DEF ClientReserve, ClientQuiet
  <2>2. CASE tx.state # "FREE"
    <3>1. client.op # "link_state" BY <1>5 DEF ClientReserve, IInv, ClientPcOp
    <3>2. client.op = "receive" \/ client.op = "transmit" BY <1>0, <3>1 DEF ClientType, Ops
    <3> QED BY <1>0, <1>5, <2>2, <3>2, ClientFields DEF ClientReserve, NotReserved, ClientQuiet
  <2> QED BY <2>1, <2>2
<1>6. CASE ClientReserveConfirm \/ ClientTxCheck
  BY <1>0, <1>6, ClientFields DEF ClientReserveConfirm, ClientTxCheck, Reserved, ClientQuiet
<1>7. CASE ClientFreeTx
  <2>1. tx'.state = "FREE" BY <1>0, <1>7 DEF ClientFreeTx, FreeTx, Slot
  <2> QED BY <1>0, <1>7, <2>1, ClientFields DEF ClientFreeTx, ClientQuiet
<1>8. CASE ClientRxToken
  <2>1. CASE rx' = rx /\ ClientGo("txToken")
    BY <1>0, <1>8, <2>1, ClientFields DEF ClientRxToken, ClientQuiet
  <2>2. CASE FreeRx /\ client' = [client EXCEPT !.pc = "txFree", !.op = "transmit"]
    <3>1. rx'.epoch = rx.epoch BY <1>0, <2>2 DEF FreeRx, Slot
    <3>2. /\ client'.op = "transmit" /\ client'.again = client.again
          /\ client'.woken = client.woken /\ client'.pc = "txFree"
      BY <1>0, <2>2 DEF ClientType
    <3> QED BY <1>8, <3>1, <3>2 DEF ClientRxToken, ClientQuiet
  <2> QED BY <1>8, <2>1, <2>2 DEF ClientRxToken
<1>9. CASE ClientTxToken
  <2>1. tx'.state = tx.state /\ tx'.epoch = tx.epoch BY <1>0, <1>9 DEF ClientTxToken, Slot
  <2> QED BY <1>0, <1>9, <2>1, ClientFields DEF ClientTxToken, ClientQuiet
<1>10. CASE ClientTxPublish
  BY <1>0, <1>10, ClientFields DEF ClientTxPublish, ClientQuiet
<1>11. CASE ClientFailed /\ client.again
  BY <1>0, <1>11, ClientFields DEF ClientFailed, ClientQuiet
<1> QED BY <1>1, <1>2, <1>3, <1>4, <1>5, <1>6, <1>7, <1>8, <1>9, <1>10, <1>11

(* What a wake does: it empties the wakers and marks their tasks *)
LEMMA WakeFields ==
  ASSUME NEW c \in ClientType, NEW r \in RunnerType, NEW ws, WakeWith(ws, c, r)
  PROVE  /\ client'.pc = c.pc /\ client'.op = c.op /\ client'.saw = c.saw
         /\ client'.again = c.again
         /\ client'.woken <=> c.woken \/ \E w \in ws \cap armed : w # "ready"
         /\ runner'.pc = r.pc /\ runner'.e = r.e
         /\ runner'.woken <=> r.woken \/ ("ready" \in ws /\ "ready" \in armed)
         /\ \A w : w \in armed' <=> w \in armed /\ w \notin ws
<1>1. client' = [c EXCEPT !.woken = c.woken \/ (ws \cap armed) \ {"ready"} # {}]
  BY DEF WakeWith
<1>2. runner' = [r EXCEPT !.woken = r.woken \/ "ready" \in ws \cap armed]
  BY DEF WakeWith
<1>3. /\ client'.pc = c.pc /\ client'.op = c.op /\ client'.saw = c.saw
      /\ client'.again = c.again
      /\ client'.woken = (c.woken \/ (ws \cap armed) \ {"ready"} # {})
  BY <1>1 DEF ClientType
<1>4. /\ runner'.pc = r.pc /\ runner'.e = r.e
      /\ runner'.woken = (r.woken \/ "ready" \in ws \cap armed)
  BY <1>2 DEF RunnerType
<1>5. (ws \cap armed) \ {"ready"} # {} <=> \E w \in ws \cap armed : w # "ready"
  BY Zenon
<1>6. client'.woken <=> c.woken \/ \E w \in ws \cap armed : w # "ready"
  BY <1>3, <1>5, Zenon
<1>7. runner'.woken <=> r.woken \/ ("ready" \in ws /\ "ready" \in armed)
  BY <1>4, Zenon
<1>8. \A w : w \in armed' <=> w \in armed /\ w \notin ws
  BY DEF WakeWith
<1> QED BY <1>3, <1>4, <1>6, <1>7, <1>8

(* A wake of the client by itself: what it was registered for rouses it. *)
LEMMA ClientWakeWatched ==
  ASSUME IInv, WInv, UNCHANGED polling, ClientWakeSpace \/ ClientRestoreWake \/ ClientTxWake
  PROVE  WInv'
<1>0. client \in ClientType /\ runner \in RunnerType BY DEF IInv, TypeOK
<1>1. PICK p \in ClientPcs, ws \in {{"space"}, {"rx"}, {"ready"}} :
        /\ WakeWith(ws, ClientAt(p), runner)
        /\ p \notin {"parked", "linkRegister", "linkRecheck"}
        /\ p = "failed" => \/ ws = {"rx"} /\ client.op = "receive"
                           \/ ws = {"space"} /\ client.op = "transmit"
        /\ client.pc = "txWake" => ws = {"ready"}
        /\ UNCHANGED <<up, epoch, rx, tx, link>>
  <2>1. CASE ClientWakeSpace
    <3>1. client.op \in {"receive", "transmit"}
      BY <1>0, <2>1 DEF ClientWakeSpace, IInv, ClientPcOp, ClientType, Ops
    <3> DEFINE p == IF client.pc = "txSpace" THEN AfterTx ELSE NotReserved
    <3>2. /\ p \in ClientPcs /\ p \notin {"parked", "linkRegister", "linkRecheck"}
          /\ p = "failed" => client.op = "transmit"
      BY <3>1 DEF AfterTx, NotReserved, ClientPcs
    <3>3. WakeWith({"space"}, ClientAt(p), runner) /\ client.pc # "txWake"
          /\ UNCHANGED <<up, epoch, rx, tx, link>>
      BY <2>1 DEF ClientWakeSpace
    <3> HIDE DEF p
    <3> QED BY <3>2, <3>3
  <2>2. CASE ClientRestoreWake
    <3>1. client.op = "receive" BY <2>2 DEF ClientRestoreWake, IInv, ClientPcOp
    <3> QED BY <2>2, <3>1 DEF ClientRestoreWake, ClientPcs
  <2>3. CASE ClientTxWake
    <3>1. AfterTx \in {"rxEnd", "idle"} BY DEF AfterTx
    <3> QED BY <2>3, <3>1 DEF ClientTxWake, ClientPcs
  <2> QED BY <2>1, <2>2, <2>3
<1>2. /\ ClientAt(p) \in ClientType /\ ClientAt(p).pc = p /\ ClientAt(p).op = client.op
      /\ ClientAt(p).again = (p # "idle" /\ client.again)
      /\ ClientAt(p).woken = client.woken
  <2>1. ClientAt(p) \in ClientType BY <1>0, ClientMoves
  <2> QED BY <1>0, <2>1 DEF ClientAt, ClientType
<1>3. /\ client'.pc = p /\ client'.op = client.op
      /\ client'.again = (p # "idle" /\ client.again)
      /\ client'.woken <=> client.woken \/ \E w \in ws \cap armed : w # "ready"
      /\ runner'.pc = runner.pc /\ runner'.e = runner.e
      /\ runner'.woken <=> runner.woken \/ ("ready" \in ws /\ "ready" \in armed)
      /\ \A w : w \in armed' <=> w \in armed /\ w \notin ws
  BY <1>0, <1>1, <1>2, WakeFields
<1> USE <1>1, <1>3
<1>4. ClientArmed' /\ LinkOp' BY DEF WInv, ClientArmed, LinkOp
<1>5. RunnerArmed' BY DEF WInv, RunnerArmed, Waits
<1>6. PushedEpoch' BY DEF WInv, PushedEpoch
<1>7. LinkChangeNotMissed' BY DEF LinkChangeNotMissed
<1>8. RxWatched' /\ SpaceWatched' BY DEF WInv, ClientArmed, RxWatched, SpaceWatched,
     GivenUp, LinkOp
<1>9. TxWatched' BY DEF WInv, RunnerArmed, TxWatched, Waits, TxIsReady
<1> QED BY <1>4, <1>5, <1>6, <1>7, <1>8, <1>9 DEF WInv

(* The steps of the client that register, read the link or start anew *)
LEMMA ClientRegisterWatched ==
  ASSUME IInv, WInv, UNCHANGED polling,
         \/ ClientStart \/ ClientLinkRegister \/ ClientLinkRecheck \/ ClientWoken
         \/ (ClientFailed /\ ~client.again)
  PROVE  WInv'
<1>0. client \in ClientType /\ up \in BOOLEAN BY DEF IInv, TypeOK
<1>1. UNCHANGED <<up, epoch, rx, tx, runner, link>> /\ armed \subseteq armed'
      /\ client.pc # "txWake"
  BY DEF ClientStart, ClientLinkRegister, ClientLinkRecheck, ClientWoken, ClientFailed
<1>2. RunnerArmed' BY <1>1 DEF WInv, RunnerArmed, Waits
<1>3. PushedEpoch' BY <1>1 DEF WInv, PushedEpoch
<1>4. TxWatched' BY <1>1 DEF WInv, TxWatched, Waits, TxIsReady
<1>5. ClientArmed' /\ LinkOp' /\ LinkChangeNotMissed' /\ RxWatched' /\ SpaceWatched'
  <2>1. CASE ClientStart
    <3>1. /\ client'.pc = "try" \/ (client'.pc = "linkRegister" /\ client'.op = "link_state")
          /\ client'.again = client.again
          /\ client.pc = "idle"
      BY <1>0, <2>1 DEF ClientStart, ClientType
    <3> QED BY <3>1 DEF WInv, ClientArmed, LinkChangeNotMissed, RxWatched, SpaceWatched,
         GivenUp, LinkOp
  <2>2. CASE ClientLinkRegister
    <3>1. /\ client'.pc = "linkRecheck" /\ client'.op = client.op
          /\ (client'.again => client.again) /\ client'.woken = client.woken
          /\ armed' = armed \cup {"link"} /\ client.pc = "linkRegister"
      BY <1>0, <2>2, ClientFields DEF ClientLinkRegister, ClientGo, ClientPcs
    <3> QED BY <3>1 DEF WInv, ClientArmed, LinkChangeNotMissed, RxWatched, SpaceWatched,
         GivenUp, LinkOp
  <2>3. CASE ClientLinkRecheck
    <3>1. client.op = "link_state"
      BY <2>3 DEF ClientLinkRecheck, WInv, LinkOp
    <3>2. /\ client'.pc = "parked" /\ client'.op = client.op /\ client'.saw = up
          /\ client'.again = client.again /\ client'.woken = (client.woken \/ client.saw # up)
          /\ armed' = armed
      BY <1>0, <2>3 DEF ClientLinkRecheck, ClientType
    <3>3. client.woken => client'.woken BY <3>2, Zenon
    <3> QED BY <1>1, <2>3, <3>1, <3>2, <3>3 DEF WInv, ClientArmed, LinkChangeNotMissed,
         RxWatched, SpaceWatched, ClientLinkRecheck, LinkOp
  <2>4. CASE ClientWoken
    <3>1. ClientAt("idle") \in ClientType /\ ClientAt("idle").pc = "idle"
          /\ ClientAt("idle").again = FALSE
      <4>1. ClientAt("idle") \in ClientType BY <1>0, ClientMoves DEF ClientPcs
      <4> QED BY <1>0, <4>1 DEF ClientAt, ClientType
    <3>2. client'.pc = "idle" /\ client'.again = FALSE
      BY <2>4, <3>1 DEF ClientWoken, ClientType
    <3> QED BY <3>2 DEF WInv, ClientArmed, LinkChangeNotMissed, RxWatched, SpaceWatched,
         GivenUp, LinkOp
  <2>5. CASE ClientFailed /\ ~client.again
    <3>1. /\ client'.pc = "try" /\ client'.op = client.op
          /\ "link" \in armed' /\ "space" \in armed' /\ (client.op = "receive" => "rx" \in armed')
      BY <1>0, <2>5 DEF ClientFailed, ClientType
    <3> QED BY <3>1 DEF WInv, ClientArmed, LinkChangeNotMissed, RxWatched, SpaceWatched,
         GivenUp, LinkOp
  <2> QED BY <2>1, <2>2, <2>3, <2>4, <2>5
<1> QED BY <1>2, <1>3, <1>4, <1>5 DEF WInv

(* A step of the runner that wakes no one and registers nothing *)
RunnerQuiet ==
  /\ UNCHANGED <<up, epoch, link, client, armed, polling>>
  /\ runner.pc \notin {"takeSpace", "leaseSpace", "pushWake"}
  /\ runner'.woken <=> runner.woken
  /\ runner'.pc = "poll" => polling
  /\ runner'.pc \in {"pushConfirm", "pushWake", "pushDiscard"} => rx'.epoch = runner'.e
  /\ Waits' => /\ Waits
               /\ runner'.pc # "repoll"
               /\ runner.pc = "repoll" => ~TxIsReady'
  /\ runner.pc = "pushConfirm" => runner'.pc = "pushWake" \/ ~up \/ rx'.epoch # epoch
  /\ rx'.state = "READY" =>
       (rx.state = "READY" /\ rx'.epoch = rx.epoch) \/ runner'.pc = "pushConfirm"
  /\ tx'.state = "FREE" => tx.state = "FREE" \/ runner'.pc \in {"takeSpace", "leaseSpace"}
  /\ tx'.state = "READY" =>
       (tx.state = "READY" /\ tx'.epoch = tx.epoch) \/ runner'.pc = "leaseWake"

(* Such a step loses no wake. *)
LEMMA QuietRunnerWatched == ASSUME IInv, WInv, RunnerQuiet PROVE WInv'
<1> USE DEF RunnerQuiet
<1>1. ClientArmed' /\ LinkOp' /\ LinkChangeNotMissed'
  BY DEF WInv, ClientArmed, LinkOp, LinkChangeNotMissed
<1>2. RunnerArmed' BY DEF WInv, RunnerArmed
<1>3. PushedEpoch' BY DEF PushedEpoch
<1>4. RxWatched' BY DEF WInv, RxWatched, GivenUp, WakeForClient
<1>5. SpaceWatched' BY DEF WInv, SpaceWatched, GivenUp, WakeForClient
<1>6. TxWatched'
  <2>1. runner'.pc = "leaseWake" => ~Waits' BY DEF Waits
  <2> QED BY <2>1 DEF WInv, TxWatched, TxIsReady
<1> QED BY <1>1, <1>2, <1>3, <1>4, <1>5, <1>6 DEF WInv

(* Most steps of the runner are such steps. *)
LEMMA RunnerIsQuiet ==
  ASSUME IInv, WInv, UNCHANGED polling,
         \/ RunnerFrame \/ RunnerPush \/ RunnerPushClaim \/ RunnerPushCheck
         \/ RunnerPushPublish \/ RunnerPushConfirm \/ RunnerPushDiscard \/ RunnerPushFree
         \/ RunnerPoll \/ RunnerTake \/ RunnerTakeStale \/ RunnerTakeDiscard
         \/ RunnerTakeClaim \/ RunnerTakeConfirm \/ RunnerLease \/ RunnerLeaseCheck
         \/ RunnerLeaseReturn \/ RunnerFreeTx
  PROVE  RunnerQuiet
<1> USE DEF RunnerGo, RunnerPcs, Waits
<1>0. runner \in RunnerType /\ rx \in Slot /\ tx \in Slot BY DEF IInv, TypeOK
<1>1. CASE RunnerFrame \/ RunnerPoll \/ RunnerLease \/ RunnerPushCheck \/ RunnerLeaseCheck
           \/ RunnerTakeStale \/ RunnerTakeConfirm
  <2>1. CASE RunnerFrame BY <1>0, <2>1, RunnerFields DEF RunnerFrame, RunnerQuiet
  <2>2. CASE RunnerPoll
    <3>1. runner'.pc \in {"take", "register"} /\ runner'.woken = runner.woken
      BY <1>0, <2>2, RunnerFields DEF RunnerPoll
    <3> QED BY <2>2, <3>1 DEF RunnerPoll, RunnerQuiet, WInv, RunnerArmed
  <2>3. CASE RunnerLease
    <3>1. runner'.pc \in {"leaseFree", "leaseCheck"} /\ runner'.woken = runner.woken
      BY <1>0, <2>3, RunnerFields DEF RunnerLease
    <3> QED BY <2>3, <3>1 DEF RunnerLease, RunnerQuiet
  <2>4. CASE RunnerPushCheck BY <1>0, <2>4, RunnerFields DEF RunnerPushCheck, RunnerQuiet
  <2>5. CASE RunnerLeaseCheck BY <1>0, <2>5, RunnerFields DEF RunnerLeaseCheck, RunnerQuiet
  <2>6. CASE RunnerTakeStale BY <1>0, <2>6, RunnerFields DEF RunnerTakeStale, RunnerQuiet
  <2>7. CASE RunnerTakeConfirm BY <1>0, <2>7, RunnerFields DEF RunnerTakeConfirm, RunnerQuiet
  <2> QED BY <1>1, <2>1, <2>2, <2>3, <2>4, <2>5, <2>6, <2>7
<1>2. CASE RunnerPush
  <2>1. CASE up
    <3>1. runner'.pc = "pushClaim" /\ runner'.woken = runner.woken
      BY <1>0, <1>2, <2>1 DEF RunnerPush, RunnerType
    <3> QED BY <1>2, <3>1 DEF RunnerPush, RunnerQuiet
  <2>2. CASE ~up
    <3>1. runner'.pc = Wait /\ runner'.woken = runner.woken
      BY <1>0, <1>2, <2>2, RunnerFields DEF RunnerPush, Wait
    <3> QED BY <1>2, <3>1 DEF RunnerPush, RunnerQuiet, Wait
  <2> QED BY <2>1, <2>2
<1>3. CASE RunnerPushClaim \/ RunnerPushFree
  <2>1. rx'.epoch = rx.epoch /\ (rx'.state = "READY" => rx.state = "READY")
    BY <1>0, <1>3 DEF RunnerPushClaim, RunnerPushFree, SetRx, FreeRx, Slot
  <2>2. runner'.pc \in {"pushCheck", Wait} /\ runner'.woken = runner.woken
    BY <1>0, <1>3, RunnerFields DEF RunnerPushClaim, RunnerPushFree, Wait
  <2> QED BY <1>3, <2>1, <2>2 DEF RunnerPushClaim, RunnerPushFree, RunnerQuiet, Wait
<1>4. CASE RunnerPushPublish
  <2>1. runner'.pc = "pushConfirm" /\ runner'.woken = runner.woken /\ runner'.e = runner.e
    BY <1>0, <1>4, RunnerFields, RunnerMoves DEF RunnerPushPublish
  <2>2. rx'.epoch = runner.e BY <1>4 DEF RunnerPushPublish
  <2> QED BY <1>4, <2>1, <2>2 DEF RunnerPushPublish, RunnerQuiet
<1>5. CASE RunnerPushConfirm
  <2>1. rx.epoch = runner.e BY <1>5 DEF RunnerPushConfirm, WInv, PushedEpoch
  <2>2. /\ runner'.pc = (IF EpochIsActive(runner.e) THEN "pushWake" ELSE "pushDiscard")
        /\ runner'.woken = runner.woken /\ runner'.e = runner.e
    BY <1>0, <1>5, RunnerFields, RunnerMoves DEF RunnerPushConfirm
  <2> QED BY <1>5, <2>1, <2>2 DEF RunnerPushConfirm, RunnerQuiet, EpochIsActive
<1>6. CASE RunnerPushDiscard
  <2>1. rx'.epoch = rx.epoch /\ (rx'.state = "READY" => rx.state = "READY")
    BY <1>0, <1>6 DEF RunnerPushDiscard, SetRx, Slot
  <2>2. runner'.pc \in {"pushFree", Wait} /\ runner'.woken = runner.woken
    BY <1>0, <1>6, RunnerFields DEF RunnerPushDiscard, Wait
  <2> QED BY <1>6, <2>1, <2>2 DEF RunnerPushDiscard, RunnerQuiet, Wait
<1>7. CASE RunnerTake
  <2>1. CASE up
    <3>1. runner'.pc = "takeStale" /\ runner'.woken = runner.woken
      BY <1>0, <1>7, <2>1 DEF RunnerTake, RunnerType
    <3> QED BY <1>7, <3>1 DEF RunnerTake, RunnerQuiet
  <2>2. CASE ~up
    <3>1. runner'.pc = NoLease /\ runner'.woken = runner.woken
      BY <1>0, <1>7, <2>2, RunnerFields DEF RunnerTake, NoLease
    <3> QED BY <1>7, <3>1 DEF RunnerTake, RunnerQuiet, NoLease
  <2> QED BY <2>1, <2>2
<1>8. CASE RunnerTakeDiscard \/ RunnerTakeClaim
  <2>1. /\ tx'.epoch = tx.epoch /\ (tx'.state = "READY" => tx.state = "READY")
        /\ tx'.state = "FREE" => tx.state = "FREE"
    BY <1>0, <1>8 DEF RunnerTakeDiscard, RunnerTakeClaim, SetTx, Slot
  <2>2. runner'.pc \in {"takeFree", "takeConfirm", NoLease} /\ runner'.woken = runner.woken
    BY <1>0, <1>8, RunnerFields DEF RunnerTakeDiscard, RunnerTakeClaim, NoLease
  <2> QED BY <1>8, <2>1, <2>2 DEF RunnerTakeDiscard, RunnerTakeClaim, RunnerQuiet, NoLease
<1>9. CASE RunnerLeaseReturn
  <2>1. tx'.state = "READY" BY <1>0, <1>9 DEF RunnerLeaseReturn, SetTx, Slot
  <2> QED BY <1>0, <1>9, <2>1, RunnerFields DEF RunnerLeaseReturn, RunnerQuiet
<1>10. CASE RunnerFreeTx
  <2>1. tx'.state = "FREE" BY <1>0, <1>10 DEF RunnerFreeTx, FreeTx, Slot
  <2> QED BY <1>0, <1>10, <2>1, RunnerFields DEF RunnerFreeTx, RunnerQuiet
<1> QED BY <1>1, <1>2, <1>3, <1>4, <1>5, <1>6, <1>7, <1>8, <1>9, <1>10

(* A wake by the runner *)
LEMMA RunnerWakeWatched ==
  ASSUME IInv, WInv, UNCHANGED polling, RunnerPushWake \/ RunnerLeaseWake \/ RunnerWakeSpace
  PROVE  WInv'
<1>0. client \in ClientType /\ runner \in RunnerType BY DEF IInv, TypeOK
<1>1. PICK p \in RunnerPcs, ws \in {{"space"}, {"rx"}, {"ready"}} :
        /\ WakeWith(ws, client, RunnerAt(p))
        /\ p = "poll" => polling
        /\ p \in {"idle", "poll", "register"} \/ (p = "parked" /\ Waits /\ runner.pc # "repoll")
        /\ p = "parked" => ws = {"space"}
        /\ runner.pc = "pushWake" => ws = {"rx"}
        /\ runner.pc \in {"takeSpace", "leaseSpace"} => ws = {"space"}
        /\ runner.pc # "pushConfirm"
        /\ UNCHANGED <<up, epoch, rx, tx, link>>
  <2>1. CASE RunnerPushWake
    <3>1. Wait \in {"poll", "register"} /\ (Wait = "poll" => polling) BY DEF Wait
    <3> QED BY <2>1, <3>1 DEF RunnerPushWake, RunnerPcs
  <2>2. CASE RunnerLeaseWake BY <2>2 DEF RunnerLeaseWake, RunnerPcs
  <2>3. CASE RunnerWakeSpace
    <3> DEFINE p == IF runner.pc = "takeSpace" THEN NoLease ELSE "idle"
    <3>1. /\ p \in RunnerPcs /\ p \in {"idle", "parked"}
          /\ p = "parked" => Waits /\ runner.pc # "repoll"
      BY DEF NoLease, Waits, RunnerPcs
    <3>2. WakeWith({"space"}, client, RunnerAt(p)) /\ runner.pc \in {"takeSpace", "leaseSpace"}
          /\ UNCHANGED <<up, epoch, rx, tx, link>>
      BY <2>3 DEF RunnerWakeSpace
    <3> HIDE DEF p
    <3> QED BY <3>1, <3>2
  <2> QED BY <2>1, <2>2, <2>3
<1>2. RunnerAt(p) \in RunnerType /\ RunnerAt(p).pc = p /\ RunnerAt(p).woken = runner.woken
  <2>1. RunnerAt(p) \in RunnerType BY <1>0, RunnerMoves
  <2> QED BY <1>0, <2>1 DEF RunnerAt, RunnerType
<1>3. /\ client'.pc = client.pc /\ client'.op = client.op
      /\ client'.saw = client.saw /\ client'.again = client.again
      /\ client'.woken <=> client.woken \/ \E w \in ws \cap armed : w # "ready"
      /\ runner'.pc = p
      /\ runner'.woken <=> runner.woken \/ ("ready" \in ws /\ "ready" \in armed)
      /\ \A w : w \in armed' <=> w \in armed /\ w \notin ws
  BY <1>0, <1>1, <1>2, WakeFields
<1> USE <1>1, <1>3
<1>4. ClientArmed' /\ LinkOp' BY DEF WInv, ClientArmed, LinkOp
<1>5. RunnerArmed' BY DEF WInv, RunnerArmed, Waits
<1>6. PushedEpoch' BY DEF PushedEpoch
<1>7. LinkChangeNotMissed' BY DEF WInv, LinkChangeNotMissed
<1>8. RxWatched' BY DEF WInv, ClientArmed, RxWatched, GivenUp, WakeForClient, IInv, ClientPcOp
<1>9. SpaceWatched' BY DEF WInv, ClientArmed, SpaceWatched, GivenUp, WakeForClient, IInv,
     ClientPcOp
<1>10. TxWatched' BY DEF WInv, TxWatched, Waits, TxIsReady
<1> QED BY <1>4, <1>5, <1>6, <1>7, <1>8, <1>9, <1>10 DEF WInv

(* The steps of the runner that register, look again or start anew *)
LEMMA RunnerRegisterWatched ==
  ASSUME IInv, WInv, UNCHANGED polling, RunnerResume \/ RunnerRegister \/ RunnerRepoll
  PROVE  WInv'
<1> USE DEF RunnerPcs
<1>0. runner \in RunnerType BY DEF IInv, TypeOK
<1>1. UNCHANGED <<up, epoch, rx, tx, client, link>> /\ armed \subseteq armed'
  BY DEF RunnerResume, RunnerRegister, RunnerRepoll
<1>2. runner.pc \in {"idle", "parked", "register", "repoll"}
      /\ runner'.pc \in {"poll", "register", "repoll", "take", "parked"}
  <2>1. CASE RunnerResume
    <3>1. runner'.pc = Wait
      <4>1. Wait \in RunnerPcs BY DEF Wait
      <4>2. RunnerAt(Wait) \in RunnerType /\ RunnerAt(Wait).pc = Wait BY <1>0, <4>1, RunnerMoves
      <4> QED BY <2>1, <4>2 DEF RunnerResume, RunnerType
    <3> QED BY <2>1, <3>1 DEF RunnerResume, Wait
  <2>2. CASE RunnerRegister
    BY <1>0, <2>2, RunnerFields DEF RunnerRegister, RunnerGo
  <2>3. CASE RunnerRepoll
    BY <1>0, <2>3, RunnerFields DEF RunnerRepoll, RunnerGo, RunnerType
  <2> QED BY <2>1, <2>2, <2>3
<1>3. ClientArmed' /\ LinkOp' /\ LinkChangeNotMissed'
  BY <1>1 DEF WInv, ClientArmed, LinkOp, LinkChangeNotMissed
<1>4. PushedEpoch' BY <1>2 DEF PushedEpoch
<1>5. RxWatched' BY <1>1, <1>2 DEF WInv, RxWatched, GivenUp, WakeForClient
<1>6. SpaceWatched' BY <1>1, <1>2 DEF WInv, SpaceWatched, GivenUp, WakeForClient
<1>7. RunnerArmed' /\ TxWatched'
  <2>1. CASE RunnerResume
    <3>1. runner'.pc \in {"poll", "register"} /\ (runner'.pc = "poll" => polling)
      <4>1. Wait \in RunnerPcs BY DEF Wait
      <4>2. RunnerAt(Wait) \in RunnerType /\ RunnerAt(Wait).pc = Wait BY <1>0, <4>1, RunnerMoves
      <4> QED BY <2>1, <4>2 DEF RunnerResume, RunnerType, Wait
    <3> QED BY <3>1 DEF RunnerArmed, TxWatched, Waits
  <2>2. CASE RunnerRegister
    BY <1>0, <2>2, RunnerFields DEF RunnerRegister, RunnerGo, RunnerArmed, TxWatched, Waits
  <2>3. CASE RunnerRepoll /\ polling
    <3>1. /\ runner'.pc = (IF TxIsReady THEN "take" ELSE "parked")
          /\ runner'.woken = runner.woken /\ armed' = armed /\ runner.pc = "repoll"
      BY <1>0, <2>3, RunnerFields DEF RunnerRepoll, RunnerGo
    <3>2. TxIsReady' <=> TxIsReady BY <1>1 DEF TxIsReady
    <3>3. RunnerArmed' BY <2>3, <3>1 DEF WInv, RunnerArmed, Waits
    <3>4. TxWatched' BY <2>3, <3>1, <3>2 DEF TxWatched, Waits
    <3> QED BY <3>3, <3>4
  <2>4. CASE RunnerRepoll /\ ~polling
    <3>1. /\ runner'.pc = "take" /\ armed' = armed /\ runner.pc = "repoll"
          /\ runner'.woken = (runner.woken \/ TxIsReady)
      BY <1>0, <2>4 DEF RunnerRepoll, RunnerType
    <3>2. runner'.woken <=> runner.woken \/ TxIsReady BY <3>1, Zenon
    <3>3. TxIsReady' <=> TxIsReady BY <1>1 DEF TxIsReady
    <3>4. RunnerArmed' BY <2>4, <3>1, <3>2 DEF WInv, RunnerArmed, Waits
    <3>5. TxWatched' BY <2>4, <3>1, <3>2, <3>3 DEF TxWatched, Waits
    <3> QED BY <3>4, <3>5
  <2> QED BY <2>1, <2>2, <2>3, <2>4
<1> QED BY <1>3, <1>4, <1>5, <1>6, <1>7 DEF WInv

(* A change of the link ends with a wake of everyone. *)
LEMMA LinkWatched ==
  ASSUME IInv, WInv, UNCHANGED polling, LinkChange \/ LinkSteps
  PROVE  WInv'
<1>0. client \in ClientType /\ runner \in RunnerType /\ rx \in Slot BY DEF IInv, TypeOK
<1>1. CASE LinkWake
  <2>1. WakeWith(Wakers, client, runner) /\ UNCHANGED <<up, epoch, rx, tx>>
    BY <1>1 DEF LinkWake
  <2>2. /\ client'.pc = client.pc /\ client'.op = client.op
        /\ client'.saw = client.saw /\ client'.again = client.again
        /\ client'.woken <=> client.woken \/ \E w \in Wakers \cap armed : w # "ready"
        /\ runner'.pc = runner.pc /\ runner'.e = runner.e
        /\ runner'.woken <=> runner.woken \/ ("ready" \in Wakers /\ "ready" \in armed)
    BY <1>0, <2>1, WakeFields
  <2>3. client.woken \/ "link" \in armed => client'.woken BY <2>2 DEF Wakers
  <2>4. runner.woken \/ "ready" \in armed => runner'.woken BY <2>2 DEF Wakers
  <2> USE <2>1, <2>2, <2>3, <2>4
  <2>5. ClientArmed' /\ LinkOp' BY DEF WInv, ClientArmed, LinkOp
  <2>6. RunnerArmed' /\ TxWatched' BY DEF WInv, RunnerArmed, TxWatched, Waits
  <2>7. PushedEpoch' BY DEF WInv, PushedEpoch
  <2>8. LinkChangeNotMissed' BY DEF WInv, ClientArmed, LinkChangeNotMissed
  <2>9. RxWatched' /\ SpaceWatched'
    BY DEF WInv, ClientArmed, RxWatched, SpaceWatched, GivenUp
  <2> QED BY <2>5, <2>6, <2>7, <2>8, <2>9 DEF WInv
<1>2. CASE \/ LinkChange \/ LinkBump \/ LinkRxDiscard \/ LinkRxFree \/ LinkTxDiscard
           \/ LinkTxFree
  <2>1. link' # "idle" /\ UNCHANGED <<client, runner, armed>>
    BY <1>2 DEF LinkChange, LinkBump, LinkRxDiscard, LinkRxFree, LinkTxDiscard, LinkTxFree
  <2>2. rx'.epoch = rx.epoch
    BY <1>0, <1>2 DEF LinkChange, LinkBump, LinkRxDiscard, LinkRxFree, LinkTxDiscard,
       LinkTxFree, SetRx, FreeRx, Slot
  <2>3. ClientArmed' /\ LinkOp' BY <2>1 DEF WInv, ClientArmed, LinkOp
  <2>4. RunnerArmed' /\ TxWatched' BY <2>1 DEF WInv, RunnerArmed, TxWatched, Waits
  <2>5. PushedEpoch' BY <2>1, <2>2 DEF WInv, PushedEpoch
  <2>6. LinkChangeNotMissed' /\ RxWatched' /\ SpaceWatched'
    BY <2>1 DEF LinkChangeNotMissed, RxWatched, SpaceWatched, WakeForClient
  <2> QED BY <2>3, <2>4, <2>5, <2>6 DEF WInv
<1> QED BY <1>1, <1>2 DEF LinkSteps

(* No step of anyone loses a wake. *)
LEMMA NextWatched == ASSUME IInv, WInv, [Next]_vars PROVE WInv'
<1>1. CASE Client /\ UNCHANGED polling
  BY <1>1, ClientIsQuiet, QuietClientWatched, ClientWakeWatched, ClientRegisterWatched
     DEF Client
<1>2. CASE (RunnerFrame \/ RunnerSteps) /\ UNCHANGED polling
  BY <1>2, RunnerIsQuiet, QuietRunnerWatched, RunnerWakeWatched, RunnerRegisterWatched
     DEF RunnerSteps
<1>3. CASE (LinkChange \/ LinkSteps) /\ UNCHANGED polling BY <1>3, LinkWatched
<1>4. CASE UNCHANGED vars
  BY <1>4 DEF vars, queue, WInv, ClientArmed, LinkOp, RunnerArmed, Waits, PushedEpoch,
     LinkChangeNotMissed, RxWatched, SpaceWatched, TxWatched, GivenUp, WakeForClient, TxIsReady
<1> QED BY <1>1, <1>2, <1>3, <1>4 DEF Next

(* No wake is lost: a client or a runner that sleeps has nothing to do, or *)
(* a wake is on its way, whatever is published, freed or changed between   *)
(* its look and the registration of its waker.                             *)
THEOREM WakesArrive == Spec => []NoLostWake
<1>1. Init => WInv
  BY DEF Init, WInv, ClientArmed, LinkOp, RunnerArmed, Waits, PushedEpoch,
     LinkChangeNotMissed, RxWatched, SpaceWatched, TxWatched, GivenUp
<1>2. IInv /\ WInv /\ [Next]_vars => WInv' BY NextWatched
<1>3. WInv => NoLostWake
  BY DEF WInv, NoLostWake, RxNotMissed, SpaceNotMissed, TxNotMissed, RxWatched,
     SpaceWatched, TxWatched, GivenUp, Waits
<1> QED BY <1>1, <1>2, <1>3, Invariance, PTL DEF Spec
=============================================================================
