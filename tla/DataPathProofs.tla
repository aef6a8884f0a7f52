--------------------------- MODULE DataPathProofs ---------------------------
(***************************************************************************)
(* Theorems about DataPath, for any number of descriptors, tokens and      *)
(* failures.                                                               *)
(*                                                                         *)
(* Exclusive speaks of the operation in progress.  What makes it hold is   *)
(* the bookkeeping between operations: everything that is with the         *)
(* firmware, in an event or in the caller's hands is still marked in       *)
(* rx_posted or tx_in_flight (TxBooks, RxBooks), so no operation chooses   *)
(* it.  NothingLost is the converse, what is marked comes back, and it     *)
(* needs the wrapper's recovery policy (Balance).                          *)
(***************************************************************************)
EXTENDS DataPath, TLAPS

(* The operation's descriptor or token is one. *)
OwnIds ==
  /\ SendsToken => id \in Tokens
  /\ HoldsDescriptor => id \in Descriptors

TxBooks ==
  /\ fwTx \cup txEv \subseteq inFlight
  /\ fwTx \cap txEv = {}
  /\ SendsToken => id \in inFlight /\ id \notin fwTx \cup txEv

RxBooks ==
  /\ fwRx \cup rxEv \cup held \subseteq posted
  /\ fwRx \cap rxEv = {} /\ fwRx \cap held = {} /\ rxEv \cap held = {}
  /\ HoldsDescriptor => id \notin posted

IInv ==
  /\ TypeOK
  /\ OwnIds
  /\ TxBooks
  /\ Careful => RxBooks

(* What the wrapper adds: an operation runs on a ready driver or in        *)
(* recover, also after a future was dropped ...                            *)
Booting == goal = "boot"
Control ==
  /\ pc \in {"packet", "command", "enqueueTx", "trigger", "read"} => drv = "Ready"
  /\ pc \in {"prepare", "enqueueRx"} => drv = "Ready" \/ Booting
  /\ pc \in {"postNext", "init"} => Booting
  /\ Booting => drv = "Down" /\ pc \in {"postNext", "prepare", "enqueueRx", "init"}
  /\ goal # "all"
  /\ pc \in {"reset", "boot"} => drv = "Down"
  /\ drv = "Waiting" => pc = "idle"

(* ... and, if none was, whatever is marked is somewhere it comes back     *)
(* from.                                                                   *)
Accounts ==
  /\ drv # "Down" \/ Booting => queues /\ fw # "down"
  /\ drv = "Waiting" \/ Booting => fw = "booted" /\ rxEv = {} /\ txEv = {}
  /\ pc = "boot" => posted = {} /\ inFlight = {} /\ rxEv = {} /\ txEv = {}
  /\ pc = "init" => posted = Descriptors
  /\ drv # "Down" \/ Booting =>
       /\ posted \subseteq fwRx \cup rxEv \cup held
       /\ \A t \in inFlight : t \in fwTx \cup txEv \/ (SendsToken /\ t = id)
  /\ drv # "Down" =>
       \A d \in Descriptors : d \in posted \/ (HoldsDescriptor /\ d = id)

Balance == wrapped => Control /\ (~dropped => Accounts)

-----------------------------------------------------------------------------
(* The layout of packet RAM: a slot holds what is written to it, the slots *)
(* of one kind follow each other, and the three kinds lie one above the    *)
(* other.                                                                  *)

(* TX command slots below packet RAM *)
LEMMA MaxTokens == MAX_TX_TOKENS = 137
  BY DEF MAX_TX_TOKENS, TX_COMMAND_SLOT_SIZE

(* The pools DataPath::new accepts are not empty. *)
LEMMA Pools == RX \in Nat /\ RX > 0 /\ TX \in Nat /\ TX > 0 /\ TX <= 137
<1>1. RX \in 1 .. U16_MAX /\ TX \in 1 .. MAX_TX_TOKENS
  BY DataAssumption DEF ValidLayout
<1>2. U16_MAX \in Int
  BY DEF U16_MAX
<1> QED BY <1>1, <1>2, MaxTokens

(* align4 rounds up. *)
LEMMA AlignUp == ASSUME NEW n \in Nat PROVE Align4(n) \in Nat /\ n <= Align4(n)
  BY DEF Align4

(* align4 is monotonic. *)
LEMMA AlignMonotone ==
  ASSUME NEW m \in Nat, NEW n \in Nat, m <= n PROVE Align4(m) <= Align4(n)
  BY DEF Align4

(* What DataPath::new checks, as numbers *)
LEMMA Layout ==
  /\ RX \in Nat /\ TX \in Nat /\ RxSize \in Nat /\ TxSize \in Nat
  /\ RxStride \in Nat /\ RX_BUFFER_HEADROOM + RxSize <= RxStride
  /\ TxStride \in Nat /\ Align4(TxSize) \in Nat /\ Align4(TxSize) <= TxStride
  /\ RxStride * RX + TxStride * TX <= RPU_PACKET_RAM_SIZE
<1>1. RX \in Nat /\ TX \in Nat /\ RxSize \in Nat /\ TxSize \in Nat
  <2>1. RxSize \in 1 .. U16_MAX /\ TxSize \in ETHERNET_HEADER_LEN .. U16_MAX
    BY DataAssumption DEF ValidLayout
  <2>2. U16_MAX \in Int /\ ETHERNET_HEADER_LEN \in Nat
    BY DEF U16_MAX, ETHERNET_HEADER_LEN
  <2> QED BY <2>1, <2>2, Pools
<1>2. RxStride \in Nat /\ RX_BUFFER_HEADROOM + RxSize <= RxStride
  BY <1>1, AlignUp DEF RxStride, RX_BUFFER_HEADROOM
<1>3. TxStride \in Nat /\ Align4(TxSize) \in Nat /\ Align4(TxSize) <= TxStride
  BY <1>1, AlignUp, AlignMonotone DEF TxStride, TX_BUFFER_HEADROOM
<1>4. RxStride * RX + TxStride * TX <= RPU_PACKET_RAM_SIZE
  BY DataAssumption DEF ValidLayout
<1> QED BY <1>1, <1>2, <1>3, <1>4

(* Slot i of any stride ends before a later slot j begins. *)
LEMMA SlotsFollow ==
  ASSUME NEW i \in Nat, NEW j \in Nat, NEW s \in Nat, i < j
  PROVE  i * s \in Nat /\ j * s \in Nat /\ i * s + s <= j * s
<1>1. PICK k \in Nat : j = i + 1 + k
  <2>1. j - i - 1 \in Nat /\ j = i + 1 + (j - i - 1)
    OBVIOUS
  <2> QED BY <2>1
<1>2. i * s \in Nat /\ k * s \in Nat
  OBVIOUS
<1>3. j * s = i * s + s + k * s
  BY <1>1
<1> QED BY <1>2, <1>3

(* Two RX slots do not overlap. *)
LEMMA RxApart ==
  ASSUME NEW c \in Descriptors, NEW d \in Descriptors, c # d
  PROVE  Apart(RxSpan(c), RxSpan(d))
<1>1. c \in Nat /\ d \in Nat /\ RxStride * RX \in Nat
  <2>1. c \in Nat /\ d \in Nat
    BY Pools DEF Descriptors
  <2> QED BY <2>1, Layout
<1>2. RxBase \in Int
  BY <1>1 DEF RxBase, RPU_PACKET_RAM_SIZE
<1>3. CASE c < d
  <2>1. c * RxStride \in Nat /\ d * RxStride \in Nat
        /\ c * RxStride + RxStride <= d * RxStride
    BY <1>1, <1>3, SlotsFollow, Layout
  <2> QED BY <1>2, <2>1, Layout DEF Apart, RxSpan, RxSlot, RX_BUFFER_HEADROOM
<1>4. CASE d < c
  <2>1. c * RxStride \in Nat /\ d * RxStride \in Nat
        /\ d * RxStride + RxStride <= c * RxStride
    BY <1>1, <1>4, SlotsFollow, Layout
  <2> QED BY <1>2, <2>1, Layout DEF Apart, RxSpan, RxSlot, RX_BUFFER_HEADROOM
<1> QED BY <1>1, <1>3, <1>4

(* Two TX slots do not overlap, nor do their commands. *)
LEMMA TxApart ==
  ASSUME NEW t \in Tokens, NEW u \in Tokens, t # u
  PROVE  Apart(TxSpan(t), TxSpan(u)) /\ Apart(TxCommandSpan(t), TxCommandSpan(u))
<1>1. t \in Nat /\ u \in Nat
  BY Layout DEF Tokens
<1>2. Apart(TxCommandSpan(t), TxCommandSpan(u))
  BY <1>1 DEF Apart, TxCommandSpan, TxCommandSlot, TxCommandBase,
     TX_COMMAND_SLOT_SIZE, TX_COMMAND_TOTAL_LEN
<1>3. CASE t < u
  <2>1. t * TxStride \in Nat /\ u * TxStride \in Nat
        /\ t * TxStride + TxStride <= u * TxStride
    BY <1>1, <1>3, SlotsFollow, Layout
  <2> QED BY <1>2, <2>1, Layout DEF Apart, TxSpan, TxSlot
<1>4. CASE u < t
  <2>1. t * TxStride \in Nat /\ u * TxStride \in Nat
        /\ u * TxStride + TxStride <= t * TxStride
    BY <1>1, <1>4, SlotsFollow, Layout
  <2> QED BY <1>2, <2>1, Layout DEF Apart, TxSpan, TxSlot
<1> QED BY <1>1, <1>3, <1>4

(* Commands lie below the TX slots, and these below the RX slots. *)
LEMMA KindsApart ==
  ASSUME NEW t \in Tokens, NEW u \in Tokens, NEW d \in Descriptors
  PROVE  /\ TxCommandSpan(t)[2] <= TxSpan(u)[1]
         /\ TxCommandSpan(t)[2] <= RxSpan(d)[1]
         /\ TxSpan(u)[2] <= RxSpan(d)[1]
<1>1. t \in Nat /\ u \in Nat /\ d \in Nat /\ t <= 136 /\ u < TX
  BY Pools DEF Tokens, Descriptors
<1>2. TxCommandSpan(t)[2] \in Int /\ TxCommandSpan(t)[2] <= 0
  BY <1>1 DEF TxCommandSpan, TxCommandSlot, TxCommandBase,
     TX_COMMAND_SLOT_SIZE, TX_COMMAND_TOTAL_LEN
<1>3. /\ u * TxStride \in Nat /\ TX * TxStride \in Nat
      /\ u * TxStride + TxStride <= TX * TxStride
  BY <1>1, SlotsFollow, Layout
<1>4. TxStride * TX = TX * TxStride /\ RxStride * RX \in Nat
  BY Layout
<1>5. RxBase \in Int /\ TX * TxStride <= RxBase
  BY <1>3, <1>4, Layout DEF RxBase, RPU_PACKET_RAM_SIZE
<1>6. d * RxStride \in Nat
  BY <1>1, Layout
<1>7. RxSpan(d)[1] \in Int /\ RxBase <= RxSpan(d)[1]
  BY <1>5, <1>6 DEF RxSpan, RxSlot
<1>8. TxSpan(u)[1] \in Nat /\ TxSpan(u)[2] \in Nat /\ TxSpan(u)[2] <= TX * TxStride
  BY <1>3, Layout DEF TxSpan, TxSlot
<1> QED BY <1>2, <1>3, <1>5, <1>7, <1>8

-----------------------------------------------------------------------------
(* The rotation of reserve_tx stays among the tokens. *)
LEMMA Rotation ==
  ASSUME NEW n \in Nat PROVE n % TX \in Tokens
  BY Pools DEF Tokens

(* An idle operation's id is a descriptor and a token. *)
LEMMA ZeroIds == 0 \in Descriptors /\ 0 \in Tokens
  BY Pools DEF Descriptors, Tokens

(* Counting a failure stays in the bound. *)
LEMMA FaultCount ==
  ASSUME faults \in 0 .. MaxFaults, faults < MaxFaults
  PROVE  faults + 1 \in 0 .. MaxFaults
  BY DataAssumption

(* A new driver satisfies the invariant. *)
LEMMA InitInv == Init => IInv
<1>1. 0 \in 0 .. MaxFaults
  BY DataAssumption
<1> QED
  BY <1>1, ZeroIds DEF Init, IInv, TypeOK, OwnIds, TxBooks, RxBooks, SendsToken,
     HoldsDescriptor, Results, Awaits

(* Each operation, transfer, event and step of the firmware preserves it. *)
LEMMA StepInv == IInv /\ [Next]_vars => IInv'
<1> SUFFICES ASSUME IInv, [Next]_vars PROVE IInv'
  OBVIOUS
<1> USE ZeroIds, FaultCount
<1> USE DEF IInv, OwnIds, TxBooks, RxBooks, SendsToken, HoldsDescriptor, TypeOK,
     Goto, Idle, Return, Ok, Failure, Taken, Awaits, Results, host, books, firmware,
     usage
<1>1. CASE TransmitStart
  <2>1. PICK t \in Tokens : ReserveTx(t) /\ pc' = "packet" /\ id' = t
                            /\ UNCHANGED <<result, goal>>
    BY <1>1 DEF TransmitStart
  <2>2. nextTx' \in Tokens
    <3>1. t + 1 \in Nat
      BY DEF Tokens
    <3> QED BY <2>1, <3>1, Rotation DEF ReserveTx
  <2>3. inFlight' = inFlight \cup {t} /\ t \notin inFlight
    BY <2>1 DEF ReserveTx
  <2> QED BY <1>1, <2>1, <2>2, <2>3 DEF TransmitStart
<1>2. CASE WritePacket
  BY <1>2 DEF WritePacket, ReleaseToken
<1>3. CASE WriteCommand
  BY <1>3 DEF WriteCommand, ReleaseToken
<1>4. CASE EnqueueTx
  BY <1>4 DEF EnqueueTx
<1>5. CASE Trigger
  BY <1>5 DEF Trigger
<1>6. ASSUME NEW d \in Descriptors, ReceiveStart(d) PROVE IInv'
  BY <1>6 DEF ReceiveStart
<1>7. CASE ReadPacket
  BY <1>7 DEF ReadPacket, ConversionResults
<1>8. CASE PrepareRx
  BY <1>8 DEF PrepareRx
<1>9. CASE EnqueueRx
  BY <1>9 DEF EnqueueRx
<1>10. CASE PostAllStart
  BY <1>10 DEF PostAllStart
<1>11. CASE PostNext
  BY <1>11 DEF PostNext
<1>12. CASE RecoverStart
  BY <1>12 DEF RecoverStart
<1>13. CASE HardReset
  <2>1. wrapped' \in BOOLEAN /\ dropped' \in BOOLEAN
    BY <1>13 DEF HardReset
  <2>2. held' \subseteq Descriptors /\ (Careful => held' \subseteq held)
    BY <1>13 DEF HardReset
  <2>3. CASE FirmwareReset /\ queues' = FALSE /\ posted' = {}
             /\ inFlight' = {} /\ nextTx' = 0 /\ Goto("boot")
    BY <1>13, <2>1, <2>2, <2>3 DEF HardReset, FirmwareReset
  <2>4. CASE Failure /\ (FirmwareReset \/ UNCHANGED firmware)
             /\ Return("device") /\ UNCHANGED <<books, queues, dropped, held>>
    <3>1. fw' \in {fw, "down"} /\ fwRx' \in {fwRx, {}} /\ fwTx' \in {fwTx, {}}
          /\ rxEv' \in {rxEv, {}} /\ txEv' \in {txEv, {}}
      BY <2>4 DEF FirmwareReset
    <3> QED BY <1>13, <2>1, <2>4, <3>1 DEF HardReset
  <2> QED BY <1>13, <2>3, <2>4 DEF HardReset
<1>14. CASE Boot
  <2>1. fw' \in {"down", "booted"} /\ pc' \in {"idle", "postNext"}
        /\ id' \in Descriptors \cup Tokens /\ result' \in Results
        /\ goal' \in {"packet", "boot"} /\ queues' \in BOOLEAN
        /\ drv' \in {drv, "Down"} /\ faults' \in 0 .. MaxFaults
    BY <1>14 DEF Boot
  <2> QED BY <1>14, <2>1 DEF Boot
<1>15. CASE SystemInit
  BY <1>15 DEF SystemInit
<1>16. CASE InitDone
  BY <1>16 DEF InitDone
<1>17. CASE EnterRecovery
  BY <1>17 DEF EnterRecovery
<1>18. ASSUME NEW d \in Descriptors, PollReceive(d) PROVE IInv'
  BY <1>18 DEF PollReceive
<1>19. ASSUME NEW d \in Descriptors, FirmwareReceives(d) PROVE IInv'
  BY <1>19 DEF FirmwareReceives
<1>20. ASSUME NEW t \in Tokens, PollTransmitDone(t) PROVE IInv'
  BY <1>20 DEF PollTransmitDone
<1>21. ASSUME NEW t \in Tokens, FirmwareSends(t) PROVE IInv'
  BY <1>21 DEF FirmwareSends
<1>22. CASE DropFuture
  BY <1>22 DEF DropFuture, FirmwareReset
<1>23. CASE UNCHANGED vars
  BY <1>23 DEF vars
<1> QED
  BY <1>1, <1>2, <1>3, <1>4, <1>5, <1>6, <1>7, <1>8, <1>9, <1>10, <1>11, <1>12,
     <1>13, <1>14, <1>15, <1>16, <1>17, <1>18, <1>19, <1>20, <1>21, <1>22, <1>23
  DEF Next, HostStep

(* IInv is an invariant of the data path. *)
LEMMA Invariance == Spec => []IInv
  BY InitInv, StepInv, PTL DEF Spec

(* The data path keeps its types, for any pools and failures. *)
THEOREM TypeCorrect == Spec => []TypeOK
<1>1. IInv => TypeOK
  BY DEF IInv
<1> QED BY <1>1, Invariance, PTL

(* Books and layout together keep the two sides apart. *)
LEMMA BooksExclude == ASSUME Careful, IInv PROVE Exclusive
<1> SUFFICES ASSUME NEW h \in HostSpans, NEW f \in FirmwareSpans PROVE Apart(h, f)
  BY DEF Exclusive
<1>1. CASE SendsToken /\ h \in {TxSpan(id), TxCommandSpan(id)}
  <2>1. id \in Tokens /\ id \notin fwTx
    BY <1>1 DEF IInv, OwnIds, TxBooks
  <2>2. ASSUME NEW d \in fwRx, f = RxSpan(d) PROVE Apart(h, f)
    <3>1. d \in Descriptors
      BY DEF IInv, TypeOK
    <3> QED BY <1>1, <2>1, <2>2, <3>1, KindsApart DEF Apart
  <2>3. ASSUME NEW t \in fwTx, f = TxSpan(t) \/ f = TxCommandSpan(t) PROVE Apart(h, f)
    <3>1. t \in Tokens /\ t # id
      BY <2>1 DEF IInv, TypeOK
    <3>2. CASE h = TxSpan(id) /\ f = TxSpan(t)
      BY <2>1, <3>1, <3>2, TxApart
    <3>3. CASE h = TxCommandSpan(id) /\ f = TxCommandSpan(t)
      BY <2>1, <3>1, <3>3, TxApart
    <3>4. CASE h = TxSpan(id) /\ f = TxCommandSpan(t)
      BY <2>1, <3>1, <3>4, ZeroIds, KindsApart DEF Apart
    <3>5. CASE h = TxCommandSpan(id) /\ f = TxSpan(t)
      BY <2>1, <3>1, <3>5, ZeroIds, KindsApart DEF Apart
    <3> QED BY <1>1, <2>3, <3>2, <3>3, <3>4, <3>5
  <2> QED BY <2>2, <2>3 DEF FirmwareSpans
<1>2. CASE HoldsDescriptor /\ h = RxSpan(id)
  <2>1. id \in Descriptors /\ id \notin fwRx
    BY <1>2 DEF IInv, OwnIds, RxBooks
  <2>2. ASSUME NEW d \in fwRx, f = RxSpan(d) PROVE Apart(h, f)
    <3>1. d \in Descriptors /\ d # id
      BY <2>1 DEF IInv, TypeOK
    <3> QED BY <1>2, <2>1, <2>2, <3>1, RxApart
  <2>3. ASSUME NEW t \in fwTx, f = TxSpan(t) \/ f = TxCommandSpan(t) PROVE Apart(h, f)
    <3>1. t \in Tokens
      BY DEF IInv, TypeOK
    <3> QED BY <1>2, <2>1, <2>3, <3>1, KindsApart DEF Apart
  <2> QED BY <2>2, <2>3 DEF FirmwareSpans
<1> QED BY <1>1, <1>2 DEF HostSpans

(* The host never touches a byte of packet RAM that the firmware may use:  *)
(* for every layout DataPath::new accepts, with any failures, dropped      *)
(* futures and recoveries, natively or under the wrapper, if the caller    *)
(* hands each packet in once.                                              *)
THEOREM ExclusiveHolds == ASSUME Careful PROVE Spec => []Exclusive
<1>1. IInv => Exclusive
  BY BooksExclude
<1> QED BY <1>1, Invariance, PTL

(* Every event of the firmware is about something that is marked. *)
THEOREM EventsKnownHolds == ASSUME Careful PROVE Spec => []EventsKnown
<1>1. IInv => EventsKnown
  BY DEF IInv, TxBooks, RxBooks, EventsKnown
<1> QED BY <1>1, Invariance, PTL

(* The accounts of an empty driver balance. *)
LEMMA InitBalance == Init => Balance
  BY DEF Init, Balance, Control, Accounts, Booting

(* Under the wrapper every step keeps the accounts: an operation either    *)
(* finishes what it began, or takes the driver down, or is dropped; and a  *)
(* reset starts them afresh.                                               *)
LEMMA StepBalance ==
  ASSUME Careful, IInv, Balance, [Next]_vars
  PROVE  Balance'
<1> USE DEF IInv, OwnIds, TxBooks, RxBooks, SendsToken, HoldsDescriptor, TypeOK,
     Balance, Control, Accounts, Booting, Goto, Idle, Return, Fatal, Taken, Awaits, Results,
     host, books, firmware, usage
<1>1. CASE TransmitStart
  BY <1>1 DEF TransmitStart, ReserveTx
<1>2. CASE WritePacket
  BY <1>2 DEF WritePacket, ReleaseToken
<1>3. CASE WriteCommand
  BY <1>3 DEF WriteCommand, ReleaseToken
<1>4. CASE EnqueueTx
  BY <1>4 DEF EnqueueTx
<1>5. CASE Trigger
  BY <1>5 DEF Trigger
<1>6. ASSUME NEW d \in Descriptors, ReceiveStart(d) PROVE Balance'
  BY <1>6 DEF ReceiveStart
<1>7. CASE ReadPacket
  BY <1>7 DEF ReadPacket, ConversionResults
<1>8. CASE PrepareRx
  BY <1>8 DEF PrepareRx
<1>9. CASE EnqueueRx
  BY <1>9 DEF EnqueueRx
<1>10. CASE PostAllStart
  BY <1>10 DEF PostAllStart
<1>11. CASE PostNext
  BY <1>11 DEF PostNext
<1>12. CASE RecoverStart
  BY <1>12 DEF RecoverStart
<1>13. CASE HardReset
  BY <1>13 DEF HardReset, FirmwareReset
<1>14. CASE Boot
  BY <1>14 DEF Boot
<1>15. CASE SystemInit
  BY <1>15 DEF SystemInit
<1>16. CASE InitDone
  BY <1>16 DEF InitDone
<1>17. CASE EnterRecovery
  BY <1>17 DEF EnterRecovery
<1>18. ASSUME NEW d \in Descriptors, PollReceive(d) PROVE Balance'
  BY <1>18 DEF PollReceive
<1>19. ASSUME NEW d \in Descriptors, FirmwareReceives(d) PROVE Balance'
  BY <1>19 DEF FirmwareReceives
<1>20. ASSUME NEW t \in Tokens, PollTransmitDone(t) PROVE Balance'
  BY <1>20 DEF PollTransmitDone
<1>21. ASSUME NEW t \in Tokens, FirmwareSends(t) PROVE Balance'
  BY <1>21 DEF FirmwareSends
<1>22. CASE DropFuture
  BY <1>22 DEF DropFuture
<1>23. CASE UNCHANGED vars
  BY <1>23 DEF vars
<1> QED
  BY <1>1, <1>2, <1>3, <1>4, <1>5, <1>6, <1>7, <1>8, <1>9, <1>10, <1>11, <1>12,
     <1>13, <1>14, <1>15, <1>16, <1>17, <1>18, <1>19, <1>20, <1>21, <1>22, <1>23
  DEF Next, HostStep

(* Under the wrapper no descriptor and no token leaks, whatever transfers  *)
(* fail, unless a future was dropped since the last reset.                 *)
THEOREM NothingLostHolds == ASSUME Careful PROVE Spec => []NothingLost
<1>1. IInv /\ Balance /\ [Next]_vars => Balance'
  BY StepBalance
<1>2. IInv /\ Balance => NothingLost
  BY DEF IInv, TypeOK, Balance, Accounts, NothingLost, SendsToken, HoldsDescriptor
<1> QED BY <1>1, <1>2, InitBalance, Invariance, PTL DEF Spec
=============================================================================
