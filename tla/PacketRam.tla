----------------------------- MODULE PacketRam ------------------------------
(***************************************************************************)
(* The layout of packet RAM that DataPath::new builds (data.rs): TX slots  *)
(* from the bottom, RX slots up to the top, TX command slots below.        *)
(* Addresses count from RPU_MEM_PACKET_BASE.                               *)
(***************************************************************************)
EXTENDS Integers

CONSTANTS
  RX,       \* RX descriptors
  TX,       \* TX tokens
  RxSize,   \* rx_buffer_size
  TxSize    \* tx_buffer_size

RPU_PACKET_RAM_SIZE  == 180224
RX_BUFFER_HEADROOM   == 4
TX_BUFFER_HEADROOM   == 52
TX_COMMAND_SLOT_SIZE == 148
TX_COMMAND_TOTAL_LEN == 12 + 47
ETHERNET_HEADER_LEN  == 14
TxCommandBase        == -20296   \* RPU_MEM_TX_CMD_BASE - RPU_MEM_PACKET_BASE
MAX_TX_TOKENS        == 20296 \div TX_COMMAND_SLOT_SIZE

U16_MAX              == 65535

Align4(n) == ((n + 3) \div 4) * 4

(* layout_strides *)
RxStride == Align4(RxSize + RX_BUFFER_HEADROOM)
TxStride == Align4(TxSize + TX_BUFFER_HEADROOM)

(* validate_layout_capacity and validated_layout_bytes: DataPath::new      *)
(* returns a data path                                                     *)
ValidLayout ==
  /\ RX \in 1 .. U16_MAX /\ TX \in 1 .. MAX_TX_TOKENS
  /\ RxSize \in 1 .. U16_MAX /\ TxSize \in ETHERNET_HEADER_LEN .. U16_MAX
  /\ RxStride * RX + TxStride * TX <= RPU_PACKET_RAM_SIZE

RxBase == RPU_PACKET_RAM_SIZE - RxStride * RX

(* rx_slot_address, tx_slot_address and the address of a TX command *)
RxSlot(d)        == RxBase + d * RxStride
TxSlot(t)        == t * TxStride
TxCommandSlot(t) == TxCommandBase + t * TX_COMMAND_SLOT_SIZE

(* The bytes of a slot that are used: the descriptor number in front of a  *)
(* packet that may fill its buffer; a frame, whose last word write_packet  *)
(* pads; a command.  From the first to the one after the last.             *)
RxSpan(d)        == <<RxSlot(d), RxSlot(d) + RX_BUFFER_HEADROOM + RxSize>>
TxSpan(t)        == <<TxSlot(t), TxSlot(t) + Align4(TxSize)>>
TxCommandSpan(t) == <<TxCommandSlot(t), TxCommandSlot(t) + TX_COMMAND_TOTAL_LEN>>

Apart(a, b) == a[2] <= b[1] \/ b[2] <= a[1]
=============================================================================
