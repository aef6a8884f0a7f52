------------------------------- MODULE SpiBus -------------------------------
(***************************************************************************)
(* The SPI transport (bus.rs): the frames a bus transfer is made of.  The  *)
(* device, external, counts the address up during a frame when the         *)
(* incrementing bit of the address is set, and answers a read after the    *)
(* latency of the region.                                                  *)
(***************************************************************************)
EXTENDS Memory, FiniteSetsExt

IncrementingBit == \h800000         \* INCREMENTING_ADDRESS_MASK
AddressSpace    == \h1000000        \* the host bus has 24 address bits
WordLen         == 4                \* HIGH_LATENCY_READ_WORD_LEN
ReadHeaderLen   == 5
MaxLatencyWords == 8
IoBufferLen     == ReadHeaderLen + 4 * MaxLatencyWords + MaxChunk

(* A mask is the set of its bits, each by its weight.  SpiConfig::new takes *)
(* any mask of 24 bits and any latency that fits the buffer.               *)
Weights == {2 ^ b : b \in 0 .. 23}
NordicDefault   == [mask |-> {IncrementingBit}, map |-> FALSE, latency |-> 0]
NordicMemoryMap == [mask |-> {IncrementingBit}, map |-> TRUE, latency |-> 0]
Configs ==
  [mask : SUBSET Weights, map : {FALSE}, latency : 0 .. MaxLatencyWords]
    \cup {NordicMemoryMap}

Band(first, last, words) == [first |-> first, last |-> last, words |-> words]

(* Nordic's table; what it does not name needs no latency. *)
LatencyBands ==
  {Band(\h000000, \h008fff, 1), Band(\h009000, \h03ffff, 2),
   Band(\h040000, \h07ffff, 1), Band(\h080000, \h092000, 2),
   Band(\h100000, \h134000, 1), Band(\h140000, \h14c000, 1),
   Band(\h180000, \h190000, 1), Band(\h200000, \h261800, 1),
   Band(\h280000, \h2a4000, 1), Band(\h300000, \h338000, 1)}

MapLatency(host) ==
  IF \E b \in LatencyBands : host \in b.first .. b.last
  THEN (CHOOSE b \in LatencyBands : host \in b.first .. b.last).words
  ELSE 0

(* n | mask and n & !mask *)
HasBit(n, w)       == (n \div w) % 2 = 1
SetBits(n, mask)   == n + SumSet({w \in mask : ~HasBit(n, w)})
ClearBits(n, mask) == n - SumSet({w \in mask : HasBit(n, w)})

ReadLatency(config, host) ==
  IF config.map THEN MapLatency(ClearBits(host, config.mask)) ELSE config.latency

WireAddress(config, host) == SetBits(host, config.mask) % AddressSpace

Frame(wire, len, latency) == [wire |-> wire, len |-> len, latency |-> latency]

Pieces(size, most) == (size + most - 1) \div most
PieceLen(size, most, i) ==
  IF i < Pieces(size, most) THEN most ELSE size - most * (i - 1)

WriteFrames(config, host, size) ==
  [i \in 1 .. Pieces(size, MaxChunk) |->
     Frame(WireAddress(config, host + MaxChunk * (i - 1)),
           PieceLen(size, MaxChunk, i), 0)]

(* The first address of a transfer decides how all of it is read. *)
ReadFrames(config, host, size) ==
  IF config.map /\ ReadLatency(config, host) # 0
  THEN [i \in 1 .. Pieces(size, WordLen) |->
          LET at == host + WordLen * (i - 1)
          IN Frame(at % AddressSpace, PieceLen(size, WordLen, i), ReadLatency(config, at))]
  ELSE [i \in 1 .. Pieces(size, MaxChunk) |->
          LET at == host + MaxChunk * (i - 1)
          IN Frame(WireAddress(config, at), PieceLen(size, MaxChunk, i),
                   ReadLatency(config, at))]

FitsBuffer(frame) ==
  ReadHeaderLen + 4 * frame.latency + frame.len <= IoBufferLen

(* The host bytes a frame moves.  Without the incrementing bit the device  *)
(* stays at the word of the address.                                       *)
FrameBytes(frame) ==
  LET first == frame.wire % IncrementingBit IN
  [i \in 1 .. frame.len |->
     IF HasBit(frame.wire, IncrementingBit) THEN first + i - 1
     ELSE first + ((i - 1) % WordLen)]
=============================================================================
