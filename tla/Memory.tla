------------------------------- MODULE Memory -------------------------------
(***************************************************************************)
(* RPU memory access (memory.rs): how an address of a processor becomes an *)
(* offset of the host bus, which accesses are refused, and into which bus  *)
(* transfers an accepted one is cut.                                       *)
(*                                                                         *)
(* An address, a u32, is its top byte and its low 24 bits: the top byte    *)
(* chooses the region and every sum that matters carries between the two.  *)
(***************************************************************************)
EXTENDS Integers, Sequences

CONSTANT MaxChunk   \* MAX_BUS_CHUNK and MAX_SPI_DATA_LEN, 4096 in the code

ASSUME ChunkAssumption == MaxChunk \in 8 .. 4096 /\ MaxChunk % 4 = 0

Processors == {"Lmac", "Umac"}
LowBits    == 16777216              \* RPU_ADDR_MASK_OFFSET + 1

Address(top, low) == [top |-> top, low |-> low]

(* The u32 sum; a top byte above 255 is an overflow. *)
Advance(a, n) ==
  Address(a.top + ((a.low + n) \div LowBits), (a.low + n) % LowBits)
Overflows(a) == a.top > 255

Region(top, first, last, base) ==
  [top |-> top, first |-> first, last |-> last, base |-> base]

SharedRegions ==
  {Region(\ha4, 0, \h7fff,  \h00000),     \* SBUS
   Region(\ha5, 0, \h3ffff, \h40000),     \* PBUS
   Region(\hb7, 0, \h101ff, \h80000),     \* GRAM
   Region(\hb0, 0, \h30fff, \hc0000)}     \* PKTRAM

(* ROM, retained and scratch memory of each processor *)
ProcessorRegions ==
  [Lmac |-> {Region(\h80, \h00000,  \h33fff,  \h100000),
             Region(\h80, \h40000,  \h4bfff,  \h100000),
             Region(\h80, \h80000,  \h8ffff,  \h100000)},
   Umac |-> {Region(\h80, \h00000,  \h617ff,  \h200000),
             Region(\h80, \h80000,  \ha3fff,  \h200000),
             Region(\h80, \h100000, \h137fff, \h200000)}]

Regions(p)  == SharedRegions \cup ProcessorRegions[p]
Holds(r, a) == a.top = r.top /\ a.low \in r.first .. r.last
Mapped(p, a) == \E r \in Regions(p) : Holds(r, a)

Unmapped == -1       \* the error of host_offset
HostOffset(p, a) ==
  IF Mapped(p, a) THEN (CHOOSE r \in Regions(p) : Holds(r, a)).base + a.low
  ELSE Unmapped

Align4(n) == 4 * ((n + 3) \div 4)

(* checked_range looks at the two ends of the range. *)
CheckedRange(p, a, len) ==
  LET end == Advance(a, len - 1) IN
  IF len = 0 THEN IF Mapped(p, a) THEN "ok" ELSE "Unsupported"
  ELSE IF Overflows(end) THEN "Range"
  ELSE IF ~Mapped(p, a) \/ ~Mapped(p, end) THEN "Unsupported"
  ELSE IF HostOffset(p, end) - HostOffset(p, a) # len - 1 THEN "Range"
  ELSE "ok"

ValidateAccess(p, a, len) ==
  IF a.low % 4 # 0 THEN "Unaligned" ELSE CheckedRange(p, a, Align4(len))

(* Fault: the last word is cut off instead of padded. *)
TransfersWithoutTail(p, a, len) ==
  [i \in 1 .. (len \div MaxChunk) |->
     [host |-> HostOffset(p, Advance(a, (i - 1) * MaxChunk)),
      from |-> (i - 1) * MaxChunk, data |-> MaxChunk, size |-> MaxChunk]]

(* read and write: whole words in chunks, then the short last word in a    *)
(* word of its own.  from is the place in the caller's slice, data the     *)
(* bytes of the slice and size the bytes on the bus.  The first transfer   *)
(* that chunk_host_offset does not find in memory is not made: it ends the *)
(* access with an error.                                                   *)
Transfers(p, a, len) ==
  LET whole  == 4 * (len \div 4)
      chunks == (whole + MaxChunk - 1) \div MaxChunk
      From(i) == IF i <= chunks THEN (i - 1) * MaxChunk ELSE whole
      Data(i) == IF i > chunks THEN len - whole
                 ELSE IF i = chunks THEN whole - From(i) ELSE MaxChunk
  IN [i \in 1 .. (chunks + IF len = whole THEN 0 ELSE 1) |->
        [host |-> HostOffset(p, Advance(a, From(i))),
         from |-> From(i), data |-> Data(i), size |-> Align4(Data(i))]]

(* read and write get to transfer i, or to their end, without an error. *)
Reached(p, a, len, i) ==
  LET ts == Transfers(p, a, len) IN
  /\ ValidateAccess(p, a, len) = "ok"
  /\ \A j \in 1 .. Len(ts) : j <= i => ts[j].host # Unmapped

(* write_indirect: the word address goes to the control register of the    *)
(* processor's port and the words, one by one, to its data register.       *)
ValidateIndirect(a, len) ==
  IF a.top # \hc0 \/ a.low % 4 # 0 \/ len % 4 # 0 THEN "Unaligned" ELSE "ok"

(* The port, external, counts the word address up. *)
IndirectBytes(a, len) ==
  LET word == a.low \div 4
  IN [i \in 1 .. 4 * (len \div 4) |-> 4 * (word + ((i - 1) \div 4)) + ((i - 1) % 4)]
=============================================================================
