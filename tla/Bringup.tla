------------------------------ MODULE Bringup ------------------------------
(***************************************************************************)
(* Bring-up and recovery: NativeDriver::recover (runtime.rs) step by step, *)
(* with the firmware loader (firmware.rs), the memory layer and the SPI    *)
(* transport below it, the queue set-up of device.rs, and the two          *)
(* processors, which are external.                                         *)
(*                                                                         *)
(* Every await of recover is a step that may succeed, fail with or without *)
(* its effect, or be the last one because the future is dropped.  A bounded *)
(* wait that ends in vain is a failure.  A reset may or may not keep the   *)
(* contents of memory: the loader must not rely on either.                 *)
(***************************************************************************)
EXTENDS SpiBus, FirmwareBundle

CONSTANTS
  Cases,       \* the inputs: a file, a system configuration, a memory access
  RxBuffers,   \* RX, the receive descriptors
  RxSize,      \* DataPath::rx_buffer_size
  MaxFaults    \* bound on failed steps, dropped futures and driver faults

(* What read and write are called with *)
AccessType ==
  [p : Processors, a : [top : 0 .. 255, low : 0 .. LowBits - 1], len : Nat, spi : Configs]

ASSUME BringupAssumption ==
  /\ RxBuffers \in Nat /\ RxSize \in Nat /\ MaxFaults \in Nat
  /\ \A c \in Cases : c.file \in FileType /\ c.access \in AccessType

(* A bundle is parsed before recover can be called with it. *)
Bundles == {c \in Cases : Parse(c.file) = "ok"}

Descriptors == 0 .. RxBuffers - 1
States == {"Cold", "Recovering", "WaitingForSystemInit", "Ready", "Fault"}
Live   == {"WaitingForSystemInit", "Ready"}

VARIABLES
  input,      \* the member of Cases the caller uses
  drv,        \* NativeDriver.state
  pc,         \* the next await of recover
  image, at,  \* the image being downloaded and its next transfer
  queues,     \* Device.queues: none, or the map that was read
  uncertain,  \* Device.recovery_required
  posted,     \* DataPath.rx_posted
  slow,       \* the platform's bus runs at 8 MHz or less
  awake, clocks, irq,
  core,       \* off, held, run or booted
  sig,        \* the boot signature is in memory
  map,        \* the queue map in memory: junk, old (of an earlier boot), new
  ram,        \* <<host byte, byte of the file>> written since memory was lost
  given,      \* receive descriptors the firmware has
  asked,      \* it has the init command
  inited,     \* it has initialized
  event,      \* InitDone is in its event queue
  faults

memory   == <<sig, map, ram>>
hardware == <<awake, clocks, irq, core, memory, given, asked, inited, event>>
device   == <<queues, uncertain, posted>>
load     == <<image, at>>
vars     == <<input, drv, pc, load, device, slow, hardware, faults>>

ResetPc  == [Lmac |-> "resetLmac", Umac |-> "resetUmac"]
ClearPc  == [Lmac |-> "clearLmac", Umac |-> "clearUmac"]
RunPc    == [Lmac |-> "runLmac", Umac |-> "runUmac"]
AwaitPc  == [Lmac |-> "awaitLmac", Umac |-> "awaitUmac"]
Pcs == {"idle", "irqOff", "hardReset", "wakeBus", "wake", "dataBus", "clocks",
        "download", "queues", "postRx", "irqOn", "init"}
         \cup UNION {{ResetPc[p], ClearPc[p], RunPc[p], AwaitPc[p]} :
                       p \in Processors}

(* Every variable has its type. *)
TypeOK ==
  /\ drv \in States
  /\ pc \in Pcs
  /\ image \in 1 .. ImageCount /\ at \in Nat \ {0}
  /\ queues \in {"none", "old", "new"}
  /\ uncertain \in BOOLEAN /\ slow \in BOOLEAN
  /\ awake \in BOOLEAN /\ clocks \in BOOLEAN
  /\ irq \in {"off", "partial", "on"}
  /\ core \in [Processors -> {"off", "held", "run", "booted"}]
  /\ sig \in [Processors -> BOOLEAN]
  /\ map \in {"junk", "old", "new"}
  /\ posted \subseteq Descriptors /\ given \subseteq Descriptors
  /\ asked \in BOOLEAN /\ inited \in BOOLEAN /\ event \in BOOLEAN
  /\ faults \in 0 .. MaxFaults

Init ==
  /\ input \in Cases
  /\ drv = "Cold" /\ pc = "idle" /\ image = 1 /\ at = 1
  /\ queues = "none" /\ uncertain = FALSE /\ posted = {} /\ slow = FALSE
  /\ awake = FALSE /\ clocks = FALSE /\ irq = "off"
  /\ core = [p \in Processors |-> "off"]
  /\ sig = [p \in Processors |-> FALSE] /\ map = "junk" /\ ram = {}
  /\ given = {} /\ asked = FALSE /\ inited = FALSE /\ event = FALSE
  /\ faults = 0

-----------------------------------------------------------------------------
(* The configuration the caller passes *)

(* validate_system_config: the interface, the address and the pools are    *)
(* those of the driver.                                                    *)
ValidateSystemConfig(s) ==
  /\ s.wdev /\ s.mac = "unicast"
  /\ s.size = RxSize /\ s.count = RxBuffers /\ s.extra = 0

(* SystemInitConfig::validate, which encode_system_init begins with; the   *)
(* pools besides the first are empty by now.                               *)
EncodeSystemInit(s) ==
  s.size * s.count <= 128 * 1024 /\ s.reorder \in 1 .. 64 /\ s.ampdu \in 0 .. 3

-----------------------------------------------------------------------------
(* How an await of recover ends *)
Ok      == faults' = faults
Failure == faults < MaxFaults /\ faults' = faults + 1

Goto(p) == Ok /\ pc' = p /\ UNCHANGED <<input, drv>>
Fail    == Failure /\ pc' = "idle" /\ drv' = "Fault" /\ UNCHANGED input
Refuse  == Ok /\ pc' = "idle" /\ drv' = "Fault" /\ UNCHANGED input

(* recover, up to its first await.  A caller that gives up a live driver   *)
(* counts as a fault.                                                      *)
RecoverStart ==
  /\ pc = "idle"
  /\ Parse(input.file) = "ok"
  /\ IF drv \in Live THEN Failure ELSE Ok
  /\ IF ValidateSystemConfig(input.sys)
     THEN drv' = "Recovering" /\ pc' = "irqOff"
     ELSE drv' = "Fault" /\ UNCHANGED pc
  /\ UNCHANGED <<input, load, device, slow, hardware>>

(* disable_interrupts; its result is ignored *)
IrqOff ==
  /\ pc = "irqOff"
  /\ \/ Ok /\ irq' = "off"
     \/ Failure /\ irq' \in {irq, "partial", "off"}
  /\ pc' = "hardReset"
  /\ UNCHANGED <<input, drv, load, device, slow, awake, clocks, core, memory,
                 given, asked, inited, event>>

(* External: after a reset memory is lost or as it was. *)
ResetHardware ==
  /\ awake' = FALSE /\ clocks' = FALSE /\ irq' = "off"
  /\ core' = [p \in Processors |-> "off"]
  /\ \/ /\ sig' = [p \in Processors |-> FALSE]
        /\ map' = "junk"
        /\ ram' = {}
     \/ /\ UNCHANGED <<sig, ram>>
        /\ map' = IF map = "new" THEN "old" ELSE map
  /\ given' = {} /\ asked' = FALSE /\ inited' = FALSE /\ event' = FALSE

(* hard_reset, then reset_queue_state and reset_after_rpu_reset *)
HardReset ==
  /\ pc = "hardReset"
  /\ \/ /\ Goto("wakeBus")
        /\ ResetHardware
        /\ queues' = "none" /\ uncertain' = FALSE /\ posted' = {}
     \/ /\ Fail
        /\ ResetHardware \/ UNCHANGED hardware
        /\ UNCHANGED device
  /\ UNCHANGED <<load, slow>>

(* Fault: the bus keeps the speed of normal traffic. *)
WakeBusFast ==
  /\ pc = "wakeBus"
  /\ Goto("wake") \/ Fail
  /\ UNCHANGED <<load, device, slow, hardware>>

WakeBus ==
  /\ pc = "wakeBus"
  /\ \/ Goto("wake") /\ slow' = TRUE
     \/ Fail /\ slow' \in {slow, TRUE}
  /\ UNCHANGED <<load, device, hardware>>

(* wake: a request on a fast bus is not heard *)
Wake ==
  /\ pc = "wake"
  /\ \/ awake' = slow /\ IF slow THEN Goto("dataBus") ELSE Refuse
     \/ Fail /\ awake' \in {awake, slow}
  /\ UNCHANGED <<load, device, slow, clocks, irq, core, memory, given, asked,
                 inited, event>>

DataBus ==
  /\ pc = "dataBus"
  /\ \/ Goto("clocks") /\ slow' = FALSE
     \/ Fail /\ slow' \in {slow, FALSE}
  /\ UNCHANGED <<load, device, hardware>>

(* Fault: the stored digest alone decides. *)
ClocksHashOnly ==
  /\ pc = "clocks"
  /\ \/ input.file.intact /\ Goto("resetLmac")
     \/ ~input.file.intact /\ Refuse
  /\ clocks' = TRUE
  /\ UNCHANGED <<load, device, slow, awake, irq, core, memory, given, asked,
                 inited, event>>

(* enable_clocks, then load up to its first await *)
Clocks ==
  /\ pc = "clocks"
  /\ \/ Authorize(input.file) = "ok" /\ Goto("resetLmac") /\ clocks' = TRUE
     \/ Authorize(input.file) # "ok" /\ Refuse /\ clocks' = TRUE
     \/ Fail /\ clocks' \in BOOLEAN
  /\ UNCHANGED <<load, device, slow, awake, irq, core, memory, given, asked,
                 inited, event>>

(* run_processor_operation: the lower processor, then the upper one *)
AfterProcessor(p, pcs, last) == IF p = "Lmac" THEN pcs["Umac"] ELSE last

(* reset_processor: the pulse and the wait for the MIPS wait state *)
ResetProcessor(p) ==
  /\ pc = ResetPc[p]
  /\ \/ IF awake /\ clocks
        THEN /\ Goto(AfterProcessor(p, ResetPc, "download"))
             /\ core' = [core EXCEPT ![p] = "held"]
        ELSE Refuse /\ UNCHANGED core
     \/ Fail /\ core' \in {core, [core EXCEPT ![p] = "held"]}
  /\ image' = 1 /\ at' = 1
  /\ UNCHANGED <<device, slow, awake, clocks, irq, memory, given, asked,
                 inited, event>>

-----------------------------------------------------------------------------
(* download_images *)
DownloadOrder == <<0, 1, 2, 3>>

Destination(kind) ==
  CASE kind = 0 -> [p |-> "Umac", a |-> Address(\h80, \h9b800)]
    [] kind = 1 -> [p |-> "Umac", a |-> Address(\h80, \h8c000)]
    [] kind = 2 -> [p |-> "Lmac", a |-> Address(\h80, \h4bbc0)]
    [] kind = 3 -> [p |-> "Lmac", a |-> Address(\h80, \h43a80)]

(* The bytes from where an image goes to where the next one, or the next   *)
(* region of the memory map, begins                                        *)
Room(kind) ==
  CASE kind = 0 -> \h64800
    [] kind = 1 -> \hf800
    [] kind = 2 -> \h34440
    [] kind = 3 -> \h8140

(* The file that the trust policy pins is made for these destinations: no  *)
(* image of it reaches into another.  The loader itself only checks that   *)
(* both ends of an image are in memory.                                    *)
ASSUME PinnedAssumption ==
  \A c \in Cases : c.file.trusted /\ Parse(c.file) = "ok" =>
    \A kind \in ImageKinds : \A i \in 1 .. ImageCount :
      c.file.images[i].kind = kind => c.file.images[i].len <= Room(kind)

(* Memory after the transfer t of the slice that starts at byte start; the *)
(* frames of a transfer move its bytes, which TransfersExact shows.        *)
Written(t, start) ==
  {x \in ram : x[1] \notin t.host .. t.host + t.size - 1}
    \cup {<<t.host + i, start + t.from + i>> : i \in 0 .. t.data - 1}

Download ==
  /\ pc = "download"
  /\ LET kind == DownloadOrder[image]
         to   == Destination(kind)
         im   == Image(input.file, kind)
         ts   == Transfers(to.p, to.a, im.len)
     IN
     \/ /\ ~Reached(to.p, to.a, im.len, at)
        /\ Refuse
        /\ UNCHANGED <<load, ram>>
     \/ /\ Reached(to.p, to.a, im.len, at)
        /\ at <= Len(ts)
        /\ \/ /\ Goto("download")
              /\ ram' = Written(ts[at], im.start)
              /\ at' = at + 1
           \/ /\ Fail
              /\ ram' \in {ram, Written(ts[at], im.start)}
              /\ UNCHANGED at
        /\ UNCHANGED image
     \/ /\ Reached(to.p, to.a, im.len, at)
        /\ at > Len(ts)
        /\ \/ image < ImageCount /\ image' = image + 1 /\ Goto("download")
           \/ image = ImageCount /\ UNCHANGED image /\ Goto("clearLmac")
        /\ at' = 1
        /\ UNCHANGED ram
  /\ UNCHANGED <<device, slow, awake, clocks, irq, core, sig, map, given,
                 asked, inited, event>>

-----------------------------------------------------------------------------
(* boot_processor *)

(* Fault: the signature of an earlier boot stays. *)
ClearSignatureNot(p) ==
  /\ pc = ClearPc[p]
  /\ Goto(RunPc[p]) \/ Fail
  /\ UNCHANGED <<load, device, slow, hardware>>

ClearSignature(p) ==
  /\ pc = ClearPc[p]
  /\ \/ Goto(RunPc[p]) /\ sig' = [sig EXCEPT ![p] = FALSE]
     \/ Fail /\ sig' \in {sig, [sig EXCEPT ![p] = FALSE]}
  /\ UNCHANGED <<load, device, slow, awake, clocks, irq, core, map, ram,
                 given, asked, inited, event>>

(* Sleep control, the boot vectors and, last, the run bit *)
RunCore(p) ==
  /\ pc = RunPc[p]
  /\ \/ Goto(AwaitPc[p]) /\ core' = [core EXCEPT ![p] = "run"]
     \/ Fail /\ core' \in {core, [core EXCEPT ![p] = "run"]}
  /\ UNCHANGED <<load, device, slow, awake, clocks, irq, memory, given, asked,
                 inited, event>>

AwaitSignature(p) ==
  /\ pc = AwaitPc[p]
  /\ \/ sig[p] /\ Goto(AfterProcessor(p, ClearPc, "queues"))
     \/ Fail
  /\ UNCHANGED <<load, device, slow, hardware>>

-----------------------------------------------------------------------------
(* The rest of recover *)

(* queue_map_is_valid and validate_rx_command_base: addresses no firmware  *)
(* publishes                                                               *)
QueueMapIsValid(m) == m # "junk"

(* Fault: whatever is in memory is the queue map. *)
InitializeQueuesUnchecked ==
  /\ pc = "queues"
  /\ \/ Goto("postRx") /\ queues' = map /\ uncertain' = FALSE
     \/ Fail /\ UNCHANGED <<queues, uncertain>>
  /\ UNCHANGED <<load, posted, slow, hardware>>

InitializeQueues ==
  /\ pc = "queues"
  /\ \/ QueueMapIsValid(map) /\ Goto("postRx") /\ queues' = map /\ uncertain' = FALSE
     \/ ~QueueMapIsValid(map) /\ Refuse /\ UNCHANGED <<queues, uncertain>>
     \/ Fail /\ UNCHANGED <<queues, uncertain>>
  /\ UNCHANGED <<load, posted, slow, hardware>>

(* post_all_rx skips what is posted already; a failed enqueue keeps the    *)
(* descriptor, for the firmware may have it.                               *)
PostRx ==
  /\ pc = "postRx"
  /\ \/ posted = Descriptors /\ Goto("irqOn") /\ UNCHANGED <<posted, given>>
     \/ /\ posted # Descriptors
        /\ LET d == Min(Descriptors \ posted) IN
           \/ /\ Goto("postRx")
              /\ posted' = posted \cup {d}
              /\ given' = given \cup {d}
           \/ Fail /\ UNCHANGED <<posted, given>>
           \/ Fail /\ posted' = posted \cup {d} /\ given' \in {given, given \cup {d}}
  /\ UNCHANGED <<load, queues, uncertain, slow, awake, clocks, irq, core,
                 memory, asked, inited, event>>

(* enable_interrupts, then encode_system_init *)
IrqOn ==
  /\ pc = "irqOn"
  /\ \/ EncodeSystemInit(input.sys) /\ Goto("init") /\ irq' = "on"
     \/ ~EncodeSystemInit(input.sys) /\ Refuse /\ irq' = "on"
     \/ Fail /\ irq' \in {irq, "partial", "on"}
  /\ UNCHANGED <<load, device, slow, awake, clocks, core, memory, given,
                 asked, inited, event>>

(* send_control_reliable of the init command; see CommandTransport *)
SendInit ==
  /\ pc = "init"
  /\ \/ Ok /\ pc' = "idle" /\ drv' = "WaitingForSystemInit"
        /\ asked' = TRUE /\ UNCHANGED <<input, uncertain>>
     \/ Fail /\ UNCHANGED <<asked, uncertain>>
     \/ Fail /\ uncertain' = TRUE /\ asked' \in {asked, TRUE}
  /\ UNCHANGED <<load, queues, posted, slow, awake, clocks, irq, core, memory,
                 given, inited, event>>

(* The future of recover is dropped at an await.  One that is sending the  *)
(* init command may have sent it.                                          *)
Drop ==
  /\ pc # "idle"
  /\ Failure
  /\ pc' = "idle"
  /\ asked' \in IF pc = "init" THEN {asked, TRUE} ELSE {asked}
  /\ UNCHANGED <<input, drv, load, device, slow, awake, clocks, irq, core,
                 memory, given, inited, event>>

-----------------------------------------------------------------------------
(* The firmware, external.  The upper one publishes the queue map, which a *)
(* bad boot leaves as it never should be.                                  *)
CoreBoots(p) ==
  /\ core[p] = "run"
  /\ core' = [core EXCEPT ![p] = "booted"]
  /\ sig' = [sig EXCEPT ![p] = TRUE]
  /\ \/ Ok /\ map' = IF p = "Umac" THEN "new" ELSE map
     \/ Failure /\ p = "Umac" /\ map' = "junk"
  /\ UNCHANGED <<input, drv, pc, load, device, slow, awake, clocks, irq, ram,
                 given, asked, inited, event>>

FirmwareInit ==
  /\ asked
  /\ \A p \in Processors : core[p] = "booted"
  /\ asked' = FALSE /\ inited' = TRUE /\ event' = TRUE
  /\ UNCHANGED <<input, drv, pc, load, device, slow, awake, clocks, irq, core,
                 memory, given, faults>>

-----------------------------------------------------------------------------
(* The caller outside recover *)

(* poll_event: first the device's flag *)
PollUncertain ==
  /\ pc = "idle"
  /\ uncertain
  /\ drv' = "Recovering"
  /\ UNCHANGED <<input, pc, load, device, slow, hardware, faults>>

(* Fault: InitDone makes any driver ready. *)
PollInitDoneAnyState ==
  /\ pc = "idle"
  /\ ~uncertain /\ queues # "none" /\ event
  /\ event' = FALSE
  /\ drv' = "Ready"
  /\ UNCHANGED <<input, pc, load, device, slow, awake, clocks, irq, core,
                 memory, given, asked, inited, faults>>

PollInitDone ==
  /\ pc = "idle"
  /\ ~uncertain /\ queues # "none" /\ event
  /\ event' = FALSE
  /\ drv' = IF drv = "WaitingForSystemInit" THEN "Ready" ELSE "Recovering"
  /\ UNCHANGED <<input, pc, load, device, slow, awake, clocks, irq, core,
                 memory, given, asked, inited, faults>>

(* Whatever else makes a live driver enter recovery; see Driver *)
DriverFault ==
  /\ pc = "idle" /\ drv \in Live
  /\ Failure
  /\ drv' = "Recovering"
  /\ UNCHANGED <<input, pc, load, device, slow, hardware>>

(* The next recover may be given another file or configuration. *)
Supply ==
  /\ pc = "idle" /\ drv \notin Live
  /\ \E c \in Bundles \ {input} :
       /\ input' = c
       /\ ram' = IF c.file = input.file THEN ram ELSE {}
  /\ UNCHANGED <<drv, pc, load, device, slow, awake, clocks, irq, core, sig,
                 map, given, asked, inited, event, faults>>

RecoverStep ==
  \/ IrqOff \/ HardReset \/ WakeBus \/ Wake \/ DataBus \/ Clocks \/ Download
  \/ \E p \in Processors :
       ResetProcessor(p) \/ ClearSignature(p) \/ RunCore(p) \/ AwaitSignature(p)
  \/ InitializeQueues \/ PostRx \/ IrqOn \/ SendInit

Next ==
  \/ RecoverStart \/ RecoverStep \/ Drop
  \/ \E p \in Processors : CoreBoots(p)
  \/ FirmwareInit
  \/ PollUncertain \/ PollInitDone \/ DriverFault \/ Supply

Spec == Init /\ [][Next]_vars

(* Transfers end, the processors run, the caller polls, and it recovers a  *)
(* driver that is not live.                                                *)
FairSpec ==
  /\ Spec
  /\ WF_vars(drv \notin Live /\ RecoverStart)
  /\ WF_vars(RecoverStep)
  /\ \A p \in Processors : WF_vars(CoreBoots(p))
  /\ WF_vars(FirmwareInit)
  /\ WF_vars(PollInitDone)

-----------------------------------------------------------------------------
(* Properties *)

(* What the images of processor p are in memory *)
ImageBytes(kind) ==
  LET to == Destination(kind)
      im == Image(input.file, kind)
  IN {<<HostOffset(to.p, Advance(to.a, i)), im.start + i>> : i \in 0 .. im.len - 1}
Complete(p) ==
  \A kind \in ImageKinds :
    Destination(kind).p = p => ImageBytes(kind) \subseteq ram

(* A processor is let run only with every byte of its images in its        *)
(* memory, from a file that the trust policy and the stored digest accept, *)
(* whatever an earlier, failed or dropped recovery left there; and memory  *)
(* is not written under a running processor.                               *)
RunsTrusted ==
  [][/\ \A p \in Processors : core[p] # "run" /\ core'[p] = "run" =>
          Complete(p) /\ input.file.trusted /\ input.file.intact
     /\ input' = input /\ ram' # ram =>
          \A p \in Processors : core'[p] \in {"off", "held"}]_vars

(* A driver that waits for its firmware, or has it, runs two processors    *)
(* that booted since the reset, uses the queue map of that boot, and has   *)
(* given all receive descriptors to it: no signature, map or descriptor    *)
(* left from before the reset counts.                                      *)
ReadyIsBooted ==
  drv \in Live =>
    /\ \A p \in Processors : core[p] = "booted"
    /\ queues = "new"
    /\ given = Descriptors /\ posted = Descriptors
    /\ irq = "on"

(* FirmwareBundle::parse accepts exactly the files whose four images fill  *)
(* the file, and then finds each image inside it, apart from the others.   *)
ParseExact ==
  LET f == input.file
      Extent(kind) == Image(f, kind).start .. (Image(f, kind).start + Image(f, kind).len - 1)
  IN /\ Parse(f) = "ok" <=> WellFormed(f)
     /\ Parse(f) = "ok" =>
          \A k \in ImageKinds :
            /\ Extent(k) \subseteq HeaderLen .. f.size - 1
            /\ \A j \in ImageKinds \ {k} : Extent(j) \cap Extent(k) = {}

(* The parts, one after the other, are the size bytes from first on. *)
InOrder(parts, first, size) ==
  /\ \A i \in 1 .. Len(parts) :
       /\ parts[i].size > 0
       /\ parts[i].host = IF i = 1 THEN first ELSE parts[i - 1].host + parts[i - 1].size
  /\ size = IF parts = <<>> THEN 0
            ELSE parts[Len(parts)].host + parts[Len(parts)].size - first

(* The frames move these bytes in order. *)
FramesExact(frames, first, size) ==
  /\ \A i \in 1 .. Len(frames) :
       FrameBytes(frames[i]) =
         [j \in 1 .. frames[i].len |-> FrameBytes(frames[i])[1] + j - 1]
  /\ InOrder([i \in 1 .. Len(frames) |->
               [host |-> FrameBytes(frames[i])[1], size |-> frames[i].len]], first, size)

(* Whether the frames of read_one keep its rule for a latency *)
KeepsWordRule(frames) ==
  \A j \in 1 .. Len(frames) : frames[j].latency # 0 => frames[j].len <= WordLen

(* The frames of one transfer fit the buffer in every configuration.  With *)
(* the incrementing bit as mask, as Nordic's configurations have it, they  *)
(* move its bytes and wait for the latency of each; with no mask they move *)
(* them only if the transfer is one word.  And the rule that a read with a *)
(* latency is at most a word, which read_one asserts, is kept except with  *)
(* a fixed latency and a longer transfer.  (Of other masks, which SetBits  *)
(* covers, nothing is said about the bytes.)                               *)
FramesRight(config, t) ==
  LET writes == WriteFrames(config, t.host, t.size)
      reads  == ReadFrames(config, t.host, t.size)
      Exact  == FramesExact(writes, t.host, t.size) /\ FramesExact(reads, t.host, t.size)
      Waits  == \A j \in 1 .. Len(reads) : \A k \in 1 .. reads[j].len :
                  ReadLatency(config, FrameBytes(reads[j])[k]) = reads[j].latency
  IN /\ \A j \in 1 .. Len(reads) : FitsBuffer(reads[j])
     /\ config.mask = {IncrementingBit} => Exact /\ Waits
     /\ config.mask = {} => (Exact <=> t.size <= WordLen)
     /\ KeepsWordRule(reads) <=> config.latency = 0 \/ t.size <= WordLen

(* The transfers of an access that is all in memory are the bytes of its   *)
(* range and their padding, each once and in order.                        *)
AccessRight(x) ==
  LET ts == Transfers(x.p, x.a, x.len)
      Host(i) == HostOffset(x.p, Advance(x.a, i))
  IN /\ InOrder(ts, Host(0), Align4(x.len))
     /\ \A i \in 0 .. x.len - 1 : Host(i) = Host(0) + i
     /\ \A i \in 1 .. Len(ts) :
          /\ ts[i].host = Host(0) + ts[i].from
          /\ ts[i].from + ts[i].data = IF i = Len(ts) THEN x.len ELSE ts[i + 1].from
          /\ FramesRight(x.spi, ts[i])

(* What read and write do with an access that validate_access accepts.     *)
(* Either all of it is in memory, and its transfers and their frames are   *)
(* right; or only its two ends are, and the access that was accepted ends  *)
(* with an error at a transfer that begins in the hole between them.  So a *)
(* chunk never ends inside a word, a region of the memory map never        *)
(* straddles two bands of the latency table, and no access across a hole   *)
(* is reported as done.                                                    *)
TransfersExact ==
  LET x == input.access IN
  /\ ValidateAccess(x.p, x.a, x.len) = "ok" =>
       IF \A i \in 0 .. Align4(x.len) - 1 : Mapped(x.p, Advance(x.a, i))
       THEN AccessRight(x)
       ELSE ~Reached(x.p, x.a, x.len, Len(Transfers(x.p, x.a, x.len)))
  /\ ValidateIndirect(x.a, x.len) = "ok" =>
       IndirectBytes(x.a, x.len) = [i \in 1 .. x.len |-> x.a.low + i - 1]

(* Bring-up implements the lifecycle the driver relies on. *)
Firmware ==
  IF drv \notin Live THEN "none"
  ELSE IF inited THEN "up"
  ELSE IF asked THEN "started" ELSE "none"
Life == INSTANCE Lifecycle WITH state <- drv, fw <- Firmware
IsLifecycle == Life!LSpec

(* With a file and a configuration that stay good, a driver that keeps     *)
(* recovering becomes ready, whatever failed before.                       *)
Suitable ==
  /\ Parse(input.file) = "ok" /\ Authorize(input.file) = "ok"
  /\ \A kind \in ImageKinds :
       LET to  == Destination(kind)
           len == Image(input.file, kind).len
       IN Reached(to.p, to.a, len, Len(Transfers(to.p, to.a, len)))
  /\ ValidateSystemConfig(input.sys) /\ EncodeSystemInit(input.sys)
BecomesReady == <>[]Suitable => []<>(drv = "Ready")
=============================================================================
