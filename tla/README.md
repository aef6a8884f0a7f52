# A verification of embassy-nrf7002

TLA+ models of the nRF7002 driver core in `src/src`, the TLC runs that check
them on small instances, and TLAPS proofs for every instance. `PROJECT.json`
maps every definition to the lines it models.

## The system

| Component | State | Operations | Talks to |
|---|---|---|---|
| Station controller (`station.rs`) | lifecycle state, pending command and return state, peer, secure, authorized, carrier, deadline | 13 commands, control and carrier events, `advance_time`, recovery entry and exit, group rekey | called by the driver and by the WPA2 runtime; sends through the device |
| Driver lifecycle (`runtime.rs`) | `Cold`, `Recovering`, `WaitingForSystemInit`, `Ready`, `Fault`; configured MAC | `recover`, command gating, `poll_event` and dispatch, receive, transmit, watchdog | owns device, data path, station |
| Mission-critical wrapper (`production.rs`) | none of its own | the same operations; decides which errors enter recovery; `Wpa2StationDriver` routes events to the WPA2 runtime | wraps the driver |
| WPA2 runtime (`wpa2_runtime.rs`) and supplicant (`wpa2.rs`) | handshake step, tickets, replay counters, deadline | EAPOL frames, command status, TX done, carrier | drives station key commands and `authorize` |
| Device transport (`device.rs`) | `recovery_required`, pending fragmented event, queue map | fragmented send with bounded wait, event reassembly, interrupts | bus, firmware queues |
| Data path (`data.rs`) | RX descriptors posted, TX tokens in flight | post, receive, transmit, complete; layout; Ethernet conversion | device |
| Embassy queue (`embassy.rs`) | one RX slot, one TX slot, link flag and epoch, four wakers | tokens of embassy-net, push and take of the runner, link change | three unsynchronised callers |
| Firmware loading (`firmware.rs`) | none; the progress is in the future | parse, verify, download, boot | called by `recover`; uses memory |
| Memory (`memory.rs`) and SPI bus (`bus.rs`) | the configuration | wake, clocks, address translation, cutting of accesses; framing, latency | under everything |
| Messages (`control.rs`, `protocol.rs`, `codec.rs`, `system.rs`) | none | encode, parse | everyone |

What is hard: the firmware answers in its own order and time, and carrier
arrives on another path than command answers; a deadline races a late answer;
a bus error in the middle of a fragmented send leaves the firmware's knowledge
unknown; `recover` may fail or be dropped at each await; the Embassy queue is
shared by three parties with atomics only; the WPA2 runtime and the station
keep separate state about one connection. The hazards, each at its line and
with the properties aimed at it, are in `PROJECT.json`.

What makes the parts correct:

* station and driver: the controlled port is open only for a connection that
  was made, granted and is still there; every wait ends; every fault recovers
  and recovery forgets everything;
* Embassy queue: one owner per slot, no frame across a reconnect, no lost wake,
  no slot that stays occupied;
* WPA2: the port opens only after the handshake *of this association*;
* data path and transport: nothing is reused while the firmware may own it, and
  every message is delivered whole or known to be uncertain;
* messages: no length field leads a parser outside its message, and a command
  has the length it declares;
* bring-up: only complete, trusted firmware runs, and a driver is ready only
  with a firmware that was started for this recovery.

## Modules

| Module | What it is |
|---|---|
| `Station` | `station.rs` as operators on a record: guards and effects of commands, handlers of events |
| `Driver` | state machine of `runtime.rs` and of the wrapper of `production.rs` around one station |
| `MCDriver` | instances of `Driver` |
| `StationProofs` | lemmas about the operators of `Station`, for both proofs that need them |
| `DriverProofs` | theorems about `Driver` |
| `NetworkQueue` | state machine of `embassy.rs`: client, runner and link, one step per atomic access |
| `MCNetworkQueue` | instances of `NetworkQueue` |
| `NetworkQueueProofs` | theorems about `NetworkQueue` |
| `PacketRam` | layout of packet RAM that `DataPath::new` accepts |
| `DataPath` | state machine of `data.rs`: descriptors, tokens and the firmware's ownership, one step per transfer |
| `MCDataPath` | instances of `DataPath` |
| `DataPathProofs` | theorems about `DataPath` |
| `Messages` | the parsers of host messages, system, control and data events, and the 802.11 to Ethernet conversion, as operators |
| `EventTransport` | event half of `device.rs`: fragments, reassembly over several calls, event buffers |
| `MCEventTransport` | instances of `EventTransport` |
| `EventTransportProofs` | theorems about `EventTransport` and `Messages` |
| `ControlCommands` | the encoders of control commands, by their checks and lengths |
| `CommandChannel` | what the command half promises: a channel of whole commands |
| `CommandTransport` | command half of `device.rs`: fragmented send, bounded wait, uncertain delivery; implements `CommandChannel` |
| `MCCommandTransport` | instances of `CommandTransport` |
| `CommandTransportProofs` | theorems about `CommandTransport` and `ControlCommands` |
| `EapolKey` | checks and key data of an EAPOL-Key frame (`wpa2.rs`) |
| `Wpa2Session` | state machine of `wpa2.rs`, `wpa2_runtime.rs` and `Wpa2StationDriver` around one station |
| `MCWpa2Session` | instances of `Wpa2Session` |
| `Wpa2SessionProofs` | theorems about `Wpa2Session` and `EapolKey` |
| `Memory` | `memory.rs`: regions, checks of an access, transfers |
| `SpiBus` | `bus.rs`: address mask, frames and latency of a transfer |
| `FirmwareBundle` | `firmware.rs`: the parser and the verification of the firmware file |
| `Lifecycle` | what bring-up promises: a ready driver has a firmware of its own recovery |
| `Bringup` | `recover` step by step on these, with the two processors; implements `Lifecycle` |
| `MCBringup` | instance of `Bringup` |
| `BringupProofs` | theorems about `Bringup`, `FirmwareBundle`, `Memory` and `SpiBus` |

Definitions under a comment "Fault: ..." are wrong versions of the definition
that follows them. No specification uses them; each shows that a property would
notice that mistake.

### Station and Driver

The fields of `StationController` are the fields of the record `st`; `drv` is
`NativeDriver.state`, `configured` whether `configured_mac` is set, `uncertain`
is `Device.recovery_required`. All operations take `&mut self`, so each is one
action, whole: a command's action contains the controller's check, the send
and the state it leaves behind; `CommandFailed` is the send that fails. The
firmware is external and unconstrained: `StationEvent` takes any event, for
this interface or another, good or bad, at any time, so lost, late, repeated
and reordered answers are all behaviours. `mission` says whether the driver is
a `MissionCriticalDriver`, whose recovery policy then decides, or a
`NativeDriver` alone; `early` whether the firmware may report carrier before an
association, which the code does not rule out. `Init` leaves both open and no
step changes them, so one run and one proof cover the four combinations.

Addresses are members of `Peers`; status words are zero or not; identifiers
are this interface's or not; `last_fault` is left out, as only the caller reads
it. Time is counted in ticks and all timed states share one `Deadline`:
the properties tell apart only whether a state has one, and whether it has
passed. `hist` is a history variable: the peer whose association was accepted,
the peer for which `SetStation` was accepted, and whether the caller is ending
the connection, each for the current connection only.

### NetworkQueue

`embassy.rs` protects two buffers by atomics and claims `Sync`, so its callers
may run on different threads or interrupt priorities. Each load, store,
compare-exchange, registration and wake is a step of its process; the module's
header says which accesses share a step and why no behaviour is lost. A frame
is represented by the epoch of the connection it was written for, so "a frame
crosses a reconnect" is visible in the data itself and not only in the slot's
epoch field, which is what the code compares. `polling` is how the runner
waits, with `poll_tx_ready` or with `register_tx_waker`; both are public, and
the author of a runner chooses one, so `Init` leaves it open and no step
changes it.
The tasks' own loops (a woken task runs again; the hardware has a frame) are
external.

### DataPath

`posted` and `inFlight` are the true entries of `rx_posted` and
`tx_in_flight`, `nextTx` is `next_tx`, `queues` whether `Device.queues` is
set. `pc` is the next bus transfer of the operation in progress (there is one
at a time, for all take `&mut`), `id` its descriptor or token. What the
firmware owns (`fwRx`, `fwTx`, and the events `rxEv`, `txEv`) is state of its
own, which the host does not see: the properties relate the two. Every
transfer may fail (`Failure`), and every future may be dropped where it waits
(`DropFuture`); a queue write that fails or is dropped may have happened or
not. `wrapped` says whether `MissionCriticalDriver` decides what follows an
error, or the caller just goes on; it is chosen once. `held` are packets of
events the caller was given and has not yet handed to `receive_packet`.
`recover` appears as the transfers that touch this state: reset, boot, posting
all descriptors, system initialization. `PacketRam` gives each descriptor and
token its bytes, so `Exclusive` speaks of bytes of packet RAM and not of
numbers: it also says that no slot of an accepted layout reaches into another.

### EventTransport and Messages

Lengths of an event on its way are counted in fragments. `pending` is
`pending_event`, `local` the copy of it that `try_read_event` works on, `free`
the event buffers the firmware may use; an event received is the sequence of
its fragments, so a message put together wrongly is visible as such. The
caller polls with any of its scratch buffers, long enough or not, and may
discard; `Retries` says whether a caller without the wrapper goes on after a
bus error. A whole event is then parsed: it stands for each message in
`Bodies`, and `strayed` records whether the parsers were wrong about one.

In `Messages` a message is the number of its bytes and those of its fields
that are lengths, counts or selectors. A parser is a sequence of steps; each
has read the message up to an offset, and goes on if its condition holds. What
must be true of the outcome is stated apart from the steps: no offset beyond
the bytes that are there, no slice beyond the declared length, and exactly the
messages accepted that the firmware's structures allow. For a packet of a
receive event the conversion of `data.rs` is followed to the offsets of its
two addresses, its type and its payload; the reference is the table of address
fields of IEEE 802.11 by To-DS and From-DS.

### CommandTransport and ControlCommands

`required` is `recovery_required`, `free` and `busy` are the firmware's
command queues, `assembly` and `received` the firmware's side. A command is
one of `Requests`: `ControlCommands` says whether it is refused, and how long
its encoding is, from the widths its writers write; `garbled` records a
request for which that differs from the limits of its fields or from the
length in its header. A send may be dropped at an await (`DropSend`): the code
marks nothing then, and `torn` says that the firmware has a part of a command
that will not be continued, until the next recovery. The abstract
specification `CommandChannel` has the status of each command, the set
received, and whether the channel is broken; the refinement mapping takes
`torn` for the last.

### Wpa2Session

Three records describe one connection: `st`, the station of module `Station`;
`sup`, the supplicant, with its phase, replay counters and the frames whose
digests it keeps; `rt`, the coordinator, with its state, the token it waits
for, the install requests it holds and its deadline. The module composes them
as `Wpa2StationDriver` does: an event goes to the station first, and to the
coordinator only if the station accepts it and the coordinator expects it; an
error of the coordinator takes the driver down, while a fault of the driver
does not tell the coordinator. A frame on the wire (`WireFrames`) has its
length fields, its key information and the elements of its key data;
`EapolKey` says whether it parses, which message it is, and whether its key
data gives a group key. What the supplicant then reads is its digest; instead
of keys and MICs it has the number of the handshake it verifies for. The access
point sends any frame at any time, so repeated, old and forged ones are
behaviours. `installed` and `hist` are
history: for which handshakes a pairwise key went to the firmware, and what
has succeeded since the last `associate`. `Careful` says that the caller
restarts the session before each secure association; the code does not
require it.

### Bringup

`pc` is the next await of `recover`, and of `firmware::load` inside it. Each
ends well, fails with or without its effect, or is the one at which the future
is dropped. `drv`, `queues`, `uncertain` and `posted` are the driver's state;
`core`, `sig`, `map`, `ram`, `given`, `asked` and `inited` are the chip's. A
reset may keep memory or lose it, so what an earlier, failed recovery left
there (half an image, a boot signature, a queue map) is still there or not.
`ram` holds, for each host byte, the byte of the file written there; `Download`
writes it transfer by transfer, as `Memory` cuts the image. The caller may come
with another file or configuration each time (`Supply`). `input` also carries
one memory access, over which `TransfersExact` compares `Memory` and `SpiBus`
with the bytes that were asked for: for an access across a hole, and for
configurations with other masks and latencies than Nordic's, it says exactly
what goes wrong. An address mask is the set of its bits, by their weights. The refinement mapping to `Lifecycle` takes
the firmware for present only while the driver is waiting or ready.

## Runs

| Run | Bounds | Shows |
|---|---|---|
| `driver` | 2 peers, deadline 2, 1 rearm, with and without the wrapper, either carrier order, fair timer | port only on a ready driver; secure port only for an associated, granted peer, any port only for an associated one; flags agree with state and history; recovery forgets and no fault is left; a lost carrier is seen; every waiting state ends |
| `driver_closing` | the same | **violated**: carrier-on after `disconnect` or `bring_down` reopens the port |
| `queue_safety` | 3 link changes, both ways of waiting | one owner per slot, no stale frame, no lost wake (client: link, RX, space; runner: TX) |
| `queue_stale` | 1 link change, fair | **violated**: a frame of the previous epoch blocks the TX slot |
| `data_path` | 2 descriptors, 2 tokens, slots that fill packet RAM to the last byte, 2 failures or drops, fair | the host touches no byte the firmware may use; every event is about something marked; under the wrapper nothing leaks and tokens return |
| `data_retry` | same, no failures, a caller that comes back with a larger buffer | **violated**: a posted descriptor is read and posted again |
| `event_read` | 3 events of up to 3 fragments, 2 event buffers, scratch for 3 and for 1, 1 failure, some 12,000 messages, fair | events whole and in order; the rest of a rejected event is removed; no buffer is lost; the queue drains; parsers stay inside the message and accept what is well formed; so does the conversion, but for an MPDU of fewer than two bytes |
| `event_retry` | 2 events, 1 failure, a caller that goes on after it | **violated**: a later fragment is returned as an event |
| `command_send` | 3 commands of up to 5 fragments, 2 buffers, 2 polls, 2 failures or drops, fair | commands have the length they declare and respect the limits of their fields; fragments of two are never joined unless a send was dropped; implements `CommandChannel`; what was sent is received |
| `wpa2_session` | 1 access point, 2 handshakes, replay counters to 3, 2 tokens, deadline 2, ticks of 1, careful caller, fair timer | the secure port needs all keys and Message 4 of this association; no pairwise key is installed twice; requests agree with the supplicant and come from frames with a whole group key; every radio operation ends |
| `wpa2_stale` | same, a caller that goes on with the old session | **violated**: the TX-done event of an old Message 4 authorizes a new association |
| `bringup` | 2 faults (failures, drops or a live driver given up), 2 descriptors, chunks of 8 bytes, files, configurations and accesses at the edges of every check, fair | a running processor has every byte of its images from a trusted, intact file; a driver that is ready or waits has processors, queue map and descriptors of this boot; implements `Lifecycle`; becomes ready; the parser accepts exactly well-formed files; accesses move each byte once, at the right latency, with the exceptions stated exactly (below) |

Why the bounds suffice. Two peers are the fewest with which a frame can come
from the wrong one and a new connection can differ from an old one; a deadline
of two ticks can come nearer before it passes; `set_station_timeouts` has the
same effect each time, and unbounded calls of it would rightly stop every
deadline. Three link changes bring the link up, down and up again: the
shortest history in which an old connection meets a new one. Two descriptors
and two tokens let one be in use while the other is reused, and wrap the
rotation; two failures let a recovery fail that was started by a failure.
Three events are one that is damaged, one that follows it and one whose
buffers the firmware keeps; with two event buffers a three-fragment event
cannot be queued at once, so a lost buffer stops the firmware. Commands of up
to five fragments with two buffers have to wait in the middle. Messages,
requests, files and accesses are not bounded by a size but chosen around every
comparison: each length a check names, one less and one more, in combination.
Chunks of 8 bytes instead of 4096 cut small images as the real ones are cut.
Two faults let a recovery be dropped and the next one fail. Two handshakes
are an old and a new one; with three replay values a message can be older than,
equal to and newer than the last, and a rekey can follow Message 3; two tokens
let an old frame be in flight beside a new one. Only `bringup` switches
deadlock checking off: a file that does not parse gives the caller nothing to
call `recover` with, and a ready driver may stay ready.

Fairness. `FairSpec` of `Driver` assumes only that the caller's timer path
calls `advance_time`; nothing is assumed of the firmware. `FairSpec` of
`Wpa2Session` assumes the same. Its ticks are shorter than its deadlines: when
a call of `Wpa2StationDriver::advance_time` ends the station's deadline, it
returns before the coordinator's clock moves, so a caller that passes whole
deadlines at once can hold up the coordinator for as long as the station keeps
timing out. `WaitingEnds` leaves
out `Securing` and `ReadingScanResults`: each key command and each scan result
starts their deadline again, so the caller or the firmware can prolong them for
ever. `FairSpec` of `NetworkQueue` assumes that a task that can run does run,
which the executor guarantees for a woken task; frames and link changes need
not come. `FairSpec` of `DataPath` assumes that transfers end, that the
firmware sends the frames it was given, that the event loop comes back to each
event whatever else the host does in between (strong fairness, since other
operations take the driver again and again), and that a driver that is down is
recovered, which the wrapper demands of its caller. `EventTransport` assumes
the same of transfers, of polling (docs/PORTING.md, step 11) and of recovery,
and that the firmware finishes an event it has begun; `CommandTransport`, that
transfers end and that the firmware empties its queue; `Bringup`, that
transfers end, that the processors run what they are given, and that the caller
polls and recovers a driver that is not live. Failures are bounded in
number, so a recovery succeeds in the end; no fairness is asked of the calls
that start something.

### What the violated runs say

* `driver_closing`: `handle_carrier_on` calls `refresh_connected` in every
  state. A repeated carrier-on in `Disconnecting` or `InterfaceDownPending`
  makes the station `Connected` again, port open, with the deauthentication
  still pending. `OnlyCarrierReopens` (below) shows that no other event does.
* `queue_stale`: `set_authorized_link` raises `link_up` before it counts the
  epoch. A client that reserves in between gets the old epoch, passes its
  check and publishes after the link's discard. `tx_is_ready` compares epochs,
  so `poll_tx_ready` never reports that frame, and `take_tx`, which would
  discard it, is not called. Since `receive` needs the TX slot too, both
  directions stop until the link changes again. A
  runner that calls `take_tx` each time it is woken discards such a frame.
* `data_retry`: `receive_packet` returns `OutputTooSmall` with the size it
  needs after it has given the descriptor back to the firmware. Called again
  for the same packet it finds the descriptor posted and accepts it: the slot
  is read while the firmware may write it, and posted twice. Under the wrapper
  too, since this error does not start a recovery.
* `event_retry`: `try_read_event` takes a fragment off the queue before it has
  read it, and a bus error does not mark the device. The next call takes a
  middle fragment for a new event, or puts later fragments in the place of
  earlier ones. The wrapper recovers from every such error (`event_read`).

* `wpa2_stale`: a deauthentication resets the station and not the coordinator.
  With Message 4 in flight it goes on waiting for that token; if the caller
  associates again with the same session, the late TX-done event makes it
  authorize the new association, whose keys were never installed.
  `wpa2_session` shows that a session restarted before each association does
  not do this.

Three findings are cases of a property that holds, which names them and says
that there are no others:

* `ParsedWithin`: `convert_mpdu` reads the frame control of an MPDU before it
  compares any length, and nothing has bounded the packet length from below.
  With a MAC header of at least 24, a packet of 0 or 1 bytes makes it panic,
  though `DataProtocolError::FrameTooShort` exists for it
  (`LacksFrameControl`). `DataPath` has no step for the end of the program.
* `TransfersExact`, frames: `SpiConfig::new` accepts any 24-bit mask and a fixed
  latency of up to 8 words. With a fixed latency every read longer than a word
  breaks the `debug_assert` of `read_one` (`KeepsWordRule`); without a mask no
  transfer longer than a word moves its bytes. Nordic's two configurations do
  neither. Other masks, which change addresses as `SetBits` says, fit the
  buffer; nothing is claimed about the bytes they move.
* `TransfersExact`, holes: `checked_range` looks up both ends of a range, so one
  that begins and ends in two regions of a processor with a hole between them
  is accepted, while `AddressError::Range` is documented for ranges that leave
  a region. No caller in the driver makes one. `read` and `write` move its
  first chunks and end with an error at the first chunk in the hole
  (`Reached`); `MCBringup`'s `Hole` is such an access.

Smaller observations without a run of their own:

* `handle_carrier_off` faults only in `Connected`: in `PowerSavePending` it
  clears a flag, and the command's status then restores `Connected` without
  carrier. The port is closed (it needs the flag), but no fault is reported and
  no deadline runs. `CarrierWatched` says that this is the only way.
* `complete_group_rekey` looks at the flags and not at the state, so a rekey
  whose last TX-done event comes after `disconnect` was sent makes the station
  `Connected` again, as the carrier event of `driver_closing` does.
* `PortOnlyWhenReady` and `RecoveryForgets` are claims about the wrapper:
  `NativeDriver`'s `watchdog_pending` sets `DriverState::Fault` and leaves the
  station connected with its port open, so its caller has to recover before it
  reads the link state.
* A send of several fragments that is dropped leaves `recovery_required` unset:
  the next command is joined to its beginning. `NoSplice` and `CommandChannel`
  except just this case.
* After a bus error a wrapped driver in recovery still dispatches system events
  from an event stream that may be out of step. `PollInitDone` makes a driver
  ready only in `WaitingForSystemInit`, which `Bringup` reaches after a reset.
* `load` checks each image against the memory map and not against the others;
  a secondary image longer than the distance to the primary one would overlap
  it. `RunsTrusted` is checked and proved for files whose images do not reach
  that far if they are trusted (`PinnedAssumption`); the pinned digest keeps
  others out.
* A receive count is bounded by packet RAM only, not by the room for receive
  commands in LMAC memory.
* A four-address packet whose header is said to be 24 bytes long is converted,
  with its fourth address read from what follows.
* `src/README.md` says that the connection flow is missing; the code has it.

## Proofs

`DriverProofs` proves, for every set of peers, every deadline and every bound,
with and without the wrapper and for either order of carrier: `TypeCorrect`,
`StationConsistent`, `SecurePort`, `ConnectionForgotten` (`RecoveryForgets`),
`FailClosed` (`PortOnlyWhenReady`), `PortAssociated` and `CarrierIsWatched`.
They rest on the inductive invariant `IInv`, whose core is `Good`: the type,
`Sound` (the conjunction that `Consistent` checks), what the pending command
says about the state, and what an association says about the peer.
`SecurePortNeedsGrant` alone is not inductive: it speaks of open ports, while
the flags that open a port are set long before (in `associate`, in the answer
to `SetStation`), and they return through `pending_return_state`, so the
invariant ties flags, state and return state to the history in every state.
Each operator of `Station` has a lemma in `StationProofs` or `DriverProofs`,
which says what it does to the record, and one that it keeps `Good`; each action of
`Driver` follows from the lemma of its operator. `CarrierIsWatched` is an
action property: from `IInv`, each action keeps `Watched`, again by one lemma
per operator. Three more theorems are about what no run states. `WaitingEnds`
is out of the prover's reach, but what it needs beside the fair timer is not:
`WaitingHasDeadline` says that a deadline runs in exactly the waiting states,
and `DeadlinesOnlyNear` that no step but `set_station_timeouts` gives a wait
more time, while each call of `advance_time` shortens or ends it.
`OnlyCarrierReopens` is the counterpart of `driver_closing`: of a driver to
which no carrier-on is reported between `disconnect` or `bring_down` and its
confirmation, the port stays closed, since in `Disconnecting` and
`InterfaceDownPending` every other event keeps the state, clears the peer or
fails, and no command is accepted (`Closing`). Assumptions: `NoPeer` is not a peer, the deadline is at least 1
(the code's `.max(1)`).

`NetworkQueueProofs` proves `TypeCorrect`, `ExclusiveSlots` (`Ownership`),
`FreshFrames` (`NoStaleFrame`) and `WakesArrive` (`NoLostWake`) for any number
of link changes and both ways of waiting. `Ownership` needs to know which operation a client is in
(`ClientPcOp`); `NoStaleFrame` needs `RxFresh` and `TxFresh`: a published or
claimed slot holds a frame of the slot's own epoch, and a TX slot in a client's
hands has the client's epoch. With these the invariant is inductive, one case
per step of each process. `NoLostWake` has an invariant of its own on top of
it (`WInv`). It speaks of a process that sleeps; the invariant says the same of
one that is still on its way to sleep: from the moment its waker is registered
(`ClientArmed`, `RunnerArmed`), whatever becomes ready is seen by its second
look or has a wake on its way, in the hands of whoever made it ready
(`RxWatched`, `SpaceWatched`, `TxWatched`).

`DataPathProofs` proves, for any number of descriptors, tokens, failures and
drops: `TypeCorrect`; and for a careful caller `ExclusiveHolds`,
`EventsKnownHolds` and `NothingLostHolds`. A careful caller hands each packet
of an event in once; `data_retry` shows that without this `Exclusive` is
false. `Exclusive` speaks of the operation in progress and is not inductive:
`TxBooks` and `RxBooks` say that whatever is with the firmware, in an event or
in the caller's hands is still marked, and is in one of these places only, so
that no operation chooses it. `NothingLost` is the converse and needs
`Balance`: under the wrapper operations run only on a ready driver or in
`recover` (`Control`), and unless a future was dropped, all that is marked on a
driver that is not down is somewhere it comes back from (`Accounts`). Every
failure of a transfer after which this would not be so takes the driver down.
The assumption on the constants is `ValidLayout`, what `DataPath::new` checks.
From it `RxApart`, `TxApart` and `KindsApart` show that the slots of different
descriptors and tokens share no byte: strides are at least as long as what is
used of a slot, and the sum of all slots fits, so both ends stay apart. With
these, exclusive ownership of numbers becomes exclusive ownership of bytes.

`EventTransportProofs` proves, for any pool of buffers, number and length of
events and set of caller's buffers, and for a driver that recovers after a bus
error (`~Retries`; `event_retry` shows that another one gets fragments for
events): `TypeCorrect`, `ReturnsWhole` (`Whole`), `StaysAligned` (`Aligned`) and
`BuffersComeBack` (`BuffersReturn`). What a call does depends on the fragment
it takes next, so the invariant is about the fragments yet to come, queued or
not (`Stream`): each continues the event of the one before it or begins a later
one (`Ordered`). `Place` then says of a ready driver, for each step of a call,
that its progress, the fragment in hand and the head of the stream agree, and
that what it has copied is a prefix of that event (`Copied`); `GotInv` that
everything returned is whole and older than what comes; `Count` counts the
lent buffers in the queue and in hand. A failed transfer takes the driver down,
and nothing is claimed of it until the next reset.
`ParsersStayWithin` (`ParsedWithin`) holds for every caller and every message:
for each parser a lemma gives the condition on the fields under which it
accepts and shows that each of its steps stays within the bytes the earlier
steps have checked; the theorem joins them. The conversion of a packet is the
one with an exception, and the lemma is an equivalence (`ConversionIs`). `EventAssumption` says that a
message's fields have the signs of the code's integer types: only the frame
length of an MLME event is signed.

`CommandTransportProofs` proves, for every set of requests, fragment length,
pool and number of faults: `TypeCorrect`, `NeverSpliced` (`NoSplice`),
`AlwaysEncodedRight` (`EncodedRight`), and `ImplementsChannel`, the refinement
of `CommandChannel`. The stream here is what was posted and not yet put
together by the firmware. Within a command its fragments are consecutive, and
commands are in order, whether or not a send was dropped (`Ordered`,
`Current`), so no command is received twice, or before all of it was posted
(`ReceivedInv`). Unless `torn`, the stream is one of whole commands but for the
last (`WholeInv`): a send that ends with a part of its command posted has marked
the device, and nothing follows before a recovery. `EncodedRight` is
arithmetic, one lemma per encoder, for all lengths of its parts.

`Wpa2SessionProofs` proves, for any frames on the wire, handshakes, replay
counters and tokens: `TypeCorrect`, `RequestsPending` (`RequestPending`),
`NeverReinstalled` (`NoReinstall`), and for a caller that starts a session per
association (`Careful`; `wpa2_stale` shows the need) `PortAfterHandshake`
(`PortNeedsHandshake`). The last speaks of an open port; the invariant says, for
each state the coordinator can wait in, which keys the firmware has by then
(`Stage`), that each status waited for has its request (`RtInv`), and that a
supplicant that waits for Message 1 or 3 has a nonce whose key is not installed
(`SupInv`). The station enters only through what its operations cannot do
(`Quiet`): none but `associate` begins a secure connection and none but
`authorize` grants the port. That a request comes from a frame with a whole
group key is a fact about `parse_gtk_kde` on key data of any number of
elements; its loop is a recursive function, and the lemma is proved on the
first element at which it would fail. `WaitsHaveDeadline` and
`OperationsOnlyNear` are the safety half of `OperationEnds`: a waiting
coordinator has a running deadline, and nothing, a repeated handshake message
least of all, gives a pending operation more time (`OnTime`, one lemma for each
way a coordinator moves). Assumption: `WireAssumption`, the ranges of the fields
on the wire.

`BringupProofs` proves, for all files, configurations, numbers of buffers and
failures: `TypeCorrect`, `BootedWhenReady` (`ReadyIsBooted`), `ParsesExactly`
(`ParseExact`), `TransfersExactly` (`TransfersExact`), `RunsOnlyTrusted`
(`RunsTrusted`) and `ImplementsLifecycle`, the refinement of `Lifecycle`. `ReadyIsBooted` holds because of what `recover` has
done by each of its awaits: the reset made the firmware forget (`ResetInv`),
each processor is held until it is let run and has no old signature by then
(`CoreInv`), and the queue map of an earlier boot is gone (`QueueInv`).
`RunsTrusted` is about bytes: `LoadInv` says which bytes of which image are in
memory at each transfer of the download, with lemmas on the memory map, on how
`write` cuts a slice, and on the distance of the destinations.
`TransfersExact` is arithmetic over every address, length, chunk size, mask and
latency. A range whose bytes are all mapped lies in one region
(`OneRegion`): behind each region is a hole (`RegionsApart`), which the range
would have to contain to leave it. In one region host
offsets follow addresses, and each region lies in one band of the latency table
or in none (`RegionLatency`), so the latency that the first address selects is
that of every byte. An accepted range that is not all mapped has its ends in two
regions under one top byte (`AcceptedEnds`); the hole behind the first is longer
than two chunks (`HoleBehind`), so a chunk begins in it (`HoleFails`). Transfers, and the frames or words they are cut into,
follow one another because pieces of one length do (`PiecesRight`,
`TransfersInOrder`, `WriteMoves`, `ReadMoves`). With the incrementing bit as
mask a frame has that bit, or is a word that the device stays at (`WireRight`);
without a mask it has not, and is exact only if it is no longer than a word
(`PlainExact`).
Assumptions: `BringupAssumption` (types: an address is a top byte and 24 bits, a
mask has 24 bits and a latency is at most `MaxLatencyWords`, as `SpiConfig::new`
checks), `ChunkAssumption` (chunks are whole words, of 8 to 4096 bytes; the code
has 4096, and a chunk as long as a hole could step over it) and `PinnedAssumption`: a trusted file that parses
has images that fit between their destinations, which the loader does not
check and the pinned digest ensures.

Only model-checked: liveness (`WaitingEnds`, `TokensReturn`,
`QueueDrains`, `SentIsReceived`, `OperationEnds`, `BecomesReady`), which is
outside the prover. All invariants, action properties and refinements of the
passing runs are proved.

## Possible extensions

1. The link between `Driver` and `NetworkQueue` through `sync_station_link`, so
   that the port of one is the link of the other.
2. An abstract controlled port that `Driver` and `Wpa2Session` both implement.

## Not modelled

Limits of what is modelled: event reads end with a result or an error, while
dropped futures are modelled in `DataPath`, `CommandTransport` and `Bringup`;
the fragment limits are constants, while the code lets a caller change them, even
while an event is pending; system events while the driver is down are in
`Driver` and not in `EventTransport`; a receive event is followed for one
packet; in `Wpa2Session` the caller uses the access point the supplicant was
made for, data frames take no tokens (a transmit may fail instead),
`set_timeouts`, which only starts the deadline again, is left out, and scans and
regulatory commands are left to `Driver`; the station commands in `Driver` do
not look into the requests that `ControlCommands` checks; a command of the
wrapper in `Driver` succeeds or fails, and a failure begins recovery, while one
whose future is dropped would leave the driver as it is (`CommandTransport` has
dropped sends); `ControlCommands` leaves out the check of a country code's
letters and of a command identifier that does not fit its encoder; a queue map
in `Bringup` is good or not, by whichever of its address checks; a drop of
`recover` inside an await is taken at the next one, except for the command that
starts the firmware.

Abstract on purpose: the values of message fields that are no lengths, counts,
selectors or status words (the repository checks their layout against the C
headers); SHA-256, the key derivation, MICs and the key wrap (a frame or file
verifies or not); the comparison of RSN elements and the bytes of the
supplicant's responses; SPI register commands and electrical timing; the
re-exports of `lib.rs` and the test executor.
