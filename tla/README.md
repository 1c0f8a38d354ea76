# Melquiades in TLA+

Melquiades sends live pictures over UDP: a camera, a file or a screen on one
machine, a window on another.  This directory holds models of the parts of it
that are hard to test - lock-free handoff, reassembly over a lossy network,
recovery of a video decoder - with the TLC configurations that check them and
proofs that TLAPS checks.  Paths like `pipeline.rs:112` are under `src/src/`.

## The system

Two pipelines share a window and a network.

```
raw:    FrameSource thread | screen callback
          -> FramePool slot (FreeSlots / ReadySlots, two SPSC rings)
          -> sender_loop: newest frame, Deflate, fragments   -> UDP
          -> receiving: Reassembler, inflate, receipt
          -> channel(1) -> window   or   standard output
H.264:  ScreenCaptureKit callback -> MacH264Encoder -> channel(2)
          -> UDP thread: newest access unit, fragments       -> UDP
          -> receiving_h264_to_display: H264Reassembler, recovery rule,
             OpenH264 -> channel(1) -> window
```

| Component | State | Operations | What is hard | What makes it correct |
|---|---|---|---|---|
| `spsc.rs` ring | cells, `head`, `tail` | `try_push`, `try_pop` | two threads, plain memory under acquire/release, wrapping cursors, stale loads | no cell in two hands, FIFO |
| `capture.rs` pool | pixels and metadata of four slots | `capture_slot`, `sender_slot`, `clear_claimed_slot` | `UnsafeCell` access that only the rings justify | one owner per slot; ready slots hold one whole frame |
| `pipeline.rs` | both rings, two counters, `capture_running` | `capture_once`, `publish_strided`, `take_newest`, `with_frame`, `return_to_free`, `take_snapshot`, `stop` | panics if a ring looks full; error paths; order under draining | no panic, no slot lost or doubled, frames in order, counters complete |
| `transport.rs` raw sender | frame ID, statistics | `streaming`, `capture_loop`, `sender_loop` | stop race, error after claiming a slot | the slot comes back; the stage ends |
| `reassembly.rs` | one unit in progress | `reset`, `add`, `missing`, `is_newer_frame` | loss, repetition, reordering, wrap of a u32, restarts | a complete unit consists of its own fragments |
| `transport.rs` raw receiver, `metrics.rs` | reassembler, outcome counters, receipts | `receiving`, `record_*` | the same, with reports in mid-handler | one outcome and one receipt per frame |
| `codec/macos.rs` encoder | timestamp, cached SPS/PPS | `encode_surface` | two parsers of one format, failures between them | flags describe the bytes; IDRs carry SPS/PPS |
| `codec/macos.rs` cast | frame ID, channel(2), `sender_alive` | capture callback, UDP thread | full channel, stale units, thread that dies | order |
| `transport.rs` H.264 receiver, `codec/linux.rs` | reassembler, decoder, `waiting_for_recovery_keyframe` | `receiving_h264_to_display` | lost references, joins, restarts | no picture against a wrong reference |
| `display.rs` | channel(1) | window loop | frames dropped by `try_send` | pictures never go back in time |
| `screen/*` | negotiated format, counters | `param_changed`, `capture_one`, `did_output_sample_buffer` | a format that changes between two buffers, buffers a driver describes as it likes | only images of the pipeline's shape are copied, no slice leaves a buffer, no callback uncounted |
| `FileCapture`, `V4l2Capture` | position in the file, frames read | `next_frame`, `discard_next_frame` | reads and skips move one reader; rewind before a partial frame | the n-th frame offered is the n-th of the file played in a circle |
| `wire.rs` | none | three pairs of encoder and decoder | two protocols on one port, width of fields | a decoder reads what the encoder wrote and nothing of the other protocol |
| `compression.rs`, `color.rs`, `time.rs`, `config.rs`, `main.rs` | none | pure functions, dispatch | - | not modelled |

`PROJECT.json` lists the hazards line by line with the property that covers
each.  Where the code meets a hazard badly, it is a run that expects a violation
which shows it: a whole unit lost in the network, at a full channel or by a failed
encode in `h264_reference`, the meeting of two runs in `h264_restart`.  The
numbers wrap in `raw`, `h264_paced` and `h264_recovery`; the four units of
`h264_lossy` stay below the range.

## Modules

- `SpscQueue` - what a ring promises: a bounded FIFO with the freedom that
  acquire/release leaves.  `seen` is how many queued IDs the consumer has
  acquired, `unseen` how many popped IDs the producer has not heard of.
- `SpscRing` - the ring itself.  `try_push` is `PushClaim`/`PushRefused`,
  `PushWrite`, `PushPublish`; `try_pop` is `PopClaim`/`PopEmpty`, `PopRead`,
  `PopRelease`.  An atomic load returns any value from the loader's view on.
  `QueueSpec` is the refinement of `SpscQueue`.
- `SlotCycle` - the two rings in a circle, at the grain of `SpscRing` but with
  counts for cells.  `captureNews` and `senderNews` are the stores of the other
  thread, to either ring, that a thread does not know yet, in program order; a
  load takes one of them (`TailLoads`, `HeadLoads`) and with it all before it
  (`Acquired`).  Each `try_pop` and `try_push` is a load and a store, as
  `CapturePop`, `CapturePopped`.
- `FrameHandoff` - `pipeline.rs` over `capture.rs`, driven as `transport.rs`
  does, with two instances of `SpscQueue` (`Free`, `Ready`).  `capturePc` and
  `senderPc` are the places between two ring operations.  `Source` chooses the
  capture thread (`CaptureNoSlot`, `CaptureDiscard`, `CaptureFails`) or the
  callback (`CallbackDrop`).  `ProducerLearns` is the point of the model: an
  acquire on one ring also shows what the releasing thread did to the other
  one before, and nothing else does.  A report is two steps, `SwapDropped` and
  `SwapStale`, as `take_snapshot` swaps one counter after the other.
- `FrameSources` - `FileCapture` and `V4l2Capture` in front of it: each action
  is one of `FrameHandoff` with what the source does (`ReadFrame`, `ReadFails`,
  `SkipFrame`, `DequeueFrame`, `DequeueFails`); `Truncate` is another program.
- `ScreenCapture` - the two screen callbacks in front of it, with the
  validation and the row copy of `publish_strided`: `ObserveFormat` between two
  callbacks; `NothingDequeued`, `RejectFormat`, `RejectBuffer`,
  `ClaimForBuffer`, `DropNoFreeSlot` are the ways a callback goes, `CopyRows`
  and `PublishSlot` what follows a claim.
- `Reassembly` - both reassemblers as operators on a record, fragments as a set.
- `Wire` - the formats of `wire.rs` as sequences of bytes, `StreamSpec::new`
  and the checks of the decoders.  The number of values of a byte is a
  constant, so that TLC can do with six and the proofs with any.
- `Datagrams` - payloads cut into datagrams of bytes by both senders, and both
  receivers up to the completed unit, with buffers, offsets and lengths.
- `RawStream` - the raw path from the socket of the sender to the window or
  standard output: `SendFrame`, `SendFails`, `Restart`; `ReceiveCurrent`,
  `ReceiveUseless`, `ReceiveLate`, `ReceiveNewer` are the paths of one pass of
  the loop of `receiving`; `Present`, `CloseWindow` are the window loop.
- `H264Stream` - the H.264 path: `Encode`, `EncodeFails`, `Enqueue` are the
  capture callback (a step between the load of `sender_alive` with the encode
  and the `try_send`); `Connect`, `TakeFrame`, `SendUnit`, `SendFails`,
  `ClearAlive`, `DropChannel` the UDP thread; `Receive*` the receiver.
- `H264Recovery` - the same path as an endless stream: frame IDs wrap for ever,
  `SendUnit` is one access unit with what becomes of it on the way, `Restart`
  starts the sender again, `Receive` and `Present` are receiver and window.
- `MacEncoder` - `encode_surface`: inspection and conversion of AVCC bytes.
- `RawStream_proofs`, `H264Stream_proofs`, `H264Recovery_proofs`,
  `MacEncoder_proofs` - theorems about the module of that name; `Rings_proofs`
  about `SpscRing` and `SlotCycle`, `Handoff_proofs` about `FrameHandoff`,
  `FrameSources` and `ScreenCapture`, `Datagrams_proofs` about `Wire` and
  `Datagrams`; `DivisionLemmas` - quotients and remainders for them.
- `MC*` - the instances for TLC.

`FrameSources` and `ScreenCapture` extend `FrameHandoff`, so their runs check the
handoff with a real source in front of it, and their proofs take its theorems.
`FrameHandoff` in turn uses the ring only through `SpscQueue`, and takes from
`SlotCycle` how much an acquire on one ring tells of the other.  `H264Recovery`
and `H264Stream` abstract bytes; `Datagrams` has them and shows what the two
assume, that a complete unit is the one that was sent.

The network is a set of fragments: delivering does not remove one (repetition),
any one may be delivered next (reordering), and one that is never delivered is
lost.  `Lifetime` drops those of old units.  Serial numbers, `heard`, `taken`,
`reported` and the receipt counter are history the program does not have.

Definitions introduced by "Mutant of" are plausible mistakes in the definition
that follows them: put in its place, each makes a property of a run fail.
`PROJECT.json` says which.

## Runs

| Run | Shows |
|---|---|
| `ring` | Two models side by side, one moving while the other is at its start.  `SpscRing` with four cells, cursors that wrap after two rounds, two IDs: no two accesses to a cell at once (`CellsExclusive`), each access ordered after the one it needs (`CellAccessesOrdered`), the oldest ID comes out (`PopReturnsOldest`), and the ring implements `SpscQueue` (`QueueSpec`).  `SlotCycle` with four IDs, as `FRAME_POOL_SLOTS` says: no push is refused (`NeverRefused`), who has an ID knows its way (`LearnsTheWay`), and each ring is a bounded FIFO (`RingsAreQueues`), whatever stores the loads still miss.  Nothing bounds the number of operations. |
| `sources` | Three slots, five frames, a report every two sent frames, a camera or a file of five bytes with frames of two (two whole frames and a part): ownership, contents, counters, order, no panic; the file is played in a circle past dropped frames and only a cut file fails; after `capture_running` is cleared the sender ends, and every slot it takes comes back.  Five frames go round the slots and the file more than once. |
| `screen` | Two slots, five callbacks, an image of two rows of two bytes; every stride from negative to padded, chunks that end inside, at and past the memory: only the expected shape is copied, no callback is uncounted, and either backend implements the handoff (`ImplementsHandoff`). |
| `handoff_drops` | Violated: see findings. |
| `raw` | IDs below 6, seven frames of one or two chunks, so the ID wraps, one restart of the sender, possibly with another stream: integrity (until the restart), one outcome per frame, one receipt per frame, order of pictures.  The streams are symmetric: the program only compares them.  Every frame is within the receiver's limit, as a sender of this program keeps it: of a refused header (transport.rs:358), which would count the frame given up before it once more, nothing is said. |
| `h264_paced` | IDs below 8, nine units of two fragments; every unit is heard of, by one fragment at least, before the next: no unsound picture.  The assumption is `WholeUnitLoss = FALSE`, which is what the receiver needs and does not get. |
| `h264_lossy` | Units of one to three fragments (three exceed the receiver's limit), any loss, encoder and socket failures, full and drained channels, one restart of the sender: pictures and transmissions stay in order, and units are intact until the restart. |
| `h264_reference`, `h264_restart` | Violated: see findings. |
| `encoder_sets` | Every output of up to three NAL units, with every fault of a length prefix, if the session puts both parameter sets or neither into the bytes. |
| `h264_recovery` | IDs below 8, units of two fragments, an IDR at the latest every second unit, at most one silent unit in a row, one restart, and no end: the receiver that waits shows a picture again (`Recovers`), and so it goes on (`KeepsPresenting`); until the restart every unit that arrives whole is assembled (`WholeUnitAssembled`), and the last fragment of an IDR ends the wait in that very step (`IdrEndsWait`). |
| `datagrams` | Bytes with six values, payloads up to 16 bytes, three frames of one to three chunks, of both protocols, one of them with bytes that look like the other protocol's header: a completed unit is byte for byte one that was sent, and a receiver takes up only its own protocol. |

Bounds: half of the ID range is the horizon of `is_newer_frame`, so an outage
must stay below it (guard of `Arrive`), and a fragment lives at most that long.
An outage of 2^31 frames is more than two years.  Larger units behave as two
fragments do: what matters is first, later and missing.

`MaxSilent` bounds how long an outage may be; it must leave what arrives within
the horizon.  The proofs cover every value of these bounds.

Deadlock is not checked where sources end, stages stop or bounds run out; it is
in `ring` and `h264_recovery`, which go on for ever, and in `encoder_sets`, where the
session may always refuse a surface.

The type invariants of `SpscRing`, `SlotCycle`, `FrameHandoff`, `FrameSources`,
`ScreenCapture` and `MacEncoder` are theorems (below) and in no run.

### Fairness

`sources` assumes `WF` of the sender's next step - its thread is
scheduled and never blocks: an empty ring leads to `yield_now`, a full socket
buffer is retried - and `SF` of `SenderTake` and `SenderStop`: the sender looks
at the ring and the flag again and again, and a store becomes visible to atomic
loads in finite time.  Capture has no fairness: a source may hang.

`h264_recovery` assumes `WF` of sending - the encoder and the socket go on - and
`WF` of `Present`, the window loop.  Of the network it assumes what UDP does not
promise but any usable link does: again and again an IDR unit arrives whole
(`SF` of `SendUnit(TRUE, TRUE)`), the fragments of such a unit do arrive (`WF`
of each), and after `MaxSilent` units of which nothing came something comes.
Without the first there is nothing to decode from; without the last an outage
may be longer than half of the ID range, after which `is_newer_frame` errs.

### Findings

1. `handoff_drops`: a frame is dropped whenever FreeSlots is empty, also with
   all IDs in ReadySlots; `pipeline.rs:106` and `:153` speak of a sender that
   owns every slot, and the sender never owns more than two.
2. `h264_reference`: `transport.rs:547` notices a loss only if a part of the
   unit arrived.  A unit lost as a whole, or dropped by the sender itself
   (`codec/macos.rs:355`, `:499`), is not noticed, and the P-frames after it
   are shown against `transport.rs:529`.  The same follows from a unit above the
   receiver's limit, that is larger than a raw frame: refused, it starts the wait
   for a keyframe, an older IDR that completes late ends it, and the next P-frame
   is shown without the reference that was refused.
3. `h264_restart`: IDs begin at 0 again after a restart of the sender, and a
   partial unit of the old run is completed with fragments of the new one,
   against `reassembly.rs:103` and `wire.rs:29`.  The raw path has the same
   states, and its Deflate stream has no checksum.

Seen while reading and not modelled: `main.rs:28` and `:46` pass addresses
without a port, which `UdpSocket::connect` refuses.  `codec/macos.rs:286` sets
the flag for SPS and PPS if one of the two is in the bytes, `wire.rs:20` means
both; VideoToolbox keeps both outside the bytes, and `MacEncoder` takes sessions
that put in both or neither.

## Proofs

TLAPS checks these for every value of the constants the assumptions named allow.

**The ring** (`Rings_proofs`, from `RingAssumption`).  `RingTypeCorrect`
(the cursors stay words through every wrap), `CellsNeverShared`,
`AccessesOrdered`, `OldestComesOut`, and `RingIsQueue`: the ring implements
`SpscQueue`.  The invariant is `RingInv`: the cursors stand in the order
`headView`, `head`, `tailView`, `tail` and span at most `Capacity` (`Spread`), less
while a push is in progress; the cells between `head` and `tail` hold IDs.  The
words wrap, so the argument needs that distances in one direction add up while
they stay below `CursorRange` (`Chain`) and that words less than a lap apart have
different cells (`CellsApart`), which is where the power of two matters.

**The circle** (`Rings_proofs`, from `CycleAssumption`: a pool of any size).
`PushesNeverRefused`, `TheWayIsLearnt`, `CycleIsQueues`, `CycleTypeCorrect`.  That
an ID is in a ring or with a thread (`Conserved`) does not exclude a refused push,
which looks at an old cursor.  The invariant that does is about every suffix of
the stores a thread does not know: in it, the pops of the other thread outnumber
its pushes by at most the IDs it holds (`Chronicled`).  It survives a load, which
cuts the stores anywhere.  The pushes a thread misses are in the ring it pops
from, so what it misses of pops leaves room for the ID in its hand (`Lags`).

**The handoff** (`Handoff_proofs`, from `HandoffAssumption`).

- `TypeCorrect` and `CycleCorrect`: `TypeOK /\ CycleInv` is inductive.
  Conservation of IDs (`AllSlotsSomewhere`) alone does not exclude the panics:
  a push looks at an old cursor.  `ViewsFollowTheCycle` bounds what the
  producer of one ring has not seen by what the cycle still owes it on the
  other side; it is preserved because a pop of one ring acquires what was
  released before.  Weakening that acquire is a mutant that breaks it.
- `NeverPanics`: neither `panic!("ReadySlots full")` nor the `expect`s of
  `return_to_free` and `with_frame` can fire.
- `SlotsExclusive`: no ID is in two places.  This is the obligation the
  `SAFETY` comments of the pool leave to the rings.
- `SlotsComplete`: a slot on its way to the network holds one whole frame.
- `FramesAccounted`: the counters lose no frame, not one that capture drops
  between the two swaps of a report either.  Each step moves one frame to
  one new place; a panic would break the equation, so it rests on
  `NeverPanics`.
- `FramesInOrder`: along what the sender holds, `readyQueue` and the slot about to
  be published frames get newer, and all are newer than what went out
  (`UnderWay`).  It needs `SlotsExclusive`: a write to one slot must not renumber
  another.

**The sources** (`Handoff_proofs`, from `SourcesAssumption` and
`ScreenAssumption`).  `ScreenIsCallbackSource` and `SourceIsCaptureThread` are
refinements: every step is one of the handoff or leaves it alone, so all of the
above holds with them, which `ScreenNeverPanics` spells out.  For the screen that
rests on `AcceptedRows` - a buffer whose last row ends inside has every row inside,
nonlinear in stride and height - and on the invariant that the buffer of a claimed
slot was accepted and has the expected format (`ShapeKept`).  For the file,
`FilePlayedInOrder` and `OnlyCutFileFails` follow from `ReaderInStep`: where
`begin_next_frame` leaves the reader is the number of frames offered modulo the
frames of the file.  `SourcesTypeCorrect` says with it that between two reads the
reader stands at a whole frame (`AtFrame`).

`CallbacksInBooks`: no callback of PipeWire is uncounted.  The counters of the
callback and those of the two stages have `frames` in common, which only the
callback advances: `CallbackLine` counts callbacks against it,
`EveryFrameAccounted` says where the frames are, and the steps of the sender only
move frames to counters.  `ScreenTypeCorrect` and `SourcesTypeCorrect` are the
types.

**The formats** (`Datagrams_proofs`, from `WireAssumption`).  `PacketRoundTrip`,
`RawRoundTrip`, `EchoRoundTrip`: a decoder reads what the encoder wrote, for every
header and payload; `NoDatagramOfBoth`: no sequence of bytes is accepted under both
protocols.

**Datagrams** (`Datagrams_proofs`, from `DatagramsAssumption` and
`ReassemblyAssumption`).  `DatagramsTypeCorrect`, `ReceivesOwnProtocol` and
`DeliversWhatWasSent`, for every payload limit and any loss, repetition and order.  Every datagram on the
network is cut from a frame that was sent under its ID (`CutFrom`); the buffer
holds that frame's bytes wherever a fragment was received (`HoldsPart`); when
none is missing, they are all of them.

**The raw path** (`RawStream_proofs`, from `RawAssumption` and
`ReassemblyAssumption`).  `RawTypeCorrect`, `FramesIntact`, `OneOutcomeEach`,
`ReceiptsInOrder`, `PicturesInOrder`, for any loss, repetition and order, the
last two with any number of restarts.  `RawInv` is the conjunction of

- `InFlight`: the network keeps fragments for less than half of the ID range;
- `Numbered`: the frames of one run have consecutive IDs from some base, so two
  fragments in flight with one ID are of one frame, and `is_newer_frame` between
  them is the order of sending.  After a restart the base is another one;
- `AheadOfReceipts`: what could complete or replace the frame in progress was sent
  after the last frame with a receipt.  This is what carries the order across a
  restart, where the ID in progress says nothing of what follows;
- `ShownBehind`: receipt, channel and window in this order;
- `NewestInProgress`, in the first run only: the frame in progress is the newest
  heard of, and all that was received of it is its own.  A restart breaks it, as
  finding 3 says, and `FramesIntact` ends there.

**The cast** (`H264Stream_proofs`, from `StreamAssumption` and
`ReassemblyAssumption`).  `StreamTypeCorrect`, `FreshestUnitSent`,
`UnitsShownInOrder` hold under any loss and restart.  `StreamInv` is `LineInv` -
`InLine`: serial numbers grow from what was sent over the unit in hand and the
channel to the one just encoded; `InFlight` and `Numbered` as above - and
`HearInv`, with `AheadOfPictures` in the place of receipts.

- `UnitsIntact`, `UnitsIntactUninterrupted` (`OwnFragments`): a complete unit
  consists of its own fragments.  Hypothesis: every unit is within the
  receiver's limit (`AllFit`) or a run is shorter than the range of IDs.  Without
  it TLC refutes the claim: a refused unit does not advance the reassembler, and a
  row of them as long as the range comes back to its ID.  With `u32` this takes
  2^32 refused units in a row.
- `PacedPicturesSound`: in the first run no picture is decoded against a wrong
  reference if no unit is lost whole and `AllFit`.  Both are needed: finding 2 is
  the way the claim fails without each.  `SoundInv` says that a paced source has
  one unit in line, which refers to the last one sent (`OneInLine`), that no unit
  in flight lies between another and its reference (`RefersToLast`), and that a
  decoder in use has the reference of the unit in progress (`DecoderFollows`).

**Recovery** (`H264Recovery_proofs`, from `RecoveryAssumption` and
`ReassemblyAssumption`).  `RecoveryTypeCorrect`, `WholeUnitsAssembled`,
`IdrsEndWait`: what of `Recovers` is safety, for an endless stream.  Frame IDs
come back here, so the invariant speaks of ages: how many units were numbered
after one (`Age`).  Everything in flight and the unit in progress are younger
than half of the range (`InFlight`, `InStep`), hence `is_newer_frame` compares
ages (`NewerIsYounger`), the last unit is newer than whatever the receiver works
at or is that unit, and none of its fragments is passed over.  `InStep` holds in
the first run only: after a restart the receiver may be ahead of the sender.

**The encoder** (`MacEncoder_proofs`, from `EncoderAssumption`).
`EncoderTypeCorrect`, `FlagsAreRight`, `KeyframesStandAlone`, for outputs of any
length.  The inspection ends at a bad length prefix without an error, the
conversion with one: if the conversion succeeds, every prefix was good and the
inspection has seen every unit (`InspectsAll`).

Only model-checked: liveness - `SenderFollowsStop`, `SenderReturnsSlots`,
`Recovers`, `KeepsPresenting` - because TLAPS 1.4.5 has no `ENABLED`.

## Not modelled

Pixels, compression, colour and histograms; the portal dialogue and the setup of
PipeWire, ScreenCaptureKit and VideoToolbox sessions, and what they do beyond what
they hand over; the log counters of `h264-recv` and the command `h264-smoke`;
late-packet counts; receipts at the sender, which reads and ignores them; the
dispatch of `main.rs`.  `Wire` leaves out the texts of errors.  `CapturePort` and
`SenderPort` are `Clone`; the model has one thread at each, as the program has.
The drain loop of `take_newest` is unbounded if capture outpaces it; the bound on
frames hides that.  `compression.rs` and `color.rs` compute on pixels and keep no
state; TLC and TLAPS would say nothing of them that a unit test does not.

## Plan

Done: ring and circle of rings, handoff, sources, formats, datagrams, reassembly,
both streams, recovery, encoder; a theorem for every safety property of a passing
run.  Left, in this order:

1. That `H264Recovery` keeps to the cast: its receiver in step with the one of
   `H264Stream`.
2. The counters of the cast, and late packets at the receivers.
3. The drain of `take_newest` against a source that outpaces it.
