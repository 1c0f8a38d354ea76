---------------------------- MODULE FrameHandoff ----------------------------
(***************************************************************************)
(* The capture-to-sender handoff: src/pipeline.rs over the frame pool of   *)
(* src/capture.rs, driven by capture_loop and sender_loop of               *)
(* src/transport.rs (Source = "thread") or by a screen callback that calls *)
(* publish_strided (Source = "callback").                                  *)
(*                                                                         *)
(* FreeSlots and ReadySlots are two instances of SpscQueue.  A slot ID is  *)
(* in one of the rings, in captureHeld or in senderHeld; only the holder   *)
(* may touch the slot.  Each ring operation is one step, and everything a  *)
(* thread does to a slot between two of them runs beside the other thread. *)
(*                                                                         *)
(* Acquiring an ID also acquires everything the releasing thread did       *)
(* before: popping from one ring brings the view of the other ring up to   *)
(* date (ProducerLearns; SlotCycle derives it from the atomics), and       *)
(* nothing else in the program does.                                       *)
(***************************************************************************)
EXTENDS Integers, Sequences

CONSTANTS FramePoolSlots,  \* FRAME_POOL_SLOTS, the pool's and both rings'
          Source,          \* what drives the capture port
          MaxFrames,       \* bound: frames the source offers
          ReportEvery      \* 300 sent frames between two reports

ASSUME HandoffAssumption ==
  /\ FramePoolSlots \in Nat \ {0}
  /\ Source \in {"thread", "callback"}
  /\ MaxFrames \in Nat
  /\ ReportEvery \in Nat \ {0}

VARIABLES
  freeQueue, freeSeen, freeUnseen,      \* FreeSlots: sender to capture
  readyQueue, readySeen, readyUnseen,   \* ReadySlots: capture to sender
  pool,            \* FramePool.slots
  capturePc, captureHeld,               \* capture's step and the ID it owns
  captureRunning,
  senderPc, senderHeld,                 \* sender's step and the IDs it owns
  frames,          \* frames the source has offered so far, numbered from 1
  frameId,         \* sender_loop's frame_id
  lastSent,        \* the last frame that went out to the network
  dropped,         \* capture_dropped_no_free_slot
  stale,           \* sender_dropped_stale_ready
  reported         \* history: what earlier snapshots took out of the two

freeVars    == <<freeQueue, freeSeen, freeUnseen>>
readyVars   == <<readyQueue, readySeen, readyUnseen>>
captureVars == <<capturePc, captureHeld, captureRunning, frames, dropped>>
senderVars  == <<senderPc, senderHeld, frameId, lastSent, stale, reported>>
vars == <<freeVars, readyVars, pool, captureVars, senderVars>>

Slots == 0 .. FramePoolSlots - 1

Free  == INSTANCE SpscQueue WITH
           Ids <- Slots, Capacity <- FramePoolSlots,
           queue <- freeQueue, seen <- freeSeen, unseen <- freeUnseen
Ready == INSTANCE SpscQueue WITH
           Ids <- Slots, Capacity <- FramePoolSlots,
           queue <- readyQueue, seen <- readySeen, unseen <- readyUnseen

\* A slot's pixels are those of one complete frame, or Torn while a source
\* writes them or has failed to; its info describes one frame or is None.
Torn == 0
None == 0

Init ==
  /\ freeQueue = [i \in 1 .. FramePoolSlots |-> i - 1]
  /\ freeSeen = FramePoolSlots   \* the threads start after main seeded the ring
  /\ freeUnseen = 0
  /\ Ready!Init
  /\ pool = [s \in Slots |-> [pixels |-> Torn, info |-> None]]
  /\ capturePc = "claim" /\ captureHeld = <<>>
  /\ captureRunning = TRUE
  /\ senderPc = "connect" /\ senderHeld = <<>>
  /\ frames = 0 /\ frameId = 0 /\ lastSent = 0
  /\ dropped = 0 /\ stale = 0 /\ reported = 0

-----------------------------------------------------------------------------
(* Capture: capture_once in a loop, or publish_strided per callback        *)

\* A callback brings its frame; a thread waits for one after the claim.
FrameOffered == frames < MaxFrames

CaptureClaim ==
  /\ capturePc = "claim"
  /\ Source = "callback" => FrameOffered
  /\ Free!Pop
  /\ Ready!ProducerLearns(Len(freeQueue') - freeSeen' + Len(senderHeld))
  /\ captureHeld' = <<Head(freeQueue)>>
  /\ pool' = [pool EXCEPT ![Head(freeQueue)].pixels = Torn]
  /\ capturePc' = "fill"
  /\ UNCHANGED <<captureRunning, frames, dropped, senderVars>>

CaptureNoSlot ==
  /\ Source = "thread"
  /\ capturePc = "claim"
  /\ Free!PopEmpty
  /\ capturePc' = "discard"
  /\ UNCHANGED <<readyVars, pool, captureHeld, captureRunning, frames,
                 dropped, senderVars>>

\* Mutant of CountDrop: the frame is dropped uncounted.
DropUncounted ==
  /\ FrameOffered
  /\ frames' = frames + 1
  /\ UNCHANGED dropped

CountDrop ==
  /\ FrameOffered
  /\ frames' = frames + 1
  /\ dropped' = dropped + 1

CaptureDiscard ==
  /\ capturePc = "discard"
  /\ CountDrop
  /\ capturePc' = "claim"
  /\ UNCHANGED <<freeVars, readyVars, pool, captureHeld, captureRunning,
                 senderVars>>

CallbackDrop ==
  /\ Source = "callback"
  /\ capturePc = "claim"
  /\ Free!PopEmpty
  /\ CountDrop
  /\ UNCHANGED <<readyVars, pool, capturePc, captureHeld, captureRunning,
                 senderVars>>

CaptureFill ==
  /\ capturePc = "fill"
  /\ FrameOffered
  /\ frames' = frames + 1
  /\ pool' = [pool EXCEPT ![captureHeld[1]] =
                [pixels |-> frames + 1, info |-> frames + 1]]
  /\ capturePc' = "publish"
  /\ UNCHANGED <<freeVars, readyVars, captureHeld, captureRunning, dropped,
                 senderVars>>

\* The source fails: the slot it was filling is not returned, capture stops.
CaptureFails ==
  /\ Source = "thread"
  /\ capturePc \in {"fill", "discard"}
  /\ capturePc' = "stopped"
  /\ captureRunning' = FALSE
  /\ UNCHANGED <<freeVars, readyVars, pool, captureHeld, frames, dropped,
                 senderVars>>

CapturePublish ==
  /\ capturePc = "publish"
  /\ \/ Ready!Push(captureHeld[1]) /\ captureHeld' = <<>> /\ capturePc' = "claim"
     \/ Ready!PushRefused /\ UNCHANGED captureHeld /\ capturePc' = "panicked"
  /\ UNCHANGED <<freeVars, pool, captureRunning, frames, dropped, senderVars>>

-----------------------------------------------------------------------------
(* Sender: sender_loop around take_newest, with_frame and return_to_free   *)

Goto(pc) == senderPc' = pc

SenderConnect ==
  /\ senderPc = "connect"
  /\ Goto("take") \/ Goto("stopped")
  /\ UNCHANGED <<freeVars, readyVars, pool, captureVars, senderHeld, frameId,
                 lastSent, stale, reported>>

\* Mutant of AcquireReady: a Relaxed load of the tail says nothing of FreeSlots.
AcquireReadyRelaxed ==
  /\ Ready!Pop
  /\ UNCHANGED freeVars
  /\ senderHeld' = Append(senderHeld, Head(readyQueue))

\* A pop from ReadySlots, with what its Acquire tells of FreeSlots.
AcquireReady ==
  /\ Ready!Pop
  /\ Free!ProducerLearns(Len(readyQueue') - readySeen' + Len(captureHeld))
  /\ senderHeld' = Append(senderHeld, Head(readyQueue))

SenderTake ==
  /\ senderPc = "take"
  /\ AcquireReady
  /\ Goto("drain")
  /\ UNCHANGED <<pool, captureVars, frameId, lastSent, stale, reported>>

\* Mutant of SenderIdle: the sender never looks at capture_running.
SenderIdleUnchecked ==
  /\ senderPc = "take"
  /\ Ready!PopEmpty
  /\ UNCHANGED <<freeVars, pool, captureVars, senderVars>>

SenderIdle ==
  /\ senderPc = "take"
  /\ Ready!PopEmpty
  /\ Goto("check")
  /\ UNCHANGED <<freeVars, pool, captureVars, senderHeld, frameId, lastSent,
                 stale, reported>>

\* capture_is_running may still load the value from before the stop.
SenderYield ==
  /\ senderPc = "check"
  /\ Goto("take")
  /\ UNCHANGED <<freeVars, readyVars, pool, captureVars, senderHeld, frameId,
                 lastSent, stale, reported>>

SenderStop ==
  /\ senderPc = "check"
  /\ ~captureRunning
  /\ Goto("stopped")
  /\ UNCHANGED <<freeVars, readyVars, pool, captureVars, senderHeld, frameId,
                 lastSent, stale, reported>>

SenderDrain ==
  /\ senderPc = "drain"
  /\ AcquireReady
  /\ Goto("retire")
  /\ UNCHANGED <<pool, captureVars, frameId, lastSent, stale, reported>>

\* Mutant of SenderDrained: the ID goes back before the frame is sent.
SenderDrainedReturning ==
  /\ senderPc = "drain"
  /\ Ready!PopEmpty
  /\ Free!Push(senderHeld[1])
  /\ Goto("send")
  /\ UNCHANGED <<pool, captureVars, senderHeld, frameId, lastSent, stale,
                 reported>>

SenderDrained ==
  /\ senderPc = "drain"
  /\ Ready!PopEmpty
  /\ Goto("send")
  /\ UNCHANGED <<freeVars, pool, captureVars, senderHeld, frameId, lastSent,
                 stale, reported>>

\* Mutant of ReturnToFree: the metadata is not cleared.
ReturnUncleared(next) ==
  /\ senderHeld' = Tail(senderHeld)
  /\ \/ Free!Push(Head(senderHeld)) /\ Goto(next)
     \/ Free!PushRefused /\ Goto("panicked")
  /\ UNCHANGED pool

\* return_to_free of the ID held longest.
ReturnToFree(next) ==
  /\ pool' = [pool EXCEPT ![Head(senderHeld)].info = None]
  /\ senderHeld' = Tail(senderHeld)
  /\ \/ Free!Push(Head(senderHeld)) /\ Goto(next)
     \/ Free!PushRefused /\ Goto("panicked")

\* Mutant of SenderRetire: the stale frame is not counted.
SenderRetireUncounted ==
  /\ senderPc = "retire"
  /\ ReturnToFree("drain")
  /\ UNCHANGED <<readyVars, captureVars, frameId, lastSent, stale, reported>>

SenderRetire ==
  /\ senderPc = "retire"
  /\ ReturnToFree("drain")
  /\ stale' = stale + 1
  /\ UNCHANGED <<readyVars, captureVars, frameId, lastSent, reported>>

\* with_frame: the slot holds a frame, which goes out, is skipped as too large
\* or meets an error; the expect on its metadata panics otherwise.
SenderSend ==
  /\ senderPc = "send"
  /\ LET slot == pool[senderHeld[1]] IN
       \/ slot.info # None /\ Goto("return") /\ lastSent' = slot.pixels
       \/ slot.info # None /\ Goto("return") /\ UNCHANGED lastSent
       \/ slot.info # None /\ Goto("fail") /\ UNCHANGED lastSent
       \/ slot.info = None /\ Goto("panicked") /\ UNCHANGED lastSent
  /\ UNCHANGED <<freeVars, readyVars, pool, captureVars, senderHeld, frameId,
                 stale, reported>>

\* Mutant of SenderReturn: the error leaves before the ID is returned.
SenderReturnUnlessFailed ==
  /\ \/ senderPc = "return" /\ ReturnToFree("report")
     \/ senderPc = "fail" /\ Goto("failed")
        /\ UNCHANGED <<freeVars, pool, senderHeld>>
  /\ UNCHANGED <<readyVars, captureVars, frameId, lastSent, stale, reported>>

SenderReturn ==
  /\ \/ senderPc = "return" /\ ReturnToFree("report")
     \/ senderPc = "fail" /\ ReturnToFree("failed")
  /\ UNCHANGED <<readyVars, captureVars, frameId, lastSent, stale, reported>>

ReportDue == frameId % ReportEvery = ReportEvery - 1

\* take_snapshot, a report every ReportEvery frames: capture counts on between
\* its two swaps.
SwapDropped ==
  /\ senderPc = "report" /\ ReportDue
  /\ reported' = reported + dropped /\ dropped' = 0
  /\ Goto("snapshot")
  /\ UNCHANGED <<stale, frameId>>

\* Mutant of SwapStale: both counters are read first, then both are reset.
SwapStaleResettingBoth ==
  /\ senderPc = "snapshot"
  /\ reported' = reported + stale /\ stale' = 0 /\ dropped' = 0
  /\ frameId' = frameId + 1
  /\ Goto("take")

\* With the second one the next frame_id, which the sender alone knows.
SwapStale ==
  /\ senderPc = "snapshot"
  /\ reported' = reported + stale /\ stale' = 0
  /\ frameId' = frameId + 1
  /\ Goto("take")
  /\ UNCHANGED dropped

SkipReport ==
  /\ senderPc = "report" /\ ~ReportDue
  /\ frameId' = frameId + 1
  /\ Goto("take")
  /\ UNCHANGED <<dropped, stale, reported>>

SenderReport ==
  /\ SwapDropped \/ SwapStale \/ SkipReport
  /\ UNCHANGED <<freeVars, readyVars, pool, capturePc, captureHeld,
                 captureRunning, frames, senderHeld, lastSent>>

-----------------------------------------------------------------------------
CaptureNext ==
  \/ CaptureClaim \/ CaptureNoSlot \/ CaptureDiscard \/ CallbackDrop
  \/ CaptureFill \/ CaptureFails \/ CapturePublish

SenderNext ==
  \/ SenderConnect \/ SenderTake \/ SenderIdle \/ SenderYield \/ SenderStop
  \/ SenderDrain \/ SenderDrained \/ SenderRetire \/ SenderSend
  \/ SenderReturn \/ SenderReport

Next == CaptureNext \/ SenderNext

Spec == Init /\ [][Next]_vars

\* The sender's thread is scheduled; a store becomes visible to its loads in
\* finite time, so it does not load an old tail or flag for ever.
SenderFairness ==
  /\ WF_vars(SenderNext)
  /\ SF_vars(SenderTake)
  /\ SF_vars(SenderStop)

FairSpec == Spec /\ SenderFairness

-----------------------------------------------------------------------------
\* Every field holds what the code can store in it.
TypeOK ==
  /\ Free!TypeOK /\ Ready!TypeOK
  /\ pool \in [Slots -> [pixels : Nat, info : Nat]]
  /\ capturePc \in {"claim", "fill", "discard", "publish", "stopped", "panicked"}
  /\ captureHeld \in Seq(Slots)
  /\ captureRunning \in BOOLEAN
  /\ senderPc \in {"connect", "take", "check", "drain", "retire", "send",
                   "return", "report", "snapshot", "fail", "failed", "stopped",
                   "panicked"}
  /\ senderHeld \in Seq(Slots)
  /\ {frames, frameId, lastSent, dropped, stale, reported} \subseteq Nat

\* How many IDs each stage owns at each of its steps.
HeldByStep ==
  /\ capturePc \in {"claim", "discard"} => captureHeld = <<>>
  /\ capturePc \in {"fill", "publish"} => Len(captureHeld) = 1
  /\ senderPc \in {"connect", "take", "check", "report", "snapshot", "stopped"} =>
       senderHeld = <<>>
  /\ senderPc \in {"drain", "send", "return", "fail"} => Len(senderHeld) = 1
  /\ senderPc = "retire" => Len(senderHeld) = 2

\* spsc.rs:5 - the pool's IDs are always all there, in the rings or owned.
AllSlotsSomewhere ==
  Len(freeQueue) + Len(captureHeld) + Len(readyQueue) + Len(senderHeld)
    = FramePoolSlots

\* pipeline.rs:70 and 87 of spsc.rs, taken across both rings: the pops one end
\* of a ring has not seen were made after the newest ID it acquired from the
\* other ring was released, so they are IDs that have not come back yet.
ViewsFollowTheCycle ==
  /\ freeUnseen <= Len(readyQueue) - readySeen + Len(captureHeld)
  /\ readyUnseen <= Len(freeQueue) - freeSeen + Len(senderHeld)

\* The inductive core: which IDs are where, and what each end knows of them.
CycleInv == HeldByStep /\ AllSlotsSomewhere /\ ViewsFollowTheCycle

\* pipeline.rs:139, 212, 252 and 268 - neither the panics on a full ring nor
\* the expect on a slot's metadata fire, however old the loaded cursors are.
NoPanic == capturePc # "panicked" /\ senderPc # "panicked"

Distinct(q) == \A i, j \in 1 .. Len(q) : q[i] = q[j] => i = j
Disjoint(p, q) == \A i \in 1 .. Len(p), j \in 1 .. Len(q) : p[i] # q[j]

\* capture.rs:230 and 243 - an ID has one owner: no slot is in two places of
\* the cycle at once, so the stage that holds it is alone in touching it.
SlotExclusive ==
  /\ Distinct(freeQueue) /\ Distinct(readyQueue)
  /\ Distinct(captureHeld) /\ Distinct(senderHeld)
  /\ Disjoint(freeQueue, readyQueue) /\ Disjoint(captureHeld, senderHeld)
  /\ Disjoint(freeQueue, captureHeld) /\ Disjoint(freeQueue, senderHeld)
  /\ Disjoint(readyQueue, captureHeld) /\ Disjoint(readyQueue, senderHeld)

Complete(s) == pool[s].info # None /\ pool[s].pixels = pool[s].info

\* capture.rs:106 and pipeline.rs:252 - a slot on its way to the network holds
\* one whole frame under its own metadata, and a free slot has none.
SlotContents ==
  /\ \A i \in 1 .. Len(freeQueue) : pool[freeQueue[i]].info = None
  /\ \A i \in 1 .. Len(readyQueue) : Complete(readyQueue[i])
  /\ \A i \in 1 .. Len(senderHeld) : Complete(senderHeld[i])
  /\ capturePc = "publish" => Complete(captureHeld[1])

\* pipeline.rs:223 - the frames behind the sender are older than every frame
\* before it: what goes out never goes back in time, whichever slot carries it.
SentInOrder == [][lastSent' # lastSent => lastSent' > lastSent]_vars

\* pipeline.rs:271 - the two counters lose no frame: every frame offered is in
\* the cycle, was counted as dropped or as stale before or after a snapshot, or
\* went through the sender; the frame of a failed send is the only other one.
\* Between its swaps too, a drop counted there included.
InCycle ==
  Len(readyQueue) + Len(senderHeld) + (IF capturePc = "publish" THEN 1 ELSE 0)

\* sender_loop has let go of the frame of this step without a new frame_id yet.
LetGo == IF senderPc \in {"report", "snapshot", "failed"} THEN 1 ELSE 0

EveryFrameAccounted ==
  NoPanic => frames = dropped + stale + reported + frameId + LetGo + InCycle

\* transport.rs:224 - once the capture stage has stopped, the sender stage ends.
SenderFollowsStop ==
  ~captureRunning ~> senderPc \in {"stopped", "failed"}

\* pipeline.rs:263 - an ID the sender takes always comes back, after an error
\* in the send and after the stage that would reuse it has stopped too.
SenderReturnsSlots ==
  \A s \in Slots :
    (\E i \in 1 .. Len(senderHeld) : senderHeld[i] = s)
      ~> (\E i \in 1 .. Len(freeQueue) : freeQueue[i] = s)

\* pipeline.rs:106 - "dequeues and drops a source frame if sender currently
\* owns every slot": a frame is dropped only in that case.
DropsOnlyWhenSenderOwnsAll ==
  [][dropped' > dropped => Len(senderHeld) = FramePoolSlots]_vars
=============================================================================
