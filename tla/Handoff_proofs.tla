--------------------------- MODULE Handoff_proofs ---------------------------
(***************************************************************************)
(* What holds of the handoff for every number of slots, either source and  *)
(* any number of frames, and of the sources in front of it: of a file or a *)
(* camera under capture_loop for every file and size of a frame            *)
(* (FrameSources), of a screen for every image, every chunk a driver may   *)
(* report and any number of callbacks (ScreenCapture).  Either is a source *)
(* as the handoff knows it.                                                *)
(*                                                                         *)
(* The handoff: an ID is never lost from the cycle (AllSlotsSomewhere),    *)
(* so a stage that owns an ID knows that neither ring holds all of them.   *)
(* That alone does not exclude a panic, because each end may load an old   *)
(* cursor; ViewsFollowTheCycle bounds how old, and together they leave a   *)
(* cell free in the producer's own view whenever it pushes.                *)
(*                                                                         *)
(* The sources: frames counts the reads and the skips of a file together,  *)
(* and where begin_next_frame leaves the reader is that count modulo the   *)
(* frames of the file (ReaderInStep), so a read happens at its place.      *)
(* publish_strided accepts a buffer only if its last row ends inside it,   *)
(* so every row does (AcceptedRows), and the copy of an accepted buffer is *)
(* a fill of the handoff; everything else a callback does before its claim *)
(* leaves the handoff alone.                                               *)
(***************************************************************************)
EXTENDS FrameSources, ScreenCapture, DivisionLemmas, SequenceTheorems

\* The first element of a non-empty queue leaves a queue one shorter.
LEMMA TailFacts ==
  ASSUME NEW S, NEW q \in Seq(S), q # <<>>
  PROVE  /\ Head(q) \in S /\ Tail(q) \in Seq(S)
         /\ Len(Tail(q)) = Len(q) - 1 /\ Len(q) \in Nat \ {0}
  BY HeadTailProperties, EmptySeq, LenProperties

\* An appended element makes the queue one longer.
LEMMA AppendFacts ==
  ASSUME NEW S, NEW q \in Seq(S), NEW e \in S
  PROVE  /\ Append(q, e) \in Seq(S)
         /\ Len(Append(q, e)) = Len(q) + 1 /\ Len(q) \in Nat
  BY AppendProperties, LenProperties

USE HandoffAssumption

-----------------------------------------------------------------------------
(* The arithmetic of the cycle, the same for both rings: of l queued IDs     *)
(* the consumer has acquired s, of the popped ones the producer has not seen *)
(* u, and the consumer owns c IDs; l2, s2, u2, c2 are the other ring's.      *)

Counts(l, s, u, c, l2, s2, u2, c2) ==
  /\ {l, s, u, c, l2, s2, u2, c2} \subseteq Nat
  /\ s <= l /\ s2 <= l2
  /\ l + u <= FramePoolSlots /\ l2 + u2 <= FramePoolSlots
  /\ l + c + l2 + c2 = FramePoolSlots
  /\ u <= l2 - s2 + c
  /\ u2 <= l - s + c2

\* A pop that acquires all but s1 of the queue, and learns of the other ring.
LEMMA PopCounts ==
  ASSUME NEW l, NEW s, NEW u, NEW c, NEW l2, NEW s2, NEW u2, NEW c2, NEW s1,
         Counts(l, s, u, c, l2, s2, u2, c2),
         s1 \in 0 .. l - 1, s1 >= s - 1
  PROVE  LET bound == (l - 1) - s1 + c2
         IN  Counts(l - 1, s1, u + 1, c + 1,
                    l2, s2, IF bound < u2 THEN bound ELSE u2, c2)
  BY DEF Counts

\* A push of one of the c IDs owned to the other ring.
LEMMA PushCounts ==
  ASSUME NEW l, NEW s, NEW u, NEW c, NEW l2, NEW s2, NEW u2, NEW c2, NEW u1,
         Counts(l, s, u, c, l2, s2, u2, c2),
         c >= 1, u1 \in 0 .. u2
  PROVE  /\ l2 + u1 < FramePoolSlots
         /\ Counts(l, s, u, c - 1, l2 + 1, s2, u1, c2)
  BY DEF Counts

\* The two rings play the same part in the cycle.
LEMMA CountsSymmetric ==
  ASSUME NEW l, NEW s, NEW u, NEW c, NEW l2, NEW s2, NEW u2, NEW c2,
         Counts(l, s, u, c, l2, s2, u2, c2)
  PROVE  Counts(l2, s2, u2, c2, l, s, u, c)
  BY DEF Counts

Balanced ==
  Counts(Len(freeQueue), freeSeen, freeUnseen, Len(captureHeld),
         Len(readyQueue), readySeen, readyUnseen, Len(senderHeld))

Inv == TypeOK /\ CycleInv

LEMMA InvBalanced == Inv => Balanced
  <1> SUFFICES ASSUME Inv PROVE Balanced
    OBVIOUS
  <1>1. /\ Len(freeQueue) \in Nat /\ Len(captureHeld) \in Nat
        /\ Len(readyQueue) \in Nat /\ Len(senderHeld) \in Nat
    BY LenProperties DEF Inv, TypeOK, Free!TypeOK, Ready!TypeOK
  <1> QED
    BY <1>1 DEF Inv, TypeOK, CycleInv, Balanced, Counts, AllSlotsSomewhere,
       ViewsFollowTheCycle, Free!TypeOK, Ready!TypeOK

QueuesTyped ==
  {freeQueue, readyQueue, captureHeld, senderHeld} \subseteq Seq(Slots)

RestTyped ==
  /\ pool \in [Slots -> [pixels : Nat, info : Nat]]
  /\ capturePc \in {"claim", "fill", "discard", "publish", "stopped", "panicked"}
  /\ captureRunning \in BOOLEAN
  /\ senderPc \in {"connect", "take", "check", "drain", "retire", "send",
                   "return", "report", "snapshot", "fail", "failed", "stopped",
                   "panicked"}
  /\ {frames, frameId, lastSent, dropped, stale, reported} \subseteq Nat

\* What a step has to show for Inv to hold after it.
LEMMA InvParts == Inv <=> QueuesTyped /\ RestTyped /\ Balanced /\ HeldByStep
  <1>1. Inv => QueuesTyped /\ RestTyped /\ HeldByStep
    BY DEF Inv, TypeOK, CycleInv, QueuesTyped, RestTyped, Free!TypeOK, Ready!TypeOK
  <1>2. QueuesTyped /\ RestTyped /\ Balanced /\ HeldByStep => Inv
    BY DEF Inv, TypeOK, CycleInv, QueuesTyped, RestTyped, Free!TypeOK, Ready!TypeOK,
       Balanced, Counts, AllSlotsSomewhere, ViewsFollowTheCycle
  <1> QED
    BY <1>1, <1>2, InvBalanced

LEMMA InitInv == Init => Inv
  <1> SUFFICES ASSUME Init PROVE Inv
    OBVIOUS
  <1>1. freeQueue \in Seq(Slots) /\ Len(freeQueue) = FramePoolSlots
    BY DEF Init, Slots
  <1> QED
    BY <1>1 DEF Init, Ready!Init, Inv, TypeOK, Free!TypeOK, Ready!TypeOK, CycleInv,
       HeldByStep, AllSlotsSomewhere, ViewsFollowTheCycle, Torn, None

-----------------------------------------------------------------------------
(* One lemma per ring operation.                                             *)

LEMMA ClaimInv == Inv /\ CaptureClaim => Inv'
  <1> SUFFICES ASSUME Inv, CaptureClaim PROVE Inv'
    OBVIOUS
  <1>0. QueuesTyped /\ RestTyped /\ Balanced /\ HeldByStep
    BY InvParts
  <1>1. /\ freeQueue # <<>> /\ freeQueue' = Tail(freeQueue)
        /\ freeSeen' \in 0 .. Len(freeQueue) - 1 /\ freeSeen' >= freeSeen - 1
        /\ freeUnseen' = freeUnseen + 1
        /\ readyUnseen' = (IF Len(freeQueue') - freeSeen' + Len(senderHeld) < readyUnseen
                           THEN Len(freeQueue') - freeSeen' + Len(senderHeld)
                           ELSE readyUnseen)
        /\ UNCHANGED <<readyQueue, readySeen, captureRunning, frames, dropped, senderVars>>
        /\ captureHeld' = <<Head(freeQueue)>> /\ capturePc = "claim" /\ capturePc' = "fill"
        /\ pool' = [pool EXCEPT ![Head(freeQueue)].pixels = Torn]
    BY DEF CaptureClaim, Free!Pop, Ready!ProducerLearns
  <1>2. /\ Head(freeQueue) \in Slots /\ Tail(freeQueue) \in Seq(Slots)
        /\ Len(Tail(freeQueue)) = Len(freeQueue) - 1
    BY <1>0, <1>1, TailFacts DEF QueuesTyped
  <1>3. captureHeld = <<>> /\ Len(captureHeld) = 0 /\ Len(captureHeld') = 1
    BY <1>0, <1>1 DEF HeldByStep
  <1>4. QueuesTyped'
    BY <1>0, <1>1, <1>2 DEF QueuesTyped, senderVars
  <1>5. RestTyped'
    BY <1>0, <1>1, <1>2 DEF RestTyped, senderVars, Torn
  <1>6. Balanced'
    <2>1. LET bound == (Len(freeQueue) - 1) - freeSeen' + Len(senderHeld)
          IN  Counts(Len(freeQueue) - 1, freeSeen', freeUnseen + 1, Len(captureHeld) + 1,
                     Len(readyQueue), readySeen,
                     IF bound < readyUnseen THEN bound ELSE readyUnseen, Len(senderHeld))
      BY <1>0, <1>1, PopCounts DEF Balanced
    <2> QED
      BY <2>1, <1>1, <1>2, <1>3 DEF Balanced, senderVars
  <1>7. HeldByStep'
    BY <1>0, <1>1, <1>3 DEF HeldByStep, senderVars
  <1> QED
    BY <1>4, <1>5, <1>6, <1>7, InvParts, PTL

\* Owning an ID, capture finds a cell of ReadySlots free in its own view.
LEMMA PublishInv == Inv /\ CapturePublish => Inv' /\ capturePc' = "claim"
  <1> SUFFICES ASSUME Inv, CapturePublish PROVE Inv' /\ capturePc' = "claim"
    OBVIOUS
  <1>0. QueuesTyped /\ RestTyped /\ Balanced /\ HeldByStep
    BY InvParts
  <1>1. capturePc = "publish" /\ Len(captureHeld) = 1
    BY <1>0 DEF CapturePublish, HeldByStep
  <1>2. /\ captureHeld[1] \in Slots
        /\ Append(readyQueue, captureHeld[1]) \in Seq(Slots)
        /\ Len(Append(readyQueue, captureHeld[1])) = Len(readyQueue) + 1
    <2>1. captureHeld[1] \in Slots
      <3>1. captureHeld \in Seq(Slots) /\ 1 \in 1 .. Len(captureHeld)
        BY <1>0, <1>1 DEF QueuesTyped
      <3> QED
        BY <3>1, ElementOfSeq
    <2> QED
      BY <1>0, <2>1, AppendFacts DEF QueuesTyped
  <1>3. readyUnseen' \in 0 .. readyUnseen
    BY DEF CapturePublish, Ready!Push, Ready!PushRefused
  <1>4. /\ Len(readyQueue) + readyUnseen' < FramePoolSlots
        /\ Counts(Len(freeQueue), freeSeen, freeUnseen, 0,
                  Len(readyQueue) + 1, readySeen, readyUnseen', Len(senderHeld))
    <2>1. Len(captureHeld) >= 1 /\ Len(captureHeld) - 1 = 0
      BY <1>1
    <2>2. /\ Len(readyQueue) + readyUnseen' < FramePoolSlots
          /\ Counts(Len(freeQueue), freeSeen, freeUnseen, Len(captureHeld) - 1,
                    Len(readyQueue) + 1, readySeen, readyUnseen', Len(senderHeld))
      BY <1>0, <1>3, <2>1, PushCounts DEF Balanced
    <2> QED
      BY <2>1, <2>2
  <1>5. /\ readyQueue' = Append(readyQueue, captureHeld[1])
        /\ captureHeld' = <<>> /\ Len(captureHeld') = 0 /\ capturePc' = "claim"
        /\ UNCHANGED <<readySeen, freeVars, pool, captureRunning, frames, dropped,
                       senderVars>>
    <2>1. Len(readyQueue) \in Nat /\ readyUnseen' \in Int
      BY <1>0, <1>3, LenProperties DEF QueuesTyped, Balanced, Counts
    <2>2. ~(Len(readyQueue) + readyUnseen' >= FramePoolSlots)
      BY <2>1, <1>4
    <2> QED
      BY <2>2, EmptySeq DEF CapturePublish, Ready!Push, Ready!PushRefused
  <1>6. QueuesTyped' /\ RestTyped'
    BY <1>0, <1>2, <1>5 DEF QueuesTyped, RestTyped, senderVars, freeVars
  <1>7. Balanced'
    BY <1>2, <1>4, <1>5 DEF Balanced, senderVars, freeVars
  <1>8. HeldByStep'
    BY <1>0, <1>5 DEF HeldByStep, senderVars
  <1> QED
    BY <1>5, <1>6, <1>7, <1>8, InvParts, PTL

\* The sender pops from ReadySlots, once or again.
LEMMA AcquireInv == Inv /\ (SenderTake \/ SenderDrain) => Inv'
  <1> SUFFICES ASSUME Inv, SenderTake \/ SenderDrain PROVE Inv'
    OBVIOUS
  <1>0. QueuesTyped /\ RestTyped /\ Balanced /\ HeldByStep
    BY InvParts
  <1>1. /\ readyQueue # <<>> /\ readyQueue' = Tail(readyQueue)
        /\ readySeen' \in 0 .. Len(readyQueue) - 1 /\ readySeen' >= readySeen - 1
        /\ readyUnseen' = readyUnseen + 1
        /\ freeUnseen' = (IF Len(readyQueue') - readySeen' + Len(captureHeld) < freeUnseen
                          THEN Len(readyQueue') - readySeen' + Len(captureHeld)
                          ELSE freeUnseen)
        /\ UNCHANGED <<freeQueue, freeSeen, pool, captureVars, frameId, lastSent,
                       stale, reported>>
        /\ senderHeld' = Append(senderHeld, Head(readyQueue))
    BY DEF SenderTake, SenderDrain, AcquireReady, Ready!Pop, Free!ProducerLearns
  <1>2. \/ senderPc = "take" /\ senderPc' = "drain" /\ Len(senderHeld) = 0
        \/ senderPc = "drain" /\ senderPc' = "retire" /\ Len(senderHeld) = 1
    BY <1>0, EmptySeq DEF SenderTake, SenderDrain, Goto, HeldByStep
  <1>3. /\ Head(readyQueue) \in Slots /\ Tail(readyQueue) \in Seq(Slots)
        /\ Len(Tail(readyQueue)) = Len(readyQueue) - 1
    BY <1>0, <1>1, TailFacts DEF QueuesTyped
  <1>4. senderHeld' \in Seq(Slots) /\ Len(senderHeld') = Len(senderHeld) + 1
    BY <1>0, <1>1, <1>3, AppendFacts DEF QueuesTyped
  <1>5. QueuesTyped' /\ RestTyped'
    BY <1>0, <1>1, <1>2, <1>3, <1>4 DEF QueuesTyped, RestTyped, captureVars
  <1>6. Balanced'
    <2>1. Counts(Len(readyQueue), readySeen, readyUnseen, Len(senderHeld),
                 Len(freeQueue), freeSeen, freeUnseen, Len(captureHeld))
      BY <1>0, CountsSymmetric DEF Balanced
    <2>2. LET bound == (Len(readyQueue) - 1) - readySeen' + Len(captureHeld)
          IN  Counts(Len(readyQueue) - 1, readySeen', readyUnseen + 1, Len(senderHeld) + 1,
                     Len(freeQueue), freeSeen,
                     IF bound < freeUnseen THEN bound ELSE freeUnseen, Len(captureHeld))
      BY <2>1, <1>1, PopCounts
    <2>3. Counts(Len(readyQueue'), readySeen', readyUnseen', Len(senderHeld'),
                 Len(freeQueue'), freeSeen', freeUnseen', Len(captureHeld'))
      BY <2>2, <1>1, <1>3, <1>4 DEF captureVars
    <2> QED
      BY <2>3, CountsSymmetric DEF Balanced
  <1>7. HeldByStep'
    <2>1. UNCHANGED <<capturePc, captureHeld>>
      BY <1>1 DEF captureVars
    <2>2. \/ senderPc' = "drain" /\ Len(senderHeld') = 1
          \/ senderPc' = "retire" /\ Len(senderHeld') = 2
      <3>1. Len(senderHeld) = 0 => Len(senderHeld') = 1
        BY <1>4
      <3>2. Len(senderHeld) = 1 => Len(senderHeld') = 2
        BY <1>4
      <3> QED
        BY <1>2, <3>1, <3>2, Zenon
    <2> QED
      BY <1>0, <2>1, <2>2 DEF HeldByStep
  <1> QED
    BY <1>5, <1>6, <1>7, InvParts, PTL

\* Owning an ID, the sender finds a cell of FreeSlots free in its own view.
LEMMA ReturnTaken ==
  ASSUME Inv, NEW next, ReturnToFree(next), Len(senderHeld) >= 1,
         UNCHANGED <<readyVars, captureHeld>>
  PROVE  /\ freeQueue' = Append(freeQueue, Head(senderHeld))
         /\ UNCHANGED freeSeen
         /\ senderHeld' = Tail(senderHeld) /\ senderPc' = next
         /\ QueuesTyped' /\ Balanced' /\ Len(senderHeld') = Len(senderHeld) - 1
         /\ Head(senderHeld) \in Slots
  <1>0. QueuesTyped /\ Balanced
    BY InvParts
  <1>1. senderHeld # <<>>
    BY EmptySeq
  <1>2. /\ Head(senderHeld) \in Slots /\ Tail(senderHeld) \in Seq(Slots)
        /\ Len(Tail(senderHeld)) = Len(senderHeld) - 1
    BY <1>0, <1>1, TailFacts DEF QueuesTyped
  <1>3. /\ Append(freeQueue, Head(senderHeld)) \in Seq(Slots)
        /\ Len(Append(freeQueue, Head(senderHeld))) = Len(freeQueue) + 1
    BY <1>0, <1>2, AppendFacts DEF QueuesTyped
  <1>4. freeUnseen' \in 0 .. freeUnseen
    BY DEF ReturnToFree, Free!Push, Free!PushRefused
  <1>5. /\ Len(freeQueue) + freeUnseen' < FramePoolSlots
        /\ Counts(Len(readyQueue), readySeen, readyUnseen, Len(senderHeld) - 1,
                  Len(freeQueue) + 1, freeSeen, freeUnseen', Len(captureHeld))
    BY <1>0, <1>4, PushCounts, CountsSymmetric DEF Balanced
  <1>6. /\ freeQueue' = Append(freeQueue, Head(senderHeld)) /\ UNCHANGED freeSeen
        /\ senderHeld' = Tail(senderHeld) /\ senderPc' = next
    <2>1. Len(freeQueue) \in Nat /\ freeUnseen' \in Int
      BY <1>0, <1>4, LenProperties DEF QueuesTyped, Balanced, Counts
    <2>2. ~(Len(freeQueue) + freeUnseen' >= FramePoolSlots)
      BY <2>1, <1>5
    <2> QED
      BY <2>2 DEF ReturnToFree, Free!Push, Free!PushRefused, Goto
  <1>7. QueuesTyped'
    BY <1>0, <1>2, <1>3, <1>6 DEF QueuesTyped, readyVars
  <1>8. Balanced'
    <2>1. Counts(Len(readyQueue'), readySeen', readyUnseen', Len(senderHeld'),
                 Len(freeQueue'), freeSeen', freeUnseen', Len(captureHeld'))
      BY <1>2, <1>3, <1>5, <1>6 DEF readyVars
    <2> QED
      BY <2>1, CountsSymmetric DEF Balanced
  <1> QED
    BY <1>2, <1>6, <1>7, <1>8

LEMMA ReturnInv == Inv /\ (SenderRetire \/ SenderReturn) => Inv'
  <1> SUFFICES ASSUME Inv, SenderRetire \/ SenderReturn PROVE Inv'
    OBVIOUS
  <1>0. QueuesTyped /\ RestTyped /\ Balanced /\ HeldByStep
    BY InvParts
  <1>1. CASE SenderRetire
    <2>1. /\ ReturnToFree("drain") /\ Len(senderHeld) = 2 /\ stale' = stale + 1
          /\ UNCHANGED <<readyVars, captureVars, frameId, lastSent, reported>>
      BY <1>0, <1>1 DEF SenderRetire, HeldByStep
    <2>2. /\ QueuesTyped' /\ Balanced' /\ senderPc' = "drain"
          /\ Len(senderHeld') = 1 /\ Head(senderHeld) \in Slots
      BY <2>1, ReturnTaken DEF captureVars
    <2>3. RestTyped'
      <3>1. pool' \in [Slots -> [pixels : Nat, info : Nat]]
        BY <1>0, <2>1, <2>2 DEF RestTyped, ReturnToFree, None
      <3> QED
        BY <1>0, <2>1, <2>2, <3>1 DEF RestTyped, captureVars
    <2>4. HeldByStep'
      BY <1>0, <2>1, <2>2 DEF HeldByStep, captureVars
    <2> QED
      BY <2>2, <2>3, <2>4, InvParts, PTL
  <1>2. CASE SenderReturn
    <2>1. /\ \/ ReturnToFree("report") \/ ReturnToFree("failed")
          /\ Len(senderHeld) = 1
          /\ UNCHANGED <<readyVars, captureVars, frameId, lastSent, stale, reported>>
      BY <1>0, <1>2 DEF SenderReturn, HeldByStep
    <2>2. /\ QueuesTyped' /\ Balanced' /\ senderPc' \in {"report", "failed"}
          /\ Len(senderHeld') = 0 /\ Head(senderHeld) \in Slots
      BY <2>1, ReturnTaken DEF captureVars
    <2>3. senderHeld' = <<>>
      BY <2>2, EmptySeq DEF QueuesTyped
    <2>4. RestTyped'
      <3>0. pool' = [pool EXCEPT ![Head(senderHeld)].info = None]
        BY <2>1 DEF ReturnToFree
      <3>1. pool' \in [Slots -> [pixels : Nat, info : Nat]]
        BY <1>0, <3>0, <2>2 DEF RestTyped, None
      <3> QED
        BY <1>0, <2>1, <2>2, <3>1 DEF RestTyped, captureVars
    <2>5. HeldByStep'
      BY <1>0, <2>1, <2>2, <2>3 DEF HeldByStep, captureVars
    <2> QED
      BY <2>2, <2>4, <2>5, InvParts, PTL
  <1> QED
    BY <1>1, <1>2

\* Every other step leaves the IDs where they are.
Quiet ==
  \/ CaptureNoSlot \/ CaptureDiscard \/ CallbackDrop \/ CaptureFill \/ CaptureFails
  \/ SenderConnect \/ SenderIdle \/ SenderYield \/ SenderStop \/ SenderDrained
  \/ SenderSend \/ SenderReport

LEMMA QuietUnchanged ==
  Quiet => UNCHANGED <<freeVars, readyVars, captureHeld, senderHeld>>
  BY DEF Quiet, CaptureNoSlot, CaptureDiscard, CallbackDrop, CaptureFill,
     CaptureFails, SenderConnect, SenderIdle, SenderYield, SenderStop,
     SenderDrained, SenderSend, SenderReport, SwapDropped, SwapStale, SkipReport,
     Free!PopEmpty, Ready!PopEmpty,
     Free!queueVars, Ready!queueVars, freeVars, readyVars, senderVars, captureVars

LEMMA QuietInv == Inv /\ Quiet => Inv'
  <1> SUFFICES ASSUME Inv, Quiet PROVE Inv'
    OBVIOUS
  <1>0. QueuesTyped /\ RestTyped /\ Balanced /\ HeldByStep
    BY InvParts
  <1>1. UNCHANGED <<freeVars, readyVars, captureHeld, senderHeld>>
    BY QuietUnchanged
  <1>2. QueuesTyped' /\ Balanced'
    BY <1>0, <1>1 DEF QueuesTyped, Balanced, freeVars, readyVars
  <1>3. HeldByStep'
    BY <1>0, <1>1 DEF HeldByStep, Quiet, CaptureNoSlot, CaptureDiscard,
       CallbackDrop, CaptureFill, CaptureFails, SenderConnect, SenderIdle,
       SenderYield, SenderStop, SenderDrained, SenderSend, SenderReport,
       SwapDropped, SwapStale, SkipReport, Goto,
       senderVars, captureVars
  <1>4. CASE CaptureFill
    <2>1. captureHeld[1] \in Slots
      <3>1. captureHeld \in Seq(Slots) /\ Len(captureHeld) = 1
        BY <1>0, <1>4 DEF QueuesTyped, HeldByStep, CaptureFill
      <3>2. 1 \in 1 .. Len(captureHeld)
        BY <3>1
      <3> QED
        BY <3>1, <3>2, ElementOfSeq
    <2>2. RestTyped'
      BY <1>0, <1>4, <2>1 DEF RestTyped, CaptureFill, senderVars
    <2> QED
      BY <1>2, <1>3, <2>2, InvParts, PTL
  <1>5. CASE SenderSend
    <2>1. lastSent' \in Nat
      <3>1. pool \in [Slots -> [pixels : Nat, info : Nat]]
        BY <1>0 DEF RestTyped
      <3>2. senderHeld[1] \in Slots
        <4>1. senderHeld \in Seq(Slots) /\ Len(senderHeld) = 1
          BY <1>0, <1>5 DEF QueuesTyped, HeldByStep, SenderSend
        <4>2. 1 \in 1 .. Len(senderHeld)
          BY <4>1
        <4> QED
          BY <4>1, <4>2, ElementOfSeq
      <3>3. lastSent \in Nat
        BY <1>0 DEF RestTyped
      <3>4. lastSent' = pool[senderHeld[1]].pixels \/ lastSent' = lastSent
        BY <1>5 DEF SenderSend
      <3> QED
        BY <3>1, <3>2, <3>3, <3>4
    <2>2. RestTyped'
      BY <1>0, <1>5, <2>1 DEF RestTyped, SenderSend, Goto, captureVars
    <2> QED
      BY <1>2, <1>3, <2>2, InvParts, PTL
  <1>6. CASE ~CaptureFill /\ ~SenderSend
    <2>1. /\ pool' = pool /\ lastSent' = lastSent
          /\ captureRunning' \in BOOLEAN
          /\ capturePc' \in {capturePc, "discard", "claim", "stopped"}
          /\ senderPc' \in {senderPc, "take", "stopped", "check", "send", "snapshot"}
      BY <1>0, <1>6 DEF RestTyped, Quiet, CaptureNoSlot, CaptureDiscard, CountDrop,
         CallbackDrop, CaptureFails, SenderConnect, SenderIdle, SenderYield,
         SenderStop, SenderDrained, SenderReport, SwapDropped, SwapStale,
         SkipReport, Goto, senderVars, captureVars
    <2>2. /\ frames' \in {frames, frames + 1}
          /\ dropped' \in {dropped, dropped + 1, 0}
          /\ stale' \in {stale, 0}
          /\ reported' \in {reported, reported + dropped, reported + stale}
          /\ frameId' \in {frameId, frameId + 1}
      BY <1>6 DEF Quiet, CaptureNoSlot, CaptureDiscard, CountDrop,
         CallbackDrop, CaptureFails, SenderConnect, SenderIdle, SenderYield,
         SenderStop, SenderDrained, SenderReport, SwapDropped, SwapStale,
         SkipReport, senderVars, captureVars
    <2>3. {frames', frameId', lastSent', dropped', stale', reported'} \subseteq Nat
      BY <1>0, <2>1, <2>2 DEF RestTyped
    <2>4. RestTyped'
      BY <1>0, <2>1, <2>3 DEF RestTyped
    <2> QED
      BY <1>2, <1>3, <2>4, InvParts, PTL
  <1> QED
    BY <1>4, <1>5, <1>6

LEMMA InvStep == Inv /\ [Next]_vars => Inv'
  <1> SUFFICES ASSUME Inv, [Next]_vars PROVE Inv'
    OBVIOUS
  <1>1. CASE UNCHANGED vars
    BY <1>1 DEF vars, freeVars, readyVars, captureVars, senderVars, Inv, TypeOK, CycleInv,
       HeldByStep, AllSlotsSomewhere, ViewsFollowTheCycle, Free!TypeOK, Ready!TypeOK
  <1>2. Next => \/ CaptureClaim \/ CapturePublish \/ SenderTake \/ SenderDrain
                \/ SenderRetire \/ SenderReturn \/ Quiet
    BY DEF Next, CaptureNext, SenderNext, Quiet
  <1> QED
    BY <1>1, <1>2, ClaimInv, PublishInv, AcquireInv, ReturnInv, QuietInv

\* Type correctness: SpscQueue's promise holds of both rings, and every other
\* field of the ports, the pool and the two loops holds what it may.
THEOREM TypeCorrect == Spec => []TypeOK
  <1>1. Inv => TypeOK
    BY DEF Inv
  <1> QED
    BY <1>1, InitInv, InvStep, PTL DEF Spec

\* The cycle keeps all its IDs and each end's view of a ring is bounded by what
\* the other ring told it, whatever the number of slots.
THEOREM CycleCorrect == Spec => []CycleInv
  <1>1. Inv => CycleInv
    BY DEF Inv
  <1> QED
    BY <1>1, InitInv, InvStep, PTL DEF Spec

-----------------------------------------------------------------------------
(* One owner per ID: every ring operation moves the first ID of one place to *)
(* the end of another.                                                       *)

OneOwner(p, q, r, t) ==
  /\ Distinct(p) /\ Distinct(q) /\ Distinct(r) /\ Distinct(t)
  /\ Disjoint(p, q) /\ Disjoint(p, r) /\ Disjoint(p, t)
  /\ Disjoint(q, r) /\ Disjoint(q, t) /\ Disjoint(r, t)

Owners == OneOwner(freeQueue, captureHeld, readyQueue, senderHeld)

LEMMA DisjointSymmetric ==
  ASSUME NEW p, NEW q, Disjoint(p, q) PROVE Disjoint(q, p)
  BY DEF Disjoint

LEMMA OwnersExclusive == Owners <=> SlotExclusive
  BY DisjointSymmetric DEF Owners, OneOwner, SlotExclusive

LEMMA Turn ==
  ASSUME NEW p, NEW q, NEW r, NEW t, OneOwner(p, q, r, t)
  PROVE  OneOwner(q, r, t, p)
  BY DisjointSymmetric DEF OneOwner

\* Moving the first ID of p to the end of q.
LEMMA Move ==
  ASSUME NEW S, NEW p \in Seq(S), NEW q \in Seq(S), NEW r \in Seq(S), NEW t \in Seq(S),
         p # <<>>, OneOwner(p, q, r, t)
  PROVE  OneOwner(Tail(p), Append(q, Head(p)), r, t)
  <1> DEFINE e == Head(p)
             P == Tail(p)
             Q == Append(q, e)
  <1>1. /\ e \in S /\ e = p[1] /\ Len(p) \in Nat \ {0} /\ Len(P) = Len(p) - 1
        /\ \A i \in 1 .. Len(P) : P[i] = p[i + 1]
    BY HeadTailProperties, EmptySeq
  <1>2. /\ Len(Q) = Len(q) + 1 /\ Len(q) \in Nat /\ Len(r) \in Nat /\ Len(t) \in Nat
        /\ \A i \in 1 .. Len(q) : Q[i] = q[i]
        /\ Q[Len(q) + 1] = e
    BY <1>1, AppendProperties, LenProperties
  <1> HIDE DEF e, P, Q
  <1>3. Distinct(P)
    <2>1. \A i \in 1 .. Len(P) : i + 1 \in 1 .. Len(p)
      BY <1>1
    <2>2. \A i, j \in 1 .. Len(P) : i # j => i + 1 # j + 1
      OBVIOUS
    <2>3. \A i, j \in 1 .. Len(p) : i # j => p[i] # p[j]
      BY DEF OneOwner, Distinct
    <2> QED
      BY <1>1, <2>1, <2>2, <2>3 DEF Distinct
  <1>4. Distinct(Q)
    <2>1. \A i \in 1 .. Len(q) : q[i] # e
      BY <1>1 DEF OneOwner, Disjoint
    <2>2. \A i \in 1 .. Len(Q) : i \in 1 .. Len(q) \/ i = Len(q) + 1
      BY <1>2
    <2> QED
      BY <1>2, <2>1, <2>2 DEF OneOwner, Distinct
  <1>5. Disjoint(P, Q)
    <2>1. \A i \in 1 .. Len(P), j \in 1 .. Len(q) : P[i] # q[j]
      BY <1>1 DEF OneOwner, Disjoint
    <2>2. \A i \in 1 .. Len(P) : P[i] # e
      BY <1>1 DEF OneOwner, Distinct
    <2>3. \A j \in 1 .. Len(Q) : j \in 1 .. Len(q) \/ j = Len(q) + 1
      BY <1>2
    <2> QED
      BY <1>2, <2>1, <2>2, <2>3 DEF Disjoint
  <1>6. Disjoint(P, r) /\ Disjoint(P, t)
    BY <1>1 DEF OneOwner, Disjoint
  <1>7. Disjoint(Q, r) /\ Disjoint(Q, t)
    <2>1. /\ \A j \in 1 .. Len(r) : e # r[j]
          /\ \A j \in 1 .. Len(t) : e # t[j]
      BY <1>1 DEF OneOwner, Disjoint
    <2>2. \A i \in 1 .. Len(Q) : i \in 1 .. Len(q) \/ i = Len(q) + 1
      BY <1>2
    <2>3. Disjoint(Q, r)
      <3>1. \A i \in 1 .. Len(q), j \in 1 .. Len(r) : q[i] # r[j]
        BY DEF OneOwner, Disjoint
      <3> QED
        BY <1>2, <2>1, <2>2, <3>1 DEF Disjoint
    <2>4. Disjoint(Q, t)
      <3>1. \A i \in 1 .. Len(q), j \in 1 .. Len(t) : q[i] # t[j]
        BY DEF OneOwner, Disjoint
      <3> QED
        BY <1>2, <2>1, <2>2, <3>1 DEF Disjoint
    <2> QED
      BY <2>3, <2>4
  <1>8. Disjoint(r, t) /\ Distinct(r) /\ Distinct(t)
    BY DEF OneOwner
  <1> QED
    BY <1>3, <1>4, <1>5, <1>6, <1>7, <1>8 DEF OneOwner, e, P, Q

LEMMA InitOwners == Init => Owners
  <1> SUFFICES ASSUME Init PROVE Owners
    OBVIOUS
  <1>1. /\ Len(freeQueue) = FramePoolSlots
        /\ \A i \in 1 .. FramePoolSlots : freeQueue[i] = i - 1
        /\ captureHeld = <<>> /\ readyQueue = <<>> /\ senderHeld = <<>>
    BY DEF Init, Ready!Init
  <1>2. Len(<<>>) = 0
    BY EmptySeq
  <1> QED
    BY <1>1, <1>2 DEF Owners, OneOwner, Distinct, Disjoint

\* The one ID of a place that owns one.
LEMMA Single ==
  ASSUME NEW S, NEW q \in Seq(S), Len(q) = 1
  PROVE  q # <<>> /\ Head(q) = q[1] /\ Tail(q) = <<>> /\ q[1] \in S
  <1>1. q # <<>>
    <2>1. Len(<<>>) # 1
      BY EmptySeq
    <2> QED
      BY <2>1, Zenon
  <1>2. Tail(q) \in Seq(S) /\ Len(Tail(q)) = 0
    BY <1>1, HeadTailProperties
  <1>3. Tail(q) = <<>>
    BY <1>2, EmptySeq
  <1>4. 1 \in 1 .. Len(q)
    OBVIOUS
  <1> QED
    BY <1>1, <1>3, <1>4, ElementOfSeq

LEMMA OwnersStep == Inv /\ Owners /\ [Next]_vars => Owners'
  <1> SUFFICES ASSUME Inv, Owners, [Next]_vars PROVE Owners'
    OBVIOUS
  <1>0. QueuesTyped /\ HeldByStep
    BY InvParts
  <1>1. CASE CaptureClaim
    <2>1. /\ freeQueue # <<>> /\ freeQueue' = Tail(freeQueue)
          /\ captureHeld = <<>> /\ captureHeld' = Append(captureHeld, Head(freeQueue))
          /\ UNCHANGED <<readyQueue, senderHeld>>
      BY <1>0, <1>1 DEF CaptureClaim, Free!Pop, Ready!ProducerLearns, HeldByStep, senderVars
    <2> QED
      BY <1>0, <2>1, Move DEF Owners, QueuesTyped
  <1>2. CASE CapturePublish
    <2>1. Len(captureHeld) = 1 /\ capturePc' = "claim"
      BY <1>0, <1>2, PublishInv DEF HeldByStep, CapturePublish
    <2>2. /\ captureHeld # <<>> /\ captureHeld[1] = Head(captureHeld)
          /\ Tail(captureHeld) = <<>>
      BY <1>0, <2>1, Single DEF QueuesTyped
    <2>3. /\ readyQueue' = Append(readyQueue, Head(captureHeld))
          /\ captureHeld' = Tail(captureHeld)
          /\ UNCHANGED <<freeQueue, senderHeld>>
      BY <1>2, <2>1, <2>2 DEF CapturePublish, Ready!Push, senderVars, freeVars
    <2>4. OneOwner(captureHeld', readyQueue', senderHeld', freeQueue')
      BY <1>0, <2>2, <2>3, Turn, Move DEF Owners, QueuesTyped
    <2> QED
      BY <2>4, Turn DEF Owners
  <1>3. CASE SenderTake \/ SenderDrain
    <2>1. /\ readyQueue # <<>> /\ readyQueue' = Tail(readyQueue)
          /\ senderHeld' = Append(senderHeld, Head(readyQueue))
          /\ UNCHANGED <<freeQueue, captureHeld>>
      BY <1>3 DEF SenderTake, SenderDrain, AcquireReady, Ready!Pop,
         Free!ProducerLearns, captureVars
    <2>2. OneOwner(readyQueue, senderHeld, freeQueue, captureHeld)
      BY Turn DEF Owners
    <2>3. OneOwner(readyQueue', senderHeld', freeQueue', captureHeld')
      BY <1>0, <2>1, <2>2, Move DEF QueuesTyped
    <2> QED
      BY <2>3, Turn DEF Owners
  <1>4. CASE SenderRetire \/ SenderReturn
    <2>1. /\ \E next : ReturnToFree(next)
          /\ Len(senderHeld) >= 1
          /\ UNCHANGED <<readyVars, captureHeld>>
      BY <1>0, <1>4 DEF SenderRetire, SenderReturn, HeldByStep, captureVars
    <2>2. /\ senderHeld # <<>> /\ senderHeld' = Tail(senderHeld)
          /\ freeQueue' = Append(freeQueue, Head(senderHeld))
          /\ UNCHANGED <<captureHeld, readyQueue>>
      BY <2>1, ReturnTaken, EmptySeq DEF readyVars
    <2>3. OneOwner(senderHeld, freeQueue, captureHeld, readyQueue)
      BY Turn DEF Owners
    <2>4. OneOwner(senderHeld', freeQueue', captureHeld', readyQueue')
      BY <1>0, <2>2, <2>3, Move DEF QueuesTyped
    <2> QED
      BY <2>4, Turn DEF Owners
  <1>5. CASE Quiet \/ UNCHANGED vars
    <2>1. UNCHANGED <<freeQueue, captureHeld, readyQueue, senderHeld>>
      BY <1>5, QuietUnchanged DEF vars, freeVars, readyVars, captureVars, senderVars
    <2> QED
      BY <2>1 DEF Owners
  <1> QED
    BY <1>1, <1>2, <1>3, <1>4, <1>5 DEF Next, CaptureNext, SenderNext, Quiet

\* No slot has two owners, so no stage touches a slot another stage may touch.
THEOREM SlotsExclusive == Spec => []SlotExclusive
  <1>1. Init => Inv /\ Owners
    BY InitInv, InitOwners
  <1>2. Inv /\ Owners /\ [Next]_vars => (Inv /\ Owners)'
    BY InvStep, OwnersStep
  <1>3. Owners => SlotExclusive
    BY OwnersExclusive
  <1> QED
    BY <1>1, <1>2, <1>3, PTL DEF Spec

-----------------------------------------------------------------------------
(* What the slots hold, place by place.                                      *)


FreeCleared    == \A i \in 1 .. Len(freeQueue) : pool[freeQueue[i]].info = None
ReadyComplete  == \A i \in 1 .. Len(readyQueue) : Complete(readyQueue[i])
SenderComplete == \A i \in 1 .. Len(senderHeld) : Complete(senderHeld[i])
FilledComplete == capturePc = "publish" => Complete(captureHeld[1])

LEMMA ContentsParts ==
  SlotContents <=> FreeCleared /\ ReadyComplete /\ SenderComplete /\ FilledComplete
  BY DEF SlotContents, FreeCleared, ReadyComplete, SenderComplete, FilledComplete

\* A slot owned in one place is none of those in another.
LEMMA OwnedElsewhere ==
  ASSUME NEW S, NEW p \in Seq(S), p # <<>>, NEW q, Disjoint(p, q)
  PROVE  \A i \in 1 .. Len(q) : q[i] # Head(p)
  <1>1. Head(p) = p[1] /\ 1 \in 1 .. Len(p)
    BY EmptySeq
  <1> QED
    BY <1>1 DEF Disjoint

LEMMA ContentsStep ==
  Inv /\ Owners /\ SlotContents /\ [Next]_vars => SlotContents'
  <1> SUFFICES ASSUME Inv, Owners, SlotContents, [Next]_vars PROVE SlotContents'
    OBVIOUS
  <1>0. QueuesTyped /\ RestTyped /\ HeldByStep
    BY InvParts
  <1>00. FreeCleared /\ ReadyComplete /\ SenderComplete /\ FilledComplete
    BY ContentsParts
  <1>1. CASE CaptureClaim
    <2> DEFINE s == Head(freeQueue)
    <2>1. /\ freeQueue # <<>> /\ freeQueue' = Tail(freeQueue)
          /\ pool' = [pool EXCEPT ![s].pixels = Torn]
          /\ capturePc' = "fill"
          /\ UNCHANGED <<readyQueue, senderHeld>>
      BY <1>1 DEF CaptureClaim, Free!Pop, Ready!ProducerLearns, senderVars
    <2>2. /\ s \in Slots /\ Len(freeQueue) \in Nat
          /\ Len(Tail(freeQueue)) = Len(freeQueue) - 1
          /\ \A i \in 1 .. Len(Tail(freeQueue)) : Tail(freeQueue)[i] = freeQueue[i + 1]
      BY <1>0, <2>1, HeadTailProperties, LenProperties DEF QueuesTyped
    <2>3. /\ \A i \in 1 .. Len(readyQueue) : readyQueue[i] # s
          /\ \A i \in 1 .. Len(senderHeld) : senderHeld[i] # s
      BY <1>0, <2>1, OwnedElsewhere DEF Owners, OneOwner, QueuesTyped
    <2>4. /\ \A o \in Slots : pool'[o].info = pool[o].info
          /\ \A o \in Slots : o # s => pool'[o] = pool[o]
      BY <1>0, <2>1, <2>2 DEF RestTyped
    <2>5. /\ \A i \in 1 .. Len(freeQueue) : freeQueue[i] \in Slots
          /\ \A i \in 1 .. Len(readyQueue) : readyQueue[i] \in Slots
          /\ \A i \in 1 .. Len(senderHeld) : senderHeld[i] \in Slots
      BY <1>0, ElementOfSeq DEF QueuesTyped
    <2> HIDE DEF s
    <2>6. FreeCleared'
      <3>1. \A i \in 1 .. Len(Tail(freeQueue)) : i + 1 \in 1 .. Len(freeQueue)
        BY <2>2
      <3> QED
        BY <1>00, <2>1, <2>2, <2>4, <2>5, <3>1 DEF FreeCleared
    <2>7. ReadyComplete' /\ SenderComplete'
      BY <1>00, <2>1, <2>3, <2>4, <2>5 DEF ReadyComplete, SenderComplete, Complete
    <2>8. FilledComplete'
      BY <2>1 DEF FilledComplete
    <2> QED
      BY <2>6, <2>7, <2>8, ContentsParts, PTL
  <1>2. CASE CaptureFill
    <2> DEFINE s == captureHeld[1]
    <2>1. Len(captureHeld) = 1
      BY <1>0, <1>2 DEF CaptureFill, HeldByStep
    <2>2. captureHeld # <<>> /\ Head(captureHeld) = s /\ s \in Slots
      BY <1>0, <2>1, Single DEF QueuesTyped
    <2>3. /\ pool' = [pool EXCEPT ![s] = [pixels |-> frames + 1, info |-> frames + 1]]
          /\ UNCHANGED <<freeQueue, readyQueue, captureHeld, senderHeld>>
      BY <1>2 DEF CaptureFill, freeVars, readyVars, senderVars
    <2>4. \A o \in Slots : o # s => pool'[o] = pool[o]
      BY <1>0, <2>2, <2>3 DEF RestTyped
    <2>5. pool'[s].info # None /\ pool'[s].pixels = pool'[s].info
      BY <1>0, <2>2, <2>3 DEF RestTyped, None
    <2>6. /\ \A i \in 1 .. Len(freeQueue) : freeQueue[i] # s
          /\ \A i \in 1 .. Len(readyQueue) : readyQueue[i] # s
          /\ \A i \in 1 .. Len(senderHeld) : senderHeld[i] # s
      BY <1>0, <2>2, OwnedElsewhere, DisjointSymmetric DEF Owners, OneOwner, QueuesTyped
    <2>7. /\ \A i \in 1 .. Len(freeQueue) : freeQueue[i] \in Slots
          /\ \A i \in 1 .. Len(readyQueue) : readyQueue[i] \in Slots
          /\ \A i \in 1 .. Len(senderHeld) : senderHeld[i] \in Slots
      BY <1>0, ElementOfSeq DEF QueuesTyped
    <2> HIDE DEF s
    <2>8. FreeCleared' /\ ReadyComplete' /\ SenderComplete'
      BY <1>00, <2>3, <2>4, <2>6, <2>7 DEF FreeCleared, ReadyComplete, SenderComplete, Complete
    <2>9. FilledComplete'
      BY <2>3, <2>5 DEF FilledComplete, Complete, s
    <2> QED
      BY <2>8, <2>9, ContentsParts, PTL
  <1>3. CASE CapturePublish
    <2>1. /\ capturePc = "publish" /\ capturePc' = "claim"
          /\ readyQueue' = Append(readyQueue, captureHeld[1])
          /\ UNCHANGED <<freeQueue, senderHeld, pool>>
      BY <1>3, PublishInv DEF CapturePublish, Ready!Push, freeVars, senderVars
    <2>2. captureHeld[1] \in Slots
      BY <1>0, <2>1, Single DEF HeldByStep, QueuesTyped
    <2>3. /\ Len(readyQueue') = Len(readyQueue) + 1 /\ Len(readyQueue) \in Nat
          /\ \A i \in 1 .. Len(readyQueue) : readyQueue'[i] = readyQueue[i]
          /\ readyQueue'[Len(readyQueue) + 1] = captureHeld[1]
      BY <1>0, <2>1, <2>2, AppendProperties, LenProperties DEF QueuesTyped
    <2>4. \A i \in 1 .. Len(readyQueue') : i \in 1 .. Len(readyQueue) \/ i = Len(readyQueue) + 1
      BY <2>3
    <2>5. ReadyComplete'
      BY <1>00, <2>1, <2>3, <2>4 DEF ReadyComplete, FilledComplete, Complete
    <2>6. FreeCleared' /\ SenderComplete' /\ FilledComplete'
      BY <1>00, <2>1 DEF FreeCleared, SenderComplete, FilledComplete, Complete
    <2> QED
      BY <2>5, <2>6, ContentsParts, PTL
  <1>4. CASE SenderTake \/ SenderDrain
    <2>1. /\ readyQueue # <<>> /\ readyQueue' = Tail(readyQueue)
          /\ senderHeld' = Append(senderHeld, Head(readyQueue))
          /\ UNCHANGED <<freeQueue, captureHeld, capturePc, pool>>
      BY <1>4 DEF SenderTake, SenderDrain, AcquireReady, Ready!Pop,
         Free!ProducerLearns, captureVars
    <2>2. /\ Head(readyQueue) = readyQueue[1] /\ Head(readyQueue) \in Slots
          /\ Len(readyQueue) \in Nat \ {0} /\ Len(readyQueue') = Len(readyQueue) - 1
          /\ \A i \in 1 .. Len(readyQueue') : readyQueue'[i] = readyQueue[i + 1]
      BY <1>0, <2>1, HeadTailProperties, EmptySeq DEF QueuesTyped
    <2>3. /\ Len(senderHeld') = Len(senderHeld) + 1 /\ Len(senderHeld) \in Nat
          /\ \A i \in 1 .. Len(senderHeld) : senderHeld'[i] = senderHeld[i]
          /\ senderHeld'[Len(senderHeld) + 1] = readyQueue[1]
      BY <1>0, <2>1, <2>2, AppendProperties, LenProperties DEF QueuesTyped
    <2>4. /\ \A i \in 1 .. Len(readyQueue') : i + 1 \in 1 .. Len(readyQueue)
          /\ \A i \in 1 .. Len(senderHeld') : i \in 1 .. Len(senderHeld) \/ i = Len(senderHeld) + 1
          /\ 1 \in 1 .. Len(readyQueue)
      BY <2>2, <2>3
    <2>5. ReadyComplete'
      BY <1>00, <2>1, <2>2, <2>4 DEF ReadyComplete, Complete
    <2>6. SenderComplete'
      BY <1>00, <2>1, <2>3, <2>4 DEF ReadyComplete, SenderComplete, Complete
    <2>7. FreeCleared' /\ FilledComplete'
      BY <1>00, <2>1 DEF FreeCleared, FilledComplete, Complete
    <2> QED
      BY <2>5, <2>6, <2>7, ContentsParts, PTL
  <1>5. CASE SenderRetire \/ SenderReturn
    <2> DEFINE s == Head(senderHeld)
    <2>1. /\ \E next : ReturnToFree(next)
          /\ Len(senderHeld) >= 1
          /\ pool' = [pool EXCEPT ![s].info = None]
          /\ UNCHANGED <<readyVars, captureHeld, capturePc>>
      BY <1>0, <1>5 DEF SenderRetire, SenderReturn, HeldByStep, captureVars, ReturnToFree
    <2>2. /\ senderHeld # <<>> /\ senderHeld' = Tail(senderHeld) /\ s \in Slots
          /\ freeQueue' = Append(freeQueue, s)
          /\ UNCHANGED <<readyQueue, captureHeld>>
      BY <2>1, ReturnTaken, EmptySeq DEF readyVars
    <2>3. /\ Len(freeQueue') = Len(freeQueue) + 1 /\ Len(freeQueue) \in Nat
          /\ \A i \in 1 .. Len(freeQueue) : freeQueue'[i] = freeQueue[i]
          /\ freeQueue'[Len(freeQueue) + 1] = s
      BY <1>0, <2>2, AppendProperties, LenProperties DEF QueuesTyped
    <2>4. /\ s = senderHeld[1] /\ Len(senderHeld) \in Nat
          /\ Len(senderHeld') = Len(senderHeld) - 1
          /\ \A i \in 1 .. Len(senderHeld') : senderHeld'[i] = senderHeld[i + 1]
      BY <1>0, <2>2, HeadTailProperties, LenProperties DEF QueuesTyped
    <2>5. /\ \A i \in 1 .. Len(freeQueue) : freeQueue[i] # s
          /\ \A i \in 1 .. Len(readyQueue) : readyQueue[i] # s
          /\ \A i \in 1 .. Len(captureHeld) : captureHeld[i] # s
      BY <1>0, <2>2, OwnedElsewhere, DisjointSymmetric DEF Owners, OneOwner, QueuesTyped
    <2>6. /\ \A o \in Slots : o # s => pool'[o] = pool[o]
          /\ pool'[s].info = None
      BY <1>0, <2>1, <2>2 DEF RestTyped
    <2>7. /\ \A i \in 1 .. Len(freeQueue) : freeQueue[i] \in Slots
          /\ \A i \in 1 .. Len(readyQueue) : readyQueue[i] \in Slots
          /\ \A i \in 1 .. Len(senderHeld) : senderHeld[i] \in Slots
          /\ \A i \in 1 .. Len(captureHeld) : captureHeld[i] \in Slots
      BY <1>0, ElementOfSeq DEF QueuesTyped
    <2> HIDE DEF s
    <2>8. FreeCleared'
      <3>1. \A i \in 1 .. Len(freeQueue') : i \in 1 .. Len(freeQueue) \/ i = Len(freeQueue) + 1
        BY <2>3
      <3> QED
        BY <1>00, <2>3, <2>5, <2>6, <2>7, <3>1 DEF FreeCleared
    <2>9. ReadyComplete'
      BY <1>00, <2>2, <2>5, <2>6, <2>7 DEF ReadyComplete, Complete
    <2>10. SenderComplete'
      <3>1. /\ \A i \in 1 .. Len(senderHeld') : i + 1 \in 1 .. Len(senderHeld)
            /\ \A i \in 1 .. Len(senderHeld') : senderHeld[i + 1] # s
        <4>1. \A i \in 1 .. Len(senderHeld') : i + 1 \in 1 .. Len(senderHeld) /\ i + 1 # 1
          BY <2>4
        <4>2. \A i, j \in 1 .. Len(senderHeld) : i # j => senderHeld[i] # senderHeld[j]
          BY DEF Owners, OneOwner, Distinct
        <4>3. \A i \in 1 .. Len(senderHeld') : 1 \in 1 .. Len(senderHeld)
          BY <2>4
        <4> QED
          BY <2>4, <4>1, <4>2, <4>3
      <3>2. \A i \in 1 .. Len(senderHeld') : pool'[senderHeld'[i]] = pool[senderHeld[i + 1]]
        BY <2>4, <2>6, <2>7, <3>1
      <3> QED
        BY <1>00, <3>1, <3>2 DEF SenderComplete, Complete
    <2>11. FilledComplete'
      <3>1. capturePc = "publish" => 1 \in 1 .. Len(captureHeld)
        BY <1>0 DEF HeldByStep
      <3> QED
        BY <1>00, <2>1, <2>2, <2>5, <2>6, <2>7, <3>1 DEF FilledComplete, Complete
    <2> QED
      BY <2>8, <2>9, <2>10, <2>11, ContentsParts, PTL
  <1>6. CASE (Quiet /\ ~CaptureFill) \/ UNCHANGED vars
    <2>1. /\ UNCHANGED <<freeQueue, captureHeld, readyQueue, senderHeld>>
          /\ pool' = pool
          /\ capturePc' = "publish" => capturePc = "publish"
      BY <1>6 DEF vars, freeVars, readyVars, captureVars, senderVars, Quiet, CaptureNoSlot,
         CaptureDiscard, CountDrop, CallbackDrop, CaptureFails, SenderConnect, SenderIdle,
         SenderYield, SenderStop, SenderDrained, SenderSend, SenderReport,
         SwapDropped, SwapStale, SkipReport, Goto,
         Free!PopEmpty, Ready!PopEmpty, Free!queueVars, Ready!queueVars
    <2> QED
      BY <2>1 DEF SlotContents, Complete
  <1> QED
    BY <1>1, <1>2, <1>3, <1>4, <1>5, <1>6 DEF Next, CaptureNext, SenderNext, Quiet

LEMMA InitContents == Init => SlotContents /\ NoPanic
  <1> SUFFICES ASSUME Init PROVE SlotContents /\ NoPanic
    OBVIOUS
  <1>1. /\ Len(freeQueue) = FramePoolSlots
        /\ \A i \in 1 .. FramePoolSlots : freeQueue[i] = i - 1
        /\ readyQueue = <<>> /\ senderHeld = <<>> /\ capturePc = "claim"
        /\ senderPc = "connect"
        /\ \A s \in Slots : pool[s].info = None
    BY DEF Init, Ready!Init
  <1>2. Len(<<>>) = 0
    BY EmptySeq
  <1> QED
    BY <1>1, <1>2 DEF SlotContents, NoPanic, Slots

\* With a complete slot in hand and a free cell in view, nothing panics.
LEMMA NoPanicStep == Inv /\ SlotContents /\ NoPanic /\ [Next]_vars => NoPanic'
  <1> SUFFICES ASSUME Inv, SlotContents, NoPanic, [Next]_vars PROVE NoPanic'
    OBVIOUS
  <1>0. QueuesTyped /\ HeldByStep
    BY InvParts
  <1>1. CASE CapturePublish
    BY <1>1, PublishInv DEF NoPanic, CapturePublish, senderVars
  <1>2. CASE SenderRetire \/ SenderReturn
    <2>1. /\ \E next \in {"drain", "report", "failed"} : ReturnToFree(next)
          /\ Len(senderHeld) >= 1
          /\ UNCHANGED <<readyVars, captureHeld, capturePc>>
      BY <1>0, <1>2 DEF SenderRetire, SenderReturn, HeldByStep, captureVars
    <2> QED
      BY <2>1, ReturnTaken DEF NoPanic
  <1>3. CASE SenderSend
    <2>1. Len(senderHeld) = 1
      BY <1>0, <1>3 DEF SenderSend, HeldByStep
    <2>2. 1 \in 1 .. Len(senderHeld)
      BY <2>1
    <2>3. pool[senderHeld[1]].info # None
      BY <2>2 DEF SlotContents, Complete
    <2> QED
      BY <1>3, <2>3 DEF NoPanic, SenderSend, Goto, captureVars
  <1>4. CASE \/ CaptureClaim \/ SenderTake \/ SenderDrain \/ UNCHANGED vars
             \/ Quiet /\ ~SenderSend
    BY <1>4 DEF NoPanic, CaptureClaim, SenderTake, SenderDrain, vars, freeVars, readyVars,
       captureVars, senderVars, Quiet, CaptureNoSlot, CaptureDiscard, CallbackDrop,
       CaptureFill, CaptureFails, SenderConnect, SenderIdle, SenderYield, SenderStop,
       SenderDrained, SenderReport, SwapDropped, SwapStale, SkipReport, Goto
  <1> QED
    BY <1>1, <1>2, <1>3, <1>4 DEF Next, CaptureNext, SenderNext, Quiet

\* Everything the handoff's safety rests on, as one inductive invariant.
LEMMA HandoffSafe == Spec => [](Inv /\ Owners /\ SlotContents /\ NoPanic)
  <1>1. Init => Inv /\ Owners /\ SlotContents /\ NoPanic
    BY InitInv, InitOwners, InitContents
  <1>2. Inv /\ Owners /\ SlotContents /\ NoPanic /\ [Next]_vars
          => (Inv /\ Owners /\ SlotContents /\ NoPanic)'
    BY InvStep, OwnersStep, ContentsStep, NoPanicStep
  <1> QED
    BY <1>1, <1>2, PTL DEF Spec

\* A frame under way is whole and a free slot is cleared.
THEOREM SlotsComplete == Spec => []SlotContents
  BY HandoffSafe, PTL

\* No panic or expect of pipeline.rs fires, whatever the two ends load.
THEOREM NeverPanics == Spec => []NoPanic
  BY HandoffSafe, PTL

-----------------------------------------------------------------------------
(* Where each frame is.                                                      *)

\* What the equation of EveryFrameAccounted is over, with a type.
LEMMA AccountTyped ==
  Inv => /\ frames \in Nat /\ dropped \in Nat /\ stale \in Nat
         /\ reported \in Nat /\ frameId \in Nat
         /\ Len(readyQueue) \in Nat /\ Len(senderHeld) \in Nat
  BY InvParts, LenProperties DEF QueuesTyped, RestTyped

Accounted == frames = dropped + stale + reported + frameId + LetGo + InCycle

\* A step of the callback or the source moves one frame to one new place.
LEMMA CaptureAccounted ==
  Inv /\ Accounted /\ CaptureNext => Accounted'
  <1> SUFFICES ASSUME Inv, Accounted, CaptureNext PROVE Accounted'
    OBVIOUS
  <1>0. /\ frames \in Nat /\ dropped \in Nat /\ stale \in Nat
        /\ reported \in Nat /\ frameId \in Nat
        /\ Len(readyQueue) \in Nat /\ Len(senderHeld) \in Nat
    BY AccountTyped
  <1>1. UNCHANGED <<senderPc, senderHeld, frameId, stale, reported>> /\ LetGo' = LetGo
    BY DEF CaptureNext, CaptureClaim, CaptureNoSlot, CaptureDiscard, CallbackDrop,
       CaptureFill, CaptureFails, CapturePublish, senderVars, LetGo
  <1>2. CASE CaptureDiscard \/ CallbackDrop
    <2>1. /\ frames' = frames + 1 /\ dropped' = dropped + 1
          /\ UNCHANGED readyQueue
          /\ capturePc # "publish" /\ capturePc' # "publish"
      BY <1>2 DEF CaptureDiscard, CallbackDrop, CountDrop, readyVars
    <2>2. InCycle' = InCycle /\ InCycle \in Nat /\ LetGo \in Nat
      BY <1>0, <1>1, <2>1 DEF InCycle, LetGo
    <2> QED
      BY <1>0, <1>1, <2>1, <2>2 DEF Accounted
  <1>3. CASE CaptureFill
    <2>1. /\ frames' = frames + 1 /\ UNCHANGED <<dropped, readyQueue>>
          /\ capturePc = "fill" /\ capturePc' = "publish"
      BY <1>3 DEF CaptureFill, readyVars
    <2> QED
      BY <1>0, <1>1, <2>1 DEF Accounted, InCycle, LetGo
  <1>4. CASE CapturePublish
    <2>1. /\ UNCHANGED <<frames, dropped>>
          /\ capturePc = "publish" /\ capturePc' = "claim"
          /\ readyQueue' = Append(readyQueue, captureHeld[1])
      BY <1>4, PublishInv DEF CapturePublish, Ready!Push
    <2>2. captureHeld[1] \in Slots /\ readyQueue \in Seq(Slots)
      BY <2>1, InvParts, Single DEF HeldByStep, QueuesTyped
    <2>3. Len(readyQueue') = Len(readyQueue) + 1
      BY <2>1, <2>2, AppendFacts
    <2> QED
      BY <1>0, <1>1, <2>1, <2>3 DEF Accounted, InCycle, LetGo
  <1>5. CASE CaptureClaim \/ CaptureNoSlot \/ CaptureFails
    <2>1. /\ UNCHANGED <<frames, dropped, readyQueue>>
          /\ capturePc # "publish" /\ capturePc' # "publish"
      BY <1>5 DEF CaptureClaim, CaptureNoSlot, CaptureFails, readyVars,
         Ready!ProducerLearns
    <2> QED
      BY <1>0, <1>1, <2>1 DEF Accounted, InCycle, LetGo
  <1> QED
    BY <1>2, <1>3, <1>4, <1>5 DEF CaptureNext

\* So does a step of the sender; a report moves the counters into reported.
LEMMA SenderAccounted ==
  Inv /\ Accounted /\ SenderNext /\ NoPanic' => Accounted'
  <1> SUFFICES ASSUME Inv, Accounted, SenderNext, NoPanic' PROVE Accounted'
    OBVIOUS
  <1>0. /\ frames \in Nat /\ dropped \in Nat /\ stale \in Nat
        /\ reported \in Nat /\ frameId \in Nat
        /\ Len(readyQueue) \in Nat /\ Len(senderHeld) \in Nat
    BY AccountTyped
  <1>00. QueuesTyped /\ HeldByStep
    BY InvParts
  <1>1. CASE SenderTake \/ SenderDrain
    <2>1. /\ readyQueue # <<>> /\ readyQueue' = Tail(readyQueue)
          /\ senderHeld' = Append(senderHeld, Head(readyQueue))
          /\ UNCHANGED <<frames, dropped, capturePc, frameId, stale, reported>>
          /\ LetGo = 0 /\ LetGo' = 0
      BY <1>1 DEF SenderTake, SenderDrain, AcquireReady, Ready!Pop,
         Free!ProducerLearns, captureVars, LetGo, Goto
    <2>2. /\ Head(readyQueue) \in Slots
          /\ Len(readyQueue') = Len(readyQueue) - 1
          /\ Len(senderHeld') = Len(senderHeld) + 1
      BY <1>00, <2>1, TailFacts, AppendFacts DEF QueuesTyped
    <2> QED
      BY <1>0, <2>1, <2>2 DEF Accounted, InCycle
  <1>2. CASE SenderRetire
    <2>1. /\ ReturnToFree("drain") /\ Len(senderHeld) = 2
          /\ senderPc = "retire"
          /\ UNCHANGED <<readyVars, captureVars, frameId, reported>>
      BY <1>00, <1>2 DEF SenderRetire, HeldByStep
    <2>2. Len(senderHeld') = Len(senderHeld) - 1 /\ senderPc' = "drain"
      BY <2>1, ReturnTaken DEF captureVars
    <2>3. /\ UNCHANGED <<readyQueue, capturePc, frames, dropped, frameId, reported>>
          /\ stale' = stale + 1
          /\ LetGo = 0 /\ LetGo' = 0
      BY <1>2, <2>1, <2>2 DEF SenderRetire, LetGo, readyVars, captureVars
    <2>4. InCycle' = InCycle - 1 /\ InCycle \in Int
      BY <1>0, <2>2, <2>3 DEF InCycle
    <2> QED
      BY <1>0, <2>3, <2>4 DEF Accounted
  <1>3. CASE SenderReturn
    <2>1. /\ \/ senderPc = "return" /\ ReturnToFree("report")
             \/ senderPc = "fail" /\ ReturnToFree("failed")
          /\ Len(senderHeld) = 1
          /\ UNCHANGED <<readyVars, captureVars, frameId, stale, reported>>
      BY <1>00, <1>3 DEF SenderReturn, HeldByStep
    <2>2. /\ Len(senderHeld') = Len(senderHeld) - 1
          /\ senderPc' \in {"report", "failed"}
          /\ senderPc \in {"return", "fail"}
      BY <2>1, ReturnTaken DEF captureVars
    <2>3. /\ UNCHANGED <<readyQueue, capturePc, frames, dropped, frameId, stale, reported>>
          /\ LetGo = 0 /\ LetGo' = 1
      BY <2>1, <2>2 DEF LetGo, readyVars, captureVars
    <2>4. InCycle' = InCycle - 1 /\ InCycle \in Int
      BY <1>0, <2>2, <2>3 DEF InCycle
    <2> QED
      BY <1>0, <2>3, <2>4 DEF Accounted
  <1>4. CASE SenderReport
    <2>1. /\ UNCHANGED <<readyQueue, capturePc, frames, senderHeld>>
          /\ InCycle' = InCycle /\ LetGo = 1
      BY <1>4 DEF SenderReport, SwapDropped, SwapStale, SkipReport, readyVars,
      InCycle, LetGo
    <2>2. InCycle \in Nat
      BY <1>0 DEF InCycle
    <2>3. CASE SwapDropped
      <3>1. /\ reported' = reported + dropped /\ dropped' = 0
            /\ stale' = stale /\ frameId' = frameId /\ LetGo' = 1
        BY <2>3 DEF SwapDropped, Goto, LetGo
      <3> QED
        BY <1>0, <2>1, <2>2, <3>1 DEF Accounted
    <2>4. CASE SwapStale
      <3>1. /\ reported' = reported + stale /\ stale' = 0
            /\ dropped' = dropped /\ frameId' = frameId + 1 /\ LetGo' = 0
        BY <2>4 DEF SwapStale, Goto, LetGo
      <3> QED
        BY <1>0, <2>1, <2>2, <3>1 DEF Accounted
    <2>5. CASE SkipReport
      <3>1. /\ UNCHANGED <<reported, stale, dropped>>
            /\ frameId' = frameId + 1 /\ LetGo' = 0
        BY <2>5 DEF SkipReport, Goto, LetGo
      <3> QED
        BY <1>0, <2>1, <2>2, <3>1 DEF Accounted
    <2> QED
      BY <1>4, <2>3, <2>4, <2>5 DEF SenderReport
  <1>5. CASE \/ SenderConnect \/ SenderIdle \/ SenderYield \/ SenderStop
             \/ SenderDrained \/ SenderSend
    <2>1. /\ UNCHANGED <<readyQueue, capturePc, frames, dropped, senderHeld,
                         frameId, stale, reported>>
          /\ senderPc \notin {"report", "snapshot", "failed"}
          /\ senderPc' \notin {"report", "snapshot", "failed"}
      BY <1>5 DEF SenderConnect, SenderIdle, SenderYield, SenderStop, SenderDrained,
         SenderSend, Goto, readyVars, captureVars, Ready!PopEmpty, Ready!queueVars
    <2> QED
      BY <2>1 DEF Accounted, InCycle, LetGo
  <1> QED
    BY <1>1, <1>2, <1>3, <1>4, <1>5 DEF SenderNext

\* No frame leaves the books: offered frames are in the cycle, sent or counted.
THEOREM FramesAccounted == Spec => []EveryFrameAccounted
  <1>1. Init => Accounted
    BY EmptySeq DEF Init, Ready!Init, Accounted, InCycle, LetGo
  <1>2. Inv /\ NoPanic' /\ Accounted /\ [Next]_vars => Accounted'
    <2> SUFFICES ASSUME Inv, NoPanic', Accounted, [Next]_vars PROVE Accounted'
      OBVIOUS
    <2>1. CASE UNCHANGED vars
      BY <2>1 DEF vars, readyVars, captureVars, senderVars, Accounted, InCycle, LetGo
    <2> QED
      BY <2>1, CaptureAccounted, SenderAccounted DEF Next
  <1>3. Accounted => EveryFrameAccounted
    BY DEF Accounted, EveryFrameAccounted
  <1> QED
    BY <1>1, <1>2, <1>3, HandoffSafe, PTL DEF Spec

-----------------------------------------------------------------------------
(* The order of the frames under way: along senderHeld, then readyQueue, then *)
(* the slot about to be published the frames get newer, and all of them are  *)
(* newer than what has gone out.                                             *)

ReadyInOrder ==
  \A i, j \in 1 .. Len(readyQueue) :
    i < j => pool[readyQueue[i]].info < pool[readyQueue[j]].info

SenderInOrder ==
  \A i, j \in 1 .. Len(senderHeld) :
    i < j => pool[senderHeld[i]].info < pool[senderHeld[j]].info

SenderIsOlder ==
  \A i \in 1 .. Len(senderHeld), j \in 1 .. Len(readyQueue) :
    pool[senderHeld[i]].info < pool[readyQueue[j]].info

\* The newest frame is the one to be published, if there is one.
NewestIsLast ==
  LET newest == IF capturePc = "publish" THEN frames ELSE frames + 1 IN
    /\ \A i \in 1 .. Len(readyQueue) : pool[readyQueue[i]].info < newest
    /\ \A i \in 1 .. Len(senderHeld) : pool[senderHeld[i]].info < newest
    /\ lastSent < newest
    /\ capturePc = "publish" => pool[captureHeld[1]].info = frames

\* Only the frame that has just been handed to the socket may be lastSent.
SentIsOldest ==
  /\ \A i \in 1 .. Len(readyQueue) : lastSent < pool[readyQueue[i]].info
  /\ \A i \in 1 .. Len(senderHeld) :
       /\ lastSent <= pool[senderHeld[i]].info
       /\ senderPc \notin {"return", "fail"} =>
            lastSent < pool[senderHeld[i]].info

UnderWay == /\ ReadyInOrder /\ SenderInOrder /\ SenderIsOlder
            /\ NewestIsLast /\ SentIsOldest

\* What the queues hold are slots, and what they say are numbers.
LEMMA PlacesTyped ==
  Inv => /\ \A i \in 1 .. Len(readyQueue) :
              readyQueue[i] \in Slots /\ pool[readyQueue[i]].info \in Nat
         /\ \A i \in 1 .. Len(senderHeld) :
              senderHeld[i] \in Slots /\ pool[senderHeld[i]].info \in Nat
         /\ Len(readyQueue) \in Nat /\ Len(senderHeld) \in Nat
         /\ frames \in Nat /\ lastSent \in Nat
  <1> SUFFICES ASSUME Inv
               PROVE  /\ \A i \in 1 .. Len(readyQueue) :
                           readyQueue[i] \in Slots /\ pool[readyQueue[i]].info \in Nat
                      /\ \A i \in 1 .. Len(senderHeld) :
                           senderHeld[i] \in Slots /\ pool[senderHeld[i]].info \in Nat
                      /\ Len(readyQueue) \in Nat /\ Len(senderHeld) \in Nat
                      /\ frames \in Nat /\ lastSent \in Nat
    OBVIOUS
  <1>1. QueuesTyped /\ RestTyped
    BY InvParts
  <1>2. /\ \A i \in 1 .. Len(readyQueue) : readyQueue[i] \in Slots
        /\ \A i \in 1 .. Len(senderHeld) : senderHeld[i] \in Slots
    BY <1>1, ElementOfSeq DEF QueuesTyped
  <1>3. \A s \in Slots : pool[s].info \in Nat
    BY <1>1 DEF RestTyped
  <1> QED
    BY <1>1, <1>2, <1>3, LenProperties DEF QueuesTyped, RestTyped

LEMMA CaptureOrder ==
  Inv /\ Owners /\ UnderWay /\ CaptureNext => UnderWay'
  <1> SUFFICES ASSUME Inv, Owners, UnderWay, CaptureNext PROVE UnderWay'
    OBVIOUS
  <1>0. QueuesTyped /\ RestTyped /\ HeldByStep
    BY InvParts
  <1>00. /\ \A i \in 1 .. Len(readyQueue) :
              readyQueue[i] \in Slots /\ pool[readyQueue[i]].info \in Nat
         /\ \A i \in 1 .. Len(senderHeld) :
              senderHeld[i] \in Slots /\ pool[senderHeld[i]].info \in Nat
         /\ Len(readyQueue) \in Nat /\ Len(senderHeld) \in Nat
         /\ frames \in Nat /\ lastSent \in Nat
    BY PlacesTyped
  <1>000. UNCHANGED <<senderHeld, senderPc, lastSent>>
    BY DEF CaptureNext, CaptureClaim, CaptureNoSlot, CaptureDiscard, CallbackDrop,
       CaptureFill, CaptureFails, CapturePublish, senderVars
  <1>1. CASE CaptureClaim \/ CaptureNoSlot \/ CaptureDiscard \/ CallbackDrop \/ CaptureFails
    <2>1. /\ UNCHANGED readyQueue
          /\ capturePc # "publish" /\ capturePc' # "publish"
          /\ frames' = frames \/ frames' = frames + 1
      BY <1>1 DEF CaptureClaim, CaptureNoSlot, CaptureDiscard, CallbackDrop, CaptureFails,
         CountDrop, readyVars, Ready!ProducerLearns
    <2>2. \A s \in Slots : pool'[s].info = pool[s].info
      <3>1. CASE CaptureClaim
        <4>1. Head(freeQueue) \in Slots
          BY <1>0, <3>1, TailFacts DEF CaptureClaim, Free!Pop, QueuesTyped
        <4> QED
          BY <1>0, <3>1, <4>1 DEF CaptureClaim, RestTyped
      <3>2. CASE ~CaptureClaim
        BY <1>1, <3>2 DEF CaptureNoSlot, CaptureDiscard, CallbackDrop, CaptureFails
      <3> QED
        BY <3>1, <3>2
    <2>3. /\ ReadyInOrder' /\ SenderInOrder' /\ SenderIsOlder' /\ SentIsOldest'
      <3>1. ReadyInOrder'
        BY <1>00, <2>1, <2>2 DEF UnderWay, ReadyInOrder
      <3>2. SenderInOrder'
        BY <1>00, <1>000, <2>2 DEF UnderWay, SenderInOrder
      <3>3. SenderIsOlder'
        BY <1>00, <1>000, <2>1, <2>2 DEF UnderWay, SenderIsOlder
      <3>4. SentIsOldest'
        BY <1>00, <1>000, <2>1, <2>2 DEF UnderWay, SentIsOldest
      <3> QED
        BY <3>1, <3>2, <3>3, <3>4
    <2>4. NewestIsLast'
      <3>1. /\ \A i \in 1 .. Len(readyQueue) : pool[readyQueue[i]].info < frames + 1
            /\ \A i \in 1 .. Len(senderHeld) : pool[senderHeld[i]].info < frames + 1
            /\ lastSent < frames + 1
        BY <2>1 DEF UnderWay, NewestIsLast
      <3>2. /\ \A i \in 1 .. Len(readyQueue) : pool[readyQueue[i]].info < frames' + 1
            /\ \A i \in 1 .. Len(senderHeld) : pool[senderHeld[i]].info < frames' + 1
            /\ lastSent < frames' + 1
        BY <1>00, <2>1, <3>1
      <3> QED
        BY <1>00, <1>000, <2>1, <2>2, <3>2 DEF NewestIsLast
    <2> QED
      BY <2>3, <2>4 DEF UnderWay
  <1>2. CASE CaptureFill
    <2>1. /\ pool' = [pool EXCEPT ![captureHeld[1]] =
                        [pixels |-> frames + 1, info |-> frames + 1]]
          /\ frames' = frames + 1
          /\ capturePc = "fill" /\ capturePc' = "publish"
          /\ UNCHANGED <<readyQueue, captureHeld>>
      BY <1>2 DEF CaptureFill, readyVars
    <2>2. captureHeld # <<>> /\ Head(captureHeld) = captureHeld[1] /\ captureHeld[1] \in Slots
      BY <1>0, <2>1, Single DEF HeldByStep, QueuesTyped
    <2>3. /\ \A i \in 1 .. Len(readyQueue) : readyQueue[i] # captureHeld[1]
          /\ \A i \in 1 .. Len(senderHeld) : senderHeld[i] # captureHeld[1]
      BY <1>0, <2>2, OwnedElsewhere, DisjointSymmetric DEF Owners, OneOwner, QueuesTyped
    <2>4. /\ \A s \in Slots : s # captureHeld[1] => pool'[s] = pool[s]
          /\ pool'[captureHeld[1]].info = frames + 1
      BY <1>0, <2>1, <2>2 DEF RestTyped
    <2>5. /\ \A i \in 1 .. Len(readyQueue) :
               pool'[readyQueue[i]].info = pool[readyQueue[i]].info
          /\ \A i \in 1 .. Len(senderHeld) :
               pool'[senderHeld[i]].info = pool[senderHeld[i]].info
      BY <1>00, <2>3, <2>4
    <2>6. /\ ReadyInOrder' /\ SenderInOrder' /\ SenderIsOlder' /\ SentIsOldest'
      BY <1>000, <2>1, <2>5
         DEF UnderWay, ReadyInOrder, SenderInOrder, SenderIsOlder, SentIsOldest
    <2>7. NewestIsLast'
      BY <1>00, <1>000, <2>1, <2>4, <2>5 DEF UnderWay, NewestIsLast
    <2> QED
      BY <2>6, <2>7 DEF UnderWay
  <1>3. CASE CapturePublish
    <2> DEFINE s == captureHeld[1]
               n == Len(readyQueue) + 1
    <2>1. /\ capturePc = "publish" /\ capturePc' = "claim"
          /\ readyQueue' = Append(readyQueue, s)
          /\ UNCHANGED <<pool, frames>>
      BY <1>3, PublishInv DEF CapturePublish, Ready!Push
    <2>2. s \in Slots
      BY <1>0, <2>1, Single DEF HeldByStep, QueuesTyped
    <2>3. /\ Len(readyQueue') = n
          /\ \A i \in 1 .. Len(readyQueue) : readyQueue'[i] = readyQueue[i]
          /\ readyQueue'[n] = s
      BY <1>0, <2>1, <2>2, AppendProperties, LenProperties DEF QueuesTyped
    <2>4. pool[s].info = frames
      BY <2>1 DEF UnderWay, NewestIsLast
    <2>5. \A i \in 1 .. Len(readyQueue') : i \in 1 .. Len(readyQueue) \/ i = n
      BY <1>00, <2>3
    <2>6. \A i \in 1 .. Len(readyQueue) : i < n /\ ~(n < i)
      BY <1>00
    <2> HIDE DEF s, n
    <2>7. /\ \A i \in 1 .. Len(readyQueue) : pool[readyQueue[i]].info < frames
          /\ \A i \in 1 .. Len(senderHeld) : pool[senderHeld[i]].info < frames
          /\ lastSent < frames
      BY <2>1 DEF UnderWay, NewestIsLast
    <2>8. ReadyInOrder'
      <3>1. ~(n < n)
        BY <1>00 DEF n
      <3> QED
        BY <2>1, <2>3, <2>4, <2>5, <2>6, <2>7, <3>1 DEF UnderWay, ReadyInOrder
    <2>9. SenderInOrder' /\ SenderIsOlder' /\ SentIsOldest'
      BY <1>000, <2>1, <2>3, <2>4, <2>5, <2>7
         DEF UnderWay, SenderInOrder, SenderIsOlder, SentIsOldest
    <2>10. NewestIsLast'
      <3>1. /\ \A i \in 1 .. Len(readyQueue') : pool'[readyQueue'[i]].info < frames + 1
            /\ \A i \in 1 .. Len(senderHeld) : pool'[senderHeld[i]].info < frames + 1
            /\ lastSent < frames + 1
        BY <1>00, <2>1, <2>3, <2>4, <2>5, <2>7
      <3> QED
        BY <1>000, <2>1, <3>1 DEF NewestIsLast
    <2> QED
      BY <2>8, <2>9, <2>10 DEF UnderWay
  <1> QED
    BY <1>1, <1>2, <1>3 DEF CaptureNext

LEMMA SenderOrder ==
  Inv /\ Owners /\ SlotContents /\ UnderWay /\ SenderNext => UnderWay'
  <1> SUFFICES ASSUME Inv, Owners, SlotContents, UnderWay, SenderNext PROVE UnderWay'
    OBVIOUS
  <1>0. QueuesTyped /\ RestTyped /\ HeldByStep
    BY InvParts
  <1>00. /\ \A i \in 1 .. Len(readyQueue) :
              readyQueue[i] \in Slots /\ pool[readyQueue[i]].info \in Nat
         /\ \A i \in 1 .. Len(senderHeld) :
              senderHeld[i] \in Slots /\ pool[senderHeld[i]].info \in Nat
         /\ Len(readyQueue) \in Nat /\ Len(senderHeld) \in Nat
         /\ frames \in Nat /\ lastSent \in Nat
    BY PlacesTyped
  <1>000. UNCHANGED <<frames, capturePc, captureHeld>>
    BY DEF SenderNext, SenderConnect, SenderTake, SenderIdle, SenderYield, SenderStop,
       SenderDrain, SenderDrained, SenderRetire, SenderSend, SenderReturn, SenderReport,
       SwapDropped, SwapStale, SkipReport, captureVars
  <1>1. CASE SenderTake \/ SenderDrain
    <2> DEFINE m == Len(senderHeld) + 1
    <2>1. /\ readyQueue # <<>> /\ readyQueue' = Tail(readyQueue)
          /\ senderHeld' = Append(senderHeld, Head(readyQueue))
          /\ senderPc \notin {"return", "fail"}
          /\ UNCHANGED <<pool, lastSent>>
      BY <1>1 DEF SenderTake, SenderDrain, AcquireReady, Ready!Pop, Free!ProducerLearns
    <2>2. /\ Head(readyQueue) = readyQueue[1] /\ Head(readyQueue) \in Slots
          /\ Len(readyQueue) \in Nat \ {0} /\ Len(readyQueue') = Len(readyQueue) - 1
          /\ \A i \in 1 .. Len(readyQueue') : readyQueue'[i] = readyQueue[i + 1]
      BY <1>0, <2>1, HeadTailProperties, EmptySeq DEF QueuesTyped
    <2>3. /\ Len(senderHeld') = m
          /\ \A i \in 1 .. Len(senderHeld) : senderHeld'[i] = senderHeld[i]
          /\ senderHeld'[m] = readyQueue[1]
      BY <1>0, <2>1, <2>2, AppendProperties, LenProperties DEF QueuesTyped
    <2>4. /\ \A i \in 1 .. Len(readyQueue') : i + 1 \in 1 .. Len(readyQueue) /\ 1 < i + 1
          /\ \A i, j \in 1 .. Len(readyQueue') : i < j => i + 1 < j + 1
          /\ \A i \in 1 .. Len(senderHeld') : i \in 1 .. Len(senderHeld) \/ i = m
          /\ \A i \in 1 .. Len(senderHeld) : ~(m < i)
          /\ 1 \in 1 .. Len(readyQueue) /\ ~(m < m)
      BY <1>00, <2>2, <2>3
    <2> HIDE DEF m
    <2>5. ReadyInOrder'
      BY <2>1, <2>2, <2>4 DEF UnderWay, ReadyInOrder
    <2>6. SenderInOrder'
      BY <2>1, <2>3, <2>4 DEF UnderWay, SenderInOrder, SenderIsOlder
    <2>7. SenderIsOlder'
      BY <2>1, <2>2, <2>3, <2>4 DEF UnderWay, SenderIsOlder, ReadyInOrder
    <2>8. NewestIsLast'
      BY <1>000, <2>1, <2>2, <2>3, <2>4 DEF UnderWay, NewestIsLast
    <2>9. SentIsOldest'
      <3>1. /\ \A i \in 1 .. Len(readyQueue') : lastSent < pool[readyQueue'[i]].info
            /\ \A i \in 1 .. Len(senderHeld') : lastSent < pool[senderHeld'[i]].info
        BY <2>1, <2>2, <2>3, <2>4 DEF UnderWay, SentIsOldest
      <3>2. \A i \in 1 .. Len(senderHeld') : pool[senderHeld'[i]].info \in Nat
        BY <1>00, <2>3, <2>4
      <3>3. \A i \in 1 .. Len(senderHeld') : lastSent <= pool[senderHeld'[i]].info
        BY <1>00, <3>1, <3>2
      <3> QED
        BY <2>1, <3>1, <3>3 DEF SentIsOldest
    <2> QED
      BY <2>5, <2>6, <2>7, <2>8, <2>9 DEF UnderWay
  <1>2. CASE SenderRetire \/ SenderReturn
    <2> DEFINE s == Head(senderHeld)
    <2>1. /\ \E next : ReturnToFree(next)
          /\ Len(senderHeld) >= 1
          /\ pool' = [pool EXCEPT ![s].info = None]
          /\ UNCHANGED <<readyVars, captureHeld, lastSent>>
      BY <1>0, <1>2 DEF SenderRetire, SenderReturn, HeldByStep, captureVars, ReturnToFree
    <2>2. /\ senderHeld # <<>> /\ senderHeld' = Tail(senderHeld) /\ s \in Slots
          /\ UNCHANGED readyQueue
      BY <2>1, ReturnTaken, EmptySeq DEF readyVars
    <2>3. /\ s = senderHeld[1]
          /\ Len(senderHeld') = Len(senderHeld) - 1
          /\ \A i \in 1 .. Len(senderHeld') : senderHeld'[i] = senderHeld[i + 1]
      BY <1>0, <2>2, HeadTailProperties, LenProperties DEF QueuesTyped
    <2>4. /\ \A i \in 1 .. Len(readyQueue) : readyQueue[i] # s
          /\ \A i \in 1 .. Len(captureHeld) : captureHeld[i] # s
      BY <1>0, <2>2, OwnedElsewhere, DisjointSymmetric DEF Owners, OneOwner, QueuesTyped
    <2>5. \A o \in Slots : o # s => pool'[o] = pool[o]
      BY <1>0, <2>1, <2>2 DEF RestTyped
    <2>6. /\ \A i \in 1 .. Len(senderHeld') : i + 1 \in 1 .. Len(senderHeld) /\ 1 < i + 1
          /\ \A i, j \in 1 .. Len(senderHeld') : i < j => i + 1 < j + 1
          /\ 1 \in 1 .. Len(senderHeld)
      <3>1. /\ Len(senderHeld) \in Nat /\ Len(senderHeld) >= 1
            /\ Len(senderHeld') = Len(senderHeld) - 1
        BY <1>00, <2>1, <2>3
      <3> QED
        BY <3>1
    <2>7. \A i \in 1 .. Len(senderHeld') : senderHeld[i + 1] # s
      <3>1. \A i \in 1 .. Len(senderHeld') : 1 # i + 1
        BY <1>00, <2>3
      <3> QED
        BY <2>3, <2>6, <3>1 DEF Owners, OneOwner, Distinct
    <2> HIDE DEF s
    <2>8. \A i \in 1 .. Len(readyQueue) : pool'[readyQueue[i]].info = pool[readyQueue[i]].info
      BY <1>00, <2>4, <2>5
    <2>9. \A i \in 1 .. Len(senderHeld') :
            pool'[senderHeld'[i]].info = pool[senderHeld[i + 1]].info
      BY <1>00, <2>3, <2>5, <2>6, <2>7
    <2>10. ReadyInOrder'
      BY <2>2, <2>8 DEF UnderWay, ReadyInOrder
    <2>11. SenderInOrder'
      BY <2>6, <2>9 DEF UnderWay, SenderInOrder
    <2>12. SenderIsOlder'
      BY <2>2, <2>6, <2>8, <2>9 DEF UnderWay, SenderIsOlder
    <2>13. NewestIsLast'
      <3>1. capturePc = "publish" => pool'[captureHeld[1]] = pool[captureHeld[1]]
        <4>1. ASSUME capturePc = "publish" PROVE pool'[captureHeld[1]] = pool[captureHeld[1]]
          <5>1. captureHeld[1] \in Slots /\ 1 \in 1 .. Len(captureHeld)
            BY <1>0, <4>1, Single DEF HeldByStep, QueuesTyped
          <5> QED
            BY <2>4, <2>5, <5>1
        <4> QED
          BY <4>1
      <3> DEFINE newest == IF capturePc = "publish" THEN frames ELSE frames + 1
      <3>2. newest' = newest /\ lastSent' = lastSent /\ captureHeld' = captureHeld
            /\ capturePc' = capturePc /\ frames' = frames
        BY <1>000, <2>1
      <3>3. /\ \A i \in 1 .. Len(readyQueue) : pool[readyQueue[i]].info < newest
            /\ \A i \in 1 .. Len(senderHeld) : pool[senderHeld[i]].info < newest
            /\ lastSent < newest
            /\ capturePc = "publish" => pool[captureHeld[1]].info = frames
        BY DEF UnderWay, NewestIsLast
      <3> HIDE DEF newest
      <3>4. \A i \in 1 .. Len(readyQueue') : pool'[readyQueue'[i]].info < newest
        BY <2>2, <2>8, <3>3
      <3>5. \A i \in 1 .. Len(senderHeld') : pool'[senderHeld'[i]].info < newest
        BY <2>6, <2>9, <3>3
      <3>6. capturePc' = "publish" => pool'[captureHeld'[1]].info = frames'
        BY <3>1, <3>2, <3>3
      <3> QED
        BY <3>2, <3>3, <3>4, <3>5, <3>6 DEF NewestIsLast, newest
    <2>14. SentIsOldest'
      <3>1. \A i \in 1 .. Len(senderHeld') : lastSent < pool[senderHeld[i + 1]].info
        <4>1. lastSent <= pool[senderHeld[1]].info /\ pool[senderHeld[1]].info \in Nat
          BY <1>00, <2>6 DEF UnderWay, SentIsOldest
        <4>2. \A i \in 1 .. Len(senderHeld') :
                /\ pool[senderHeld[1]].info < pool[senderHeld[i + 1]].info
                /\ pool[senderHeld[i + 1]].info \in Nat
          BY <1>00, <2>6 DEF UnderWay, SenderInOrder
        <4> QED
          BY <1>00, <4>1, <4>2
      <3>2. \A i \in 1 .. Len(senderHeld') : pool[senderHeld[i + 1]].info \in Nat
        BY <1>00, <2>6
      <3>3. \A i \in 1 .. Len(senderHeld') : lastSent <= pool[senderHeld[i + 1]].info
        BY <1>00, <3>1, <3>2
      <3> QED
        BY <2>1, <2>2, <2>8, <2>9, <3>1, <3>3 DEF UnderWay, SentIsOldest
    <2> QED
      BY <2>10, <2>11, <2>12, <2>13, <2>14 DEF UnderWay
  <1>3. CASE SenderSend
    <2>1. Len(senderHeld) = 1 /\ 1 \in 1 .. Len(senderHeld)
      BY <1>0, <1>3 DEF SenderSend, HeldByStep
    <2>2. pool[senderHeld[1]].pixels = pool[senderHeld[1]].info
          /\ pool[senderHeld[1]].info # None
      BY <2>1 DEF SlotContents, Complete
    <2>3. /\ UNCHANGED <<readyQueue, senderHeld, pool>>
          /\ senderPc = "send" /\ senderPc' \in {"return", "fail"}
          /\ lastSent' = pool[senderHeld[1]].info \/ lastSent' = lastSent
      BY <1>3, <2>2 DEF SenderSend, Goto, readyVars
    <2>4. \A i \in 1 .. Len(senderHeld) : i = 1
      BY <2>1
    <2>5. ReadyInOrder' /\ SenderInOrder' /\ SenderIsOlder'
      BY <2>3 DEF UnderWay, ReadyInOrder, SenderInOrder, SenderIsOlder
    <2>6. NewestIsLast'
      BY <1>000, <2>1, <2>3 DEF UnderWay, NewestIsLast
    <2>7. SentIsOldest'
      <3>1. CASE lastSent' = pool[senderHeld[1]].info
        <4>1. \A i \in 1 .. Len(readyQueue) : lastSent' < pool'[readyQueue'[i]].info
          BY <2>1, <2>3, <3>1 DEF UnderWay, SenderIsOlder
        <4>2. lastSent' <= pool[senderHeld[1]].info
          BY <1>00, <2>1, <3>1
        <4>3. \A i \in 1 .. Len(senderHeld) : lastSent' <= pool'[senderHeld'[i]].info
          BY <2>3, <2>4, <4>2
        <4> QED
          BY <2>3, <4>1, <4>3 DEF SentIsOldest
      <3>2. CASE lastSent' = lastSent
        BY <2>3, <3>2 DEF UnderWay, SentIsOldest
      <3> QED
        BY <2>3, <3>1, <3>2
    <2> QED
      BY <2>5, <2>6, <2>7 DEF UnderWay
  <1>4. CASE \/ SenderConnect \/ SenderIdle \/ SenderYield \/ SenderStop
             \/ SenderDrained \/ SenderReport
    <2>1. /\ UNCHANGED <<readyQueue, senderHeld, pool, lastSent>>
          /\ senderPc \notin {"return", "fail"}
      BY <1>4 DEF SenderConnect, SenderIdle, SenderYield, SenderStop, SenderDrained,
         SenderReport, SwapDropped, SwapStale, SkipReport, readyVars,
         Ready!PopEmpty, Ready!queueVars
    <2> QED
      BY <1>000, <2>1 DEF UnderWay, ReadyInOrder, SenderInOrder, SenderIsOlder,
         NewestIsLast, SentIsOldest
  <1> QED
    BY <1>1, <1>2, <1>3, <1>4 DEF SenderNext

\* What goes out to the network never goes back in time.
THEOREM FramesInOrder == Spec => SentInOrder
  <1>1. Init => UnderWay
    <2> SUFFICES ASSUME Init PROVE UnderWay
      OBVIOUS
    <2>1. /\ Len(readyQueue) = 0 /\ Len(senderHeld) = 0
          /\ frames = 0 /\ lastSent = 0 /\ capturePc = "claim"
      BY EmptySeq DEF Init, Ready!Init
    <2> QED
      BY <2>1 DEF UnderWay, ReadyInOrder, SenderInOrder, SenderIsOlder, NewestIsLast,
         SentIsOldest
  <1>2. Inv /\ Owners /\ SlotContents /\ UnderWay /\ [Next]_vars => UnderWay'
    <2> SUFFICES ASSUME Inv, Owners, SlotContents, UnderWay, [Next]_vars PROVE UnderWay'
      OBVIOUS
    <2>1. CASE UNCHANGED vars
      BY <2>1 DEF vars, readyVars, captureVars, senderVars, UnderWay, ReadyInOrder,
         SenderInOrder, SenderIsOlder, NewestIsLast, SentIsOldest
    <2> QED
      BY <2>1, CaptureOrder, SenderOrder DEF Next
  <1>3. Inv /\ SlotContents /\ UnderWay /\ [Next]_vars
          => [lastSent' # lastSent => lastSent' > lastSent]_vars
    <2> SUFFICES ASSUME Inv, SlotContents, UnderWay, [Next]_vars, lastSent' # lastSent
                 PROVE  lastSent' > lastSent
      OBVIOUS
    <2>1. SenderSend
      BY DEF Next, CaptureNext, SenderNext, vars, senderVars, CaptureClaim, CaptureNoSlot,
         CaptureDiscard, CallbackDrop, CaptureFill, CaptureFails, CapturePublish,
         SenderConnect, SenderTake, SenderIdle, SenderYield, SenderStop, SenderDrain,
         SenderDrained, SenderRetire, SenderReturn, SenderReport, SwapDropped,
         SwapStale, SkipReport
    <2>2. 1 \in 1 .. Len(senderHeld)
      <3>1. HeldByStep /\ senderPc = "send"
        BY <2>1, InvParts DEF SenderSend
      <3>2. Len(senderHeld) = 1
        BY <3>1 DEF HeldByStep
      <3> QED
        BY <3>2
    <2>3. /\ lastSent' = pool[senderHeld[1]].pixels
          /\ pool[senderHeld[1]].pixels = pool[senderHeld[1]].info
          /\ lastSent < pool[senderHeld[1]].info
      BY <2>1, <2>2 DEF SenderSend, SlotContents, Complete, UnderWay, SentIsOldest
    <2>4. lastSent \in Nat /\ pool[senderHeld[1]].info \in Nat
      BY <2>2, PlacesTyped
    <2> QED
      BY <2>3, <2>4
  <1> QED
    BY <1>1, <1>2, <1>3, HandoffSafe, PTL DEF Spec, SentInOrder

-----------------------------------------------------------------------------
(* FrameSources                                                            *)

USE SourcesAssumption

\* A file that could be opened holds a whole frame, and its whole frames.
LEMMA FileFrames ==
  /\ TotalFrames \in Nat /\ TotalFrames > 0
  /\ TotalFrames * FrameSize <= FileLength
  <1> DEFINE q == FileLength \div FrameSize
             r == FileLength % FrameSize
  <1>1. q \in Nat /\ r \in Nat /\ r < FrameSize /\ FileLength = q * FrameSize + r
    BY Division
  <1> HIDE DEF q, r
  <1>2. q # 0
    BY <1>1
  <1>3. q * FrameSize \in Nat
    BY <1>1
  <1> QED
    BY <1>1, <1>2, <1>3 DEF TotalFrames, q

\* A frame that does not end inside the file is not one of its whole frames.
LEMMA EndsInside ==
  ASSUME NEW t \in Nat, NEW i \in Nat, i < t, NEW l \in Nat,
         i * FrameSize + FrameSize > l
  PROVE  l < t * FrameSize
  <1>1. PICK k \in Nat : t = i + 1 + k
    <2>1. t - i - 1 \in Nat /\ t = i + 1 + (t - i - 1)
      OBVIOUS
    <2> QED
      BY <2>1
  <1>2. (i + 1 + k) * FrameSize = i * FrameSize + FrameSize + k * FrameSize
    OBVIOUS
  <1>3. k * FrameSize \in Nat /\ i * FrameSize \in Nat
    OBVIOUS
  <1> QED
    BY <1>1, <1>2, <1>3

-----------------------------------------------------------------------------
(* Both sources are capture threads of the handoff.                          *)

LEMMA SourcesStep == [SourcesNext]_<<vars, sourceVars>> => [Next]_vars
  BY DEF SourcesNext, ReadFrame, ReadFails, SkipFrame, Truncate, DequeueFrame,
     DequeueFails, Handoff, Next, CaptureNext

\* A file or a camera never makes the handoff do what a capture thread cannot.
THEOREM SourceIsCaptureThread == SourcesSpec => Spec
  <1>1. SourcesInit => Init
    BY DEF SourcesInit
  <1> QED
    BY <1>1, SourcesStep, PTL DEF SourcesSpec, Spec

LEMMA SourcesSafe == SourcesSpec => []Inv
  BY SourceIsCaptureThread, HandoffSafe, PTL

-----------------------------------------------------------------------------
\* Where the next read or skip of the file will be.
ReaderInStep ==
  /\ BeginNextFrame.index = frames % TotalFrames
  /\ BeginNextFrame.position = BeginNextFrame.index * FrameSize

FileInv ==
  /\ origin \in [Slots -> Nat] /\ length \in Nat
  /\ device = "file" => ReaderInStep
  /\ FramesOfTheFile
  /\ WholeFileNeverFails

\* Reading or skipping a frame moves the reader to the one after it.
LEMMA FinishKeepsStep ==
  ASSUME ReaderInStep, FinishFrame(BeginNextFrame), frames \in Nat, frames' = frames + 1
  PROVE  ReaderInStep'
  <1> DEFINE i == BeginNextFrame.index
  <1>0. TotalFrames \in Nat /\ TotalFrames > 0
    BY FileFrames
  <1>1. i = frames % TotalFrames /\ i \in Nat /\ i < TotalFrames
    BY <1>0, Division DEF ReaderInStep
  <1>2. index' = i + 1 /\ position' = i * FrameSize + FrameSize
    BY DEF FinishFrame, ReaderInStep
  <1> HIDE DEF i
  <1>3. frames' % TotalFrames = IF i + 1 = TotalFrames THEN 0 ELSE i + 1
    <2>1. (frames + 1) % TotalFrames
            = IF (frames % TotalFrames) + 1 = TotalFrames THEN 0
                                                        ELSE (frames % TotalFrames) + 1
      BY <1>0, NextRemainder
    <2> QED
      BY <1>1, <2>1
  <1>4. BeginNextFrame' = IF index' >= TotalFrames THEN [position |-> 0, index |-> 0]
                          ELSE [position |-> position', index |-> index']
    BY DEF BeginNextFrame, TotalFrames
  <1>5. CASE i + 1 = TotalFrames
    <2>1. BeginNextFrame' = [position |-> 0, index |-> 0]
      BY <1>0, <1>1, <1>2, <1>4, <1>5
    <2>2. 0 * FrameSize = 0
      OBVIOUS
    <2>3. BeginNextFrame'.index = 0 /\ BeginNextFrame'.position = 0
      BY <2>1
    <2> QED
      BY <1>3, <1>5, <2>2, <2>3 DEF ReaderInStep, TotalFrames
  <1>6. CASE i + 1 # TotalFrames
    <2>1. ~(index' >= TotalFrames)
      BY <1>0, <1>1, <1>2, <1>6
    <2>2. BeginNextFrame'.index = i + 1 /\ BeginNextFrame'.position = i * FrameSize + FrameSize
      BY <1>2, <1>4, <2>1
    <2>3. (i + 1) * FrameSize = i * FrameSize + FrameSize
      BY <1>1
    <2> QED
      BY <1>3, <1>6, <2>2, <2>3 DEF ReaderInStep, TotalFrames
  <1> QED
    BY <1>5, <1>6

LEMMA InitFile == SourcesInit => FileInv
  <1> SUFFICES ASSUME SourcesInit PROVE FileInv
    OBVIOUS
  <1>1. /\ frames = 0 /\ captureRunning = TRUE
        /\ \A s \in Slots : pool[s].info = None
        /\ index = 0 /\ position = 0
        /\ origin = [s \in Slots |-> 0] /\ length \in Nat
    BY DEF SourcesInit, Init
  <1>2. TotalFrames \in Nat /\ TotalFrames > 0
    BY FileFrames
  <1>3. BeginNextFrame.index = 0 /\ BeginNextFrame.position = 0
    BY <1>1 DEF BeginNextFrame
  <1>4. 0 % TotalFrames = 0 /\ 0 * FrameSize = 0
    <2>1. DEFINE r == 0 % TotalFrames
    <2>2. DEFINE q == 0 \div TotalFrames
    <2>3. q \in Nat /\ r \in Nat /\ r < TotalFrames /\ 0 = q * TotalFrames + r
      BY <1>2, Division
    <2> HIDE DEF q, r
    <2>4. q * TotalFrames \in Nat
      BY <1>2, <2>3
    <2>5. r = 0
      BY <2>3, <2>4
    <2> QED
      BY <2>5 DEF r
  <1> QED
    BY <1>1, <1>3, <1>4 DEF FileInv, ReaderInStep, FramesOfTheFile, WholeFileNeverFails

\* The steps between two calls of the source fill no slot and stop nothing.
LEMMA HandoffLeavesSource ==
  ASSUME Inv, Handoff \/ UNCHANGED <<vars, sourceVars>>
  PROVE  /\ UNCHANGED <<frames, captureRunning, sourceVars>>
         /\ \A s \in Slots : pool'[s].info \in {pool[s].info, None}
  <1>0. QueuesTyped /\ RestTyped /\ HeldByStep
    BY InvParts
  <1>1. CASE CaptureClaim /\ UNCHANGED sourceVars
    <2>1. Head(freeQueue) \in Slots
      BY <1>0, <1>1, TailFacts DEF CaptureClaim, Free!Pop, QueuesTyped
    <2> QED
      BY <1>0, <1>1, <2>1 DEF CaptureClaim, RestTyped
  <1>2. CASE (CaptureNoSlot \/ CapturePublish) /\ UNCHANGED sourceVars
    BY <1>2 DEF CaptureNoSlot, CapturePublish
  <1>3. CASE (SenderRetire \/ SenderReturn) /\ UNCHANGED sourceVars
    <2>1. /\ UNCHANGED captureVars
          /\ pool' = [pool EXCEPT ![Head(senderHeld)].info = None]
      BY <1>3 DEF SenderRetire, SenderReturn, ReturnToFree
    <2>2. \A s \in Slots : pool'[s].info \in {pool[s].info, None}
      BY <1>0, <2>1 DEF RestTyped
    <2> QED
      BY <1>3, <2>1, <2>2 DEF captureVars
  <1>4. CASE /\ \/ SenderConnect \/ SenderTake \/ SenderIdle \/ SenderYield \/ SenderStop
                \/ SenderDrain \/ SenderDrained \/ SenderSend \/ SenderReport
             /\ UNCHANGED sourceVars
    BY <1>4 DEF SenderConnect, SenderTake, SenderIdle, SenderYield, SenderStop,
       SenderDrain, SenderDrained, SenderSend, SenderReport, SwapDropped, SwapStale,
       SkipReport, captureVars
  <1>5. CASE UNCHANGED <<vars, sourceVars>>
    BY <1>5 DEF vars, captureVars
  <1> QED
    BY <1>1, <1>2, <1>3, <1>4, <1>5 DEF Handoff, SenderNext

LEMMA FileStep ==
  Inv /\ FileInv /\ [SourcesNext]_<<vars, sourceVars>> => FileInv'
  <1> SUFFICES ASSUME Inv, FileInv, [SourcesNext]_<<vars, sourceVars>> PROVE FileInv'
    OBVIOUS
  <1>0. QueuesTyped /\ RestTyped /\ HeldByStep
    BY InvParts
  <1>00. /\ TotalFrames \in Nat /\ TotalFrames > 0
         /\ TotalFrames * FrameSize <= FileLength /\ TotalFrames' = TotalFrames
    BY FileFrames DEF TotalFrames
  <1>000. frames \in Nat /\ \A s \in Slots : pool[s].info \in Nat
    BY <1>0 DEF RestTyped
  <1>1. CASE ReadFrame
    <2> DEFINE s == captureHeld[1]
    <2>1. /\ device = "file" /\ UNCHANGED <<device, length, captureRunning>>
          /\ frames' = frames + 1
          /\ FinishFrame(BeginNextFrame)
          /\ pool' = [pool EXCEPT ![s] = [pixels |-> frames + 1, info |-> frames + 1]]
          /\ origin' = [origin EXCEPT ![s] = BeginNextFrame.position]
      BY <1>1 DEF ReadFrame, CaptureFill
    <2>2. s \in Slots
      BY <1>0, <1>1, Single DEF ReadFrame, CaptureFill, HeldByStep, QueuesTyped
    <2>3. ReaderInStep'
      BY <2>1, <1>000, FinishKeepsStep DEF FileInv
    <2>4. BeginNextFrame.position = (frames % TotalFrames) * FrameSize
      BY <2>1 DEF FileInv, ReaderInStep
    <2> HIDE DEF s
    <2>5. BeginNextFrame.position \in Nat
      <3>1. frames % TotalFrames \in Nat
        BY <1>00, <1>000, Division
      <3> QED
        BY <2>4, <3>1
    <2>6. origin' \in [Slots -> Nat]
      BY <2>1, <2>2, <2>5 DEF FileInv
    <2>7. FramesOfTheFile'
      <3>1. ASSUME NEW o \in Slots, pool'[o].info # None
            PROVE  origin'[o] = ((pool'[o].info - 1) % TotalFrames) * FrameSize
        <4>1. CASE o = s
          <5>1. pool'[o].info = frames + 1 /\ origin'[o] = BeginNextFrame.position
            BY <1>0, <2>1, <2>2, <4>1 DEF FileInv, RestTyped
          <5>2. (frames + 1) - 1 = frames
            BY <1>000
          <5> QED
            BY <2>4, <5>1, <5>2
        <4>2. CASE o # s
          <5>1. pool'[o] = pool[o] /\ origin'[o] = origin[o]
            BY <1>0, <2>1, <4>2 DEF FileInv, RestTyped
          <5> QED
            BY <2>1, <3>1, <5>1 DEF FileInv, FramesOfTheFile
        <4> QED
          BY <4>1, <4>2
      <3> QED
        BY <1>00, <3>1 DEF FramesOfTheFile
    <2>8. WholeFileNeverFails'
      BY <1>00, <2>1 DEF FileInv, WholeFileNeverFails
    <2> QED
      BY <2>1, <2>3, <2>6, <2>7, <2>8 DEF FileInv
  <1>2. CASE ReadFails
    <2>1. /\ device = "file" /\ UNCHANGED <<device, length, origin, pool, frames>>
          /\ BeginNextFrame.position + FrameSize > length
          /\ position' = BeginNextFrame.position /\ index' = BeginNextFrame.index
      BY <1>2 DEF ReadFails, CaptureFails
    <2>2. ReaderInStep
      BY <2>1 DEF FileInv
    <2>3. index' \in Nat /\ index' < TotalFrames
      BY <1>00, <1>000, <2>1, <2>2, Division DEF ReaderInStep
    <2>4. ReaderInStep'
      <3>1. ~(index' >= TotalFrames)
        BY <1>00, <2>3
      <3>2. BeginNextFrame' = [position |-> position', index |-> index']
        BY <1>00, <3>1 DEF BeginNextFrame
      <3> QED
        BY <1>00, <2>1, <2>2, <3>2 DEF ReaderInStep
    <2>5. length < TotalFrames * FrameSize
      <3>1. index' * FrameSize + FrameSize > length
        BY <2>1, <2>2 DEF ReaderInStep
      <3> QED
        BY <1>00, <2>3, <3>1, EndsInside DEF FileInv
    <2>6. WholeFileNeverFails'
      BY <1>00, <2>1, <2>5 DEF WholeFileNeverFails
    <2>7. FramesOfTheFile' /\ origin' \in [Slots -> Nat]
      BY <1>00, <2>1 DEF FileInv, FramesOfTheFile
    <2> QED
      BY <2>1, <2>4, <2>6, <2>7 DEF FileInv
  <1>3. CASE SkipFrame
    <2>1. /\ device = "file" /\ UNCHANGED <<device, length, origin, pool, captureRunning>>
          /\ frames' = frames + 1
          /\ FinishFrame(BeginNextFrame)
      BY <1>3 DEF SkipFrame, CaptureDiscard, CountDrop
    <2>2. ReaderInStep'
      BY <2>1, <1>000, FinishKeepsStep DEF FileInv
    <2> QED
      BY <1>00, <2>1, <2>2 DEF FileInv, FramesOfTheFile, WholeFileNeverFails
  <1>4. CASE Truncate
    <2>1. /\ device = "file" /\ length = FileLength
          /\ UNCHANGED <<device, position, index, origin, pool, captureRunning, frames>>
      BY <1>4 DEF Truncate, vars, captureVars
    <2>2. captureRunning
      <3>1. ASSUME ~captureRunning PROVE FALSE
        <4>1. length < TotalFrames * FrameSize
          BY <2>1, <3>1 DEF FileInv, WholeFileNeverFails
        <4>2. TotalFrames * FrameSize \in Nat
          BY <1>00
        <4> QED
          BY <1>00, <2>1, <4>1, <4>2
      <3> QED
        BY <3>1
    <2>3. ReaderInStep'
      BY <1>00, <2>1 DEF FileInv, ReaderInStep, BeginNextFrame
    <2>4. length' \in Nat
      BY <1>00, <1>4 DEF Truncate
    <2> QED
      BY <1>00, <2>1, <2>2, <2>3, <2>4 DEF FileInv, FramesOfTheFile, WholeFileNeverFails
  <1>5. CASE DequeueFrame \/ DequeueFails
    <2>1. device = "camera" /\ UNCHANGED <<device, length, origin>>
      BY <1>5 DEF DequeueFrame, DequeueFails, sourceVars
    <2> QED
      BY <2>1 DEF FileInv, FramesOfTheFile, WholeFileNeverFails
  <1>6. CASE Handoff \/ UNCHANGED <<vars, sourceVars>>
    <2>1. /\ UNCHANGED <<frames, captureRunning, device, length, position, index, origin>>
          /\ \A s \in Slots : pool'[s].info \in {pool[s].info, None}
      BY <1>6, HandoffLeavesSource DEF sourceVars
    <2>2. device = "file" => ReaderInStep'
      BY <1>00, <2>1 DEF FileInv, ReaderInStep, BeginNextFrame
    <2>3. FramesOfTheFile'
      <3>1. ASSUME device = "file", NEW o \in Slots, pool'[o].info # None
            PROVE  origin[o] = ((pool'[o].info - 1) % TotalFrames) * FrameSize
        BY <2>1, <3>1 DEF FileInv, FramesOfTheFile
      <3> QED
        BY <1>00, <2>1, <3>1 DEF FramesOfTheFile
    <2> QED
      BY <1>00, <2>1, <2>2, <2>3 DEF FileInv, WholeFileNeverFails
  <1> QED
    BY <1>1, <1>2, <1>3, <1>4, <1>5, <1>6 DEF SourcesNext

LEMMA FileSafe == SourcesSpec => []FileInv
  BY InitFile, FileStep, SourcesSafe, PTL DEF SourcesSpec

\* capture.rs:275 - dropped frames are skipped in the file, so that what is
\* sent is what was due.
THEOREM FilePlayedInOrder == SourcesSpec => []FramesOfTheFile
  <1>1. FileInv => FramesOfTheFile
    BY DEF FileInv
  <1> QED
    BY <1>1, FileSafe, PTL

\* capture.rs:290 - only a file cut short below its whole frames ends capture.
THEOREM OnlyCutFileFails == SourcesSpec => []WholeFileNeverFails
  <1>1. FileInv => WholeFileNeverFails
    BY DEF FileInv
  <1> QED
    BY <1>1, FileSafe, PTL

-----------------------------------------------------------------------------
(* Types.  The reader's place is its count of frames (AtFrame), so it stays  *)
(* in the file although a seek past the end would succeed.                   *)

AtFrame ==
  /\ index \in 0 .. TotalFrames
  /\ position = index * FrameSize

SourceTyped ==
  /\ device \in {"file", "camera"}
  /\ length \in 0 .. FileLength
  /\ AtFrame
  /\ origin \in [Slots -> 0 .. FileLength]

\* The places of the whole frames are in the file.
LEMMA InFile ==
  ASSUME NEW i \in 0 .. TotalFrames
  PROVE  i * FrameSize \in 0 .. FileLength
  <1>1. PICK k \in Nat : TotalFrames = i + k
    <2>1. TotalFrames - i \in Nat /\ TotalFrames = i + (TotalFrames - i)
      BY FileFrames
    <2> QED
      BY <2>1
  <1>2. (i + k) * FrameSize = i * FrameSize + k * FrameSize
    OBVIOUS
  <1>3. i * FrameSize \in Nat /\ k * FrameSize \in Nat
    OBVIOUS
  <1> QED
    BY <1>1, <1>2, <1>3, FileFrames

\* begin_next_frame leaves the reader before a whole frame of the file.
LEMMA BeginsInside ==
  ASSUME AtFrame
  PROVE  /\ BeginNextFrame.index \in 0 .. TotalFrames - 1
         /\ BeginNextFrame.position = BeginNextFrame.index * FrameSize
         /\ BeginNextFrame.position \in 0 .. FileLength
  <1>0. TotalFrames \in Nat /\ TotalFrames > 0
    BY FileFrames
  <1>1. CASE index >= TotalFrames
    <2>1. BeginNextFrame = [position |-> 0, index |-> 0]
      BY <1>1 DEF BeginNextFrame
    <2>2. BeginNextFrame.index = 0 /\ BeginNextFrame.position = 0
      BY <2>1
    <2>3. 0 * FrameSize = 0
      OBVIOUS
    <2> QED
      BY <1>0, <2>2, <2>3
  <1>2. CASE ~(index >= TotalFrames)
    <2>1. BeginNextFrame = [position |-> position, index |-> index]
      BY <1>2 DEF BeginNextFrame
    <2>2. BeginNextFrame.index = index /\ BeginNextFrame.position = position
      BY <2>1
    <2>3. index * FrameSize \in 0 .. FileLength
      BY InFile DEF AtFrame
    <2> QED
      BY <1>0, <1>2, <2>2, <2>3 DEF AtFrame
  <1> QED
    BY <1>1, <1>2

LEMMA FinishesInside ==
  ASSUME AtFrame, FinishFrame(BeginNextFrame)
  PROVE  AtFrame'
  <1> DEFINE i == BeginNextFrame.index
  <1>1. i \in 0 .. TotalFrames - 1 /\ BeginNextFrame.position = i * FrameSize
    BY BeginsInside
  <1>2. index' = i + 1 /\ position' = i * FrameSize + FrameSize
    BY <1>1 DEF FinishFrame
  <1> HIDE DEF i
  <1>3. (i + 1) * FrameSize = i * FrameSize + FrameSize
    BY <1>1, FileFrames
  <1> QED
    BY <1>1, <1>2, <1>3, FileFrames DEF AtFrame, TotalFrames

LEMMA SourceTypedStep ==
  Inv /\ SourceTyped /\ [SourcesNext]_<<vars, sourceVars>> => SourceTyped'
  <1> SUFFICES ASSUME Inv, SourceTyped, [SourcesNext]_<<vars, sourceVars>>
               PROVE  SourceTyped'
    OBVIOUS
  <1>0. /\ AtFrame /\ length \in 0 .. FileLength
        /\ device \in {"file", "camera"} /\ origin \in [Slots -> 0 .. FileLength]
    BY DEF SourceTyped
  <1>1. CASE ReadFrame
    <2>1. AtFrame'
      BY <1>0, <1>1, FinishesInside DEF ReadFrame
    <2>2. origin' \in [Slots -> 0 .. FileLength]
      BY <1>0, <1>1, BeginsInside DEF ReadFrame
    <2>3. UNCHANGED <<device, length>>
      BY <1>1 DEF ReadFrame
    <2> QED
      BY <1>0, <2>1, <2>2, <2>3 DEF SourceTyped
  <1>2. CASE ReadFails
    <2>1. /\ position' = BeginNextFrame.position /\ index' = BeginNextFrame.index
          /\ UNCHANGED <<device, length, origin>>
      BY <1>2 DEF ReadFails
    <2>2. index' \in 0 .. TotalFrames /\ position' = index' * FrameSize
      BY <1>0, <2>1, BeginsInside, FileFrames
    <2> QED
      BY <1>0, <2>1, <2>2 DEF SourceTyped, AtFrame, TotalFrames
  <1>3. CASE SkipFrame
    <2>1. AtFrame' /\ UNCHANGED <<device, length, origin>>
      BY <1>0, <1>3, FinishesInside DEF SkipFrame
    <2> QED
      BY <1>0, <2>1 DEF SourceTyped
  <1>4. CASE Truncate
    <2>1. length' \in 0 .. FileLength
      BY <1>4, InFile DEF Truncate
    <2>2. UNCHANGED <<device, position, index, origin>>
      BY <1>4 DEF Truncate
    <2> QED
      BY <1>0, <2>1, <2>2 DEF SourceTyped, AtFrame, TotalFrames
  <1>5. CASE \/ DequeueFrame \/ DequeueFails \/ Handoff
             \/ UNCHANGED <<vars, sourceVars>>
    <2>1. UNCHANGED <<device, length, position, index, origin>>
      BY <1>5 DEF DequeueFrame, DequeueFails, Handoff, sourceVars
    <2> QED
      BY <1>0, <2>1 DEF SourceTyped, AtFrame, TotalFrames
  <1> QED
    BY <1>1, <1>2, <1>3, <1>4, <1>5 DEF SourcesNext

\* Every field of the source and of the handoff holds what it may: the reader
\* never stands behind the last whole frame, through any reads and skips.
THEOREM SourcesTypeCorrect == SourcesSpec => []SourcesTypeOK
  <1>1. SourcesInit => SourceTyped
    <2> SUFFICES ASSUME SourcesInit PROVE SourceTyped
      OBVIOUS
    <2>1. 0 * FrameSize = 0
      OBVIOUS
    <2> QED
      BY <2>1, FileFrames DEF SourcesInit, SourceTyped, AtFrame
  <1>2. SourceTyped /\ TypeOK => SourcesTypeOK
    <2> SUFFICES ASSUME SourceTyped, TypeOK PROVE SourcesTypeOK
      OBVIOUS
    <2>1. position \in 0 .. FileLength
      BY InFile DEF SourceTyped, AtFrame
    <2> QED
      BY <2>1 DEF SourceTyped, AtFrame, SourcesTypeOK
  <1> QED
    BY <1>1, <1>2, SourceTypedStep, SourcesSafe, SourceIsCaptureThread, TypeCorrect, PTL
       DEF SourcesSpec

-----------------------------------------------------------------------------
(* ScreenCapture                                                           *)

HIDE SourcesAssumption
USE HandoffAssumption, ScreenAssumption

\* A row starts at most where the last row starts.
LEMMA RowsBefore ==
  ASSUME NEW s \in Nat, NEW row \in 0 .. Height - 1
  PROVE  row * s <= s * (Height - 1)
  <1>1. PICK k \in Nat : Height - 1 = row + k
    <2>1. (Height - 1) - row \in Nat /\ Height - 1 = row + ((Height - 1) - row)
      OBVIOUS
    <2> QED
      BY <2>1
  <1>2. s * (row + k) = row * s + s * k
    OBVIOUS
  <1>3. s * k \in Nat /\ row * s \in Nat
    OBVIOUS
  <1> QED
    BY <1>1, <1>2, <1>3

\* pipeline.rs:172 - a buffer that passes the validation has every row.
LEMMA AcceptedRows ==
  ASSUME NEW b \in Buffers, Accepted(b)
  PROVE  RowsInside(b)
  <1> DEFINE s == b.stride
  <1>1. s \in Nat /\ b.size \in Nat
    <2>1. s \in Int /\ b.size \in Nat
      BY DEF Buffers
    <2>2. s >= RowBytes
      BY DEF Accepted
    <2> HIDE DEF s
    <2> QED
      BY <2>1, <2>2
  <1>2. s * (Height - 1) + RowBytes <= b.size
    BY <1>1 DEF Accepted, Needed
  <1> HIDE DEF s
  <1>3. \A row \in 0 .. Height - 1 : row * s + RowBytes <= b.size
    <2> TAKE row \in 0 .. Height - 1
    <2>1. row * s <= s * (Height - 1)
      BY <1>1, RowsBefore
    <2>2. row * s \in Nat /\ s * (Height - 1) \in Nat
      BY <1>1
    <2> QED
      BY <1>1, <1>2, <2>1, <2>2
  <1> QED
    BY <1>3 DEF RowsInside, s

-----------------------------------------------------------------------------
\* What a callback knows of its buffer from the claim to the publication.
BufferInv ==
  /\ negotiated => format = "expected"
  /\ capturePc = "fill" => source \in Buffers /\ Accepted(source)
  /\ capturePc \in {"fill", "publish"} => source.format = "expected"

LEMMA InitBuffer == ScreenInit => BufferInv
  BY DEF ScreenInit, Init, BufferInv

\* The steps of the sender and of a drop leave the callback where it is.
LEMMA SenderLeavesCapture ==
  SenderNext => UNCHANGED capturePc
  BY DEF SenderNext, SenderConnect, SenderTake, SenderIdle, SenderYield, SenderStop,
     SenderDrain, SenderDrained, SenderRetire, SenderSend, SenderReturn, SenderReport,
     SwapDropped, SwapStale, SkipReport, captureVars

LEMMA BufferStep ==
  BufferInv /\ [ScreenNext]_<<vars, screenVars>> => BufferInv'
  <1> SUFFICES ASSUME BufferInv, [ScreenNext]_<<vars, screenVars>> PROVE BufferInv'
    OBVIOUS
  <1>1. CASE ObserveFormat
    <2>1. capturePc = "claim" /\ UNCHANGED <<capturePc, source>>
      BY <1>1 DEF ObserveFormat, vars, captureVars
    <2>2. negotiated' => format' = "expected"
      BY <1>1 DEF ObserveFormat, Negotiates
    <2> QED
      BY <2>1, <2>2 DEF BufferInv
  <1>2. CASE NothingDequeued \/ RejectFormat \/ RejectBuffer
    BY <1>2 DEF NothingDequeued, RejectFormat, RejectBuffer, CaptureOne, vars,
       captureVars, BufferInv
  <1>3. CASE ClaimForBuffer
    <2>1. PICK b \in Buffers : Offered(b) /\ source' = b
      BY <1>3 DEF ClaimForBuffer
    <2>2. b.format = "expected" /\ Accepted(b) /\ UNCHANGED <<format, negotiated>>
      BY <2>1 DEF Offered, FromPipeWire, FromScreenKit, CaptureOne, BufferInv
    <2>3. capturePc' = "fill"
      BY <1>3 DEF ClaimForBuffer, CaptureClaim
    <2> QED
      BY <2>1, <2>2, <2>3 DEF BufferInv, Accepted, Needed
  <1>4. CASE DropNoFreeSlot
    <2>1. UNCHANGED <<capturePc, source, format, negotiated>>
      BY <1>4 DEF DropNoFreeSlot, CallbackDrop, Offered, FromPipeWire, FromScreenKit,
         CaptureOne
    <2> QED
      BY <2>1 DEF BufferInv, Accepted, Needed
  <1>5. CASE CopyRows
    <2>1. /\ UNCHANGED <<source, format, negotiated>>
          /\ capturePc = "fill" /\ capturePc' \in {"publish", "panicked"}
      BY <1>5 DEF CopyRows, CaptureFill, screenVars
    <2> QED
      BY <2>1 DEF BufferInv
  <1>6. CASE PublishSlot
    <2>1. capturePc' \in {"claim", "panicked"} /\ UNCHANGED <<format, negotiated>>
      BY <1>6 DEF PublishSlot, CapturePublish
    <2> QED
      BY <2>1 DEF BufferInv
  <1>7. CASE (SenderNext /\ UNCHANGED screenVars) \/ UNCHANGED <<vars, screenVars>>
    <2>1. UNCHANGED <<capturePc, source, format, negotiated>>
      BY <1>7, SenderLeavesCapture DEF vars, captureVars, screenVars
    <2> QED
      BY <2>1 DEF BufferInv, Accepted, Needed
  <1> QED
    BY <1>1, <1>2, <1>3, <1>4, <1>5, <1>6, <1>7 DEF ScreenNext

LEMMA BufferSafe == ScreenSpec => []BufferInv
  BY InitBuffer, BufferStep, PTL DEF ScreenSpec

\* Only images of the shape the pipeline was built for are copied.
THEOREM ShapeKept == ScreenSpec => []OnlyExpectedShape
  <1>1. BufferInv => OnlyExpectedShape
    BY DEF BufferInv, OnlyExpectedShape
  <1> QED
    BY <1>1, BufferSafe, PTL

\* Every step of a screen source is a step of the handoff or leaves it alone;
\* the slices of the row copy never leave the buffer.
LEMMA ScreenStep ==
  BufferInv /\ [ScreenNext]_<<vars, screenVars>> => [Next]_vars
  <1> SUFFICES ASSUME BufferInv, [ScreenNext]_<<vars, screenVars>> PROVE [Next]_vars
    OBVIOUS
  <1>1. CASE ObserveFormat \/ NothingDequeued \/ RejectFormat \/ RejectBuffer
    BY <1>1 DEF ObserveFormat, NothingDequeued, RejectFormat, RejectBuffer
  <1>2. CASE ClaimForBuffer \/ DropNoFreeSlot \/ PublishSlot
    BY <1>2 DEF ClaimForBuffer, DropNoFreeSlot, PublishSlot, Next, CaptureNext
  <1>3. CASE CopyRows
    <2>1. capturePc = "fill"
      BY <1>3 DEF CopyRows, CaptureFill
    <2>2. RowsInside(source)
      BY <2>1, AcceptedRows DEF BufferInv
    <2> QED
      BY <1>3, <2>2 DEF CopyRows, Next, CaptureNext
  <1>4. CASE (SenderNext /\ UNCHANGED screenVars) \/ UNCHANGED <<vars, screenVars>>
    BY <1>4 DEF Next
  <1> QED
    BY <1>1, <1>2, <1>3, <1>4 DEF ScreenNext

\* Whatever a driver delivers, a screen is a callback source of the handoff.
THEOREM ScreenIsCallbackSource == ScreenSpec => ImplementsHandoff
  <1>1. ScreenInit => Init
    BY DEF ScreenInit
  <1> QED
    BY <1>1, ScreenStep, BufferSafe, PTL DEF ScreenSpec, Spec, ImplementsHandoff

\* So nothing a driver delivers makes the callback or the sender panic, and no
\* slot is touched by both.
THEOREM ScreenNeverPanics == ScreenSpec => [](NoPanic /\ SlotExclusive)
  BY ScreenIsCallbackSource, NeverPanics, SlotsExclusive, PTL DEF ImplementsHandoff

-----------------------------------------------------------------------------
\* The fields of the callback state, beside those of the handoff.
CallbackTyped ==
  /\ backend \in {"pipewire", "screencapturekit"}
  /\ format \in Formats /\ negotiated \in BOOLEAN
  /\ source \in Buffers \cup {NoBuffer}
  /\ callbacks \in Nat /\ published \in Nat /\ malformed \in Nat /\ rejected \in Nat

LEMMA InitCallback == ScreenInit => CallbackTyped
  <1> SUFFICES ASSUME ScreenInit PROVE CallbackTyped
    OBVIOUS
  <1>1. /\ callbacks \in Nat /\ published \in Nat /\ malformed \in Nat
        /\ rejected \in Nat /\ format \in Formats
    BY DEF ScreenInit, Formats
  <1>2. /\ backend \in {"pipewire", "screencapturekit"}
        /\ negotiated \in BOOLEAN /\ source \in Buffers \cup {NoBuffer}
    BY Zenon DEF ScreenInit
  <1> QED
    BY <1>1, <1>2 DEF CallbackTyped

LEMMA CallbackTypedStep ==
  CallbackTyped /\ [ScreenNext]_<<vars, screenVars>> => CallbackTyped'
  <1> SUFFICES ASSUME CallbackTyped, [ScreenNext]_<<vars, screenVars>>
               PROVE  CallbackTyped'
    OBVIOUS
  <1>1. CASE ObserveFormat
    BY <1>1 DEF CallbackTyped, ObserveFormat, Negotiates, counters
  <1>2. CASE NothingDequeued \/ RejectFormat \/ RejectBuffer
    BY <1>2 DEF CallbackTyped, NothingDequeued, RejectFormat, RejectBuffer, CaptureOne
  <1>3. CASE ClaimForBuffer
    BY <1>3 DEF CallbackTyped, ClaimForBuffer, Offered, FromPipeWire, FromScreenKit,
       CaptureOne
  <1>4. CASE DropNoFreeSlot
    BY <1>4 DEF CallbackTyped, DropNoFreeSlot, Offered, FromPipeWire, FromScreenKit,
       CaptureOne
  <1>5. CASE CopyRows \/ (SenderNext /\ UNCHANGED screenVars)
             \/ UNCHANGED <<vars, screenVars>>
    BY <1>5 DEF CallbackTyped, CopyRows, screenVars, counters
  <1>6. CASE PublishSlot
    BY <1>6 DEF CallbackTyped, PublishSlot
  <1> QED
    BY <1>1, <1>2, <1>3, <1>4, <1>5, <1>6 DEF ScreenNext

\* Every field of the callback state and of the handoff holds what it may.
THEOREM ScreenTypeCorrect == ScreenSpec => []ScreenTypeOK
  <1>1. ScreenInit => CallbackTyped
    BY InitCallback
  <1>2. CallbackTyped /\ TypeOK => ScreenTypeOK
    BY DEF CallbackTyped, ScreenTypeOK
  <1> QED
    BY <1>1, <1>2, CallbackTypedStep, ScreenIsCallbackSource, TypeCorrect, PTL
       DEF ScreenSpec, ImplementsHandoff

-----------------------------------------------------------------------------
(* The counters of the callback against those of the two stages.  What they  *)
(* have in common is frames, which the callback alone advances: so the       *)
(* callbacks are counted against it (CallbackLine), and EveryFrameAccounted  *)
(* says where the frames are.                                                *)

Lost    == dropped + stale + reported
Copying == IF capturePc = "fill" THEN 1 ELSE 0
Copied  == IF capturePc = "publish" THEN 1 ELSE 0

CallbackLine ==
  backend = "pipewire" =>
    /\ callbacks = malformed + rejected + frames + Copying
    /\ published + Copied <= frames
    /\ published + Copied >= frames - Lost

\* What the equations are over, with a type.
LEMMA LineTyped ==
  Inv /\ CallbackTyped =>
    /\ callbacks \in Nat /\ published \in Nat /\ malformed \in Nat /\ rejected \in Nat
    /\ frames \in Nat /\ dropped \in Nat /\ stale \in Nat /\ reported \in Nat
  BY AccountTyped DEF CallbackTyped

\* A step of the sender takes nothing back: it adds to stale or moves a
\* counter into reported.
LEMMA SenderLosesNothing ==
  ASSUME Inv, SenderNext
  PROVE  /\ UNCHANGED <<capturePc, frames>>
         /\ Lost' \in Nat /\ Lost' >= Lost
  <1>0. /\ dropped \in Nat /\ stale \in Nat /\ reported \in Nat
    BY AccountTyped
  <1>1. UNCHANGED <<capturePc, frames>>
    BY DEF SenderNext, SenderConnect, SenderTake, SenderIdle, SenderYield, SenderStop,
       SenderDrain, SenderDrained, SenderRetire, SenderSend, SenderReturn, SenderReport,
       SwapDropped, SwapStale, SkipReport, captureVars
  <1>2. \/ /\ dropped' = dropped /\ reported' = reported
           /\ stale' = stale \/ stale' = stale + 1
        \/ dropped' = 0 /\ stale' = stale /\ reported' = reported + dropped
        \/ dropped' = dropped /\ stale' = 0 /\ reported' = reported + stale
    BY DEF SenderNext, SenderConnect, SenderTake, SenderIdle, SenderYield, SenderStop,
       SenderDrain, SenderDrained, SenderRetire, SenderSend, SenderReturn, SenderReport,
       SwapDropped, SwapStale, SkipReport, captureVars
  <1> QED
    BY <1>0, <1>1, <1>2 DEF Lost

LEMMA CallbackLineStep ==
  Inv /\ CallbackTyped /\ BufferInv /\ CallbackLine /\ [ScreenNext]_<<vars, screenVars>>
    => CallbackLine'
  <1> SUFFICES ASSUME Inv, CallbackTyped, BufferInv, CallbackLine,
                      [ScreenNext]_<<vars, screenVars>>,
                      backend' = "pipewire"
               PROVE  /\ callbacks' = malformed' + rejected' + frames' + Copying'
                      /\ published' + Copied' <= frames'
                      /\ published' + Copied' >= frames' - Lost'
    BY DEF CallbackLine
  <1>0. /\ callbacks \in Nat /\ published \in Nat /\ malformed \in Nat /\ rejected \in Nat
        /\ frames \in Nat /\ dropped \in Nat /\ stale \in Nat /\ reported \in Nat
    BY LineTyped
  <1>00. backend = "pipewire"
    BY DEF ScreenNext, ObserveFormat, NothingDequeued, RejectFormat, RejectBuffer,
       ClaimForBuffer, DropNoFreeSlot, CopyRows, PublishSlot, Offered, FromPipeWire,
       FromScreenKit, CaptureOne, screenVars
  <1>000. /\ callbacks = malformed + rejected + frames + Copying
          /\ published + Copied <= frames
          /\ published + Copied >= frames - Lost
    BY <1>00 DEF CallbackLine
  <1>1. CASE ObserveFormat \/ UNCHANGED <<vars, screenVars>>
    <2>1. UNCHANGED <<callbacks, published, malformed, rejected, frames, dropped, stale,
                      reported, capturePc>>
      BY <1>1 DEF ObserveFormat, vars, captureVars, senderVars, screenVars, counters
    <2> QED
      BY <1>000, <2>1 DEF Lost, Copying, Copied
  <1>2. CASE NothingDequeued \/ RejectFormat \/ RejectBuffer
    <2>1. /\ callbacks' = callbacks + 1
          /\ \/ malformed' = malformed + 1 /\ rejected' = rejected
             \/ malformed' = malformed /\ rejected' = rejected + 1
          /\ UNCHANGED <<published, frames, dropped, stale, reported, capturePc>>
      BY <1>2 DEF NothingDequeued, RejectFormat, RejectBuffer, CaptureOne, vars,
         captureVars, senderVars
    <2> QED
      BY <1>0, <1>000, <2>1 DEF Lost, Copying, Copied
  <1>3. CASE ClaimForBuffer
    <2>1. /\ callbacks' = callbacks + 1
          /\ UNCHANGED <<published, malformed, rejected, frames, dropped, stale, reported>>
          /\ capturePc = "claim" /\ capturePc' = "fill"
      BY <1>00, <1>3 DEF ClaimForBuffer, Offered, FromPipeWire, FromScreenKit, CaptureOne,
         CaptureClaim, senderVars
    <2> QED
      BY <1>0, <1>000, <2>1 DEF Lost, Copying, Copied
  <1>4. CASE DropNoFreeSlot
    <2>1. /\ callbacks' = callbacks + 1 /\ frames' = frames + 1 /\ dropped' = dropped + 1
          /\ UNCHANGED <<published, malformed, rejected, stale, reported, capturePc>>
      BY <1>00, <1>4 DEF DropNoFreeSlot, Offered, FromPipeWire, FromScreenKit, CaptureOne,
         CallbackDrop, CountDrop, senderVars
    <2> QED
      BY <1>0, <1>000, <2>1 DEF Lost, Copying, Copied
  <1>5. CASE CopyRows
    <2>1. RowsInside(source)
      BY <1>5, AcceptedRows DEF CopyRows, CaptureFill, BufferInv
    <2>2. /\ frames' = frames + 1 /\ capturePc = "fill" /\ capturePc' = "publish"
          /\ UNCHANGED <<callbacks, published, malformed, rejected, dropped, stale, reported>>
      BY <1>5, <2>1 DEF CopyRows, CaptureFill, senderVars, screenVars, counters
    <2> QED
      BY <1>0, <1>000, <2>2 DEF Lost, Copying, Copied
  <1>6. CASE PublishSlot
    <2>1. CapturePublish
      BY <1>6 DEF PublishSlot
    <2>2. capturePc' = "claim"
      BY <2>1, PublishInv
    <2>3. /\ capturePc = "publish" /\ published' = published + 1
          /\ UNCHANGED <<callbacks, malformed, rejected, frames, dropped, stale, reported>>
      BY <1>00, <1>6 DEF PublishSlot, CapturePublish, senderVars
    <2> QED
      BY <1>0, <1>000, <2>2, <2>3 DEF Lost, Copying, Copied
  <1>7. CASE SenderNext /\ UNCHANGED screenVars
    <2>1. UNCHANGED <<callbacks, published, malformed, rejected>>
      BY <1>7 DEF screenVars, counters
    <2>2. UNCHANGED <<capturePc, frames>> /\ Lost' \in Nat /\ Lost' >= Lost
      BY <1>7, SenderLosesNothing
    <2>3. /\ Lost \in Nat /\ Copied \in {0, 1} /\ Copying \in {0, 1}
          /\ Copied' = Copied /\ Copying' = Copying
      BY <1>0, <2>2 DEF Lost, Copied, Copying
    <2>4. /\ callbacks' = callbacks /\ published' = published /\ malformed' = malformed
          /\ rejected' = rejected /\ frames' = frames
      BY <2>1, <2>2
    <2>5. callbacks' = malformed' + rejected' + frames' + Copying'
      BY <1>000, <2>3, <2>4
    <2>6. published' + Copied' <= frames'
      BY <1>000, <2>3, <2>4
    <2>7. published' + Copied' >= frames' - Lost'
      <3> DEFINE after == Lost'
      <3>1. after \in Nat /\ after >= Lost /\ Lost \in Nat
        BY <2>2, <2>3
      <3> HIDE DEF after
      <3>2. published + Copied >= frames - after
        BY <1>0, <1>000, <2>3, <3>1
      <3> QED
        BY <2>3, <2>4, <3>2 DEF after
    <2> QED
      BY <2>5, <2>6, <2>7
  <1> QED
    BY <1>1, <1>2, <1>3, <1>4, <1>5, <1>6, <1>7 DEF ScreenNext

\* linux.rs:405 - every callback is in exactly one counter or its frame under
\* way, for any number of callbacks, slots and reports; and published lies
\* between what the sender has seen and what the callback has let go.
THEOREM CallbacksInBooks == ScreenSpec => []CallbacksAccounted
  <1>1. ScreenInit => CallbackTyped
    BY InitCallback
  <1>2. ScreenInit => CallbackLine
    BY DEF ScreenInit, Init, CallbackLine, Copying, Copied, Lost
  <1>3. Inv /\ CallbackTyped /\ CallbackLine /\ EveryFrameAccounted => CallbacksAccounted
    <2> SUFFICES ASSUME Inv, CallbackTyped, CallbackLine, EveryFrameAccounted,
                        backend = "pipewire", NoPanic
                 PROVE  CallbacksAccounted
      BY DEF CallbacksAccounted
    <2>1. /\ callbacks \in Nat /\ published \in Nat /\ malformed \in Nat /\ rejected \in Nat
          /\ frames \in Nat /\ dropped \in Nat /\ stale \in Nat /\ reported \in Nat
          /\ frameId \in Nat /\ Len(readyQueue) \in Nat /\ Len(senderHeld) \in Nat
      BY LineTyped, AccountTyped
    <2>2. LetGo \in Nat
      BY DEF LetGo
    <2>3. frames = dropped + stale + reported + frameId + LetGo + InCycle
      BY DEF EveryFrameAccounted
    <2>4. InCycle = Len(readyQueue) + Len(senderHeld) + Copied /\ Copied \in {0, 1}
      BY DEF InCycle, Copied
    <2>5. /\ callbacks = malformed + rejected + frames + Copying
          /\ published + Copied <= frames
          /\ published + Copied >= frames - Lost
      BY DEF CallbackLine
    <2>6. Copying = (IF capturePc = "fill" THEN 1 ELSE 0) /\ Copying \in {0, 1}
      BY DEF Copying
    <2> HIDE DEF LetGo, InCycle, Copying, Copied
    <2>7. callbacks = malformed + rejected + dropped + stale + reported
                        + frameId + LetGo + InCycle + Copying
      BY <2>1, <2>2, <2>3, <2>4, <2>5, <2>6
    <2>8. published \in LeftCapture .. LeftCapture + dropped + stale + reported
      BY <2>1, <2>2, <2>3, <2>4, <2>5 DEF LeftCapture, Lost
    <2> QED
      BY <2>6, <2>7, <2>8 DEF CallbacksAccounted
  <1> QED
    BY <1>1, <1>2, <1>3, CallbackTypedStep, CallbackLineStep, BufferSafe, HandoffSafe,
       ScreenIsCallbackSource, FramesAccounted, PTL DEF ScreenSpec, ImplementsHandoff
=============================================================================
