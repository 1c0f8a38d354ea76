----------------------------- MODULE SlotCycle -----------------------------
(***************************************************************************)
(* The two rings of src/pipeline.rs in a circle, at the grain of the       *)
(* atomics of src/spsc.rs: why an ID always finds room although each end   *)
(* of a ring works from an old cursor.                                     *)
(*                                                                         *)
(* The capture thread stores free.head and ready.tail, the sender stores   *)
(* ready.head and free.tail, each with Release and in the order of its     *)
(* program.  Whoever loads one of these stores with Acquire thereby knows  *)
(* every store of that thread before it, to either ring.  So what a thread *)
(* knows of the other one is a prefix of its stores; captureNews and       *)
(* senderNews hold the rest, not known yet, each store with how far it and *)
(* those before it move the two cursors.  A load returns what is known or  *)
(* any later store, as old as the memory model allows.                     *)
(*                                                                         *)
(* SpscRing has one ring with its cells and words and lets the other one   *)
(* synchronise at will; FrameHandoff has slots and frames and relies on    *)
(* what is shown here (ProducerLearns of SpscQueue).  IDs have no names    *)
(* here and cursors are their distances.  A thread that ends, or fails,    *)
(* takes no further step.                                                  *)
(***************************************************************************)
EXTENDS Integers, Sequences

CONSTANT FramePoolSlots

ASSUME CycleAssumption == FramePoolSlots \in Nat \ {0}

VARIABLES
  freeCount, readyCount,      \* tail - head of each ring, as stored
  captureStep, senderStep,    \* where each thread stands
  captureNews, senderNews     \* the other thread's stores it does not know

captureVars == <<captureStep, captureNews>>
senderVars  == <<senderStep, senderNews>>
cycleVars   == <<freeCount, readyCount, captureVars, senderVars>>

\* FreeSlots is filled before the threads start.
CycleInit ==
  /\ freeCount = FramePoolSlots /\ readyCount = 0
  /\ captureStep = "pop" /\ senderStep = "pop"
  /\ captureNews = <<>> /\ senderNews = <<>>

-----------------------------------------------------------------------------
(* Loads and stores                                                        *)

Known == [head |-> 0, tail |-> 0]
Store(news, i) == IF i = 0 THEN Known ELSE news[i]
Latest(news) == Store(news, Len(news))

\* What a load of a cursor may return: the known value or a later store to it.
TailLoads(news) ==
  {0} \cup {i \in 1 .. Len(news) : Store(news, i).tail > Store(news, i - 1).tail}
HeadLoads(news) ==
  {0} \cup {i \in 1 .. Len(news) : Store(news, i).head > Store(news, i - 1).head}

\* With the store that is loaded, every one before it is known.
Acquired(news, i) ==
  [j \in 1 .. Len(news) - i |->
     [head |-> news[i + j].head - Store(news, i).head,
      tail |-> news[i + j].tail - Store(news, i).tail]]

TailStored(news) ==
  Append(news, [head |-> Latest(news).head, tail |-> Latest(news).tail + 1])
HeadStored(news) ==
  Append(news, [head |-> Latest(news).head + 1, tail |-> Latest(news).tail])

-----------------------------------------------------------------------------
(* The capture thread: try_pop of FreeSlots, try_push to ReadySlots        *)

\* Mutant of CapturePop: no check for an empty ring.
CapturePopUnchecked ==
  /\ captureStep = "pop"
  /\ \E i \in TailLoads(captureNews) : captureNews' = Acquired(captureNews, i)
  /\ captureStep' = "popping"
  /\ UNCHANGED <<freeCount, readyCount, senderVars>>

\* Mutant of CapturePop: a Relaxed load of the tail says nothing of ReadySlots.
CapturePopRelaxed ==
  /\ captureStep = "pop"
  /\ \E i \in TailLoads(captureNews) :
       captureNews' =
         [j \in 1 .. Len(captureNews) |->
            [captureNews[j] EXCEPT !.tail =
               IF j <= i THEN 0 ELSE @ - Store(captureNews, i).tail]]
  /\ captureStep' = IF freeCount > Latest(captureNews').tail THEN "popping" ELSE "pop"
  /\ UNCHANGED <<freeCount, readyCount, senderVars>>

\* Without an ID the frame is dropped and the next one is waited for.
CapturePop ==
  /\ captureStep = "pop"
  /\ \E i \in TailLoads(captureNews) : captureNews' = Acquired(captureNews, i)
  /\ captureStep' = IF freeCount > Latest(captureNews').tail THEN "popping" ELSE "pop"
  /\ UNCHANGED <<freeCount, readyCount, senderVars>>

CapturePopped ==
  /\ captureStep = "popping"
  /\ freeCount' = freeCount - 1
  /\ senderNews' = HeadStored(senderNews)
  /\ captureStep' = "push"
  /\ UNCHANGED <<readyCount, captureNews, senderStep>>

CapturePush ==
  /\ captureStep = "push"
  /\ \E i \in HeadLoads(captureNews) : captureNews' = Acquired(captureNews, i)
  /\ captureStep' = IF readyCount + Latest(captureNews').head >= FramePoolSlots
                    THEN "panicked" ELSE "pushing"
  /\ UNCHANGED <<freeCount, readyCount, senderVars>>

CapturePushed ==
  /\ captureStep = "pushing"
  /\ readyCount' = readyCount + 1
  /\ senderNews' = TailStored(senderNews)
  /\ captureStep' = "pop"
  /\ UNCHANGED <<freeCount, captureNews, senderStep>>

-----------------------------------------------------------------------------
(* The sender: take_newest with its stale IDs, then return_to_free         *)

\* A pop, by the first look of take_newest or by its loop.
SenderPop(step, found, none) ==
  /\ senderStep = step
  /\ \E i \in TailLoads(senderNews) : senderNews' = Acquired(senderNews, i)
  /\ senderStep' = IF readyCount > Latest(senderNews').tail THEN found ELSE none
  /\ UNCHANGED <<freeCount, readyCount, captureVars>>

SenderPopped(step, next) ==
  /\ senderStep = step
  /\ readyCount' = readyCount - 1
  /\ captureNews' = HeadStored(captureNews)
  /\ senderStep' = next
  /\ UNCHANGED <<freeCount, captureStep, senderNews>>

\* Mutant of SenderPush: one cell of the ring is never used.
SenderPushKeepingOne(step, next) ==
  /\ senderStep = step
  /\ \E i \in HeadLoads(senderNews) : senderNews' = Acquired(senderNews, i)
  /\ senderStep' = IF freeCount + Latest(senderNews').head + 1 >= FramePoolSlots
                   THEN "panicked" ELSE next
  /\ UNCHANGED <<freeCount, readyCount, captureVars>>

SenderPush(step, next) ==
  /\ senderStep = step
  /\ \E i \in HeadLoads(senderNews) : senderNews' = Acquired(senderNews, i)
  /\ senderStep' = IF freeCount + Latest(senderNews').head >= FramePoolSlots
                   THEN "panicked" ELSE next
  /\ UNCHANGED <<freeCount, readyCount, captureVars>>

SenderPushed(step, next) ==
  /\ senderStep = step
  /\ freeCount' = freeCount + 1
  /\ captureNews' = TailStored(captureNews)
  /\ senderStep' = next
  /\ UNCHANGED <<readyCount, captureStep, senderNews>>

SenderTake  == SenderPop("pop", "popping", "pop") \/ SenderPopped("popping", "drain")
SenderDrain == SenderPop("drain", "draining", "return")
                 \/ SenderPopped("draining", "retire")
SenderRetire == SenderPush("retire", "retiring") \/ SenderPushed("retiring", "drain")
SenderReturn == SenderPush("return", "returning") \/ SenderPushed("returning", "pop")

CycleNext ==
  \/ CapturePop \/ CapturePopped \/ CapturePush \/ CapturePushed
  \/ SenderTake \/ SenderDrain \/ SenderRetire \/ SenderReturn

CycleSpec == CycleInit /\ [][CycleNext]_cycleVars

-----------------------------------------------------------------------------
\* The IDs a thread has popped and not pushed yet.
CaptureHolds == IF captureStep \in {"push", "pushing", "panicked"} THEN 1 ELSE 0
SenderHolds ==
  IF senderStep \in {"retire", "retiring"} THEN 2
  ELSE IF senderStep \in {"pop", "popping"} THEN 0 ELSE 1

\* A ring holds no more than the pool has IDs, and no end sees less than
\* nothing in it.
CycleTypeOK ==
  /\ freeCount \in 0 .. FramePoolSlots /\ readyCount \in 0 .. FramePoolSlots
  /\ captureStep \in {"pop", "popping", "push", "pushing", "panicked"}
  /\ senderStep \in {"pop", "popping", "drain", "draining", "retire", "retiring",
                     "return", "returning", "panicked"}
  /\ {captureNews, senderNews} \subseteq Seq([head : Nat, tail : Nat])
  /\ Latest(captureNews).tail <= freeCount /\ Latest(senderNews).tail <= readyCount

\* pipeline.rs:139, 212 and 268 - no push finds its ring full, whatever stores
\* its load still misses.
NeverRefused == captureStep # "panicked" /\ senderStep # "panicked"

\* spsc.rs:72 and 93, taken across both rings - of the IDs the other thread has
\* popped, a thread does not know only those still held or pushed to the other
\* ring without its knowing: with an ID it acquires that ID's whole way, which is
\* the bound FrameHandoff gives ProducerLearns.
LearnsTheWay ==
  /\ Latest(captureNews).head <= Latest(captureNews).tail + SenderHolds
  /\ Latest(senderNews).head <= Latest(senderNews).tail + CaptureHolds

\* Each ring is a queue, and what comes over the other one is learning.
Queued(n) == [i \in 1 .. n |-> 0]
FreeSlots == INSTANCE SpscQueue WITH
  Ids <- {0}, Capacity <- FramePoolSlots, queue <- Queued(freeCount),
  seen <- freeCount - Latest(captureNews).tail, unseen <- Latest(senderNews).head
ReadySlots == INSTANCE SpscQueue WITH
  Ids <- {0}, Capacity <- FramePoolSlots, queue <- Queued(readyCount),
  seen <- readyCount - Latest(senderNews).tail, unseen <- Latest(captureNews).head

\* spsc.rs:61 and 88 - the two rings together still give their callers queues.
RingsAreQueues ==
  /\ ReadySlots!Spec
  /\ [][FreeSlots!Next]_<<freeCount, Latest(captureNews).tail, Latest(senderNews).head>>
=============================================================================
