-------------------------- MODULE RawStream_proofs --------------------------
(***************************************************************************)
(* What holds of the raw path for every range of frame IDs, every number   *)
(* of frames, restarts and chunks, and any loss, repetition and order of   *)
(* the fragments the network still keeps.                                  *)
(*                                                                         *)
(* The argument: one run of the sender numbers its frames one after the    *)
(* other (Numbered), and the network keeps fragments for less than half of *)
(* the ID range (InFlight).  So among the fragments in flight equal IDs    *)
(* mean the same frame and is_newer_frame means newer, and what can still  *)
(* complete or replace the frame in the reassembler is newer than the last *)
(* frame with a receipt (AheadOfReceipts) - also after a restart, when the *)
(* reassembler holds a frame of the run before.                            *)
(***************************************************************************)
EXTENDS RawStream, DivisionLemmas, FiniteSetTheorems

-----------------------------------------------------------------------------
(* Constants                                                               *)

LEMMA IdRangeType ==
  /\ IdRange \in Nat /\ IdRange > 0 /\ IdRange % 2 = 0
  /\ IdRange \div 2 \in Nat /\ IdRange \div 2 < IdRange
  /\ Lifetime \in Nat /\ Lifetime > 0 /\ Lifetime <= IdRange \div 2
  /\ 0 \in 0 .. IdRange - 1 /\ IdRange - 1 \in 0 .. IdRange - 1
  BY ReassemblyAssumption, RawAssumption

LEMMA SizesType ==
  /\ MaxChunks \in Nat /\ MaxChunks > 0
  /\ \A n \in Sizes : n \in Nat /\ n > 0 /\ n <= MaxChunks
  /\ MaxFrames \in Nat /\ MaxRestarts \in Nat
  /\ ReportEvery \in Nat /\ ReportEvery > 1
  BY ReassemblyAssumption, RawAssumption

-----------------------------------------------------------------------------
(* The reassembler as a value                                              *)

Reassemblers ==
  {r \in [frameId : 0 .. IdRange - 1, shape : Streams \cup {NoShape},
          total : Sizes \cup {0}, received : SUBSET (0 .. MaxChunks - 1),
          buf : [0 .. MaxChunks - 1 -> Nat]] :
     r.received \subseteq 0 .. r.total - 1}

Stats == [completed : Nat, dropped : Nat, outcomes : 0 .. ReportEvery - 1,
          reported : Nat]

LEMMA NewTyped == NewReassembler \in Reassemblers
  <1>1. \A i \in {} : i \in 0 .. MaxChunks - 1 /\ i \in 0 .. 0 - 1
    OBVIOUS
  <1> QED
    BY <1>1, IdRangeType, SizesType DEF NewReassembler, Reassemblers

LEMMA ResetTyped ==
  ASSUME NEW r \in Reassemblers, NEW d \in Fragment
  PROVE  /\ Reset(r, d) \in Reassemblers
         /\ Reset(r, d).frameId = d.id /\ Reset(r, d).total = d.total
         /\ Reset(r, d).received = {}
  BY DEF Reassemblers, Fragment, Reset

LEMMA AddTyped ==
  ASSUME NEW r \in Reassemblers, NEW d \in Fragment, Accepts(r, d)
  PROVE  /\ Add(r, d) \in Reassemblers
         /\ Add(r, d).frameId = r.frameId /\ Add(r, d).total = r.total
         /\ Add(r, d).received = r.received \cup {d.index}
         /\ Add(r, d).buf = [r.buf EXCEPT ![d.index] = d.unit]
  <1>1. d.index \in 0 .. r.total - 1
    BY SizesType DEF Reassemblers, Fragment, Accepts
  <1>2. d.index \in 0 .. MaxChunks - 1 /\ d.unit \in Nat
    BY SizesType DEF Fragment
  <1>3. [r.buf EXCEPT ![d.index] = d.unit] \in [0 .. MaxChunks - 1 -> Nat]
    BY <1>2 DEF Reassemblers
  <1>4. /\ r.received \cup {d.index} \in SUBSET (0 .. MaxChunks - 1)
        /\ r.received \cup {d.index} \subseteq 0 .. r.total - 1
    BY <1>1, <1>2 DEF Reassemblers
  <1> DEFINE received == r.received \cup {d.index}
             buf == [r.buf EXCEPT ![d.index] = d.unit]
  <1>5. Add(r, d) = [frameId |-> r.frameId, shape |-> r.shape, total |-> r.total,
                     received |-> received, buf |-> buf]
    <2> DEFINE r1 == [r EXCEPT !.received = received]
    <2>1. r1 = [frameId |-> r.frameId, shape |-> r.shape, total |-> r.total,
                received |-> received, buf |-> r.buf]
      <3>1. r = [frameId |-> r.frameId, shape |-> r.shape, total |-> r.total,
                 received |-> r.received, buf |-> r.buf]
        BY DEF Reassemblers
      <3> HIDE DEF received
      <3> QED
        BY <3>1
    <2>2. Add(r, d) = [r1 EXCEPT !.buf = buf]
      BY DEF Add, Reassemblers
    <2> HIDE DEF r1, received, buf
    <2> QED
      BY <2>1, <2>2
  <1> HIDE DEF received, buf
  <1>6. Add(r, d) \in Reassemblers
    BY <1>3, <1>4, <1>5 DEF Reassemblers, received, buf
  <1> QED
    BY <1>5, <1>6 DEF received, buf

\* A unit with nothing missing has every one of its fragments.
LEMMA NothingMissing ==
  ASSUME NEW r \in Reassemblers
  PROVE  /\ Missing(r) \in Nat
         /\ Complete(r) <=> r.total > 0 /\ r.received = 0 .. r.total - 1
         /\ Incomplete(r) <=> r.total > 0 /\ ~Complete(r)
  <1>1. r.total \in Nat /\ r.received \in SUBSET (0 .. r.total - 1)
    BY SizesType DEF Reassemblers
  <1> DEFINE all == 0 .. r.total - 1
             n == r.total
             got == r.received
  <1>2. IsFiniteSet(all) /\ Cardinality(all) = n
    <2> DEFINE b == n - 1
    <2>1. b \in Int /\ all = 0 .. b /\ (IF 0 > b THEN 0 ELSE b - 0 + 1) = n
      BY <1>1
    <2> HIDE DEF b, all
    <2>2. IsFiniteSet(0 .. b) /\ Cardinality(0 .. b) = IF 0 > b THEN 0 ELSE b - 0 + 1
      BY <2>1, FS_Interval
    <2> QED
      BY <2>1, <2>2
  <1>3. /\ IsFiniteSet(got) /\ Cardinality(got) <= n
        /\ Cardinality(got) = n => got = all
    BY <1>1, <1>2, FS_Subset
  <1>4. Cardinality(got) \in Nat
    BY <1>3, FS_CardinalityType
  <1>5. got = all => Cardinality(got) = n
    BY <1>2
  <1> HIDE DEF all, n, got
  <1>6. n \in Nat
    BY <1>1 DEF n
  <1>7. /\ n - Cardinality(got) \in Nat
        /\ n - Cardinality(got) = 0 <=> got = all
        /\ n - Cardinality(got) > 0 <=> ~(n - Cardinality(got) = 0)
    BY <1>3, <1>4, <1>5, <1>6
  <1> QED
    BY <1>7 DEF Missing, Complete, Incomplete, all, n, got

\* What accepts a fragment is incomplete, and is not after its last one.
LEMMA AcceptsIncomplete ==
  ASSUME NEW r \in Reassemblers, NEW d \in Fragment, Accepts(r, d)
  PROVE  ~Complete(r) /\ r.total > 0
  <1>1. d.index \in Nat /\ d.index < r.total /\ r.total \in Nat
    BY SizesType DEF Accepts, Reassemblers, Fragment
  <1>2. d.index \in 0 .. r.total - 1 /\ d.index \notin r.received
    BY <1>1 DEF Accepts
  <1> QED
    BY <1>1, <1>2, NothingMissing

\* A record of one outcome counts one.
LEMMA RecordCounts ==
  ASSUME NEW s \in Stats, NEW outcome \in {"completed", "dropped"}
  PROVE  /\ Record(s, outcome) \in Stats
         /\ Record(s, outcome).completed + Record(s, outcome).dropped
              + Record(s, outcome).reported
            = s.completed + s.dropped + s.reported + 1
  <1> DEFINE c == IF outcome = "completed" THEN s.completed + 1 ELSE s.completed
             n == IF outcome = "dropped" THEN s.dropped + 1 ELSE s.dropped
             o == s.outcomes + 1
  <1>1. /\ s.completed \in Nat /\ s.dropped \in Nat /\ s.reported \in Nat
        /\ s.outcomes \in 0 .. ReportEvery - 1
    BY DEF Stats
  <1>2. /\ c \in Nat /\ n \in Nat /\ c + n = s.completed + s.dropped + 1
        /\ o \in Nat /\ o <= ReportEvery
    BY <1>1, SizesType
  <1>3. [s EXCEPT ![outcome] = @ + 1, !.outcomes = @ + 1]
          = [completed |-> c, dropped |-> n, outcomes |-> o, reported |-> s.reported]
    <2> DEFINE s1 == [s EXCEPT ![outcome] = @ + 1]
    <2>1. s1 = [completed |-> c, dropped |-> n, outcomes |-> s.outcomes,
                reported |-> s.reported]
      <3>1. CASE outcome = "completed"
        <4>1. s1 = [s EXCEPT !.completed = @ + 1]
          BY <3>1
        <4>2. c = s.completed + 1 /\ n = s.dropped + 0
          BY <1>1, <3>1
        <4> HIDE DEF c, n, s1
        <4> QED
          BY <1>1, <4>1, <4>2 DEF Stats
      <3>2. CASE outcome = "dropped"
        <4>1. s1 = [s EXCEPT !.dropped = @ + 1]
          BY <3>2
        <4>2. c = s.completed + 0 /\ n = s.dropped + 1
          BY <1>1, <3>2
        <4> HIDE DEF c, n, s1
        <4> QED
          BY <1>1, <4>1, <4>2 DEF Stats
      <3> QED
        BY <3>1, <3>2
    <2>2. [s EXCEPT ![outcome] = @ + 1, !.outcomes = @ + 1]
            = [s1 EXCEPT !.outcomes = o]
      BY DEF Stats
    <2> HIDE DEF s1, c, n, o
    <2>3. [s1 EXCEPT !.outcomes = o]
            = [completed |-> c, dropped |-> n, outcomes |-> o, reported |-> s.reported]
      BY <2>1
    <2> QED
      BY <2>2, <2>3
  <1> HIDE DEF c, n, o
  <1>4. Record(s, outcome)
          = IF o # ReportEvery
            THEN [completed |-> c, dropped |-> n, outcomes |-> o, reported |-> s.reported]
            ELSE [completed |-> 0, dropped |-> 0, outcomes |-> 0,
                  reported |-> s.reported + c + n]
    BY <1>3 DEF Record
  <1> QED
    BY <1>1, <1>2, <1>4, SizesType DEF Stats

-----------------------------------------------------------------------------
(* The inductive invariant                                                 *)

\* The network keeps fragments of the last frames sent only.
InFlight ==
  \A d \in network : d.unit <= serial /\ serial < d.unit + Lifetime

\* The run of the sender numbers its frames on from some ID; the first run
\* begins with 0.
NumberedFrom(base) ==
  /\ restarts = 0 => base = 0
  /\ senderUp => frameId = (serial + base) % IdRange
  /\ \A d \in network : d.id = (d.unit - 1 + base) % IdRange

Numbered == \E base \in Int : NumberedFrom(base)

\* Whatever completes the frame in progress or replaces it is newer than the
\* last frame with a receipt.
Awaited(d) ==
  \/ d.id = reassembler.frameId /\ ~Complete(reassembler)
  \/ IsNewerFrame(reassembler, d.id)

AheadOfReceipts == \A d \in network : Awaited(d) => echoed.last < d.unit

\* What is shown has a receipt, and what waits for the window comes after it.
ShownBehind ==
  /\ echoed.last <= serial /\ shown <= echoed.last
  /\ \/ channel = <<>>
     \/ \E u \in 1 .. echoed.last : channel = <<u>> /\ shown < u
  /\ sink = "stdout" => channel = <<>>

\* In the first run the frame in progress is the newest heard of, and all that
\* was received of it is its own.
NewestInProgress ==
  restarts = 0 =>
    /\ reassembler.frameId = (heard - 1) % IdRange
    /\ \A i \in reassembler.received : reassembler.buf[i] = heard

Typed == TypeOK /\ reassembler \in Reassemblers

RawInv ==
  /\ Typed /\ InFlight /\ Numbered /\ AheadOfReceipts /\ ShownBehind
  /\ NewestInProgress

-----------------------------------------------------------------------------
LEMMA FragmentType ==
  ASSUME NEW d \in Fragment
  PROVE  /\ d.unit \in Nat /\ d.unit > 0 /\ d.unit <= MaxFrames
         /\ d.id \in 0 .. IdRange - 1 /\ d.index \in Nat
         /\ d.total \in Sizes /\ d.total \in Nat /\ d.total > 0
  BY SizesType DEF Fragment

LEMMA InitRaw == Init => RawInv
  <1> SUFFICES ASSUME Init PROVE RawInv
    OBVIOUS
  <1>1. Typed
    <2>1. reassembler \in Reassemblers
      BY NewTyped DEF Init
    <2>2. reassembler = NewReassembler
      BY DEF Init
    <2>3. /\ reassembler.frameId \in 0 .. IdRange - 1
          /\ reassembler.shape \in Streams \cup {NoShape}
          /\ reassembler.total \in Sizes \cup {0}
          /\ reassembler.received \subseteq 0 .. reassembler.total - 1
      BY <2>1 DEF Reassemblers
    <2>4. channel \in Seq(1 .. MaxFrames)
      BY DEF Init
    <2>5. stats \in [completed : Nat, dropped : Nat, outcomes : 0 .. ReportEvery - 1,
                     reported : Nat]
      BY SizesType DEF Init
    <2>6. echoed \in [count : Nat, last : 0 .. serial]
      BY DEF Init
    <2>7. /\ serial \in 0 .. MaxFrames /\ frameId \in 0 .. IdRange - 1
          /\ stream \in Streams /\ restarts \in 0 .. MaxRestarts
          /\ {senderUp, receiverUp} \subseteq BOOLEAN
          /\ network \subseteq Fragment /\ heard \in 0 .. serial
          /\ taken \in Nat /\ sink \in {"window", "stdout"} /\ shown \in 0 .. serial
      BY SizesType, IdRangeType DEF Init
    <2> QED
      BY <2>1, <2>3, <2>4, <2>5, <2>6, <2>7 DEF Typed, TypeOK
  <1>2. InFlight /\ AheadOfReceipts
    BY DEF Init, InFlight, AheadOfReceipts
  <1>3. Numbered
    <2>1. 0 % IdRange = 0
      <3>1. 0 = 0 * IdRange + 0
        BY IdRangeType
      <3> QED
        BY <3>1, IdRangeType, RemainderIs
    <2>2. NumberedFrom(0)
      BY <2>1 DEF Init, NumberedFrom
    <2> QED
      BY <2>2 DEF Numbered
  <1>4. ShownBehind
    BY DEF Init, ShownBehind
  <1>5. NewestInProgress
    <2>1. (0 - 1) % IdRange = IdRange - 1
      <3>1. 0 - 1 = (-1) * IdRange + (IdRange - 1) /\ IdRange - 1 \in Nat
        BY IdRangeType
      <3> QED
        BY <3>1, IdRangeType, RemainderIs
    <2> QED
      BY <2>1 DEF Init, NewReassembler, NewestInProgress
  <1> QED
    BY <1>1, <1>2, <1>3, <1>4, <1>5 DEF RawInv

\* What the network holds after a frame or a part of one went out.
LEMMA Sent ==
  ASSUME RawInv, NEW total \in Sizes, NEW count \in 0 .. total, Transmit(total, count),
         NEW d \in network'
  PROVE  /\ d \in Fragment
         /\ \/ d \in network /\ serial + 1 < d.unit + Lifetime
            \/ d.unit = serial + 1 /\ d.id = frameId
  <1>1. serial \in Nat /\ serial < MaxFrames /\ serial' = serial + 1
    BY SizesType DEF RawInv, Typed, TypeOK, Transmit
  <1>2. CASE d \in network
    <2>1. d \in Fragment /\ d.unit \in Nat
      BY <1>2, FragmentType DEF RawInv, Typed, TypeOK
    <2>2. d.unit > serial + 1 - Lifetime \/ d \in Fragments(total, count)
      BY DEF Transmit
    <2>3. d \in Fragments(total, count) => d.unit = serial + 1 /\ d.id = frameId
      BY DEF Fragments
    <2> QED
      BY <1>1, <1>2, <2>1, <2>2, <2>3, IdRangeType
  <1>3. CASE d \in Fragments(total, count)
    <2>1. PICK i \in 0 .. count - 1 :
            d = [id |-> frameId, shape |-> stream, index |-> i, total |-> total,
                 unit |-> serial + 1]
      BY <1>3 DEF Fragments
    <2>2. i \in 0 .. MaxChunks - 1
      BY SizesType
    <2>3. frameId \in 0 .. IdRange - 1 /\ stream \in Streams /\ serial + 1 \in 1 .. MaxFrames
      BY <1>1, SizesType DEF RawInv, Typed, TypeOK
    <2> QED
      BY <2>1, <2>2, <2>3 DEF Fragment
  <1> QED
    BY <1>2, <1>3 DEF Transmit

LEMMA SendRaw == RawInv /\ (SendFrame \/ SendFails) => RawInv'
  <1> SUFFICES ASSUME RawInv, SendFrame \/ SendFails PROVE RawInv'
    OBVIOUS
  <1>1. PICK total \in Sizes, count \in Nat :
          /\ count \in 0 .. total /\ Transmit(total, count) /\ senderUp
          /\ senderUp' => frameId' = (frameId + 1) % IdRange
          /\ frameId' \in {frameId, (frameId + 1) % IdRange}
          /\ senderUp' \in {senderUp, FALSE}
    <2>1. CASE SendFrame
      <3>1. PICK total \in Sizes : Transmit(total, total)
        BY <2>1 DEF SendFrame
      <3>2. total \in Nat /\ total \in 0 .. total
        BY SizesType
      <3> QED
        BY <2>1, <3>1, <3>2 DEF SendFrame, Transmit
    <2>2. CASE SendFails
      <3>1. PICK total \in Sizes, count \in Nat :
              count \in 0 .. total - 1 /\ Transmit(total, count)
        BY <2>2 DEF SendFails
      <3>2. count \in 0 .. total
        BY <3>1, SizesType
      <3> QED
        BY <2>2, <3>1, <3>2 DEF SendFails, Transmit
    <2> QED
      BY <2>1, <2>2
  <1>2. /\ serial' = serial + 1 /\ serial \in Nat /\ serial' \in 0 .. MaxFrames
        /\ UNCHANGED <<stream, restarts, receiverVars, sinkVars>>
    BY <1>1, SizesType DEF Transmit, RawInv, Typed, TypeOK
  <1>3. /\ UNCHANGED <<heard, receiverUp, reassembler, stats, taken, echoed>>
        /\ UNCHANGED <<sink, channel, shown>>
    BY <1>2 DEF receiverVars, sinkVars
  <1>4. \A d \in network' :
          /\ d \in Fragment
          /\ \/ d \in network /\ serial + 1 < d.unit + Lifetime
             \/ d.unit = serial + 1 /\ d.id = frameId
    BY <1>1, Sent
  <1>5. Typed'
    <2>1. frameId' \in 0 .. IdRange - 1
      <3>1. frameId \in 0 .. IdRange - 1
        BY DEF RawInv, Typed, TypeOK
      <3>2. (frameId + 1) % IdRange \in 0 .. IdRange - 1
        BY <3>1, IdRangeType, Division
      <3> QED
        BY <1>1, <3>1, <3>2
    <2>2. senderUp' \in BOOLEAN
      BY <1>1 DEF RawInv, Typed, TypeOK
    <2>3. heard' \in 0 .. serial' /\ echoed' \in [count : Nat, last : 0 .. serial']
          /\ shown' \in 0 .. serial'
      <3>1. /\ heard \in 0 .. serial /\ shown \in 0 .. serial
            /\ echoed \in [count : Nat, last : 0 .. serial]
        BY DEF RawInv, Typed, TypeOK
      <3> QED
        BY <1>2, <1>3, <3>1
    <2> QED
      BY <1>2, <1>3, <1>4, <2>1, <2>2, <2>3 DEF RawInv, Typed, TypeOK
  <1>6. InFlight'
    BY <1>2, <1>4, FragmentType, IdRangeType DEF RawInv, InFlight
  <1>7. Numbered'
    <2>1. PICK base \in Int : NumberedFrom(base)
      BY DEF RawInv, Numbered
    <2>2. frameId = (serial + base) % IdRange
      BY <1>1, <2>1 DEF NumberedFrom
    <2>3. (frameId + 1) % IdRange = (serial' + base) % IdRange
      <3>1. (((serial + base) % IdRange) + 1) % IdRange = (serial + base + 1) % IdRange
        <4> DEFINE m == serial + base
        <4>1. m \in Int
          BY <1>2, <2>1
        <4> HIDE DEF m
        <4>2. ((m % IdRange) + 1) % IdRange = (m + 1) % IdRange
          BY <4>1, IdRangeType, RemainderCounts
        <4> QED
          BY <4>2 DEF m
      <3>2. serial + base + 1 = serial' + base
        BY <1>2, <2>1
      <3> QED
        BY <2>2, <3>1, <3>2
    <2>4. \A d \in network' : d.id = (d.unit - 1 + base) % IdRange
      <3> TAKE d \in network'
      <3>1. CASE d \in network
        BY <2>1, <3>1 DEF NumberedFrom
      <3>2. CASE d.unit = serial + 1 /\ d.id = frameId
        <4>1. d.unit - 1 + base = serial + base
          BY <1>2, <2>1, <3>2
        <4> QED
          BY <2>2, <3>2, <4>1
      <3> QED
        BY <1>4, <3>1, <3>2
    <2>5. NumberedFrom(base)'
      BY <1>1, <1>2, <2>1, <2>3, <2>4 DEF NumberedFrom
    <2> QED
      BY <2>1, <2>5 DEF Numbered
  <1>8. AheadOfReceipts'
    <2> SUFFICES ASSUME NEW d \in network', Awaited(d)' PROVE echoed'.last < d.unit
      BY DEF AheadOfReceipts
    <2>1. Awaited(d)
      BY <1>3 DEF Awaited, IsNewerFrame, Complete, Missing
    <2>2. echoed.last \in Nat /\ echoed.last <= serial
      BY DEF RawInv, Typed, TypeOK, ShownBehind
    <2> QED
      BY <1>2, <1>3, <1>4, <2>1, <2>2 DEF RawInv, AheadOfReceipts
  <1>9. ShownBehind' /\ NewestInProgress'
    <2>1. echoed.last \in Nat
      BY DEF RawInv, Typed, TypeOK
    <2> QED
      BY <1>2, <1>3, <2>1 DEF RawInv, ShownBehind, NewestInProgress
  <1> QED
    BY <1>5, <1>6, <1>7, <1>8, <1>9 DEF RawInv

\* A restart empties the network; the receiver keeps its frame.
LEMMA RestartRaw == RawInv /\ Restart => RawInv'
  <1> SUFFICES ASSUME RawInv, Restart PROVE RawInv'
    OBVIOUS
  <1>1. /\ restarts' = restarts + 1 /\ restarts' \in 0 .. MaxRestarts /\ restarts' # 0
        /\ network' = {} /\ frameId' = 0 /\ stream' \in Streams /\ senderUp' = TRUE
        /\ serial \in Nat
        /\ UNCHANGED <<serial, heard, receiverUp, reassembler, stats, taken, echoed>>
        /\ UNCHANGED <<sink, channel, shown>>
    BY SizesType DEF Restart, receiverVars, sinkVars, RawInv, Typed, TypeOK
  <1>2. Typed'
    BY <1>1, IdRangeType DEF RawInv, Typed, TypeOK
  <1>3. InFlight' /\ AheadOfReceipts' /\ NewestInProgress'
    BY <1>1 DEF InFlight, AheadOfReceipts, NewestInProgress
  <1>4. Numbered'
    <2>1. PICK base \in Int : serial + base = 0
      <3>1. 0 - serial \in Int /\ serial + (0 - serial) = 0
        BY <1>1
      <3> QED
        BY <3>1
    <2>2. 0 % IdRange = 0
      <3>1. 0 = 0 * IdRange + 0
        BY IdRangeType
      <3> QED
        BY <3>1, IdRangeType, RemainderIs
    <2>3. NumberedFrom(base)'
      BY <1>1, <2>1, <2>2 DEF NumberedFrom
    <2> QED
      BY <2>1, <2>3 DEF Numbered
  <1>5. ShownBehind'
    BY <1>1 DEF RawInv, ShownBehind
  <1> QED
    BY <1>2, <1>3, <1>4, <1>5 DEF RawInv

\* The window takes what waits for it, or closes.
LEMMA WindowRaw == RawInv /\ (Present \/ CloseWindow \/ UNCHANGED vars) => RawInv'
  <1> SUFFICES ASSUME RawInv, Present \/ CloseWindow \/ UNCHANGED vars PROVE RawInv'
    OBVIOUS
  <1>1. /\ UNCHANGED <<serial, frameId, stream, senderUp, restarts, network, heard>>
        /\ UNCHANGED <<reassembler, stats, taken, echoed, sink>>
        /\ receiverUp' \in {receiverUp, FALSE}
    BY DEF Present, CloseWindow, vars, senderVars, receiverVars, sinkVars
  <1>2. /\ echoed.last \in Nat /\ serial \in Nat /\ receiverUp \in BOOLEAN
        /\ serial <= MaxFrames /\ channel \in Seq(1 .. MaxFrames) /\ shown \in 0 .. serial
    BY SizesType DEF RawInv, Typed, TypeOK
  <1>3. /\ shown' \in 0 .. serial /\ channel' \in Seq(1 .. MaxFrames)
        /\ ShownBehind'
    <2>1. CASE channel # <<>> /\ shown' = Head(channel) /\ channel' = Tail(channel)
      <3>1. PICK u \in 1 .. echoed.last : channel = <<u>> /\ shown < u
        BY <2>1 DEF RawInv, ShownBehind
      <3>2. shown' = u /\ channel' = <<>>
        BY <2>1, <3>1
      <3> QED
        BY <1>1, <1>2, <3>1, <3>2 DEF RawInv, ShownBehind
    <2>2. CASE shown' = shown /\ channel' = <<>>
      BY <1>1, <1>2, <2>2 DEF RawInv, ShownBehind
    <2>3. CASE shown' = shown /\ channel' = channel
      BY <1>1, <1>2, <2>3 DEF RawInv, ShownBehind
    <2> QED
      BY <2>1, <2>2, <2>3 DEF Present, CloseWindow, vars, sinkVars
  <1>4. Typed'
    BY <1>1, <1>2, <1>3 DEF RawInv, Typed, TypeOK
  <1>5. InFlight' /\ Numbered'
    BY <1>1 DEF RawInv, InFlight, Numbered, NumberedFrom
  <1>6. AheadOfReceipts' /\ NewestInProgress'
    BY <1>1 DEF RawInv, AheadOfReceipts, Awaited, IsNewerFrame, Complete, Missing,
       NewestInProgress
  <1> QED
    BY <1>3, <1>4, <1>5, <1>6 DEF RawInv

-----------------------------------------------------------------------------
(* What IDs say of fragments that are close to each other                  *)

\* Among the fragments in flight the IDs tell the frames apart and order them.
LEMMA InFlightOrder ==
  ASSUME RawInv, NEW d \in network, NEW e \in network
  PROVE  /\ d.id = e.id => d.unit = e.unit
         /\ e.id # d.id /\ (e.id - d.id) % IdRange < IdRange \div 2 => d.unit < e.unit
  <1>1. PICK base \in Int : NumberedFrom(base)
    BY DEF RawInv, Numbered
  <1> DEFINE m == d.unit - 1 + base
             n == e.unit - 1 + base
  <1>2. d.unit \in Nat /\ e.unit \in Nat
    BY FragmentType DEF RawInv, Typed, TypeOK
  <1>3. m \in Int /\ n \in Int /\ m - n = d.unit - e.unit
    BY <1>1, <1>2
  <1>4. d.id = m % IdRange /\ e.id = n % IdRange
    BY <1>1 DEF NumberedFrom
  <1>5. d.unit - e.unit < Lifetime /\ e.unit - d.unit < Lifetime
    <2>1. serial \in Nat
      BY SizesType DEF RawInv, Typed, TypeOK
    <2>2. /\ d.unit <= serial /\ serial < d.unit + Lifetime
          /\ e.unit <= serial /\ serial < e.unit + Lifetime
      BY DEF RawInv, InFlight
    <2> QED
      BY <1>2, <2>1, <2>2, IdRangeType
  <1>6. m = n => d.unit = e.unit
    BY <1>1, <1>2
  <1>7. m < n => d.unit < e.unit
    BY <1>1, <1>2
  <1> HIDE DEF m, n
  <1>8. m - n < IdRange /\ n - m < IdRange /\ m - n <= IdRange \div 2
    BY <1>2, <1>3, <1>5, IdRangeType
  <1>9. m % IdRange = n % IdRange => m = n
    BY <1>3, <1>8, IdRangeType, SameRemainder
  <1>10. n % IdRange # m % IdRange
           /\ ((n % IdRange) - (m % IdRange)) % IdRange < IdRange \div 2 => m < n
    BY <1>3, <1>8, IdRangeType, NewerIsAhead
  <1> QED
    BY <1>4, <1>6, <1>7, <1>9, <1>10

\* In the first run they compare a fragment with the frame in progress.
LEMMA FirstRunOrder ==
  ASSUME RawInv, restarts = 0, NEW d \in network, d.unit - heard < IdRange \div 2
  PROVE  /\ d.id = reassembler.frameId => d.unit = heard
         /\ IsNewerFrame(reassembler, d.id) <=> heard < d.unit
  <1> DEFINE m == heard - 1
             n == d.unit - 1
  <1>1. heard \in Nat /\ d.unit \in Nat /\ heard <= serial /\ serial \in Nat
    BY FragmentType DEF RawInv, Typed, TypeOK
  <1>2. m \in Int /\ n \in Int /\ n - m = d.unit - heard
    BY <1>1
  <1>3. reassembler.frameId = m % IdRange
    BY DEF RawInv, NewestInProgress
  <1>4. d.id = n % IdRange
    <2>1. PICK base \in Int : NumberedFrom(base)
      BY DEF RawInv, Numbered
    <2>2. base = 0 /\ d.id = (d.unit - 1 + base) % IdRange
      BY <2>1 DEF NumberedFrom
    <2>3. d.unit - 1 + base = n
      BY <1>1, <2>2
    <2> QED
      BY <2>2, <2>3
  <1>5. heard - d.unit < Lifetime
    BY <1>1, IdRangeType DEF RawInv, InFlight
  <1>6. (m = n => d.unit = heard) /\ (m < n <=> heard < d.unit)
    BY <1>1
  <1> HIDE DEF m, n
  <1>7. /\ m - n < IdRange /\ n - m < IdRange /\ n - m < IdRange \div 2
        /\ m - n <= IdRange \div 2
    BY <1>1, <1>2, <1>5, IdRangeType
  <1>8. m % IdRange = n % IdRange => m = n
    BY <1>2, <1>7, IdRangeType, SameRemainder
  <1>9. n % IdRange # m % IdRange
          /\ ((n % IdRange) - (m % IdRange)) % IdRange < IdRange \div 2 => m < n
    BY <1>2, <1>7, IdRangeType, NewerIsAhead
  <1>10. m < n => n % IdRange # m % IdRange
          /\ ((n % IdRange) - (m % IdRange)) % IdRange < IdRange \div 2
    BY <1>2, <1>7, IdRangeType, AheadIsNewer
  <1> QED
    BY <1>3, <1>4, <1>6, <1>8, <1>9, <1>10 DEF IsNewerFrame

-----------------------------------------------------------------------------
(* The steps of the receiver                                               *)

\* A fragment that leaves the reassembler alone.
LEMMA QuietRaw ==
  ASSUME RawInv, NEW d \in network, ReceiveUseless(d) \/ ReceiveLate(d)
  PROVE  RawInv'
  <1>1. /\ UNCHANGED <<serial, frameId, stream, senderUp, restarts, network, sink>>
        /\ UNCHANGED <<receiverUp, reassembler, stats, taken, echoed, channel, shown>>
        /\ d.unit - heard < IdRange \div 2
        /\ heard' = IF d.unit > heard THEN d.unit ELSE heard
        /\ d.id = reassembler.frameId \/ ~IsNewerFrame(reassembler, d.id)
    BY DEF ReceiveUseless, ReceiveLate, Arrive, senderVars
  <1>2. /\ heard \in Nat /\ d.unit \in Nat /\ d.unit <= serial /\ serial \in Nat
        /\ heard <= serial
    BY FragmentType, SizesType DEF RawInv, Typed, TypeOK, InFlight
  <1>3. heard' \in 0 .. serial
    BY <1>1, <1>2
  <1>4. Typed'
    BY <1>1, <1>3 DEF RawInv, Typed, TypeOK
  <1>5. InFlight' /\ Numbered' /\ ShownBehind'
    BY <1>1 DEF RawInv, InFlight, Numbered, NumberedFrom, ShownBehind
  <1>6. AheadOfReceipts'
    BY <1>1 DEF RawInv, AheadOfReceipts, Awaited, IsNewerFrame, Complete, Missing
  <1>7. NewestInProgress'
    <2> SUFFICES ASSUME restarts = 0 PROVE heard' = heard
      BY <1>1 DEF RawInv, NewestInProgress
    <2>1. d.unit <= heard
      BY <1>1, <1>2, FirstRunOrder
    <2> QED
      BY <1>1, <1>2, <2>1
  <1> QED
    BY <1>4, <1>5, <1>6, <1>7 DEF RawInv

\* RecordAbandoned counts the frame given up.
LEMMA AbandonedCounts ==
  ASSUME RawInv
  PROVE  /\ RecordAbandoned(stats) \in Stats
         /\ RecordAbandoned(stats).completed + RecordAbandoned(stats).dropped
              + RecordAbandoned(stats).reported
            = stats.completed + stats.dropped + stats.reported
                + (IF Incomplete(reassembler) THEN 1 ELSE 0)
  <1>1. stats \in Stats
    BY DEF RawInv, Typed, TypeOK, Stats
  <1>2. stats.completed + stats.dropped + stats.reported \in Nat
    BY <1>1 DEF Stats
  <1>3. CASE Incomplete(reassembler)
    BY <1>1, <1>3, RecordCounts DEF RecordAbandoned
  <1>4. CASE ~Incomplete(reassembler)
    BY <1>1, <1>2, <1>4 DEF RecordAbandoned
  <1> QED
    BY <1>3, <1>4

\* A fragment is added to the frame in progress or to a new one.
LEMMA TakenUp ==
  ASSUME RawInv, NEW d \in network, ReceiveCurrent(d) \/ ReceiveNewer(d)
  PROVE  \E r \in Reassemblers, s \in Stats :
           /\ AddFragment(r, d, s) /\ r.frameId = d.id
           /\ \/ /\ r = reassembler /\ s = stats /\ taken' = taken
              \/ /\ IsNewerFrame(reassembler, d.id)
                 /\ r = Reset(reassembler, d) /\ s = RecordAbandoned(stats)
                 /\ taken' = taken + 1
  <1>1. d \in Fragment /\ reassembler \in Reassemblers
    BY DEF RawInv, Typed, TypeOK
  <1>2. CASE ReceiveCurrent(d)
    <2>1. stats \in Stats
      BY DEF RawInv, Typed, TypeOK, Stats
    <2> QED
      BY <1>1, <1>2, <2>1 DEF ReceiveCurrent
  <1>3. CASE ReceiveNewer(d)
    <2>1. Reset(reassembler, d) \in Reassemblers /\ Reset(reassembler, d).frameId = d.id
      BY <1>1, ResetTyped
    <2> QED
      BY <1>3, <2>1, AbandonedCounts DEF ReceiveNewer
  <1> QED
    BY <1>2, <1>3

\* What a completed frame may lead to: a receipt, and one place to show it.
LEMMA FinishEffect ==
  ASSUME NEW r, NEW d, NEW s, AddFragment(r, d, s)
  PROVE  \/ echoed' = echoed /\ receiverUp' = receiverUp /\ channel' = channel
              /\ shown' = shown
         \/ /\ Complete(Add(r, d))
            /\ echoed' = [count |-> echoed.count + 1, last |-> d.unit]
            /\ echoed'.last = d.unit
            /\ receiverUp' \in {receiverUp, FALSE}
            /\ \/ channel' = channel /\ shown' = shown
               \/ sink = "window" /\ channel = <<>> /\ channel' = <<d.unit>>
                    /\ shown' = shown
               \/ sink = "stdout" /\ shown' = d.unit /\ channel' = channel
  <1>1. CASE UNCHANGED <<echoed, receiverUp, channel, shown>>
    BY <1>1
  <1>2. CASE /\ Complete(Add(r, d)) /\ Show(d)
             /\ echoed' = [count |-> echoed.count + 1, last |-> d.unit]
    <2>1. echoed'.last = d.unit
      <3> DEFINE receipt == [count |-> echoed.count + 1, last |-> d.unit]
      <3>1. echoed' = receipt /\ receipt.last = d.unit
        BY <1>2
      <3> HIDE DEF receipt
      <3> QED
        BY <3>1
    <2>2. /\ receiverUp' \in {receiverUp, FALSE}
          /\ \/ channel' = channel /\ shown' = shown
             \/ sink = "window" /\ channel = <<>> /\ channel' = <<d.unit>>
                  /\ shown' = shown
             \/ sink = "stdout" /\ shown' = d.unit /\ channel' = channel
      BY <1>2 DEF Show
    <2> QED
      BY <1>2, <2>1, <2>2
  <1> QED
    BY <1>1, <1>2 DEF AddFragment, Finish

\* What is added to was awaited, so it is ahead of every receipt.
LEMMA TakenAhead ==
  ASSUME RawInv, NEW d \in network, ReceiveCurrent(d) \/ ReceiveNewer(d)
  PROVE  echoed.last < d.unit
  <1>1. d \in Fragment /\ reassembler \in Reassemblers
    BY DEF RawInv, Typed, TypeOK
  <1>2. Awaited(d)
    <2>1. CASE ReceiveCurrent(d)
      <3>1. d.id = reassembler.frameId /\ Accepts(reassembler, d)
        BY <2>1 DEF ReceiveCurrent, AddFragment
      <3> QED
        BY <1>1, <3>1, AcceptsIncomplete DEF Awaited
    <2>2. CASE ReceiveNewer(d)
      BY <2>2 DEF ReceiveNewer, Awaited
    <2> QED
      BY <2>1, <2>2
  <1> QED
    BY <1>2 DEF RawInv, AheadOfReceipts

\* A fragment that is added keeps the invariant.
LEMMA TakeRaw ==
  ASSUME RawInv, NEW d \in network, ReceiveCurrent(d) \/ ReceiveNewer(d)
  PROVE  RawInv'
  <1>1. PICK r \in Reassemblers, s \in Stats :
          /\ AddFragment(r, d, s) /\ r.frameId = d.id
          /\ \/ /\ r = reassembler /\ s = stats /\ taken' = taken
             \/ /\ IsNewerFrame(reassembler, d.id)
                /\ r = Reset(reassembler, d) /\ s = RecordAbandoned(stats)
                /\ taken' = taken + 1
    BY TakenUp
  <1> DEFINE a == Add(r, d)
  <1>2. d \in Fragment /\ reassembler \in Reassemblers /\ Accepts(r, d)
    BY <1>1 DEF RawInv, Typed, TypeOK, AddFragment
  <1>3. /\ a \in Reassemblers /\ a.frameId = d.id
        /\ a.received = r.received \cup {d.index}
        /\ a.buf = [r.buf EXCEPT ![d.index] = d.unit]
        /\ reassembler' = a
    BY <1>1, <1>2, AddTyped DEF AddFragment
  <1>4. /\ UNCHANGED <<serial, frameId, stream, senderUp, restarts, network, sink>>
        /\ d.unit - heard < IdRange \div 2
        /\ heard' = IF d.unit > heard THEN d.unit ELSE heard
        /\ taken' \in {taken, taken + 1}
    BY <1>1 DEF ReceiveCurrent, ReceiveNewer, Arrive, senderVars
  <1>5. stats' \in Stats
    <2>1. stats' = s \/ stats' = Record(s, "completed")
      BY <1>1 DEF AddFragment
    <2> QED
      BY <1>1, <2>1, RecordCounts
  <1>6. \/ echoed' = echoed /\ receiverUp' = receiverUp /\ channel' = channel
             /\ shown' = shown
        \/ /\ Complete(a)
           /\ echoed' = [count |-> echoed.count + 1, last |-> d.unit]
           /\ echoed'.last = d.unit
           /\ receiverUp' \in {receiverUp, FALSE}
           /\ \/ channel' = channel /\ shown' = shown
              \/ sink = "window" /\ channel = <<>> /\ channel' = <<d.unit>>
                   /\ shown' = shown
              \/ sink = "stdout" /\ shown' = d.unit /\ channel' = channel
    BY <1>1, FinishEffect
  <1>7. /\ serial \in Nat /\ heard \in 0 .. serial /\ taken \in Nat /\ shown \in 0 .. serial
        /\ echoed \in [count : Nat, last : 0 .. serial] /\ receiverUp \in BOOLEAN
        /\ channel \in Seq(1 .. MaxFrames) /\ serial <= MaxFrames
        /\ d.unit \in 1 .. serial /\ d.unit \in 1 .. MaxFrames
    <2>1. /\ serial \in 0 .. MaxFrames /\ heard \in 0 .. serial /\ taken \in Nat
          /\ shown \in 0 .. serial /\ echoed \in [count : Nat, last : 0 .. serial]
          /\ receiverUp \in BOOLEAN /\ channel \in Seq(1 .. MaxFrames)
      BY DEF RawInv, Typed, TypeOK
    <2>2. d.unit \in 1 .. MaxFrames
      BY <1>2, FragmentType
    <2>3. d.unit <= serial
      BY DEF RawInv, InFlight
    <2> QED
      BY <2>1, <2>2, <2>3, SizesType
  <1>8. echoed.last < d.unit /\ echoed.last \in Nat
    BY <1>7, TakenAhead
  <1> HIDE DEF a
  <1>9. /\ receiverUp' \in BOOLEAN /\ echoed' \in [count : Nat, last : 0 .. serial]
        /\ heard' \in 0 .. serial /\ taken' \in Nat
    <2>1. receiverUp' \in BOOLEAN
      BY <1>6, <1>7
    <2>2. heard' \in 0 .. serial /\ taken' \in Nat
      BY <1>4, <1>7
    <2>3. echoed.count + 1 \in Nat /\ d.unit \in 0 .. serial
      BY <1>7
    <2>4. [count |-> echoed.count + 1, last |-> d.unit] \in [count : Nat, last : 0 .. serial]
      BY <2>3
    <2>5. echoed' \in [count : Nat, last : 0 .. serial]
      BY <1>6, <1>7, <2>4
    <2> QED
      BY <2>1, <2>2, <2>5
  <1>10. /\ channel' \in Seq(1 .. MaxFrames) /\ shown' \in 0 .. serial
         /\ ShownBehind'
    <2>1. shown <= echoed.last /\ (sink = "stdout" => channel = <<>>)
      BY DEF RawInv, ShownBehind
    <2>2. CASE echoed' = echoed /\ channel' = channel /\ shown' = shown
      BY <1>4, <1>7, <2>2 DEF RawInv, ShownBehind
    <2>3. CASE echoed'.last = d.unit /\ channel' = channel /\ shown' = shown
      <3>1. CASE channel = <<>>
        BY <1>4, <1>7, <1>8, <2>1, <2>3, <3>1 DEF ShownBehind
      <3>2. ASSUME NEW u \in 1 .. echoed.last, channel = <<u>>, shown < u
            PROVE  u \in 1 .. d.unit
        BY <1>7, <1>8, <3>2
      <3> QED
        BY <1>4, <1>7, <1>8, <2>1, <2>3, <3>1, <3>2 DEF RawInv, ShownBehind
    <2>4. CASE echoed'.last = d.unit /\ sink = "window" /\ channel' = <<d.unit>>
                 /\ shown' = shown
      <3>1. d.unit \in 1 .. d.unit /\ shown < d.unit
        BY <1>7, <1>8, <2>1
      <3> QED
        BY <1>4, <1>7, <1>8, <2>1, <2>4, <3>1 DEF ShownBehind
    <2>5. CASE echoed'.last = d.unit /\ sink = "stdout" /\ shown' = d.unit
                 /\ channel' = channel
      BY <1>4, <1>7, <1>8, <2>1, <2>5 DEF ShownBehind
    <2> QED
      BY <1>6, <2>2, <2>3, <2>4, <2>5
  <1>11. Typed'
    <2>1. /\ reassembler'.frameId \in 0 .. IdRange - 1
          /\ reassembler'.shape \in Streams \cup {NoShape}
          /\ reassembler'.total \in Sizes \cup {0}
          /\ reassembler'.received \subseteq 0 .. reassembler'.total - 1
      BY <1>3 DEF Reassemblers
    <2> QED
      BY <1>3, <1>4, <1>5, <1>9, <1>10, <2>1 DEF RawInv, Typed, TypeOK, Stats
  <1>12. InFlight' /\ Numbered'
    BY <1>4 DEF RawInv, InFlight, Numbered, NumberedFrom
  <1>13. AheadOfReceipts'
    <2> SUFFICES ASSUME NEW e \in network,
                        \/ e.id = a.frameId /\ ~Complete(a)
                        \/ IsNewerFrame(a, e.id)
                 PROVE  echoed'.last < e.unit
      BY <1>3, <1>4 DEF AheadOfReceipts, Awaited, IsNewerFrame, Complete, Missing
    <2>1. CASE e.id = a.frameId /\ ~Complete(a)
      <3>1. e.unit = d.unit
        BY <1>3, <2>1, InFlightOrder
      <3> QED
        BY <1>6, <1>8, <2>1, <3>1
    <2>2. CASE IsNewerFrame(a, e.id)
      <3>1. d.unit < e.unit
        BY <1>3, <2>2, InFlightOrder DEF IsNewerFrame
      <3>2. e.unit \in Nat
        BY FragmentType DEF RawInv, Typed, TypeOK
      <3>3. echoed'.last = echoed.last \/ echoed'.last = d.unit
        BY <1>6
      <3> QED
        BY <1>7, <1>8, <3>1, <3>2, <3>3
    <2> QED
      BY <2>1, <2>2
  <1>14. NewestInProgress'
    <2> SUFFICES ASSUME restarts = 0
                 PROVE  /\ a.frameId = (heard' - 1) % IdRange
                        /\ \A i \in a.received : a.buf[i] = heard'
      BY <1>3, <1>4 DEF NewestInProgress
    <2>1. /\ heard' = d.unit
          /\ \A i \in r.received : r.buf[i] = d.unit
      <3>1. CASE r = reassembler
        <4>1. d.unit = heard
          BY <1>1, <1>4, <3>1, FirstRunOrder
        <4> QED
          BY <1>4, <1>7, <3>1, <4>1 DEF RawInv, NewestInProgress
      <3>2. CASE IsNewerFrame(reassembler, d.id) /\ r = Reset(reassembler, d)
        <4>1. heard < d.unit
          BY <1>4, <3>2, FirstRunOrder
        <4>2. r.received = {}
          BY <1>2, <3>2, ResetTyped
        <4> QED
          BY <1>4, <1>7, <4>1, <4>2
      <3> QED
        BY <1>1, <3>1, <3>2
    <2>2. d.id = (d.unit - 1) % IdRange
      <3>1. PICK base \in Int : NumberedFrom(base)
        BY DEF RawInv, Numbered
      <3>2. base = 0 /\ d.id = (d.unit - 1 + base) % IdRange
        BY <3>1 DEF NumberedFrom
      <3>3. d.unit - 1 + base = d.unit - 1
        BY <1>7, <3>2
      <3> QED
        BY <3>2, <3>3
    <2>3. ASSUME NEW i \in a.received PROVE a.buf[i] = d.unit
      <3>1. r.buf \in [0 .. MaxChunks - 1 -> Nat] /\ r.received \subseteq 0 .. MaxChunks - 1
        BY DEF Reassemblers
      <3>2. d.index \in 0 .. MaxChunks - 1
        BY <1>2 DEF Fragment
      <3>3. i \in r.received \cup {d.index} /\ a.buf = [r.buf EXCEPT ![d.index] = d.unit]
        BY <1>3, <2>3
      <3>4. \A k \in r.received : r.buf[k] = d.unit
        BY <2>1
      <3> QED
        BY <3>1, <3>2, <3>3, <3>4
    <2> QED
      BY <1>3, <2>1, <2>2, <2>3
  <1> QED
    BY <1>10, <1>11, <1>12, <1>13, <1>14 DEF RawInv

LEMMA NextRaw == RawInv /\ [Next]_vars => RawInv'
  <1> SUFFICES ASSUME RawInv, [Next]_vars PROVE RawInv'
    OBVIOUS
  <1>1. CASE SendFrame \/ SendFails
    BY <1>1, SendRaw
  <1>2. CASE Restart
    BY <1>2, RestartRaw
  <1>3. CASE Present \/ CloseWindow \/ UNCHANGED vars
    BY <1>3, WindowRaw
  <1>4. ASSUME NEW d \in network, ReceiveCurrent(d) \/ ReceiveNewer(d) PROVE RawInv'
    BY <1>4, TakeRaw
  <1>5. ASSUME NEW d \in network, ReceiveUseless(d) \/ ReceiveLate(d) PROVE RawInv'
    BY <1>5, QuietRaw
  <1> QED
    BY <1>1, <1>2, <1>3, <1>4, <1>5 DEF Next

LEMMA RawInvariant == Spec => []RawInv
  <1> QED
    BY InitRaw, NextRaw, PTL DEF Spec

-----------------------------------------------------------------------------
(* Theorems                                                                *)

\* Every field of the raw path keeps to what the code can store in it.
THEOREM RawTypeCorrect == Spec => []TypeOK
  <1>1. RawInv => TypeOK
    BY DEF RawInv, Typed
  <1> QED
    BY <1>1, RawInvariant, PTL

\* In one run of the sender, what Reassembler gives to the decompressor was cut
\* from one frame, whatever the network loses, repeats or reorders while an
\* outage stays below half of the ID range.
THEOREM FramesIntact == Spec => []FrameIntact
  <1>1. RawInv => FrameIntact
    <2> SUFFICES ASSUME RawInv, restarts = 0, Complete(reassembler),
                        NEW i \in 0 .. reassembler.total - 1,
                        NEW j \in 0 .. reassembler.total - 1
                 PROVE  reassembler.buf[i] = reassembler.buf[j]
      BY DEF FrameIntact, Intact
    <2>1. reassembler \in Reassemblers
      BY DEF RawInv, Typed
    <2>2. reassembler.received = 0 .. reassembler.total - 1
      BY <2>1, NothingMissing
    <2> QED
      BY <2>2 DEF RawInv, NewestInProgress
  <1> QED
    BY <1>1, RawInvariant, PTL

\* ReassemblyStats counts every frame that was taken up exactly once, as
\* completed or as dropped, and its reports take out all they count, for every
\* REPORT_FRAMES above one.
THEOREM OneOutcomeEach == Spec => []EveryFrameOneOutcome
  <1>1. Init => EveryFrameOneOutcome
    BY DEF Init, EveryFrameOneOutcome, NewReassembler, Incomplete
  <1>2. RawInv /\ EveryFrameOneOutcome /\ [Next]_vars => EveryFrameOneOutcome'
    <2> SUFFICES ASSUME RawInv, EveryFrameOneOutcome, [Next]_vars
                 PROVE  EveryFrameOneOutcome'
      OBVIOUS
    <2>1. CASE UNCHANGED <<reassembler, stats, taken>>
      BY <2>1 DEF EveryFrameOneOutcome, Incomplete, Missing
    <2>2. ASSUME NEW d \in network, ReceiveCurrent(d) \/ ReceiveNewer(d)
          PROVE  EveryFrameOneOutcome'
      <3>1. PICK r \in Reassemblers, s \in Stats :
              /\ AddFragment(r, d, s) /\ r.frameId = d.id
              /\ \/ /\ r = reassembler /\ s = stats /\ taken' = taken
                 \/ /\ IsNewerFrame(reassembler, d.id)
                    /\ r = Reset(reassembler, d) /\ s = RecordAbandoned(stats)
                    /\ taken' = taken + 1
        BY <2>2, TakenUp
      <3> DEFINE a == Add(r, d)
      <3>2. d \in Fragment /\ Accepts(r, d) /\ reassembler' = a
        BY <3>1 DEF RawInv, Typed, TypeOK, AddFragment
      <3>3. a \in Reassemblers /\ a.total = r.total
        BY <3>1, <3>2, AddTyped
      <3>4. ~Complete(r) /\ r.total > 0 /\ Incomplete(r)
        BY <3>1, <3>2, AcceptsIncomplete, NothingMissing
      <3>5. Incomplete(a) <=> ~Complete(a)
        BY <3>3, <3>4, NothingMissing
      <3>6. /\ stats \in Stats /\ taken \in Nat
            /\ s.completed \in Nat /\ s.dropped \in Nat /\ s.reported \in Nat
        BY <3>1 DEF RawInv, Typed, TypeOK, Stats
      <3>7. taken' = s.completed + s.dropped + s.reported + 1
        <4>1. CASE r = reassembler /\ s = stats /\ taken' = taken
          BY <3>4, <3>6, <4>1 DEF EveryFrameOneOutcome
        <4>2. CASE s = RecordAbandoned(stats) /\ taken' = taken + 1
          BY <3>6, <4>2, AbandonedCounts DEF EveryFrameOneOutcome
        <4> QED
          BY <3>1, <4>1, <4>2
      <3>8. \/ ~Complete(a) /\ stats' = s
            \/ Complete(a) /\ stats' = Record(s, "completed")
        BY <3>1 DEF AddFragment
      <3>9. Record(s, "completed").completed + Record(s, "completed").dropped
              + Record(s, "completed").reported
              = s.completed + s.dropped + s.reported + 1
            /\ Record(s, "completed") \in Stats
        BY <3>1, RecordCounts
      <3>10. EveryFrameOneOutcome'
              <=> taken' = stats'.completed + stats'.dropped + stats'.reported
                             + (IF Incomplete(a) THEN 1 ELSE 0)
        BY <3>2 DEF EveryFrameOneOutcome, Incomplete, Missing
      <3> HIDE DEF a
      <3>11. stats' \in Stats
        BY <3>1, <3>8, <3>9
      <3>12. stats'.completed \in Nat /\ stats'.dropped \in Nat /\ stats'.reported \in Nat
        BY <3>11 DEF Stats
      <3> QED
        BY <3>5, <3>6, <3>7, <3>8, <3>9, <3>10, <3>12
    <2> QED
      BY <2>1, <2>2 DEF Next, SendFrame, SendFails, Transmit, Restart, receiverVars,
         ReceiveUseless, ReceiveLate, Present, CloseWindow, vars
  <1> QED
    BY <1>1, <1>2, RawInvariant, PTL DEF Spec

\* Every receipt is for a newer frame than the receipt before, also across
\* restarts of the sender, when the frame IDs begin again.
THEOREM ReceiptsInOrder == Spec => EchoedOnceInOrder
  <1>1. RawInv /\ [Next]_vars => [echoed'.last > echoed.last]_echoed
    <2> SUFFICES ASSUME RawInv, [Next]_vars, echoed' # echoed
                 PROVE  echoed'.last > echoed.last
      OBVIOUS
    <2>1. PICK d \in network : ReceiveCurrent(d) \/ ReceiveNewer(d)
      BY DEF Next, SendFrame, SendFails, Transmit, Restart, receiverVars,
         ReceiveUseless, ReceiveLate, Present, CloseWindow, vars
    <2>2. echoed.last < d.unit /\ echoed.last \in Nat /\ d.unit \in Nat
      <3>1. d \in Fragment /\ serial \in Nat /\ echoed \in [count : Nat, last : 0 .. serial]
        BY SizesType DEF RawInv, Typed, TypeOK
      <3>2. echoed.last < d.unit
        BY <2>1, TakenAhead
      <3> QED
        BY <3>1, <3>2, FragmentType
    <2>3. echoed'.last = d.unit
      <3>1. PICK r \in Reassemblers, s \in Stats : AddFragment(r, d, s)
        BY <2>1, TakenUp
      <3> QED
        BY <3>1, FinishEffect
    <2> QED
      BY <2>2, <2>3
  <1> QED
    BY <1>1, RawInvariant, PTL DEF Spec, EchoedOnceInOrder

\* The window and standard output never go back in time, and show nothing that
\* has no receipt.
THEOREM PicturesInOrder == Spec => ShownInOrder
  <1>1. RawInv /\ [Next]_vars => [shown' > shown /\ shown' <= echoed'.last]_shown
    <2> SUFFICES ASSUME RawInv, [Next]_vars, shown' # shown
                 PROVE  shown' > shown /\ shown' <= echoed'.last
      OBVIOUS
    <2>1. /\ shown \in Nat /\ echoed.last \in Nat /\ shown <= echoed.last
      BY SizesType DEF RawInv, Typed, TypeOK, ShownBehind
    <2>2. CASE Present
      <3>1. PICK u \in 1 .. echoed.last : channel = <<u>> /\ shown < u
        BY <2>2 DEF Present, RawInv, ShownBehind
      <3>2. shown' = u /\ echoed' = echoed
        BY <2>2, <3>1 DEF Present, receiverVars
      <3> QED
        BY <2>1, <3>1, <3>2
    <2>3. ASSUME NEW d \in network, ReceiveCurrent(d) \/ ReceiveNewer(d)
          PROVE  shown' > shown /\ shown' <= echoed'.last
      <3>1. echoed.last < d.unit /\ d.unit \in Nat
        BY <2>3, TakenAhead, FragmentType DEF RawInv, Typed, TypeOK
      <3>2. shown' = d.unit /\ echoed'.last = d.unit
        <4>1. PICK r, s : AddFragment(r, d, s)
          BY <2>3, TakenUp
        <4> QED
          BY <3>1, <4>1, FinishEffect
      <3> QED
        BY <2>1, <3>1, <3>2
    <2> QED
      BY <2>2, <2>3 DEF Next, SendFrame, SendFails, Transmit, Restart, receiverVars,
         sinkVars, ReceiveUseless, ReceiveLate, CloseWindow, vars
  <1> QED
    BY <1>1, RawInvariant, PTL DEF Spec, ShownInOrder
=============================================================================
