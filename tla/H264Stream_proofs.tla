-------------------------- MODULE H264Stream_proofs --------------------------
(***************************************************************************)
(* What holds of an H.264 cast for every range of frame IDs, every bound   *)
(* of the channel, of the units and of the restarts, and any loss,         *)
(* repetition and order of the fragments the network still keeps.          *)
(*                                                                         *)
(* The argument: from the callback to the socket the units stay in the     *)
(* order they were encoded in (InLine), so a run of the sender puts        *)
(* increasing serials with matching IDs on the network (Numbered), which   *)
(* keeps them for less than half of the ID range (InFlight).  So among     *)
(* what is in flight IDs tell the units apart and order them, and what     *)
(* can still complete the unit in progress or replace it is newer than     *)
(* the last picture (AheadOfPictures).                                     *)
(***************************************************************************)
EXTENDS H264Stream, DivisionLemmas, FiniteSetTheorems, SequenceTheorems

-----------------------------------------------------------------------------
(* Constants                                                               *)

LEMMA IdRangeType ==
  /\ IdRange \in Nat /\ IdRange > 0 /\ IdRange % 2 = 0
  /\ IdRange \div 2 \in Nat /\ IdRange \div 2 < IdRange
  /\ Lifetime \in Nat /\ Lifetime > 0 /\ Lifetime <= IdRange \div 2
  /\ 0 \in 0 .. IdRange - 1 /\ IdRange - 1 \in 0 .. IdRange - 1
  BY ReassemblyAssumption, StreamAssumption

LEMMA BoundsType ==
  /\ MaxChunks \in Nat /\ MaxChunks > 0
  /\ \A n \in Sizes : n \in Nat /\ n > 0
  /\ MaxUnits \in Nat /\ MaxRestarts \in Nat
  /\ OutboundSlots \in Nat /\ OutboundSlots > 0
  BY ReassemblyAssumption, StreamAssumption

-----------------------------------------------------------------------------
(* The reassembler as a value                                              *)

Reassemblers ==
  {r \in [frameId : 0 .. IdRange - 1, shape : BOOLEAN \cup {NoShape},
          total : 0 .. MaxChunks, received : SUBSET (0 .. MaxChunks - 1),
          buf : [0 .. MaxChunks - 1 -> 0 .. MaxUnits]] :
     r.received \subseteq 0 .. r.total - 1}

LEMMA FragmentType ==
  ASSUME NEW d \in Fragment
  PROVE  /\ d.unit \in Nat /\ d.unit > 0 /\ d.unit <= MaxUnits
         /\ d.id \in 0 .. IdRange - 1 /\ d.index \in Nat /\ d.shape \in BOOLEAN
         /\ d.prev \in Nat /\ d.prev <= MaxUnits
         /\ d.total \in Nat /\ d.total > 0
  BY BoundsType DEF Fragment

LEMMA NewTyped == NewReassembler \in Reassemblers
  <1>1. \A i \in {} : i \in 0 .. MaxChunks - 1 /\ i \in 0 .. 0 - 1
    OBVIOUS
  <1> QED
    BY <1>1, IdRangeType, BoundsType DEF NewReassembler, Reassemblers

LEMMA ResetTyped ==
  ASSUME NEW r \in Reassemblers, NEW d \in Fragment, WithinLimit(d)
  PROVE  /\ Reset(r, d) \in Reassemblers
         /\ Reset(r, d).frameId = d.id /\ Reset(r, d).total = d.total
         /\ Reset(r, d).received = {} /\ Reset(r, d).shape = d.shape
  <1>1. /\ d.id \in 0 .. IdRange - 1 /\ d.shape \in BOOLEAN \cup {NoShape}
        /\ d.total \in 0 .. MaxChunks
    BY FragmentType, BoundsType DEF WithinLimit
  <1>2. r = [frameId |-> r.frameId, shape |-> r.shape, total |-> r.total,
             received |-> r.received, buf |-> r.buf]
    BY DEF Reassemblers
  <1>3. Reset(r, d) = [frameId |-> d.id, shape |-> d.shape, total |-> d.total,
                       received |-> {}, buf |-> r.buf]
    <2> DEFINE i == d.id
               s == d.shape
               n == d.total
               r1 == [r EXCEPT !.frameId = i]
               r2 == [r1 EXCEPT !.shape = s]
               r3 == [r2 EXCEPT !.total = n]
    <2>1. Reset(r, d) = [r3 EXCEPT !.received = {}]
      BY <1>2 DEF Reset
    <2> HIDE DEF i, s, n
    <2>2. r1 = [frameId |-> i, shape |-> r.shape, total |-> r.total,
                received |-> r.received, buf |-> r.buf]
      BY <1>2
    <2> HIDE DEF r1
    <2>3. r2 = [frameId |-> i, shape |-> s, total |-> r.total,
                received |-> r.received, buf |-> r.buf]
      BY <2>2
    <2> HIDE DEF r2
    <2>4. r3 = [frameId |-> i, shape |-> s, total |-> n,
                received |-> r.received, buf |-> r.buf]
      BY <2>3
    <2> HIDE DEF r3
    <2>5. Reset(r, d) = [frameId |-> i, shape |-> s, total |-> n, received |-> {},
                         buf |-> r.buf]
      BY <2>1, <2>4
    <2> QED
      BY <2>5 DEF i, s, n
  <1>4. r.buf \in [0 .. MaxChunks - 1 -> 0 .. MaxUnits]
    BY DEF Reassemblers
  <1> QED
    BY <1>1, <1>3, <1>4 DEF Reassemblers

LEMMA AddTyped ==
  ASSUME NEW r \in Reassemblers, NEW d \in Fragment, Accepts(r, d)
  PROVE  /\ Add(r, d) \in Reassemblers
         /\ Add(r, d).frameId = r.frameId /\ Add(r, d).total = r.total
         /\ Add(r, d).shape = r.shape
         /\ Add(r, d).received = r.received \cup {d.index}
         /\ Add(r, d).buf = [r.buf EXCEPT ![d.index] = d.unit]
  <1>1. d.index \in 0 .. r.total - 1
    BY BoundsType DEF Reassemblers, Fragment, Accepts
  <1>2. d.index \in 0 .. MaxChunks - 1 /\ d.unit \in 0 .. MaxUnits
    BY <1>1, FragmentType, BoundsType DEF Reassemblers
  <1>3. [r.buf EXCEPT ![d.index] = d.unit] \in [0 .. MaxChunks - 1 -> 0 .. MaxUnits]
    BY <1>2 DEF Reassemblers
  <1>4. /\ r.received \cup {d.index} \in SUBSET (0 .. MaxChunks - 1)
        /\ r.received \cup {d.index} \subseteq 0 .. r.total - 1
    BY <1>1, <1>2 DEF Reassemblers
  <1> DEFINE received == r.received \cup {d.index}
             buf == [r.buf EXCEPT ![d.index] = d.unit]
  <1>5. Add(r, d) = [frameId |-> r.frameId, shape |-> r.shape, total |-> r.total,
                     received |-> received, buf |-> buf]
    <2> DEFINE r1 == [r EXCEPT !.received = received]
    <2>1. r1 = [frameId |-> r.frameId, shape |-> r.shape, total |-> r.total,
                received |-> received, buf |-> r.buf]
      <3>1. r = [frameId |-> r.frameId, shape |-> r.shape, total |-> r.total,
                 received |-> r.received, buf |-> r.buf]
        BY DEF Reassemblers
      <3> HIDE DEF received
      <3> QED
        BY <3>1
    <2>2. Add(r, d) = [r1 EXCEPT !.buf = buf]
      BY DEF Add, Reassemblers
    <2> HIDE DEF r1, received, buf
    <2> QED
      BY <2>1, <2>2
  <1> HIDE DEF received, buf
  <1>6. Add(r, d) \in Reassemblers
    BY <1>3, <1>4, <1>5 DEF Reassemblers, received, buf
  <1> QED
    BY <1>5, <1>6 DEF received, buf

\* A unit with nothing missing has every one of its fragments.
LEMMA NothingMissing ==
  ASSUME NEW r \in Reassemblers
  PROVE  /\ Missing(r) \in Nat
         /\ Complete(r) <=> r.total > 0 /\ r.received = 0 .. r.total - 1
         /\ Incomplete(r) <=> r.total > 0 /\ ~Complete(r)
  <1>1. r.total \in Nat /\ r.received \in SUBSET (0 .. r.total - 1)
    BY BoundsType DEF Reassemblers
  <1> DEFINE all == 0 .. r.total - 1
             n == r.total
             got == r.received
  <1>2. IsFiniteSet(all) /\ Cardinality(all) = n
    <2> DEFINE b == n - 1
    <2>1. b \in Int /\ all = 0 .. b /\ (IF 0 > b THEN 0 ELSE b - 0 + 1) = n
      BY <1>1
    <2> HIDE DEF b, all
    <2>2. IsFiniteSet(0 .. b) /\ Cardinality(0 .. b) = IF 0 > b THEN 0 ELSE b - 0 + 1
      BY <2>1, FS_Interval
    <2> QED
      BY <2>1, <2>2
  <1>3. /\ IsFiniteSet(got) /\ Cardinality(got) <= n
        /\ Cardinality(got) = n => got = all
    BY <1>1, <1>2, FS_Subset
  <1>4. Cardinality(got) \in Nat
    BY <1>3, FS_CardinalityType
  <1>5. got = all => Cardinality(got) = n
    BY <1>2
  <1> HIDE DEF all, n, got
  <1>6. n \in Nat
    BY <1>1 DEF n
  <1>7. /\ n - Cardinality(got) \in Nat
        /\ n - Cardinality(got) = 0 <=> got = all
        /\ n - Cardinality(got) > 0 <=> ~(n - Cardinality(got) = 0)
    BY <1>3, <1>4, <1>5, <1>6
  <1> QED
    BY <1>7 DEF Missing, Complete, Incomplete, all, n, got

\* What accepts a fragment is incomplete, and is not after its last one.
LEMMA AcceptsIncomplete ==
  ASSUME NEW r \in Reassemblers, NEW d \in Fragment, Accepts(r, d)
  PROVE  ~Complete(r) /\ r.total > 0
  <1>1. d.index \in Nat /\ d.index < r.total /\ r.total \in Nat
    BY BoundsType DEF Accepts, Reassemblers, Fragment
  <1>2. d.index \in 0 .. r.total - 1 /\ d.index \notin r.received
    BY <1>1 DEF Accepts
  <1> QED
    BY <1>1, <1>2, NothingMissing

-----------------------------------------------------------------------------
(* The sender's half of the inductive invariant                            *)

LineTyped ==
  /\ serial \in 0 .. MaxUnits /\ nextFrameId \in 0 .. IdRange - 1
  /\ lastEncoded \in 0 .. serial
  /\ pending \in Unit \cup {NoFrame} /\ sending \in Unit \cup {NoFrame}
  /\ outbound \in Seq(Unit) /\ Len(outbound) <= OutboundSlots
  /\ senderAlive \in BOOLEAN
  /\ udpPc \in {"connect", "recv", "drain", "exit", "closing", "gone"}
  /\ lastSent \in 0 .. serial /\ restarts \in 0 .. MaxRestarts
  /\ network \subseteq Fragment

\* The units on their way to the socket: sent, taken, in the channel and in the
\* callback, from the oldest to the newest.
InLine ==
  /\ udpPc = "drain" <=> sending # NoFrame
  /\ sending # NoFrame => lastSent < sending.serial /\ sending.serial <= serial
  /\ \A i \in 1 .. Len(outbound) :
       /\ lastSent < outbound[i].serial /\ sending.serial < outbound[i].serial
       /\ outbound[i].serial <= serial
       /\ pending # NoFrame => outbound[i].serial < pending.serial
       /\ \A j \in 1 .. i - 1 : outbound[j].serial < outbound[i].serial
  /\ pending # NoFrame =>
       /\ lastSent < pending.serial /\ sending.serial < pending.serial
       /\ pending.serial <= serial

\* The network keeps fragments of the last units sent only.
InFlight ==
  \A d \in network : d.unit <= lastSent /\ lastSent < d.unit + Lifetime

\* The run of the sender numbers its units on from some ID; the first run
\* begins with 0.
NumberedFrom(base) ==
  /\ restarts = 0 => base = 0
  /\ nextFrameId = (serial + base) % IdRange
  /\ pending # NoFrame => pending.id = (pending.serial - 1 + base) % IdRange
  /\ sending # NoFrame => sending.id = (sending.serial - 1 + base) % IdRange
  /\ \A i \in 1 .. Len(outbound) :
       outbound[i].id = (outbound[i].serial - 1 + base) % IdRange
  /\ \A d \in network : d.id = (d.unit - 1 + base) % IdRange

Numbered == \E base \in Int : NumberedFrom(base)

LineInv == LineTyped /\ InLine /\ InFlight /\ Numbered

LEMMA UnitType ==
  ASSUME NEW u \in Unit \cup {NoFrame}
  PROVE  /\ u.serial \in Nat
         /\ NoFrame.serial = 0
         /\ u # NoFrame => /\ u \in Unit /\ u.serial > 0 /\ u.serial <= MaxUnits
                           /\ u.id \in 0 .. IdRange - 1 /\ u.key \in BOOLEAN
                           /\ u.total \in Sizes /\ u.prev \in 0 .. MaxUnits
         /\ u \in Unit => u # NoFrame
  BY BoundsType DEF Unit, NoFrame

LEMMA InitLine == Init => LineInv
  <1> SUFFICES ASSUME Init PROVE LineInv
    OBVIOUS
  <1>1. LineTyped
    BY BoundsType, IdRangeType DEF Init, LineTyped, NoReference
  <1>2. InLine /\ InFlight
    BY DEF Init, InLine, InFlight
  <1>3. NumberedFrom(0)
    <2>1. 0 % IdRange = 0
      <3>1. 0 = 0 * IdRange + 0
        BY IdRangeType
      <3> QED
        BY <3>1, IdRangeType, RemainderIs
    <2> QED
      BY <2>1 DEF Init, NumberedFrom
  <1> QED
    BY <1>1, <1>2, <1>3 DEF LineInv, Numbered

\* NextId gives the next serial and the ID that belongs to it.
LEMMA NextSerial ==
  ASSUME LineInv, NextId
  PROVE  /\ serial \in Nat /\ serial' = serial + 1 /\ serial' \in 1 .. MaxUnits
         /\ pending = NoFrame /\ nextFrameId' \in 0 .. IdRange - 1
         /\ \A base \in Int :
              nextFrameId = (serial + base) % IdRange
                => nextFrameId' = (serial' + base) % IdRange
  <1>1. /\ serial \in Nat /\ serial' = serial + 1 /\ serial' \in 1 .. MaxUnits
        /\ pending = NoFrame
        /\ nextFrameId' = (nextFrameId + 1) % IdRange /\ nextFrameId + 1 \in Int
    BY BoundsType, IdRangeType DEF LineInv, LineTyped, NextId
  <1>2. nextFrameId' \in 0 .. IdRange - 1
    <2> DEFINE n == nextFrameId + 1
    <2>1. n \in Int
      BY <1>1
    <2> HIDE DEF n
    <2>2. n % IdRange \in 0 .. IdRange - 1
      BY <2>1, IdRangeType, Division
    <2> QED
      BY <1>1, <2>2 DEF n
  <1>3. ASSUME NEW base \in Int, nextFrameId = (serial + base) % IdRange
        PROVE  nextFrameId' = (serial' + base) % IdRange
    <2> DEFINE m == serial + base
    <2>1. m \in Int
      BY <1>1
    <2>2. m + 1 = serial' + base
      BY <1>1
    <2> HIDE DEF m
    <2>3. ((m % IdRange) + 1) % IdRange = (m + 1) % IdRange
      BY <2>1, IdRangeType, RemainderCounts
    <2>4. nextFrameId' = ((m % IdRange) + 1) % IdRange
      BY <1>1, <1>3 DEF m
    <2> QED
      BY <2>2, <2>3, <2>4
  <1> QED
    BY <1>1, <1>2, <1>3

LEMMA EncodeLine == LineInv /\ (Encode \/ EncodeFails) => LineInv'
  <1> SUFFICES ASSUME LineInv, Encode \/ EncodeFails PROVE LineInv'
    OBVIOUS
  <1>1. NextId
    BY DEF Encode, EncodeFails
  <1>2. /\ serial \in Nat /\ serial' = serial + 1 /\ serial' \in 1 .. MaxUnits
        /\ pending = NoFrame /\ nextFrameId' \in 0 .. IdRange - 1
    BY <1>1, NextSerial
  <1>3. /\ UNCHANGED <<outbound, senderAlive, restarts, network>>
        /\ UNCHANGED <<udpPc, sending, lastSent>>
        /\ lastEncoded' \in {lastEncoded, serial + 1}
    BY DEF Encode, EncodeFails, udpVars
  <1>4. \/ pending' = NoFrame
        \/ /\ pending' \in Unit /\ pending'.serial = serial + 1
           /\ pending'.id = nextFrameId
    <2>1. CASE Encode
      <3>1. PICK key \in BOOLEAN, total \in Sizes :
              pending' = [serial |-> serial + 1, id |-> nextFrameId, key |-> key,
                          total |-> total, prev |-> lastEncoded]
        BY <2>1 DEF Encode
      <3>2. /\ serial + 1 \in 1 .. MaxUnits /\ nextFrameId \in 0 .. IdRange - 1
            /\ lastEncoded \in 0 .. MaxUnits
        BY <1>2, BoundsType DEF LineInv, LineTyped
      <3> QED
        BY <3>1, <3>2 DEF Unit
    <2>2. CASE EncodeFails
      BY <1>2, <2>2 DEF EncodeFails
    <2> QED
      BY <2>1, <2>2
  <1>5. LineTyped'
    <2>1. lastEncoded' \in 0 .. serial' /\ lastSent' \in 0 .. serial'
      BY <1>2, <1>3, BoundsType DEF LineInv, LineTyped
    <2> QED
      BY <1>2, <1>3, <1>4, <2>1 DEF LineInv, LineTyped
  <1>6. InLine'
    <2>1. /\ lastSent \in Nat /\ lastSent <= serial /\ sending.serial \in Nat
          /\ sending # NoFrame => sending.serial <= serial
          /\ sending = NoFrame => sending.serial = 0
      BY UnitType DEF LineInv, LineTyped, InLine
    <2>2. \A i \in 1 .. Len(outbound) :
            /\ outbound[i].serial \in Nat /\ outbound[i].serial <= serial
      BY UnitType DEF LineInv, LineTyped, InLine
    <2>3. pending' # NoFrame =>
            /\ lastSent' < pending'.serial /\ sending'.serial < pending'.serial
            /\ pending'.serial <= serial'
      BY <1>2, <1>3, <1>4, <2>1
    <2>4. \A i \in 1 .. Len(outbound') :
            /\ lastSent' < outbound'[i].serial /\ sending'.serial < outbound'[i].serial
            /\ outbound'[i].serial <= serial'
            /\ pending' # NoFrame => outbound'[i].serial < pending'.serial
            /\ \A j \in 1 .. i - 1 : outbound'[j].serial < outbound'[i].serial
      BY <1>2, <1>3, <1>4, <2>2 DEF LineInv, InLine
    <2>5. /\ udpPc' = "drain" <=> sending' # NoFrame
          /\ sending' # NoFrame => lastSent' < sending'.serial /\ sending'.serial <= serial'
      BY <1>2, <1>3, <2>1 DEF LineInv, InLine
    <2> QED
      BY <2>3, <2>4, <2>5 DEF InLine
  <1>7. InFlight'
    BY <1>3 DEF LineInv, InFlight
  <1>8. Numbered'
    <2>1. PICK base \in Int : NumberedFrom(base)
      BY DEF LineInv, Numbered
    <2>2. nextFrameId' = (serial' + base) % IdRange
      BY <1>1, <2>1, NextSerial DEF NumberedFrom
    <2>3. pending' # NoFrame => pending'.id = (pending'.serial - 1 + base) % IdRange
      <3> SUFFICES ASSUME pending' # NoFrame
                   PROVE  pending'.id = (pending'.serial - 1 + base) % IdRange
        OBVIOUS
      <3>1. pending'.serial - 1 + base = serial + base
        BY <1>2, <1>4, <2>1
      <3> QED
        BY <1>4, <2>1, <3>1 DEF NumberedFrom
    <2>4. NumberedFrom(base)'
      BY <1>3, <2>1, <2>2, <2>3 DEF NumberedFrom
    <2> QED
      BY <2>1, <2>4 DEF Numbered
  <1> QED
    BY <1>5, <1>6, <1>7, <1>8 DEF LineInv

LEMMA EnqueueLine == LineInv /\ Enqueue => LineInv'
  <1> SUFFICES ASSUME LineInv, Enqueue PROVE LineInv'
    OBVIOUS
  <1>1. /\ pending # NoFrame /\ pending' = NoFrame
        /\ UNCHANGED <<serial, nextFrameId, lastEncoded, restarts, network>>
        /\ UNCHANGED <<udpPc, sending, lastSent>>
        /\ senderAlive' \in {senderAlive, FALSE}
        /\ \/ outbound' = outbound
           \/ outbound' = Append(outbound, pending) /\ Len(outbound) < OutboundSlots
    BY DEF Enqueue, udpVars
  <1>2. /\ pending \in Unit /\ outbound \in Seq(Unit) /\ Len(outbound) \in Nat
        /\ Len(outbound) <= OutboundSlots /\ OutboundSlots \in Nat
    BY <1>1, UnitType, BoundsType DEF LineInv, LineTyped
  <1>3. outbound' \in Seq(Unit) /\ Len(outbound') <= OutboundSlots
    BY <1>1, <1>2
  <1>4. \A i \in 1 .. Len(outbound') :
          \/ i \in 1 .. Len(outbound) /\ outbound'[i] = outbound[i]
          \/ i = Len(outbound) + 1 /\ outbound'[i] = pending
    BY <1>1, <1>2
  <1>5. LineTyped'
    <2>1. senderAlive' \in BOOLEAN
      BY <1>1 DEF LineInv, LineTyped
    <2> QED
      BY <1>1, <1>3, <2>1 DEF LineInv, LineTyped
  <1>6. InLine'
    <2>1. /\ lastSent < pending.serial /\ sending.serial < pending.serial
          /\ pending.serial <= serial
      BY <1>1 DEF LineInv, InLine
    <2>2. ASSUME NEW i \in 1 .. Len(outbound')
          PROVE  /\ lastSent < outbound'[i].serial /\ sending.serial < outbound'[i].serial
                 /\ outbound'[i].serial <= serial
                 /\ \A j \in 1 .. i - 1 : outbound'[j].serial < outbound'[i].serial
      <3>1. CASE i \in 1 .. Len(outbound) /\ outbound'[i] = outbound[i]
        <4>1. \A j \in 1 .. i - 1 : j \in 1 .. Len(outbound) /\ j # Len(outbound) + 1
                                    /\ j \in 1 .. Len(outbound')
          BY <1>2, <1>3, <3>1
        <4>2. \A j \in 1 .. i - 1 : outbound'[j] = outbound[j]
          BY <1>4, <4>1
        <4> QED
          BY <3>1, <4>2 DEF LineInv, InLine
      <3>2. CASE i = Len(outbound) + 1 /\ outbound'[i] = pending
        <4>1. \A j \in 1 .. i - 1 : j \in 1 .. Len(outbound) /\ j # Len(outbound) + 1
                                    /\ j \in 1 .. Len(outbound')
          BY <1>2, <1>3, <3>2
        <4>2. \A j \in 1 .. i - 1 : outbound'[j] = outbound[j]
          BY <1>4, <4>1
        <4>3. \A j \in 1 .. i - 1 : outbound'[j].serial < pending.serial
          BY <1>1, <4>1, <4>2 DEF LineInv, InLine
        <4> QED
          BY <2>1, <3>2, <4>3
      <3> QED
        BY <1>4, <3>1, <3>2
    <2> QED
      BY <1>1, <2>2 DEF LineInv, InLine
  <1>7. InFlight'
    BY <1>1 DEF LineInv, InFlight
  <1>8. Numbered'
    <2>1. PICK base \in Int : NumberedFrom(base)
      BY DEF LineInv, Numbered
    <2>2. \A i \in 1 .. Len(outbound') :
            outbound'[i].id = (outbound'[i].serial - 1 + base) % IdRange
      BY <1>1, <1>4, <2>1 DEF NumberedFrom
    <2>3. NumberedFrom(base)'
      BY <1>1, <2>1, <2>2 DEF NumberedFrom
    <2> QED
      BY <2>1, <2>3 DEF Numbered
  <1> QED
    BY <1>5, <1>6, <1>7, <1>8 DEF LineInv

\* The thread starts or ends, and nothing it holds is lost but with the channel.
LEMMA ThreadLine == LineInv /\ (Connect \/ ClearAlive \/ DropChannel) => LineInv'
  <1> SUFFICES ASSUME LineInv, Connect \/ ClearAlive \/ DropChannel PROVE LineInv'
    OBVIOUS
  <1>1. /\ UNCHANGED <<serial, nextFrameId, lastEncoded, pending, restarts, network>>
        /\ UNCHANGED <<sending, lastSent>>
        /\ senderAlive' \in {senderAlive, FALSE}
        /\ udpPc # "drain" /\ udpPc' # "drain"
        /\ udpPc' \in {"recv", "exit", "closing", "gone"}
        /\ outbound' \in {outbound, <<>>}
    BY DEF Connect, ClearAlive, DropChannel, castVars
  <1>2. outbound' \in Seq(Unit) /\ Len(outbound') <= OutboundSlots
    <2>1. CASE outbound' = outbound
      BY <2>1 DEF LineInv, LineTyped
    <2>2. CASE outbound' = <<>>
      <3>1. <<>> \in Seq(Unit) /\ Len(<<>>) = 0
        OBVIOUS
      <3> QED
        BY <2>2, <3>1, BoundsType
    <2> QED
      BY <1>1, <2>1, <2>2
  <1>3. LineTyped'
    <2>1. senderAlive' \in BOOLEAN
      BY <1>1 DEF LineInv, LineTyped
    <2> QED
      BY <1>1, <1>2, <2>1 DEF LineInv, LineTyped
  <1>4. CASE outbound' = outbound
    <2>1. InLine' /\ InFlight'
      BY <1>1, <1>4 DEF LineInv, InLine, InFlight
    <2>2. Numbered'
      BY <1>1, <1>4 DEF LineInv, Numbered, NumberedFrom
    <2> QED
      BY <1>3, <2>1, <2>2 DEF LineInv
  <1>5. CASE outbound' = <<>>
    <2>1. InLine' /\ InFlight'
      BY <1>1, <1>5 DEF LineInv, InLine, InFlight
    <2>2. Numbered'
      BY <1>1, <1>5 DEF LineInv, Numbered, NumberedFrom
    <2> QED
      BY <1>3, <2>1, <2>2 DEF LineInv
  <1> QED
    BY <1>1, <1>4, <1>5

\* The thread takes the oldest unit of the channel.
LEMMA TakeLine == LineInv /\ TakeFrame => LineInv'
  <1> SUFFICES ASSUME LineInv, TakeFrame PROVE LineInv'
    OBVIOUS
  <1>1. /\ UNCHANGED <<serial, nextFrameId, lastEncoded, pending, senderAlive>>
        /\ UNCHANGED <<restarts, network, lastSent>>
        /\ outbound # <<>> /\ sending' = Head(outbound) /\ outbound' = Tail(outbound)
        /\ udpPc' = "drain"
    BY DEF TakeFrame, castVars
  <1>2. /\ outbound \in Seq(Unit) /\ Len(outbound) \in Nat /\ Len(outbound) > 0
        /\ Len(outbound) <= OutboundSlots /\ OutboundSlots \in Nat
    BY <1>1, BoundsType DEF LineInv, LineTyped
  <1>3. /\ sending' = outbound[1] /\ sending' \in Unit /\ sending' # NoFrame
        /\ outbound' \in Seq(Unit) /\ Len(outbound') = Len(outbound) - 1
        /\ \A i \in 1 .. Len(outbound') :
             i + 1 \in 1 .. Len(outbound) /\ outbound'[i] = outbound[i + 1]
    <2>1. sending' = outbound[1] /\ sending' \in Unit
      BY <1>1, <1>2
    <2>2. sending' # NoFrame
      BY <2>1, UnitType
    <2>3. /\ outbound' \in Seq(Unit) /\ Len(outbound') = Len(outbound) - 1
          /\ \A i \in 1 .. Len(outbound') :
               i + 1 \in 1 .. Len(outbound) /\ outbound'[i] = outbound[i + 1]
      BY <1>1, <1>2
    <2> QED
      BY <2>1, <2>2, <2>3
  <1>4. LineTyped'
    BY <1>1, <1>2, <1>3 DEF LineInv, LineTyped
  <1>5. InLine'
    <2>1. 1 \in 1 .. Len(outbound)
      BY <1>2
    <2>2. /\ lastSent < sending'.serial /\ sending'.serial <= serial
          /\ pending # NoFrame => sending'.serial < pending.serial
      BY <1>3, <2>1 DEF LineInv, InLine
    <2>3. ASSUME NEW i \in 1 .. Len(outbound')
          PROVE  /\ lastSent < outbound'[i].serial /\ sending'.serial < outbound'[i].serial
                 /\ outbound'[i].serial <= serial
                 /\ pending # NoFrame => outbound'[i].serial < pending.serial
                 /\ \A j \in 1 .. i - 1 : outbound'[j].serial < outbound'[i].serial
      <3>1. i + 1 \in 1 .. Len(outbound) /\ outbound'[i] = outbound[i + 1]
        BY <1>3
      <3>2. 1 \in 1 .. (i + 1) - 1
        OBVIOUS
      <3>3. \A j \in 1 .. i - 1 :
              j + 1 \in 1 .. (i + 1) - 1 /\ outbound'[j] = outbound[j + 1]
        <4>1. \A j \in 1 .. i - 1 : j + 1 \in 1 .. (i + 1) - 1 /\ j \in 1 .. Len(outbound')
          BY <1>2, <1>3
        <4> QED
          BY <1>3, <4>1
      <3>4. \A k \in 1 .. (i + 1) - 1 : outbound[k].serial < outbound[i + 1].serial
        BY <3>1 DEF LineInv, InLine
      <3>5. /\ lastSent < outbound[i + 1].serial /\ outbound[i + 1].serial <= serial
            /\ pending # NoFrame => outbound[i + 1].serial < pending.serial
        BY <3>1 DEF LineInv, InLine
      <3> QED
        BY <1>3, <3>1, <3>2, <3>3, <3>4, <3>5
    <2> QED
      BY <1>1, <1>3, <2>2, <2>3 DEF LineInv, InLine
  <1>6. InFlight'
    BY <1>1 DEF LineInv, InFlight
  <1>7. Numbered'
    <2>1. PICK base \in Int : NumberedFrom(base)
      BY DEF LineInv, Numbered
    <2>2. 1 \in 1 .. Len(outbound)
      BY <1>2
    <2>3. /\ sending'.id = (sending'.serial - 1 + base) % IdRange
          /\ \A i \in 1 .. Len(outbound') :
               outbound'[i].id = (outbound'[i].serial - 1 + base) % IdRange
      BY <1>3, <2>1, <2>2 DEF NumberedFrom
    <2>4. NumberedFrom(base)'
      BY <1>1, <2>1, <2>3 DEF NumberedFrom
    <2> QED
      BY <2>1, <2>4 DEF Numbered
  <1> QED
    BY <1>4, <1>5, <1>6, <1>7 DEF LineInv

\* What the network holds after a unit or a part of one went out.
LEMMA Sent ==
  ASSUME LineInv, udpPc = "drain", NEW count \in Nat, Transmit(count), NEW d \in network'
  PROVE  /\ d \in Fragment
         /\ \/ d \in network /\ sending.serial < d.unit + Lifetime
            \/ d.unit = sending.serial /\ d.id = sending.id /\ d.prev = sending.prev
  <1>1. sending # NoFrame /\ sending \in Unit /\ sending.serial \in Nat
    BY UnitType DEF LineInv, LineTyped, InLine
  <1>2. CASE d \in Fragments(sending, count)
    <2>1. PICK i \in 0 .. count - 1 :
            d = [id |-> sending.id, shape |-> sending.key, index |-> i,
                 total |-> sending.total, unit |-> sending.serial, prev |-> sending.prev]
      BY <1>2 DEF Fragments
    <2>2. i \in Nat
      OBVIOUS
    <2>3. d \in Fragment
      BY <1>1, <2>1, <2>2 DEF Unit, Fragment
    <2> QED
      BY <2>1, <2>3
  <1>3. CASE d \in network /\ d.unit > sending.serial - Lifetime
    <2>1. d \in Fragment /\ d.unit \in Nat
      BY <1>3, FragmentType DEF LineInv, LineTyped
    <2> QED
      BY <1>1, <1>3, <2>1, IdRangeType
  <1> QED
    BY <1>2, <1>3 DEF Transmit

LEMMA SendingEffect ==
  ASSUME LineInv, SendUnit \/ SendFails
  PROVE  /\ sending # NoFrame /\ sending \in Unit /\ sending.serial \in Nat
         /\ lastSent < sending.serial /\ sending.serial <= serial
         /\ udpPc = "drain" /\ outbound = <<>> /\ (\E count \in Nat : Transmit(count))
         /\ lastSent' = sending.serial /\ sending' = NoFrame
         /\ udpPc' \in {"recv", "exit"}
         /\ UNCHANGED <<serial, nextFrameId, lastEncoded, pending, senderAlive>>
         /\ UNCHANGED <<outbound, restarts>>
  <1>1. /\ udpPc = "drain" /\ outbound = <<>>
        /\ lastSent' = sending.serial /\ sending' = NoFrame
        /\ udpPc' \in {"recv", "exit"}
        /\ UNCHANGED <<serial, nextFrameId, lastEncoded, pending, senderAlive>>
        /\ UNCHANGED <<outbound, restarts>>
    BY DEF SendUnit, SendFails, castVars
  <1>2. /\ sending # NoFrame /\ sending \in Unit /\ sending.serial \in Nat
        /\ sending.total \in Nat /\ lastSent < sending.serial /\ sending.serial <= serial
    BY <1>1, UnitType, BoundsType DEF LineInv, LineTyped, InLine
  <1>3. \E count \in Nat : Transmit(count)
    <2>1. CASE SendUnit
      BY <1>2, <2>1 DEF SendUnit
    <2>2. CASE SendFails
      <3>1. PICK count \in 0 .. sending.total - 1 : Transmit(count)
        BY <2>2 DEF SendFails
      <3>2. count \in Nat
        BY <1>2
      <3> QED
        BY <3>1, <3>2
    <2> QED
      BY <2>1, <2>2
  <1> QED
    BY <1>1, <1>2, <1>3

LEMMA SendLine == LineInv /\ (SendUnit \/ SendFails) => LineInv'
  <1> SUFFICES ASSUME LineInv, SendUnit \/ SendFails PROVE LineInv'
    OBVIOUS
  <1>1. /\ sending # NoFrame /\ sending \in Unit /\ sending.serial \in Nat
        /\ lastSent < sending.serial /\ sending.serial <= serial
        /\ udpPc = "drain" /\ outbound = <<>>
        /\ lastSent' = sending.serial /\ sending' = NoFrame
        /\ udpPc' \in {"recv", "exit"}
        /\ UNCHANGED <<serial, nextFrameId, lastEncoded, pending, senderAlive>>
        /\ UNCHANGED <<outbound, restarts>>
    BY SendingEffect
  <1>2. PICK count \in Nat : Transmit(count)
    BY SendingEffect
  <1>3. \A d \in network' :
          /\ d \in Fragment
          /\ \/ d \in network /\ sending.serial < d.unit + Lifetime
             \/ d.unit = sending.serial /\ d.id = sending.id /\ d.prev = sending.prev
    BY <1>1, <1>2, Sent
  <1>4. LineTyped'
    <2>1. lastSent' \in 0 .. serial'
      BY <1>1, BoundsType DEF LineInv, LineTyped
    <2>2. network' \subseteq Fragment
      BY <1>3
    <2> QED
      BY <1>1, <2>1, <2>2 DEF LineInv, LineTyped
  <1>5. InLine'
    <2>1. sending'.serial = 0
      BY <1>1, UnitType
    <2>2. pending # NoFrame =>
            /\ sending.serial < pending.serial /\ pending.serial <= serial
            /\ pending.serial \in Nat
      BY UnitType DEF LineInv, LineTyped, InLine
    <2> QED
      BY <1>1, <2>1, <2>2 DEF InLine
  <1>6. InFlight'
    <2> SUFFICES ASSUME NEW d \in network'
                 PROVE  d.unit <= sending.serial /\ sending.serial < d.unit + Lifetime
      BY <1>1 DEF InFlight
    <2>1. d.unit \in Nat
      BY <1>3, FragmentType
    <2>2. CASE d \in network /\ sending.serial < d.unit + Lifetime
      <3>1. d.unit <= lastSent /\ lastSent \in Nat
        BY <2>2, BoundsType DEF LineInv, LineTyped, InFlight
      <3> QED
        BY <1>1, <2>1, <2>2, <3>1
    <2>3. CASE d.unit = sending.serial
      BY <1>1, <2>3, IdRangeType
    <2> QED
      BY <1>3, <2>2, <2>3
  <1>7. Numbered'
    <2>1. PICK base \in Int : NumberedFrom(base)
      BY DEF LineInv, Numbered
    <2>2. \A d \in network' : d.id = (d.unit - 1 + base) % IdRange
      BY <1>1, <1>3, <2>1 DEF NumberedFrom
    <2>3. NumberedFrom(base)'
      BY <1>1, <2>1, <2>2 DEF NumberedFrom
    <2> QED
      BY <2>1, <2>3 DEF Numbered
  <1> QED
    BY <1>4, <1>5, <1>6, <1>7 DEF LineInv

\* A restart empties the line and the network.
LEMMA RestartLine == LineInv /\ Restart => LineInv'
  <1> SUFFICES ASSUME LineInv, Restart PROVE LineInv'
    OBVIOUS
  <1>1. /\ restarts' = restarts + 1 /\ restarts' \in 0 .. MaxRestarts /\ restarts' # 0
        /\ nextFrameId' = 0 /\ lastEncoded' = 0 /\ pending' = NoFrame
        /\ outbound' = <<>> /\ senderAlive' = TRUE
        /\ udpPc' = "connect" /\ sending' = NoFrame /\ network' = {}
        /\ serial' = serial /\ lastSent' = lastSent /\ serial \in Nat
    BY BoundsType DEF Restart, LineInv, LineTyped, NoReference
  <1>2. LineTyped'
    <2>1. <<>> \in Seq(Unit) /\ Len(<<>>) = 0
      OBVIOUS
    <2>2. lastEncoded' \in 0 .. serial' /\ nextFrameId' \in 0 .. IdRange - 1
      BY <1>1, IdRangeType
    <2> QED
      BY <1>1, <2>1, <2>2, BoundsType DEF LineInv, LineTyped
  <1>3. InLine' /\ InFlight'
    BY <1>1 DEF InLine, InFlight
  <1>4. Numbered'
    <2>1. PICK base \in Int : serial + base = 0
      <3>1. 0 - serial \in Int /\ serial + (0 - serial) = 0
        BY <1>1
      <3> QED
        BY <3>1
    <2>2. 0 % IdRange = 0
      <3>1. 0 = 0 * IdRange + 0
        BY IdRangeType
      <3> QED
        BY <3>1, IdRangeType, RemainderIs
    <2>3. NumberedFrom(base)'
      BY <1>1, <2>1, <2>2 DEF NumberedFrom
    <2> QED
      BY <2>1, <2>3 DEF Numbered
  <1> QED
    BY <1>2, <1>3, <1>4 DEF LineInv

\* The receiver leaves the sender and the network alone.
Receive(d) ==
  \/ ReceiveCurrent(d) \/ ReceiveUseless(d) \/ ReceiveLate(d)
  \/ ReceiveNewer(d) \/ ReceiveRefused(d)

LEMMA ReceiveLine ==
  LineInv /\ ((\E d \in network : Receive(d)) \/ UNCHANGED vars) => LineInv'
  <1> SUFFICES ASSUME LineInv, (\E d \in network : Receive(d)) \/ UNCHANGED vars
               PROVE  LineInv'
    OBVIOUS
  <1>1. /\ UNCHANGED <<serial, nextFrameId, lastEncoded, pending, senderAlive>>
        /\ UNCHANGED <<outbound, udpPc, sending, lastSent, restarts, network>>
    BY DEF Receive, ReceiveCurrent, ReceiveUseless, ReceiveLate, ReceiveNewer,
       ReceiveRefused, Arrive, castVars, udpVars, vars
  <1>2. LineTyped' /\ InLine' /\ InFlight'
    BY <1>1 DEF LineInv, LineTyped, InLine, InFlight
  <1>3. Numbered'
    BY <1>1 DEF LineInv, Numbered, NumberedFrom
  <1> QED
    BY <1>2, <1>3 DEF LineInv

LEMMA NextLine == LineInv /\ [Next]_vars => LineInv'
  BY EncodeLine, EnqueueLine, ThreadLine, TakeLine, SendLine, RestartLine, ReceiveLine
     DEF Next, Receive

LEMMA LineInvariant == Spec => []LineInv
  <1> QED
    BY InitLine, NextLine, PTL DEF Spec

-----------------------------------------------------------------------------
(* The receiver's half                                                     *)

HearTyped ==
  /\ heard \in 0 .. lastSent
  /\ receiving \in BOOLEAN /\ waiting \in BOOLEAN
  /\ reassembler \in Reassemblers
  /\ reference \in 0 .. MaxUnits
  /\ shown \in [serial : 0 .. MaxUnits, sound : BOOLEAN]

\* Whatever completes the unit in progress or replaces it is newer than the
\* last picture.
Awaited(d) ==
  \/ d.id = reassembler.frameId /\ ~Complete(reassembler)
  \/ IsNewerFrame(reassembler, d.id)

AheadOfPictures ==
  /\ shown.serial <= lastSent
  /\ \A d \in network : Awaited(d) => shown.serial < d.unit

HearInv == HearTyped /\ AheadOfPictures

SenderStep ==
  \/ Encode \/ EncodeFails \/ Enqueue \/ Connect \/ TakeFrame
  \/ SendUnit \/ SendFails \/ ClearAlive \/ DropChannel \/ Restart

\* The sender leaves the receiver alone and sends only what is newer.
LEMMA SenderEffect ==
  ASSUME LineInv, SenderStep \/ UNCHANGED vars
  PROVE  /\ heard' = heard /\ receiving' = receiving /\ reassembler' = reassembler
         /\ waiting' = waiting /\ reference' = reference /\ shown' = shown
         /\ lastSent \in Nat /\ lastSent' \in Nat /\ lastSent <= lastSent'
         /\ \A d \in network' : d \in Fragment /\ (d \in network \/ lastSent < d.unit)
  <1>1. /\ heard' = heard /\ receiving' = receiving /\ reassembler' = reassembler
        /\ waiting' = waiting /\ reference' = reference /\ shown' = shown
    BY DEF SenderStep, Encode, EncodeFails, Enqueue, Connect, TakeFrame, SendUnit,
       SendFails, ClearAlive, DropChannel, Restart, receiverVars, vars
  <1>2. lastSent \in Nat /\ network \subseteq Fragment
    BY BoundsType DEF LineInv, LineTyped
  <1>3. CASE SendUnit \/ SendFails
    <2>1. /\ lastSent' = sending.serial /\ sending.serial \in Nat
          /\ lastSent < sending.serial /\ udpPc = "drain"
      BY <1>3, SendingEffect
    <2>2. PICK count \in Nat : Transmit(count)
      BY <1>3, SendingEffect
    <2>3. \A d \in network' :
            d \in Fragment /\ (d \in network \/ d.unit = sending.serial)
      BY <2>1, <2>2, Sent
    <2> QED
      BY <1>1, <1>2, <2>1, <2>3
  <1>4. CASE lastSent' = lastSent /\ network' \in {network, {}}
    BY <1>1, <1>2, <1>4
  <1> QED
    BY <1>3, <1>4 DEF SenderStep, Encode, EncodeFails, Enqueue, Connect, TakeFrame,
       ClearAlive, DropChannel, Restart, udpVars, vars

LEMMA InitHear == Init => HearInv
  <1> SUFFICES ASSUME Init PROVE HearInv
    OBVIOUS
  <1>1. reassembler \in Reassemblers
    BY NewTyped DEF Init
  <1>2. [serial |-> 0, sound |-> TRUE] \in [serial : 0 .. MaxUnits, sound : BOOLEAN]
    BY BoundsType
  <1>3. HearTyped
    BY <1>1, <1>2, BoundsType DEF Init, HearTyped, NoReference
  <1>4. AheadOfPictures
    BY DEF Init, AheadOfPictures
  <1> QED
    BY <1>3, <1>4 DEF HearInv

LEMMA SenderHear ==
  ASSUME LineInv, HearInv, SenderStep \/ UNCHANGED vars
  PROVE  HearInv'
  <1>1. /\ heard' = heard /\ receiving' = receiving /\ reassembler' = reassembler
        /\ waiting' = waiting /\ reference' = reference /\ shown' = shown
        /\ lastSent \in Nat /\ lastSent' \in Nat /\ lastSent <= lastSent'
        /\ \A d \in network' : d \in Fragment /\ (d \in network \/ lastSent < d.unit)
    BY SenderEffect
  <1>2. heard \in 0 .. lastSent /\ shown.serial \in Nat /\ shown.serial <= lastSent
    BY BoundsType DEF HearInv, HearTyped, AheadOfPictures
  <1>3. HearTyped'
    <2>1. heard' \in 0 .. lastSent'
      BY <1>1, <1>2
    <2> QED
      BY <1>1, <2>1 DEF HearInv, HearTyped
  <1>4. AheadOfPictures'
    <2>1. shown'.serial <= lastSent'
      BY <1>1, <1>2
    <2>2. ASSUME NEW d \in network', Awaited(d)' PROVE shown'.serial < d.unit
      <3>1. Awaited(d)
        BY <1>1, <2>2 DEF Awaited, IsNewerFrame, Complete, Missing
      <3>2. d.unit \in Nat
        BY <1>1, FragmentType
      <3> QED
        BY <1>1, <1>2, <3>1, <3>2 DEF HearInv, AheadOfPictures
    <2> QED
      BY <2>1, <2>2 DEF AheadOfPictures
  <1> QED
    BY <1>3, <1>4 DEF HearInv

\* Among the fragments in flight the IDs tell the units apart and order them.
LEMMA InFlightOrder ==
  ASSUME LineInv, NEW d \in network, NEW e \in network
  PROVE  /\ d.id = e.id => d.unit = e.unit
         /\ e.id # d.id /\ (e.id - d.id) % IdRange < IdRange \div 2 => d.unit < e.unit
  <1>1. PICK base \in Int : NumberedFrom(base)
    BY DEF LineInv, Numbered
  <1> DEFINE m == d.unit - 1 + base
             n == e.unit - 1 + base
  <1>2. d.unit \in Nat /\ e.unit \in Nat
    BY FragmentType DEF LineInv, LineTyped
  <1>3. m \in Int /\ n \in Int /\ m - n = d.unit - e.unit
    BY <1>1, <1>2
  <1>4. d.id = m % IdRange /\ e.id = n % IdRange
    BY <1>1 DEF NumberedFrom
  <1>5. d.unit - e.unit < Lifetime /\ e.unit - d.unit < Lifetime
    <2>1. lastSent \in Nat
      BY BoundsType DEF LineInv, LineTyped
    <2>2. /\ d.unit <= lastSent /\ lastSent < d.unit + Lifetime
          /\ e.unit <= lastSent /\ lastSent < e.unit + Lifetime
      BY DEF LineInv, InFlight
    <2> QED
      BY <1>2, <2>1, <2>2, IdRangeType
  <1>6. m = n => d.unit = e.unit
    BY <1>1, <1>2
  <1>7. m < n => d.unit < e.unit
    BY <1>1, <1>2
  <1> HIDE DEF m, n
  <1>8. m - n < IdRange /\ n - m < IdRange /\ m - n <= IdRange \div 2
    BY <1>2, <1>3, <1>5, IdRangeType
  <1>9. m % IdRange = n % IdRange => m = n
    BY <1>3, <1>8, IdRangeType, SameRemainder
  <1>10. n % IdRange # m % IdRange
           /\ ((n % IdRange) - (m % IdRange)) % IdRange < IdRange \div 2 => m < n
    BY <1>3, <1>8, IdRangeType, NewerIsAhead
  <1> QED
    BY <1>4, <1>6, <1>7, <1>9, <1>10

-----------------------------------------------------------------------------
(* The steps of the receiver                                               *)

LEMMA ArriveEffect ==
  ASSUME LineInv, HearInv, NEW d \in network, Receive(d)
  PROVE  /\ UNCHANGED <<serial, nextFrameId, lastEncoded, pending, senderAlive>>
         /\ UNCHANGED <<outbound, udpPc, sending, lastSent, restarts, network>>
         /\ receiving /\ MayArrive(d) /\ d \in Fragment
         /\ heard' = (IF d.unit > heard THEN d.unit ELSE heard)
         /\ heard \in Nat /\ lastSent \in Nat /\ d.unit \in 1 .. lastSent
         /\ heard' \in 0 .. lastSent
  <1>1. /\ UNCHANGED <<serial, nextFrameId, lastEncoded, pending, senderAlive>>
        /\ UNCHANGED <<outbound, udpPc, sending, lastSent, restarts, network>>
        /\ receiving /\ MayArrive(d)
        /\ heard' = IF d.unit > heard THEN d.unit ELSE heard
    BY DEF Receive, ReceiveCurrent, ReceiveUseless, ReceiveLate, ReceiveNewer,
       ReceiveRefused, Arrive, castVars, udpVars
  <1>2. /\ heard \in 0 .. lastSent /\ lastSent \in Nat /\ d \in Fragment
        /\ d.unit \in Nat /\ d.unit > 0 /\ d.unit <= lastSent
    BY FragmentType, BoundsType DEF LineInv, LineTyped, InFlight, HearInv, HearTyped
  <1> QED
    BY <1>1, <1>2

\* A fragment that leaves the reassembler alone.
LEMMA QuietHear ==
  ASSUME LineInv, HearInv, NEW d \in network,
         ReceiveUseless(d) \/ ReceiveLate(d) \/ ReceiveRefused(d)
  PROVE  HearInv'
  <1>1. /\ reassembler' = reassembler /\ shown' = shown /\ reference' = reference
        /\ receiving' = receiving /\ waiting' \in {waiting, TRUE}
    BY DEF ReceiveUseless, ReceiveLate, ReceiveRefused
  <1>2. lastSent' = lastSent /\ network' = network /\ heard' \in 0 .. lastSent
    BY ArriveEffect DEF Receive
  <1>3. HearTyped'
    BY <1>1, <1>2 DEF HearInv, HearTyped
  <1>4. AheadOfPictures'
    BY <1>1, <1>2 DEF HearInv, AheadOfPictures, Awaited, IsNewerFrame, Complete, Missing
  <1> QED
    BY <1>3, <1>4 DEF HearInv

\* What a fragment is added to, and whether the decoder has to wait for a key.
TakesUp(r, d, mustWait) ==
  /\ Accepts(r, d) /\ r.frameId = d.id
  /\ reassembler' = Add(r, d)
  /\ AfterAdd(Add(r, d), d, mustWait)
  /\ \/ r = reassembler /\ mustWait = waiting
     \/ /\ IsNewerFrame(reassembler, d.id) /\ r.received = {}
        /\ mustWait = (waiting \/ Incomplete(reassembler))

LEMMA TakenUp ==
  ASSUME LineInv, HearInv, NEW d \in network, ReceiveCurrent(d) \/ ReceiveNewer(d)
  PROVE  \E r \in Reassemblers, mustWait \in BOOLEAN : TakesUp(r, d, mustWait)
  <1>1. d \in Fragment /\ reassembler \in Reassemblers /\ waiting \in BOOLEAN
    BY DEF LineInv, LineTyped, HearInv, HearTyped
  <1>2. CASE ReceiveCurrent(d)
    <2>1. TakesUp(reassembler, d, waiting)
      BY <1>2 DEF ReceiveCurrent, AddFragment, TakesUp
    <2> QED
      BY <1>1, <2>1
  <1>3. CASE ReceiveNewer(d)
    <2> DEFINE mustWait == waiting \/ Incomplete(reassembler)
               r == Reset(reassembler, d)
    <2>1. WithinLimit(d) /\ IsNewerFrame(reassembler, d.id) /\ AddFragment(r, d, mustWait)
      BY <1>3 DEF ReceiveNewer
    <2>2. r \in Reassemblers /\ r.frameId = d.id /\ r.received = {}
      BY <1>1, <2>1, ResetTyped
    <2>3. mustWait \in BOOLEAN
      OBVIOUS
    <2>4. TakesUp(r, d, mustWait)
      <3>1. mustWait = (waiting \/ Incomplete(reassembler))
        OBVIOUS
      <3> HIDE DEF mustWait, r
      <3> QED
        BY <2>1, <2>2, <3>1 DEF AddFragment, TakesUp
    <2> HIDE DEF mustWait, r
    <2> QED
      BY <2>2, <2>3, <2>4
  <1> QED
    BY <1>2, <1>3

\* What the loop does after `add'.
LEMMA PictureEffect ==
  ASSUME NEW a, NEW d \in Fragment, NEW mustWait \in BOOLEAN, AfterAdd(a, d, mustWait),
         HearTyped
  PROVE  /\ receiving' \in BOOLEAN /\ waiting' \in BOOLEAN
         /\ reference' \in 0 .. MaxUnits
         /\ \/ shown' = shown
            \/ Complete(a) /\ shown' \in [serial : 0 .. MaxUnits, sound : BOOLEAN]
                 /\ shown'.serial = d.unit
  <1>1. /\ d.unit \in 0 .. MaxUnits /\ d.shape \in BOOLEAN /\ 0 \in 0 .. MaxUnits
        /\ receiving \in BOOLEAN /\ waiting \in BOOLEAN /\ reference \in 0 .. MaxUnits
    BY FragmentType, BoundsType DEF HearTyped
  <1>2. ASSUME NEW known, Decode(d, known)
        PROVE  /\ waiting' \in BOOLEAN /\ reference' \in 0 .. MaxUnits
               /\ \/ shown' = shown
                  \/ shown' \in [serial : 0 .. MaxUnits, sound : BOOLEAN]
                       /\ shown'.serial = d.unit
    <2> DEFINE sound == d.shape \/ (known # NoReference /\ known = d.prev)
    <2>1. sound \in BOOLEAN
      BY <1>1
    <2>2. \/ /\ shown' = [serial |-> d.unit, sound |-> sound]
             /\ reference' = IF sound THEN d.unit ELSE NoReference
             /\ waiting' = FALSE
          \/ /\ reference' = NoReference /\ waiting' = TRUE /\ shown' = shown
      BY <1>2 DEF Decode
    <2> HIDE DEF sound
    <2>3. /\ [serial |-> d.unit, sound |-> sound] \in [serial : 0 .. MaxUnits, sound : BOOLEAN]
          /\ [serial |-> d.unit, sound |-> sound].serial = d.unit
      BY <1>1, <2>1
    <2> QED
      BY <1>1, <2>2, <2>3 DEF NoReference
  <1>3. CASE UNCHANGED <<reference, shown, receiving>> /\ waiting' = mustWait
    BY <1>1, <1>3
  <1>4. CASE receiving' = receiving /\ Complete(a) /\ \E known : Decode(d, known)
    BY <1>1, <1>2, <1>4
  <1>5. CASE receiving' = FALSE /\ UNCHANGED <<reference, shown, waiting>>
    BY <1>1, <1>5
  <1> QED
    BY <1>3, <1>4, <1>5 DEF AfterAdd

\* What is added to was awaited, so it is ahead of every picture.
LEMMA TakenAhead ==
  ASSUME LineInv, HearInv, NEW d \in network, NEW r \in Reassemblers,
         NEW mustWait \in BOOLEAN, TakesUp(r, d, mustWait)
  PROVE  shown.serial < d.unit
  <1>1. d \in Fragment
    BY DEF LineInv, LineTyped
  <1>2. Awaited(d)
    BY <1>1, AcceptsIncomplete DEF TakesUp, Awaited
  <1> QED
    BY <1>2 DEF HearInv, AheadOfPictures

LEMMA TakeHear ==
  ASSUME LineInv, HearInv, NEW d \in network, ReceiveCurrent(d) \/ ReceiveNewer(d)
  PROVE  HearInv'
  <1>1. PICK r \in Reassemblers, mustWait \in BOOLEAN : TakesUp(r, d, mustWait)
    BY TakenUp
  <1>2. /\ lastSent' = lastSent /\ network' = network /\ heard' \in 0 .. lastSent
        /\ d.unit \in 1 .. lastSent /\ lastSent \in Nat /\ d \in Fragment
    BY ArriveEffect DEF Receive
  <1> DEFINE a == Add(r, d)
  <1>3. a \in Reassemblers /\ a.frameId = d.id /\ reassembler' = a
    BY <1>1, <1>2, AddTyped DEF TakesUp
  <1>4. /\ receiving' \in BOOLEAN /\ waiting' \in BOOLEAN
        /\ reference' \in 0 .. MaxUnits
        /\ \/ shown' = shown
           \/ Complete(a) /\ shown' \in [serial : 0 .. MaxUnits, sound : BOOLEAN]
                /\ shown'.serial = d.unit
    BY <1>1, <1>2, PictureEffect DEF TakesUp, HearInv
  <1>5. shown.serial < d.unit /\ shown.serial \in Nat
    BY <1>1, TakenAhead, BoundsType DEF HearInv, HearTyped
  <1> HIDE DEF a
  <1>6. HearTyped'
    BY <1>2, <1>3, <1>4 DEF HearInv, HearTyped
  <1>7. AheadOfPictures'
    <2>1. shown'.serial <= lastSent'
      BY <1>2, <1>4, <1>5
    <2>2. ASSUME NEW e \in network,
                 \/ e.id = a.frameId /\ ~Complete(a)
                 \/ IsNewerFrame(a, e.id)
          PROVE  shown'.serial < e.unit
      <3>1. CASE e.id = a.frameId /\ ~Complete(a)
        <4>1. e.unit = d.unit
          BY <1>3, <3>1, InFlightOrder
        <4> QED
          BY <1>4, <1>5, <3>1, <4>1
      <3>2. CASE IsNewerFrame(a, e.id)
        <4>1. d.unit < e.unit
          BY <1>3, <3>2, InFlightOrder DEF IsNewerFrame
        <4>2. e.unit \in Nat
          BY FragmentType DEF LineInv, LineTyped
        <4> QED
          BY <1>2, <1>4, <1>5, <4>1, <4>2
      <3> QED
        BY <2>2, <3>1, <3>2
    <2>3. \A e \in network' : Awaited(e)' => shown'.serial < e.unit
      BY <1>2, <1>3, <2>2 DEF Awaited, IsNewerFrame, Complete, Missing
    <2> QED
      BY <2>1, <2>3 DEF AheadOfPictures
  <1> QED
    BY <1>6, <1>7 DEF HearInv

StreamInv == LineInv /\ HearInv

LEMMA NextStream == StreamInv /\ [Next]_vars => StreamInv'
  <1> SUFFICES ASSUME LineInv, HearInv, [Next]_vars PROVE HearInv'
    BY NextLine DEF StreamInv
  <1>1. CASE SenderStep \/ UNCHANGED vars
    BY <1>1, SenderHear
  <1>2. ASSUME NEW d \in network, ReceiveCurrent(d) \/ ReceiveNewer(d) PROVE HearInv'
    BY <1>2, TakeHear
  <1>3. ASSUME NEW d \in network,
               ReceiveUseless(d) \/ ReceiveLate(d) \/ ReceiveRefused(d)
        PROVE  HearInv'
    BY <1>3, QuietHear
  <1> QED
    BY <1>1, <1>2, <1>3 DEF Next, SenderStep

LEMMA StreamInvariant == Spec => []StreamInv
  <1>1. Init => StreamInv
    BY InitLine, InitHear DEF StreamInv
  <1> QED
    BY <1>1, NextStream, PTL DEF Spec

-----------------------------------------------------------------------------
(* Theorems                                                                *)

\* Every field of the cast and of the receiver keeps to what the code can store
\* in it, and the channel to its bound.
THEOREM StreamTypeCorrect == Spec => []TypeOK
  <1>1. StreamInv => TypeOK
    BY DEF StreamInv, LineInv, LineTyped, HearInv, HearTyped, Reassemblers, TypeOK
  <1> QED
    BY <1>1, StreamInvariant, PTL

\* The UDP thread drops a unit only for a newer one and never sends an older
\* one than it has sent, also across restarts of the program.
THEOREM FreshestUnitSent == Spec => FreshestSent
  <1>1. StreamInv /\ [Next]_vars
          => [/\ sending # NoFrame /\ sending' # NoFrame => sending'.serial > sending.serial
              /\ lastSent' # lastSent => lastSent' > lastSent]_<<sending, lastSent>>
    <2> SUFFICES ASSUME LineInv, [Next]_vars,
                        ~(sending' = sending /\ lastSent' = lastSent)
                 PROVE  /\ sending # NoFrame /\ sending' # NoFrame
                             => sending'.serial > sending.serial
                        /\ lastSent' # lastSent => lastSent' > lastSent
      BY DEF StreamInv
    <2>1. lastSent \in Nat /\ sending.serial \in Nat
      BY UnitType, BoundsType DEF LineInv, LineTyped
    <2>2. CASE TakeFrame
      <3>1. /\ outbound # <<>> /\ sending' = Head(outbound) /\ lastSent' = lastSent
            /\ outbound \in Seq(Unit)
        BY <2>2 DEF TakeFrame, LineInv, LineTyped
      <3>2. 1 \in 1 .. Len(outbound) /\ sending' = outbound[1] /\ sending' \in Unit
        BY <3>1
      <3>3. sending.serial < sending'.serial /\ sending'.serial \in Nat
        BY <3>2, UnitType DEF LineInv, InLine
      <3> QED
        BY <2>1, <3>1, <3>3
    <2>3. CASE SendUnit \/ SendFails
      BY <2>1, <2>3, SendingEffect
    <2>4. CASE Restart
      BY <2>4 DEF Restart
    <2> QED
      BY <2>2, <2>3, <2>4 DEF Next, Encode, EncodeFails, Enqueue, Connect, ClearAlive,
         DropChannel, ReceiveCurrent, ReceiveUseless, ReceiveLate, ReceiveNewer,
         ReceiveRefused, Arrive, udpVars, vars
  <1> QED
    BY <1>1, StreamInvariant, PTL DEF Spec, FreshestSent

\* The window shows no access unit twice and none after a newer one, whatever
\* the network does, however often the sender starts again with frame ID 0, and
\* when the receiver refuses units above its limit.
THEOREM UnitsShownInOrder == Spec => ShownInOrder
  <1>1. StreamInv /\ [Next]_vars => [shown'.serial > shown.serial]_shown
    <2> SUFFICES ASSUME LineInv, HearInv, [Next]_vars, shown' # shown
                 PROVE  shown'.serial > shown.serial
      BY DEF StreamInv
    <2>1. PICK d \in network : ReceiveCurrent(d) \/ ReceiveNewer(d)
      BY SenderEffect DEF Next, SenderStep, ReceiveUseless, ReceiveLate, ReceiveRefused,
         vars
    <2>2. PICK r \in Reassemblers, mustWait \in BOOLEAN : TakesUp(r, d, mustWait)
      BY <2>1, TakenUp
    <2>3. d \in Fragment /\ d.unit \in Nat /\ shown.serial \in Nat
      BY FragmentType, BoundsType DEF LineInv, LineTyped, HearInv, HearTyped
    <2>4. shown'.serial = d.unit
      BY <2>2, <2>3, PictureEffect DEF TakesUp, HearInv
    <2>5. shown.serial < d.unit
      BY <2>2, TakenAhead
    <2> QED
      BY <2>3, <2>4, <2>5
  <1> QED
    BY <1>1, StreamInvariant, PTL DEF Spec, ShownInOrder

-----------------------------------------------------------------------------
(* The first run of the sender                                             *)

\* The unit in progress is u, and all that was received of it is its own.
InProgress(u) ==
  /\ reassembler.frameId = (u - 1) % IdRange
  /\ \A i \in reassembler.received : reassembler.buf[i] = u

AllFit == Sizes \subseteq 1 .. MaxChunks

\* It is the newest heard of, unless units are too large to be taken up.
OwnFragments ==
  restarts = 0 => \E u \in 0 .. heard : InProgress(u) /\ (AllFit => u = heard)

LEMMA FirstRunIds ==
  ASSUME LineInv, restarts = 0, NEW d \in network
  PROVE  d.id = (d.unit - 1) % IdRange
  <1>1. PICK base \in Int : NumberedFrom(base)
    BY DEF LineInv, Numbered
  <1>2. base = 0 /\ d.id = (d.unit - 1 + base) % IdRange /\ d.unit \in Nat
    BY <1>1, FragmentType DEF NumberedFrom, LineInv, LineTyped
  <1>3. d.unit - 1 + base = d.unit - 1
    BY <1>2
  <1> QED
    BY <1>2, <1>3

\* In the first run the ID says whether a fragment is of the unit in progress
\* and, when every unit fits, whether it is of a newer one.
LEMMA FirstRunOrder ==
  ASSUME LineInv, HearInv, OwnFragments, restarts = 0, AllFit \/ MaxUnits < IdRange,
         NEW d \in network, Receive(d)
  PROVE  \E u \in 0 .. heard :
           /\ InProgress(u) /\ (d.id = reassembler.frameId => d.unit = u)
           /\ AllFit => u = heard /\ (IsNewerFrame(reassembler, d.id) <=> heard < d.unit)
  <1>1. PICK u \in 0 .. heard : InProgress(u) /\ (AllFit => u = heard)
    BY DEF OwnFragments
  <1> DEFINE m == u - 1
             n == d.unit - 1
  <1>2. /\ heard \in Nat /\ lastSent \in Nat /\ heard <= lastSent /\ d.unit \in Nat
        /\ d.unit <= MaxUnits /\ heard <= MaxUnits /\ MaxUnits \in Nat /\ u \in Nat
        /\ d.unit - heard < IdRange \div 2
    BY ArriveEffect, FragmentType, BoundsType
       DEF MayArrive, HearInv, HearTyped, LineInv, LineTyped
  <1>3. m \in Int /\ n \in Int /\ n - m = d.unit - u
    BY <1>2
  <1>4. reassembler.frameId = m % IdRange /\ d.id = n % IdRange
    BY <1>1, FirstRunIds DEF InProgress
  <1>5. heard - d.unit < Lifetime
    BY <1>2, IdRangeType DEF LineInv, InFlight
  <1>6. (m = n => d.unit = u) /\ (m < n <=> u < d.unit)
    BY <1>2
  <1>7. n - m < IdRange /\ m - n < IdRange
    <2>1. CASE AllFit
      BY <1>1, <1>2, <1>3, <1>5, <2>1, IdRangeType
    <2>2. CASE MaxUnits < IdRange
      BY <1>1, <1>2, <1>3, <2>2, IdRangeType
    <2> QED
      BY <2>1, <2>2
  <1>8. AllFit => n - m < IdRange \div 2 /\ m - n <= IdRange \div 2
    BY <1>1, <1>2, <1>3, <1>5, IdRangeType
  <1> HIDE DEF m, n
  <1>9. d.id = reassembler.frameId => d.unit = u
    BY <1>3, <1>4, <1>6, <1>7, IdRangeType, SameRemainder
  <1>10. ASSUME AllFit PROVE IsNewerFrame(reassembler, d.id) <=> u < d.unit
    <2>1. n % IdRange # m % IdRange
            /\ ((n % IdRange) - (m % IdRange)) % IdRange < IdRange \div 2 => m < n
      BY <1>3, <1>8, <1>10, IdRangeType, NewerIsAhead
    <2>2. m < n => n % IdRange # m % IdRange
            /\ ((n % IdRange) - (m % IdRange)) % IdRange < IdRange \div 2
      BY <1>3, <1>8, <1>10, IdRangeType, AheadIsNewer
    <2> QED
      BY <1>4, <1>6, <2>1, <2>2 DEF IsNewerFrame
  <1> QED
    BY <1>1, <1>9, <1>10

\* The unit a fragment was added to is the fragment's own.
LEMMA TakeOwn ==
  ASSUME LineInv, HearInv, OwnFragments, restarts = 0, AllFit \/ MaxUnits < IdRange,
         NEW d \in network, ReceiveCurrent(d) \/ ReceiveNewer(d)
  PROVE  /\ InProgress(d.unit)' /\ d.unit \in 0 .. heard'
         /\ AllFit => d.unit = heard'
  <1>1. PICK r \in Reassemblers, mustWait \in BOOLEAN : TakesUp(r, d, mustWait)
    BY TakenUp
  <1>2. PICK u \in 0 .. heard :
           /\ InProgress(u) /\ (d.id = reassembler.frameId => d.unit = u)
           /\ AllFit => u = heard /\ (IsNewerFrame(reassembler, d.id) <=> heard < d.unit)
    BY FirstRunOrder DEF Receive
  <1>3. /\ d \in Fragment /\ d.unit \in Nat /\ heard \in Nat
        /\ heard' = (IF d.unit > heard THEN d.unit ELSE heard)
    BY ArriveEffect, FragmentType DEF Receive
  <1> DEFINE a == Add(r, d)
  <1>4. /\ a.frameId = d.id /\ a.received = r.received \cup {d.index}
        /\ a.buf = [r.buf EXCEPT ![d.index] = d.unit]
        /\ reassembler' = a
    BY <1>1, <1>3, AddTyped DEF TakesUp
  <1>5. r.buf \in [0 .. MaxChunks - 1 -> 0 .. MaxUnits] /\ r.received \subseteq 0 .. MaxChunks - 1
    BY DEF Reassemblers
  <1>6. d.index \in 0 .. MaxChunks - 1
    BY <1>1, <1>3, FragmentType, BoundsType DEF TakesUp, Accepts, Reassemblers
  <1>7. \A i \in r.received : r.buf[i] = d.unit
    BY <1>1, <1>2 DEF TakesUp, InProgress
  <1>8. InProgress(d.unit)'
    <2>1. a.frameId = (d.unit - 1) % IdRange
      BY <1>4, FirstRunIds
    <2> HIDE DEF a
    <2>2. ASSUME NEW i \in a.received PROVE a.buf[i] = d.unit
      <3>1. i \in r.received \cup {d.index} /\ a.buf = [r.buf EXCEPT ![d.index] = d.unit]
        BY <1>4, <2>2
      <3> QED
        BY <1>5, <1>6, <1>7, <3>1
    <2> QED
      BY <1>4, <2>1, <2>2 DEF InProgress
  <1>9. AllFit => d.unit = heard'
    BY <1>1, <1>2, <1>3 DEF TakesUp
  <1> QED
    BY <1>3, <1>8, <1>9

\* Nothing newer was heard of where the reassembler was left alone.
LEMMA QuietOwn ==
  ASSUME LineInv, HearInv, OwnFragments, restarts = 0, AllFit, NEW d \in network,
         ReceiveUseless(d) \/ ReceiveLate(d) \/ ReceiveRefused(d)
  PROVE  heard' = heard /\ ~ReceiveRefused(d)
  <1>1. PICK u \in 0 .. heard :
           /\ InProgress(u) /\ (d.id = reassembler.frameId => d.unit = u)
           /\ AllFit => u = heard /\ (IsNewerFrame(reassembler, d.id) <=> heard < d.unit)
    BY FirstRunOrder DEF Receive
  <1>2. /\ d \in Fragment /\ d.unit \in Nat /\ heard \in Nat
        /\ heard' = (IF d.unit > heard THEN d.unit ELSE heard)
    BY ArriveEffect, FragmentType DEF Receive
  <1>3. ~ReceiveRefused(d)
    BY <1>2 DEF ReceiveRefused, WithinLimit, AllFit, Fragment
  <1>4. d.unit <= heard
    BY <1>1, <1>2, <1>3 DEF ReceiveUseless, ReceiveLate
  <1> QED
    BY <1>2, <1>3, <1>4

LEMMA InitOwn == Init => OwnFragments
  <1>1. (0 - 1) % IdRange = IdRange - 1
    <2>1. 0 - 1 = (-1) * IdRange + (IdRange - 1) /\ IdRange - 1 \in Nat
      BY IdRangeType
    <2> QED
      BY <2>1, IdRangeType, RemainderIs
  <1> SUFFICES ASSUME Init PROVE OwnFragments
    OBVIOUS
  <1>2. InProgress(0) /\ heard = 0
    BY <1>1 DEF Init, InProgress, NewReassembler
  <1> QED
    BY <1>2 DEF OwnFragments

LEMMA NextOwn ==
  ASSUME AllFit \/ MaxUnits < IdRange, StreamInv, OwnFragments, [Next]_vars
  PROVE  OwnFragments'
  <1> SUFFICES ASSUME restarts' = 0
               PROVE  \E u \in 0 .. heard' : InProgress(u)' /\ (AllFit => u = heard')
    BY DEF OwnFragments
  <1>1. restarts = 0
    BY DEF StreamInv, LineInv, LineTyped, Next, Encode, EncodeFails, Enqueue, Connect,
       TakeFrame, SendUnit, SendFails, ClearAlive, DropChannel, Restart, ReceiveCurrent,
       ReceiveUseless, ReceiveLate, ReceiveNewer, ReceiveRefused, Arrive, vars
  <1>2. PICK u \in 0 .. heard : InProgress(u) /\ (AllFit => u = heard)
    BY <1>1 DEF OwnFragments
  <1>3. CASE SenderStep \/ UNCHANGED vars
    <2>1. heard' = heard /\ reassembler' = reassembler
      BY <1>3, SenderEffect DEF StreamInv
    <2> QED
      BY <1>2, <2>1 DEF InProgress
  <1>4. ASSUME NEW d \in network, ReceiveCurrent(d) \/ ReceiveNewer(d)
        PROVE  \E v \in 0 .. heard' : InProgress(v)' /\ (AllFit => v = heard')
    BY <1>1, <1>4, TakeOwn DEF StreamInv
  <1>5. ASSUME NEW d \in network,
               ReceiveUseless(d) \/ ReceiveLate(d) \/ ReceiveRefused(d)
        PROVE  \E v \in 0 .. heard' : InProgress(v)' /\ (AllFit => v = heard')
    <2>1. reassembler' = reassembler
      BY <1>5 DEF ReceiveUseless, ReceiveLate, ReceiveRefused
    <2>2. /\ heard' = (IF d.unit > heard THEN d.unit ELSE heard)
          /\ heard \in Nat /\ d.unit \in 1 .. lastSent /\ lastSent \in Nat
      BY <1>5, ArriveEffect DEF Receive, StreamInv
    <2>3. u \in 0 .. heard'
      BY <2>2
    <2>4. AllFit => heard' = heard
      BY <1>1, <1>5, QuietOwn DEF StreamInv
    <2> QED
      BY <1>2, <2>1, <2>3, <2>4 DEF InProgress
  <1> QED
    BY <1>3, <1>4, <1>5 DEF Next, SenderStep

\* In one run of the sender, what H264Reassembler gives to the decoder was cut
\* from one access unit, if every unit is within the receiver's limit or the run
\* is shorter than the range of IDs.  (Refused units leave the reassembler at an
\* old ID, which a run of them as long as the range would give again.)
THEOREM UnitsIntact ==
  ASSUME AllFit \/ MaxUnits < IdRange
  PROVE  Spec => []UnitIntactWithinRun
  <1>1. StreamInv /\ OwnFragments => UnitIntactWithinRun
    <2> SUFFICES ASSUME HearInv, OwnFragments, restarts = 0, Complete(reassembler),
                        NEW i \in 0 .. reassembler.total - 1,
                        NEW j \in 0 .. reassembler.total - 1
                 PROVE  reassembler.buf[i] = reassembler.buf[j]
      BY DEF StreamInv, UnitIntactWithinRun, UnitIntact, Intact
    <2>1. reassembler \in Reassemblers
      BY DEF HearInv, HearTyped
    <2>2. reassembler.received = 0 .. reassembler.total - 1
      BY <2>1, NothingMissing
    <2>3. PICK u \in 0 .. heard : InProgress(u)
      BY DEF OwnFragments
    <2> QED
      BY <2>2, <2>3 DEF InProgress
  <1>2. StreamInv /\ OwnFragments /\ [Next]_vars => OwnFragments'
    BY NextOwn
  <1> QED
    BY <1>1, <1>2, InitOwn, StreamInvariant, PTL DEF Spec

\* So it is for good when the program is never started again.
THEOREM UnitsIntactUninterrupted ==
  ASSUME MaxRestarts = 0, AllFit \/ MaxUnits < IdRange
  PROVE  Spec => []UnitIntact
  <1>1. TypeOK /\ UnitIntactWithinRun => UnitIntact
    BY DEF TypeOK, UnitIntactWithinRun
  <1> QED
    BY <1>1, StreamTypeCorrect, UnitsIntact, PTL

-----------------------------------------------------------------------------
(* Pictures of a paced source                                              *)

\* A source slower than the UDP thread has one unit on its way at a time, and
\* it refers to the unit sent before it.
OneInLine ==
  /\ pending # NoFrame => udpPc = "recv" /\ outbound = <<>> /\ sending = NoFrame
                          /\ pending.prev = lastSent /\ lastEncoded = pending.serial
  /\ outbound # <<>> => /\ udpPc = "recv" /\ pending = NoFrame /\ sending = NoFrame
                        /\ Len(outbound) = 1 /\ outbound[1].prev = lastSent
                        /\ lastEncoded = outbound[1].serial
  /\ sending # NoFrame => /\ outbound = <<>> /\ pending = NoFrame
                          /\ sending.prev = lastSent /\ lastEncoded = sending.serial
  /\ udpPc \in {"connect", "recv"} /\ pending = NoFrame /\ outbound = <<>>
       => lastEncoded = lastSent

\* No unit lies between one in flight and the unit it refers to, and the newest
\* heard of is one of them.
RefersToLast ==
  /\ \A d, e \in network : d.unit < e.unit => d.unit <= e.prev
  /\ \A d, e \in network : d.unit = e.unit => d.prev = e.prev
  /\ \A d \in network : heard < d.unit => heard <= d.prev

\* A decoder in use has the reference of the unit in progress or, when it is
\* complete, of the next one.
DecoderFollows ==
  receiving /\ ~waiting =>
    /\ reassembler.total > 0 /\ heard > 0 /\ reference # NoReference
    /\ Complete(reassembler) => reference = heard
    /\ ~Complete(reassembler) =>
         \A d \in network : d.unit = heard => reference = d.prev

SoundInv ==
  restarts = 0 => OneInLine /\ RefersToLast /\ DecoderFollows /\ PicturesSound

LEMMA StillFirstRun ==
  ASSUME LineInv, [Next]_vars, restarts' = 0
  PROVE  restarts = 0 /\ ~Restart
  BY DEF LineInv, LineTyped, Next, Encode, EncodeFails, Enqueue, Connect,
     TakeFrame, SendUnit, SendFails, ClearAlive, DropChannel, Restart, ReceiveCurrent,
     ReceiveUseless, ReceiveLate, ReceiveNewer, ReceiveRefused, Arrive, vars

LEMMA PacedLine ==
  ASSUME ~WholeUnitLoss, LineInv, OneInLine, SenderStep, ~Restart
  PROVE  OneInLine'
  <1>1. /\ udpPc = "drain" <=> sending # NoFrame
        /\ outbound \in Seq(Unit) /\ Len(outbound) \in Nat
        /\ pending \in Unit \cup {NoFrame}
    BY DEF LineInv, LineTyped, InLine
  <1>2. CASE Encode
    <2>1. /\ outbound = <<>> /\ udpPc = "recv" /\ pending = NoFrame
          /\ pending'.prev = lastEncoded /\ lastEncoded' = pending'.serial
          /\ UNCHANGED <<outbound, udpPc, sending, lastSent>>
      <3>1. PICK key \in BOOLEAN, total \in Sizes :
              pending' = [serial |-> serial + 1, id |-> nextFrameId, key |-> key,
                          total |-> total, prev |-> lastEncoded]
        BY <1>2 DEF Encode
      <3> QED
        BY <1>2, <3>1 DEF Encode, NextId, Paced, udpVars
    <2>2. pending' # NoFrame
      <3>1. lastEncoded' = serial + 1 /\ serial \in Nat
        BY <1>2, BoundsType DEF Encode, LineInv, LineTyped
      <3> QED
        <4>1. pending'.serial # 0
          BY <2>1, <3>1
        <4>2. NoFrame.serial = 0
          BY DEF NoFrame
        <4> QED
          BY <4>1, <4>2
    <2> QED
      BY <1>1, <2>1, <2>2 DEF OneInLine
  <1>3. CASE EncodeFails
    <2>1. UNCHANGED <<lastEncoded, pending, outbound, udpPc, sending, lastSent>>
      BY <1>3 DEF EncodeFails, udpVars
    <2> QED
      BY <2>1 DEF OneInLine
  <1>4. CASE Enqueue
    <2>1. /\ pending # NoFrame /\ pending' = NoFrame /\ outbound = <<>>
          /\ udpPc = "recv" /\ sending = NoFrame
          /\ pending.prev = lastSent /\ lastEncoded = pending.serial
          /\ UNCHANGED <<lastEncoded, udpPc, sending, lastSent>>
      BY <1>4 DEF Enqueue, OneInLine, udpVars
    <2>2. outbound' = Append(outbound, pending)
      BY <1>4, <2>1, BoundsType DEF Enqueue
    <2>3. pending \in Unit
      BY <1>1, <2>1
    <2>4. outbound' # <<>> /\ Len(outbound') = 1 /\ outbound'[1] = pending
      BY <1>1, <2>1, <2>2, <2>3
    <2> QED
      BY <2>1, <2>4 DEF OneInLine
  <1>5. CASE Connect \/ ClearAlive \/ DropChannel
    <2>1. /\ UNCHANGED <<lastEncoded, pending, sending, lastSent>>
          /\ udpPc \in {"connect", "exit", "closing"}
          /\ outbound' \in {outbound, <<>>}
          /\ udpPc' \in {"recv", "exit", "closing", "gone"}
          /\ udpPc' = "recv" => udpPc = "connect"
      BY <1>5 DEF Connect, ClearAlive, DropChannel, castVars
    <2>2. pending = NoFrame /\ outbound = <<>> /\ sending = NoFrame
      BY <1>1, <2>1 DEF OneInLine
    <2> QED
      BY <2>1, <2>2 DEF OneInLine
  <1>6. CASE TakeFrame
    <2>1. /\ outbound # <<>> /\ sending' = Head(outbound) /\ outbound' = Tail(outbound)
          /\ udpPc' = "drain" /\ UNCHANGED <<lastEncoded, pending, lastSent>>
      BY <1>6 DEF TakeFrame, castVars
    <2>2. /\ pending = NoFrame /\ Len(outbound) = 1 /\ outbound[1].prev = lastSent
          /\ lastEncoded = outbound[1].serial
      BY <2>1 DEF OneInLine
    <2>3. sending' = outbound[1] /\ outbound' = <<>>
      BY <1>1, <2>1, <2>2
    <2> QED
      BY <2>1, <2>2, <2>3 DEF OneInLine
  <1>7. CASE SendUnit \/ SendFails
    <2>1. /\ sending # NoFrame /\ lastSent' = sending.serial /\ sending' = NoFrame
          /\ UNCHANGED <<lastEncoded, pending, outbound>>
      BY <1>7, SendingEffect
    <2>2. outbound = <<>> /\ pending = NoFrame /\ lastEncoded = sending.serial
      BY <2>1 DEF OneInLine
    <2> QED
      BY <2>1, <2>2 DEF OneInLine
  <1> QED
    BY <1>2, <1>3, <1>4, <1>5, <1>6, <1>7 DEF SenderStep

\* What is sent refers to what was sent last, so it continues what is in flight.
LEMMA PacedNetwork ==
  ASSUME LineInv, HearInv, OneInLine, RefersToLast, SenderStep, ~Restart
  PROVE  RefersToLast'
  <1>1. heard' = heard /\ heard \in Nat /\ heard <= lastSent /\ lastSent \in Nat
    BY SenderEffect, BoundsType DEF LineInv, LineTyped, HearInv, HearTyped
  <1>2. CASE SendUnit \/ SendFails
    <2>1. /\ sending # NoFrame /\ sending.serial \in Nat /\ lastSent < sending.serial
          /\ udpPc = "drain" /\ sending.prev = lastSent
      BY <1>2, SendingEffect DEF OneInLine
    <2>2. PICK count \in Nat : Transmit(count)
      BY <1>2, SendingEffect
    <2>3. \A d \in network' :
            /\ d.unit \in Nat
            /\ \/ d \in network /\ d.unit <= lastSent
               \/ d.unit = sending.serial /\ d.prev = lastSent
      <3> TAKE d \in network'
      <3>1. /\ d \in Fragment
            /\ \/ d \in network
               \/ d.unit = sending.serial /\ d.prev = sending.prev
        BY <2>1, <2>2, Sent
      <3>2. d \in network => d.unit <= lastSent
        BY DEF LineInv, InFlight
      <3> QED
        BY <2>1, <3>1, <3>2, FragmentType
    <2>4. \A d, e \in network' : d.unit < e.unit => d.unit <= e.prev
      BY <1>1, <2>1, <2>3 DEF RefersToLast
    <2>5. \A d, e \in network' : d.unit = e.unit => d.prev = e.prev
      BY <1>1, <2>1, <2>3 DEF RefersToLast
    <2>6. \A d \in network' : heard' < d.unit => heard' <= d.prev
      BY <1>1, <2>3 DEF RefersToLast
    <2> QED
      BY <2>4, <2>5, <2>6 DEF RefersToLast
  <1>3. CASE network' = network
    BY <1>1, <1>3 DEF RefersToLast
  <1> QED
    BY <1>2, <1>3 DEF SenderStep, Encode, EncodeFails, Enqueue, Connect, TakeFrame,
       ClearAlive, DropChannel

LEMMA HeardRefers ==
  ASSUME LineInv, HearInv, RefersToLast, NEW d \in network, Receive(d)
  PROVE  RefersToLast'
  <1>1. /\ network' = network /\ heard \in Nat /\ d.unit \in Nat
        /\ heard' = (IF d.unit > heard THEN d.unit ELSE heard)
    BY ArriveEffect
  <1> QED
    BY <1>1 DEF RefersToLast

\* A decoder that need not wait has the reference of what is added.
LEMMA KnownReference ==
  ASSUME ~WholeUnitLoss, LineInv, HearInv, RefersToLast, DecoderFollows,
         NEW d \in network, ReceiveCurrent(d) \/ ReceiveNewer(d),
         NEW r \in Reassemblers, NEW mustWait \in BOOLEAN, TakesUp(r, d, mustWait),
         ~mustWait,
         d.id = reassembler.frameId => d.unit = heard,
         IsNewerFrame(reassembler, d.id) <=> heard < d.unit
  PROVE  /\ reference # NoReference
         /\ \A e \in network : e.unit = d.unit => reference = e.prev
  <1>1. /\ receiving /\ MayArrive(d) /\ d \in Fragment /\ d.unit \in Nat /\ d.prev \in Nat
        /\ heard \in Nat /\ reassembler \in Reassemblers
    BY ArriveEffect, FragmentType DEF Receive, HearInv, HearTyped
  <1>2. CASE r = reassembler /\ mustWait = waiting
    <2>1. ~waiting /\ ~Complete(reassembler) /\ d.unit = heard
      BY <1>1, <1>2, AcceptsIncomplete DEF TakesUp
    <2> QED
      BY <1>1, <2>1 DEF DecoderFollows
  <1>3. CASE IsNewerFrame(reassembler, d.id)
               /\ mustWait = (waiting \/ Incomplete(reassembler))
    <2>1. ~waiting /\ ~Incomplete(reassembler) /\ heard < d.unit
      BY <1>3
    <2>2. reference = heard /\ heard > 0 /\ reference # NoReference
      BY <1>1, <2>1, NothingMissing DEF DecoderFollows
    <2>3. d.prev = heard
      <3>1. d.prev <= heard
        BY <1>1, <2>2 DEF MayArrive
      <3>2. heard <= d.prev
        BY <2>1 DEF RefersToLast
      <3> QED
        BY <1>1, <3>1, <3>2
    <2>4. \A e \in network : e.unit = d.unit => e.prev = d.prev
      BY DEF RefersToLast
    <2> QED
      BY <2>2, <2>3, <2>4
  <1> QED
    BY <1>2, <1>3 DEF TakesUp

LEMMA TakeSound ==
  ASSUME ~WholeUnitLoss, AllFit, LineInv, HearInv, OwnFragments, restarts = 0,
         RefersToLast, DecoderFollows, PicturesSound,
         NEW d \in network, ReceiveCurrent(d) \/ ReceiveNewer(d)
  PROVE  DecoderFollows' /\ PicturesSound'
  <1>1. PICK r \in Reassemblers, mustWait \in BOOLEAN : TakesUp(r, d, mustWait)
    BY TakenUp
  <1>2. /\ d.id = reassembler.frameId => d.unit = heard
        /\ IsNewerFrame(reassembler, d.id) <=> heard < d.unit
    BY FirstRunOrder DEF Receive
  <1>3. /\ d \in Fragment /\ d.unit \in Nat /\ d.unit > 0 /\ network' = network
        /\ d.shape \in BOOLEAN /\ d.unit = heard'
    BY ArriveEffect, FragmentType, TakeOwn DEF Receive
  <1>4. ~mustWait => /\ reference # NoReference
                     /\ \A e \in network : e.unit = d.unit => reference = e.prev
    BY <1>1, <1>2, KnownReference
  <1> DEFINE a == Add(r, d)
  <1>5. /\ a \in Reassemblers /\ a.total > 0 /\ a.shape = d.shape /\ reassembler' = a
        /\ AfterAdd(a, d, mustWait)
    BY <1>1, <1>3, AddTyped, AcceptsIncomplete DEF TakesUp, Accepts
  <1> HIDE DEF a
  <1>6. Incomplete(a) <=> ~Complete(a)
    BY <1>5, NothingMissing
  <1>7. DecoderFollows' <=>
          (receiving' /\ ~waiting' =>
             /\ reference' # NoReference
             /\ Complete(a) => reference' = d.unit
             /\ ~Complete(a) => \A e \in network : e.unit = d.unit => reference' = e.prev)
    BY <1>3, <1>5 DEF DecoderFollows, Complete, Missing
  <1>8. ASSUME NEW known, Decode(d, known), Complete(a),
               d.shape \/ (known # NoReference /\ known = d.prev)
        PROVE  DecoderFollows' /\ PicturesSound'
    <2>1. \/ /\ shown' = [serial |-> d.unit, sound |-> TRUE]
             /\ reference' = d.unit /\ waiting' = FALSE
          \/ waiting' = TRUE /\ shown' = shown
      BY <1>8 DEF Decode
    <2>2. CASE /\ shown' = [serial |-> d.unit, sound |-> TRUE]
               /\ reference' = d.unit /\ waiting' = FALSE
      BY <1>3, <1>7, <1>8, <2>2 DEF PicturesSound, NoReference
    <2>3. CASE waiting' = TRUE /\ shown' = shown
      BY <1>7, <2>3 DEF PicturesSound
    <2> QED
      BY <2>1, <2>2, <2>3
  <1>9. CASE /\ Incomplete(a) \/ (mustWait /\ ~a.shape)
             /\ waiting' = mustWait
             /\ reference' = reference /\ shown' = shown
    BY <1>4, <1>6, <1>7, <1>9 DEF PicturesSound
  <1>10. CASE Complete(a) /\ ~mustWait /\ Decode(d, reference)
    <2>1. reference # NoReference /\ reference = d.prev
      BY <1>4, <1>10
    <2> QED
      BY <1>8, <1>10, <2>1
  <1>11. CASE Complete(a) /\ a.shape /\ Decode(d, NoReference)
    BY <1>5, <1>8, <1>11
  <1>12. CASE receiving' = FALSE /\ shown' = shown
    BY <1>7, <1>12 DEF PicturesSound
  <1> QED
    BY <1>5, <1>9, <1>10, <1>11, <1>12 DEF AfterAdd

LEMMA NextSound ==
  ASSUME ~WholeUnitLoss, AllFit, StreamInv, OwnFragments, SoundInv, [Next]_vars
  PROVE  SoundInv'
  <1> SUFFICES ASSUME restarts' = 0
               PROVE  OneInLine' /\ RefersToLast' /\ DecoderFollows' /\ PicturesSound'
    BY DEF SoundInv
  <1>1. /\ restarts = 0 /\ ~Restart /\ LineInv /\ HearInv
        /\ OneInLine /\ RefersToLast /\ DecoderFollows /\ PicturesSound
    BY StillFirstRun DEF StreamInv, SoundInv
  <1>2. CASE SenderStep
    <2>1. OneInLine' /\ RefersToLast'
      BY <1>1, <1>2, PacedLine, PacedNetwork
    <2>2. /\ heard' = heard /\ receiving' = receiving /\ reassembler' = reassembler
          /\ waiting' = waiting /\ reference' = reference /\ shown' = shown
          /\ lastSent \in Nat /\ heard \in Nat /\ heard <= lastSent
          /\ \A d \in network' : d \in Fragment /\ (d \in network \/ lastSent < d.unit)
      BY <1>1, <1>2, SenderEffect DEF HearInv, HearTyped
    <2>3. \A d \in network' : d.unit = heard => d \in network
      BY <2>2, FragmentType
    <2>4. DecoderFollows' /\ PicturesSound'
      BY <1>1, <2>2, <2>3 DEF DecoderFollows, PicturesSound, Complete, Missing
    <2> QED
      BY <2>1, <2>4
  <1>3. CASE UNCHANGED vars
    <2>1. OneInLine' /\ RefersToLast'
      BY <1>1, <1>3 DEF OneInLine, RefersToLast, vars, castVars, udpVars, receiverVars
    <2>2. DecoderFollows' /\ PicturesSound'
      BY <1>1, <1>3 DEF DecoderFollows, PicturesSound, Complete, Missing, vars, receiverVars
    <2> QED
      BY <2>1, <2>2
  <1>4. ASSUME NEW d \in network, Receive(d)
        PROVE  OneInLine' /\ RefersToLast'
    <2>1. UNCHANGED <<pending, outbound, udpPc, sending, lastSent, lastEncoded>>
      BY <1>1, <1>4, ArriveEffect
    <2>2. RefersToLast'
      BY <1>1, <1>4, HeardRefers
    <2>3. OneInLine'
      BY <1>1, <2>1 DEF OneInLine
    <2> QED
      BY <2>2, <2>3
  <1>5. ASSUME NEW d \in network, ReceiveCurrent(d) \/ ReceiveNewer(d)
        PROVE  DecoderFollows' /\ PicturesSound'
    BY <1>1, <1>5, TakeSound
  <1>6. ASSUME NEW d \in network,
               ReceiveUseless(d) \/ ReceiveLate(d) \/ ReceiveRefused(d)
        PROVE  DecoderFollows' /\ PicturesSound'
    <2>1. heard' = heard /\ ~ReceiveRefused(d)
      BY <1>1, <1>6, QuietOwn
    <2>2. network' = network
      BY <1>1, <1>6, ArriveEffect DEF Receive
    <2>3. /\ receiving' = receiving /\ reassembler' = reassembler /\ waiting' = waiting
          /\ reference' = reference /\ shown' = shown
      BY <1>6, <2>1 DEF ReceiveUseless, ReceiveLate
    <2> QED
      BY <1>1, <2>1, <2>2, <2>3 DEF DecoderFollows, PicturesSound, Complete, Missing
  <1> QED
    BY <1>2, <1>3, <1>4, <1>5, <1>6 DEF Next, SenderStep, Receive

\* In the first run, with a source slower than the UDP thread, a network that
\* loses no unit whole and units within the receiver's limit, every picture was
\* decoded against the reference it was encoded against: waiting for a keyframe
\* whenever a unit was given up incomplete is enough.
THEOREM PacedPicturesSound ==
  ASSUME ~WholeUnitLoss, AllFit
  PROVE  Spec => [](restarts = 0 => PicturesSound)
  <1>1. Init => SoundInv
    <2> SUFFICES ASSUME Init PROVE SoundInv
      OBVIOUS
    <2>1. OneInLine
      BY DEF Init, OneInLine, NoReference
    <2>2. RefersToLast /\ DecoderFollows /\ PicturesSound
      BY DEF Init, RefersToLast, DecoderFollows, PicturesSound
    <2> QED
      BY <2>1, <2>2 DEF SoundInv
  <1>2. StreamInv /\ OwnFragments /\ [Next]_vars => OwnFragments'
    BY NextOwn
  <1>3. StreamInv /\ OwnFragments /\ SoundInv /\ [Next]_vars => SoundInv'
    BY NextSound
  <1>4. SoundInv => (restarts = 0 => PicturesSound)
    BY DEF SoundInv
  <1> QED
    BY <1>1, <1>2, <1>3, <1>4, InitOwn, StreamInvariant, PTL DEF Spec
=============================================================================
