------------------------ MODULE H264Recovery_proofs ------------------------
(***************************************************************************)
(* What holds of the endless H.264 stream for every range of frame IDs,    *)
(* size of a unit, distance of keyframes and length of an outage.          *)
(*                                                                         *)
(* The argument is about ages: how many units were numbered after one.     *)
(* What is in flight and what the receiver is working at are younger than  *)
(* half of the ID range (InFlight, InStep), so is_newer_frame compares     *)
(* ages although the IDs wrap.  A fragment of the last unit is then newer  *)
(* than the unit in progress or belongs to it, and every fragment of it    *)
(* that arrives is kept.  Only the first run of the sender is in step: a   *)
(* second one begins at 0, and the receiver stays with the ID of the first *)
(* one for as long as is_newer_frame says so.                              *)
(***************************************************************************)
EXTENDS H264Recovery, DivisionLemmas, FiniteSetTheorems

-----------------------------------------------------------------------------
(* Constants and values                                                    *)

LEMMA ConstantsType ==
  /\ IdRange \in Nat /\ IdRange > 0 /\ IdRange % 2 = 0
  /\ IdRange \div 2 \in Nat /\ IdRange \div 2 < IdRange
  /\ MaxSilent \in Nat /\ MaxSilent + 2 < IdRange \div 2
  /\ MaxChunks \in Nat /\ Total \in Nat /\ Total > 0 /\ Total <= MaxChunks
  /\ Gop \in Nat /\ Gop > 0 /\ MaxRestarts \in Nat
  BY ReassemblyAssumption, RecoveryAssumption

Ids == 0 .. IdRange - 1
All == 0 .. Total - 1

Fragments == [id : Ids, shape : BOOLEAN, index : All, total : {Total},
              unit : 0 .. MaxRestarts]

Reassemblers ==
  {r \in [frameId : Ids, shape : BOOLEAN \cup {NoShape}, total : 0 .. MaxChunks,
          received : SUBSET (0 .. MaxChunks - 1),
          buf : [0 .. MaxChunks - 1 -> 0 .. MaxRestarts]] :
     r.received \subseteq 0 .. r.total - 1}

LEMMA NewTyped == NewReassembler \in Reassemblers
  <1>1. IdRange - 1 \in Ids /\ 0 \in 0 .. MaxChunks /\ 0 \in 0 .. MaxRestarts
    BY ConstantsType DEF Ids
  <1>2. \A i \in {} : i \in 0 .. MaxChunks - 1 /\ i \in 0 .. 0 - 1
    OBVIOUS
  <1> QED
    BY <1>1, <1>2 DEF NewReassembler, Reassemblers

\* The unit that begins with d.
LEMMA BegunTyped ==
  ASSUME NEW r \in Reassemblers, NEW d \in Fragments
  PROVE  LET s == Add(Reset(r, d), d)
         IN  /\ s \in Reassemblers
             /\ s.frameId = d.id /\ s.shape = d.shape /\ s.total = d.total
             /\ s.received = {d.index} /\ s.buf = [r.buf EXCEPT ![d.index] = d.unit]
  <1> DEFINE i == d.id
             h == d.shape
             n == d.total
             x == d.index
             u == d.unit
             b == [r.buf EXCEPT ![x] = u]
             s == Add(Reset(r, d), d)
  <1>1. /\ i \in Ids /\ h \in BOOLEAN /\ n \in 0 .. MaxChunks
        /\ x \in 0 .. MaxChunks - 1 /\ x \in 0 .. n - 1 /\ u \in 0 .. MaxRestarts
    BY ConstantsType DEF Fragments, All
  <1>2. r.buf \in [0 .. MaxChunks - 1 -> 0 .. MaxRestarts]
    BY DEF Reassemblers
  <1>3. r = [frameId |-> r.frameId, shape |-> r.shape, total |-> r.total,
             received |-> r.received, buf |-> r.buf]
    BY DEF Reassemblers
  <1> DEFINE r1 == [r EXCEPT !.frameId = i]
             r2 == [r1 EXCEPT !.shape = h]
             r3 == [r2 EXCEPT !.total = n]
             r4 == [r3 EXCEPT !.received = {}]
             r5 == [r4 EXCEPT !.received = @ \cup {x}]
  <1>4. Reset(r, d) = r4
    BY DEF Reset
  <1>5. s = [r5 EXCEPT !.buf[x] = u]
    BY <1>4 DEF Add
  <1> HIDE DEF i, h, n, x, u, s
  <1>6. r5 = [frameId |-> i, shape |-> h, total |-> n, received |-> {x},
              buf |-> r.buf]
    <2>1. r1 = [frameId |-> i, shape |-> r.shape, total |-> r.total,
                received |-> r.received, buf |-> r.buf]
      BY <1>3
    <2> HIDE DEF r1
    <2>2. r2 = [frameId |-> i, shape |-> h, total |-> r.total,
                received |-> r.received, buf |-> r.buf]
      BY <2>1
    <2> HIDE DEF r2
    <2>3. r3 = [frameId |-> i, shape |-> h, total |-> n, received |-> r.received,
                buf |-> r.buf]
      BY <2>2
    <2> HIDE DEF r3
    <2>4. r4 = [frameId |-> i, shape |-> h, total |-> n, received |-> {},
                buf |-> r.buf]
      BY <2>3
    <2> HIDE DEF r4
    <2>5. {} \cup {x} = {x}
      OBVIOUS
    <2> QED
      BY <2>4, <2>5
  <1> HIDE DEF r1, r2, r3, r4, r5
  <1>7. s = [frameId |-> i, shape |-> h, total |-> n, received |-> {x}, buf |-> b]
    BY <1>5, <1>6
  <1>8. b \in [0 .. MaxChunks - 1 -> 0 .. MaxRestarts]
    BY <1>1, <1>2
  <1> HIDE DEF b
  <1>9. s \in Reassemblers
    BY <1>1, <1>7, <1>8 DEF Reassemblers
  <1> QED
    BY <1>7, <1>9 DEF i, h, n, x, u, s, b

\* The unit in progress with one more fragment.
LEMMA AddTyped ==
  ASSUME NEW r \in Reassemblers, NEW d \in Fragments, Accepts(r, d)
  PROVE  LET s == Add(r, d)
         IN  /\ s \in Reassemblers
             /\ s.frameId = r.frameId /\ s.shape = r.shape /\ s.total = r.total
             /\ s.received = r.received \cup {d.index}
             /\ s.buf = [r.buf EXCEPT ![d.index] = d.unit]
  <1> DEFINE x == d.index
             u == d.unit
             g == r.received \cup {x}
             b == [r.buf EXCEPT ![x] = u]
             s == Add(r, d)
  <1>1. /\ x \in 0 .. MaxChunks - 1 /\ x \in 0 .. r.total - 1 /\ u \in 0 .. MaxRestarts
    BY ConstantsType DEF Fragments, All, Accepts, Reassemblers
  <1>2. /\ r.buf \in [0 .. MaxChunks - 1 -> 0 .. MaxRestarts]
        /\ r.received \in SUBSET (0 .. MaxChunks - 1)
        /\ r.received \subseteq 0 .. r.total - 1
        /\ r.frameId \in Ids /\ r.shape \in BOOLEAN \cup {NoShape}
        /\ r.total \in 0 .. MaxChunks
    BY DEF Reassemblers
  <1>3. r = [frameId |-> r.frameId, shape |-> r.shape, total |-> r.total,
             received |-> r.received, buf |-> r.buf]
    BY DEF Reassemblers
  <1> DEFINE r1 == [r EXCEPT !.received = g]
  <1>4. s = [r1 EXCEPT !.buf[x] = u]
    BY DEF Add
  <1> HIDE DEF x, u, s
  <1>5. s = [frameId |-> r.frameId, shape |-> r.shape, total |-> r.total,
             received |-> g, buf |-> b]
    <2> HIDE DEF g
    <2>1. r1 = [frameId |-> r.frameId, shape |-> r.shape, total |-> r.total,
                received |-> g, buf |-> r.buf]
      BY <1>3
    <2> HIDE DEF r1
    <2> QED
      BY <1>4, <2>1
  <1>6. b \in [0 .. MaxChunks - 1 -> 0 .. MaxRestarts]
    BY <1>1, <1>2
  <1>7. g \in SUBSET (0 .. MaxChunks - 1) /\ g \subseteq 0 .. r.total - 1
    BY <1>1, <1>2
  <1> HIDE DEF b, g
  <1>8. s \in Reassemblers
    BY <1>2, <1>5, <1>6, <1>7 DEF Reassemblers
  <1> QED
    BY <1>5, <1>8 DEF x, u, g, b, s

\* A unit that has every one of its fragments misses none.
LEMMA NothingMissing ==
  ASSUME NEW r \in Reassemblers, r.total = Total, All \subseteq r.received
  PROVE  Complete(r) /\ ~Incomplete(r)
  <1> DEFINE n == Total - 1
  <1>1. r.received = 0 .. n
    BY DEF Reassemblers, All
  <1>2. n \in Int /\ (IF 0 > n THEN 0 ELSE n - 0 + 1) = Total
    BY ConstantsType
  <1> HIDE DEF n
  <1>3. Cardinality(r.received) = Total
    BY <1>1, <1>2, FS_Interval
  <1>4. Total - Total = 0 /\ ~(0 > 0)
    BY ConstantsType
  <1> QED
    BY <1>3, <1>4, ConstantsType DEF Complete, Incomplete, Missing

-----------------------------------------------------------------------------
(* Ages                                                                    *)

\* What % does within a lap of the range of frame IDs.
LEMMA Wrap ==
  ASSUME NEW m \in Int, 0 - IdRange <= m, m < 2 * IdRange
  PROVE  m % IdRange = IF m < 0 THEN m + IdRange
                       ELSE IF m < IdRange THEN m ELSE m - IdRange
  <1>1. /\ (0 - 1) * IdRange = 0 - IdRange /\ 0 * IdRange = 0
        /\ 1 * IdRange = IdRange
    BY ConstantsType
  <1>2. CASE m < 0
    <2>1. m + IdRange \in Nat /\ m + IdRange < IdRange
          /\ m = (0 - 1) * IdRange + (m + IdRange)
      BY <1>1, <1>2, ConstantsType
    <2> QED
      BY <1>2, <2>1, RemainderIs, ConstantsType
  <1>3. CASE 0 <= m /\ m < IdRange
    <2>1. m \in Nat /\ m = 0 * IdRange + m
      BY <1>1, <1>3
    <2> QED
      BY <1>3, <2>1, RemainderIs, ConstantsType
  <1>4. CASE IdRange <= m
    <2>1. m - IdRange \in Nat /\ m - IdRange < IdRange
          /\ m = 1 * IdRange + (m - IdRange)
      BY <1>1, <1>4, ConstantsType
    <2>2. m % IdRange = m - IdRange
      BY <2>1, RemainderIs, ConstantsType
    <2> QED
      BY <1>4, <2>2, ConstantsType
  <1> QED
    BY <1>2, <1>3, <1>4, ConstantsType

LEMMA RangeType == IdRange \in Nat /\ IdRange > 2
  BY ConstantsType

LEMMA NextIs ==
  ASSUME NEW n \in Ids
  PROVE  (n + 1) % IdRange = IF n + 1 < IdRange THEN n + 1 ELSE 0
  <1> DEFINE m == n + 1
  <1>1. /\ m \in Int /\ 0 - IdRange <= m /\ m < 2 * IdRange /\ ~(m < 0)
        /\ m <= IdRange
    BY RangeType DEF Ids
  <1> HIDE DEF m
  <1>2. m % IdRange = IF m < IdRange THEN m ELSE m - IdRange
    BY <1>1, Wrap
  <1>3. m % IdRange = IF m < IdRange THEN m ELSE 0
    BY <1>1, <1>2, RangeType
  <1> QED
    BY <1>3 DEF m

LEMMA UnitsSince ==
  ASSUME NEW n \in Ids, NEW id \in Ids
  PROVE  (n - 1 - id) % IdRange = IF id < n THEN n - 1 - id ELSE n - 1 - id + IdRange
  <1> DEFINE m == n - 1 - id
  <1>1. /\ m \in Int /\ 0 - IdRange <= m /\ m < IdRange /\ m < 2 * IdRange
        /\ m < 0 <=> ~(id < n)
    BY RangeType DEF Ids
  <1> HIDE DEF m
  <1>2. m % IdRange = IF m < 0 THEN m + IdRange ELSE m
    BY <1>1, Wrap
  <1>3. m % IdRange = IF id < n THEN m ELSE m + IdRange
    BY <1>1, <1>2
  <1> QED
    BY <1>3 DEF m

LEMMA AgeIs ==
  ASSUME nextFrameId \in Ids, NEW id \in Ids
  PROVE  /\ Age(id) = IF id < nextFrameId THEN nextFrameId - 1 - id
                      ELSE nextFrameId - 1 - id + IdRange
         /\ Age(id) \in Ids /\ Age(id) \in Nat
  <1>1. Age(id) = IF id < nextFrameId THEN nextFrameId - 1 - id
                  ELSE nextFrameId - 1 - id + IdRange
    BY UnitsSince DEF Age
  <1> QED
    BY <1>1, RangeType DEF Ids

\* An ID has the age of one unit only.
LEMMA SameAge ==
  ASSUME nextFrameId \in Ids, NEW id \in Ids, NEW jd \in Ids, Age(id) = Age(jd)
  PROVE  id = jd
  BY AgeIs, ConstantsType DEF Ids

\* is_newer_frame compares ages below half of the range.
LEMMA NewerIsYounger ==
  ASSUME nextFrameId \in Ids, NEW r, r.frameId \in Ids, NEW id \in Ids,
         Age(id) < IdRange \div 2, Age(r.frameId) < IdRange \div 2
  PROVE  IsNewerFrame(r, id) <=> Age(id) < Age(r.frameId)
  <1> DEFINE f == r.frameId
             m == id - f
             half == IdRange \div 2
  <1>1. /\ m \in Int /\ 0 - IdRange <= m /\ m < IdRange /\ m < 2 * IdRange
        /\ half \in Nat /\ IdRange = 2 * half /\ f \in Ids
    BY ConstantsType DEF Ids
  <1>2. m % IdRange = IF m < 0 THEN m + IdRange ELSE m
    <2> HIDE DEF m
    <2> QED
      BY <1>1, Wrap
  <1>3. IsNewerFrame(r, id) <=> id # f /\ m % IdRange < half
    BY DEF IsNewerFrame
  <1>4. /\ Age(id) = IF id < nextFrameId THEN nextFrameId - 1 - id
                     ELSE nextFrameId - 1 - id + IdRange
        /\ Age(f) = IF f < nextFrameId THEN nextFrameId - 1 - f
                    ELSE nextFrameId - 1 - f + IdRange
    BY <1>1, AgeIs
  <1>5. Age(id) < half /\ Age(f) < half
    OBVIOUS
  <1> HIDE DEF f, half
  <1> QED
    BY <1>1, <1>2, <1>3, <1>4, <1>5, ConstantsType DEF Ids, f

\* The fragments of the last unit are those of age 0.
LEMMA LastIsYoungest ==
  ASSUME nextFrameId \in Ids, NEW id \in Ids
  PROVE  /\ (id + 1) % IdRange = nextFrameId <=> Age(id) = 0
         /\ (nextFrameId - id) % IdRange = 1 <=> Age(id) = 0
  <1>1. (id + 1) % IdRange = IF id + 1 < IdRange THEN id + 1 ELSE 0
    BY NextIs
  <1>2. (nextFrameId - id) % IdRange = IF nextFrameId < id THEN nextFrameId - id + IdRange
                                       ELSE nextFrameId - id
    <2> DEFINE m == nextFrameId - id
    <2>1. /\ m \in Int /\ 0 - IdRange <= m /\ m < 2 * IdRange /\ m < IdRange
          /\ m < 0 <=> nextFrameId < id
      BY ConstantsType DEF Ids
    <2> HIDE DEF m
    <2>2. m % IdRange = IF m < 0 THEN m + IdRange ELSE m
      BY <2>1, Wrap
    <2> QED
      BY <2>1, <2>2 DEF m
  <1>3. IdRange \in Nat /\ IdRange > 2
    BY ConstantsType
  <1> QED
    BY <1>1, <1>2, <1>3, AgeIs DEF Ids

\* When a unit is numbered, it has age 0 and all others are one older.
LEMMA AgesGrow ==
  ASSUME nextFrameId \in Ids, NextId
  PROVE  /\ nextFrameId' \in Ids
         /\ \A id \in Ids : /\ id # nextFrameId => Age(id)' = Age(id) + 1
                            /\ id = nextFrameId => Age(id)' = 0
  <1>1. nextFrameId' = IF nextFrameId + 1 < IdRange THEN nextFrameId + 1 ELSE 0
    BY NextIs DEF NextId
  <1>2. nextFrameId' \in Ids
    BY <1>1, ConstantsType DEF Ids
  <1>3. ASSUME NEW id \in Ids
        PROVE  Age(id)' = IF id < nextFrameId' THEN nextFrameId' - 1 - id
                          ELSE nextFrameId' - 1 - id + IdRange
    BY <1>2, UnitsSince DEF Age
  <1>4. ASSUME NEW id \in Ids
        PROVE  /\ id # nextFrameId => Age(id)' = Age(id) + 1
               /\ id = nextFrameId => Age(id)' = 0
    BY <1>1, <1>3, AgeIs, ConstantsType DEF Ids
  <1> QED
    BY <1>2, <1>4

-----------------------------------------------------------------------------
(* The inductive invariant                                                 *)

Typed ==
  /\ nextFrameId \in Ids /\ sinceKey \in 0 .. Gop - 1 /\ run \in 0 .. MaxRestarts
  /\ network \in SUBSET Fragments /\ whole \in BOOLEAN
  /\ arrived \in SUBSET All /\ silent \in 0 .. MaxSilent
  /\ receiving \in BOOLEAN /\ waiting \in BOOLEAN /\ picture \in BOOLEAN
  /\ reassembler \in Reassemblers

\* The network keeps the units of this run and, while somebody listens, none
\* older than an outage; beside the last unit it keeps only the one before.
InFlight ==
  /\ \A d \in network : d.unit = run
  /\ \A d, e \in network : d.id = e.id => d.shape = e.shape
  /\ arrived # {} => \E d \in network : Age(d.id) = 0
  /\ receiving =>
       \A d \in network : /\ Age(d.id) <= silent + 2
                          /\ (\E e \in network : Age(e.id) = 0) => Age(d.id) <= 1

\* The receiver is not behind by more than an outage, what is in flight under
\* the ID it works at belongs to its unit, and of the last unit it has what has
\* arrived, no less and no more.
InStep ==
  run = 0 =>
    /\ receiving =>
         /\ Age(reassembler.frameId) <= silent + 1
         /\ \A d \in network : d.id = reassembler.frameId =>
                d.shape = reassembler.shape /\ reassembler.total = Total
         /\ Age(reassembler.frameId) = 0 => reassembler.received \subseteq arrived
    /\ arrived # {} =>
         /\ Age(reassembler.frameId) = 0 /\ reassembler.total = Total
         /\ arrived \subseteq reassembler.received

\* No byte of another run is in the buffer.
FirstRunOnly ==
  run = 0 => \A i \in 0 .. MaxChunks - 1 : reassembler.buf[i] = 0

Inv == Typed /\ InFlight /\ InStep /\ FirstRunOnly

LEMMA InvInit == Init => Inv
  <1> SUFFICES ASSUME Init PROVE Inv
    OBVIOUS
  <1>1. /\ nextFrameId \in Ids /\ sinceKey \in 0 .. Gop - 1
        /\ run \in 0 .. MaxRestarts /\ silent \in 0 .. MaxSilent
        /\ IdRange - 1 \in Ids
    BY ConstantsType DEF Init, Ids
  <1>2. Typed
    BY <1>1, NewTyped DEF Init, Typed
  <1>3. Age(IdRange - 1) = 0
    BY <1>1, AgeIs, RangeType DEF Init
  <1>4. InFlight
    BY DEF Init, InFlight
  <1>5. /\ reassembler.frameId = IdRange - 1 /\ reassembler.received = {}
        /\ \A i \in 0 .. MaxChunks - 1 : reassembler.buf[i] = 0
    BY DEF Init, NewReassembler
  <1>6. InStep /\ FirstRunOnly
    BY <1>3, <1>5 DEF Init, InStep, FirstRunOnly
  <1> QED
    BY <1>2, <1>4, <1>6 DEF Inv

-----------------------------------------------------------------------------
(* The sender                                                              *)

\* What numbering a unit does to the ages, if something was heard.
LEMMA UnitNumbered ==
  ASSUME Inv, Heard, NextId, UNCHANGED reassembler
  PROVE  /\ nextFrameId' \in Ids
         /\ Silence \in 0 .. MaxSilent
         /\ receiving /\ arrived = {} => Silence = silent + 1
         /\ ~(receiving /\ arrived = {}) => Silence = 0
         /\ \A d \in network : receiving =>
              Age(d.id)' = Age(d.id) + 1 /\ Age(d.id) + 1 <= Silence + 2
         /\ run = 0 /\ receiving =>
              /\ Age(reassembler.frameId)' = Age(reassembler.frameId) + 1
              /\ Age(reassembler.frameId) + 1 <= Silence + 1
              /\ reassembler.frameId # nextFrameId
  <1>1. /\ nextFrameId \in Ids /\ reassembler.frameId \in Ids
        /\ \A d \in network : d.id \in Ids
        /\ silent \in 0 .. MaxSilent
    BY DEF Inv, Typed, Reassemblers, Fragments
  <1>2. /\ nextFrameId' \in Ids
        /\ \A id \in Ids : /\ id # nextFrameId => Age(id)' = Age(id) + 1
                           /\ id = nextFrameId => Age(id)' = 0
    BY <1>1, AgesGrow
  <1>3. /\ receiving /\ arrived = {} => Silence = silent + 1
        /\ ~(receiving /\ arrived = {}) => Silence = 0
    BY DEF Silence
  <1>4. Silence \in 0 .. MaxSilent
    BY <1>1, <1>3, ConstantsType DEF Heard
  <1>5. Age(nextFrameId) = IdRange - 1 /\ \A id \in Ids : Age(id) \in Nat
    BY <1>1, AgeIs, RangeType DEF Ids
  <1>6. IdRange - 1 > MaxSilent + 3
    BY ConstantsType
  <1>7. ASSUME NEW d \in network, receiving
        PROVE  Age(d.id)' = Age(d.id) + 1 /\ Age(d.id) + 1 <= Silence + 2
    <2>1. /\ Age(d.id) <= silent + 2
          /\ (\E e \in network : Age(e.id) = 0) => Age(d.id) <= 1
          /\ arrived # {} => \E e \in network : Age(e.id) = 0
      BY <1>7 DEF Inv, InFlight
    <2>2. d.id # nextFrameId
      BY <1>1, <1>5, <1>6, <2>1, ConstantsType
    <2>3. Age(d.id) + 1 <= Silence + 2
      <3>1. CASE arrived = {}
        BY <1>1, <1>3, <1>5, <1>7, <2>1, <3>1
      <3>2. CASE arrived # {}
        BY <1>1, <1>3, <1>5, <2>1, <3>2
      <3> QED
        BY <3>1, <3>2
    <2> QED
      BY <1>1, <1>2, <2>2, <2>3
  <1>8. ASSUME run = 0, receiving
        PROVE  /\ Age(reassembler.frameId)' = Age(reassembler.frameId) + 1
               /\ Age(reassembler.frameId) + 1 <= Silence + 1
               /\ reassembler.frameId # nextFrameId
    <2> DEFINE f == reassembler.frameId
    <2>1. Age(f) <= silent + 1 /\ (arrived # {} => Age(f) = 0)
      BY <1>8 DEF Inv, InStep
    <2>2. f # nextFrameId
      BY <1>1, <1>5, <1>6, <2>1, ConstantsType
    <2>3. Age(f)' = Age(f) + 1
      <3>1. PICK id \in Ids : id = f
        BY <1>1
      <3>2. Age(id)' = Age(id) + 1
        BY <1>2, <2>2, <3>1
      <3>3. reassembler'.frameId = id
        BY <3>1
      <3> QED
        BY <3>1, <3>2, <3>3 DEF Age
    <2> QED
      BY <1>1, <1>3, <1>5, <1>8, <2>1, <2>2, <2>3
  <1> QED
    BY <1>2, <1>3, <1>4, <1>7, <1>8

LEMMA BurstTyped ==
  ASSUME Typed, NEW key \in BOOLEAN
  PROVE  \A d \in Burst(key) :
           /\ d \in Fragments /\ d.id = nextFrameId /\ d.shape = key
           /\ d.total = Total /\ d.unit = run
  BY DEF Typed, Burst, Fragments, All

LEMMA KeyCounted ==
  ASSUME sinceKey \in 0 .. Gop - 1, NEW key \in BOOLEAN, key \/ sinceKey < Gop - 1,
         sinceKey' = IF key THEN 0 ELSE sinceKey + 1
  PROVE  sinceKey' \in 0 .. Gop - 1
  BY ConstantsType

LEMMA SendKeeps ==
  ASSUME Inv, NEW key \in BOOLEAN, NEW intact \in BOOLEAN, SendUnit(key, intact)
  PROVE  Inv'
  <1>1. /\ Heard /\ NextId /\ silent' = Silence /\ arrived' = {} /\ whole' = intact
        /\ UNCHANGED <<run, receiving, reassembler, waiting, picture>>
        /\ network' = {d \in network : (nextFrameId - d.id) % IdRange = 1} \cup Burst(key)
    BY DEF SendUnit, receiverVars
  <1>2. /\ nextFrameId \in Ids /\ \A d \in network : d \in Fragments /\ d.id \in Ids
    BY DEF Inv, Typed, Fragments
  <1>3. /\ nextFrameId' \in Ids /\ silent' \in 0 .. MaxSilent
        /\ run = 0 /\ receiving =>
              /\ Age(reassembler.frameId)' = Age(reassembler.frameId) + 1
              /\ Age(reassembler.frameId) + 1 <= silent' + 1
              /\ reassembler.frameId # nextFrameId
    BY <1>1, UnitNumbered
  <1>4. \A d \in network' :
          \/ d \in network /\ Age(d.id) = 0 /\ d.id # nextFrameId /\ Age(d.id)' = 1
          \/ d \in Burst(key) /\ Age(d.id)' = 0
    <2>1. \A id \in Ids : Age(id) = 0 => id # nextFrameId
      BY <1>2, AgeIs, RangeType DEF Ids
    <2>2. \A id \in Ids : /\ Age(id) = 0 => id # nextFrameId /\ Age(id)' = 1
                          /\ id = nextFrameId => Age(id)' = 0
      BY <1>1, <1>2, <2>1, AgesGrow
    <2>3. ASSUME NEW d \in network, (nextFrameId - d.id) % IdRange = 1
          PROVE  Age(d.id) = 0 /\ d.id # nextFrameId /\ Age(d.id)' = 1
      <3>1. Age(d.id) = 0
        BY <1>2, <2>3, LastIsYoungest
      <3> QED
        BY <1>2, <2>2, <3>1
    <2>4. ASSUME NEW d \in Burst(key)
          PROVE  Age(d.id)' = 0
      BY <1>2, <2>2, BurstTyped DEF Inv
    <2>5. \A d \in network' : \/ d \in network /\ (nextFrameId - d.id) % IdRange = 1
                            \/ d \in Burst(key)
      BY <1>1, Zenon
    <2> QED
      BY <2>3, <2>4, <2>5
  <1>5. Typed'
    <2>1. network' \in SUBSET Fragments
      BY <1>1, <1>2, BurstTyped DEF Inv
    <2>2. sinceKey' \in 0 .. Gop - 1
      BY KeyCounted DEF SendUnit, Inv, Typed
    <2> QED
      BY <1>1, <1>3, <2>1, <2>2 DEF Inv, Typed
  <1>6. InFlight'
    <2>1. \A d \in network' : d.unit = run'
      BY <1>1, <1>4, BurstTyped DEF Inv, InFlight
    <2>2. \A d, e \in network' : d.id = e.id => d.shape = e.shape
      BY <1>4, BurstTyped DEF Inv, InFlight
    <2>3. \A d \in network' : Age(d.id)' <= 1 /\ Age(d.id)' <= silent' + 2
      BY <1>3, <1>4
    <2> QED
      BY <1>1, <2>1, <2>2, <2>3 DEF InFlight
  <1>7. InStep'
    <2> SUFFICES ASSUME run' = 0, receiving' PROVE InStep'
      BY <1>1 DEF InStep
    <2>1. /\ Age(reassembler.frameId)' = Age(reassembler.frameId) + 1
          /\ Age(reassembler.frameId) + 1 <= silent' + 1
          /\ reassembler.frameId # nextFrameId
      BY <1>1, <1>3
    <2>2. Age(reassembler.frameId) \in Nat
      BY <1>2, AgeIs DEF Inv, Typed, Reassemblers
    <2>3. \A d \in network' : d.id = reassembler'.frameId =>
             d.shape = reassembler'.shape /\ reassembler'.total = Total
      BY <1>1, <1>4, <2>1, BurstTyped DEF Inv, InStep
    <2> QED
      BY <1>1, <2>1, <2>2, <2>3 DEF InStep
  <1>8. FirstRunOnly'
    BY <1>1 DEF Inv, FirstRunOnly
  <1> QED
    BY <1>5, <1>6, <1>7, <1>8 DEF Inv

LEMMA SkipKeeps ==
  ASSUME Inv, NEW key \in BOOLEAN, SkipUnit(key)
  PROVE  Inv'
  <1>1. /\ Heard /\ NextId /\ silent' = Silence /\ arrived' = {} /\ whole' = FALSE
        /\ UNCHANGED <<run, network, receiving, reassembler, waiting, picture>>
    BY DEF SkipUnit, receiverVars
  <1>2. /\ nextFrameId \in Ids /\ \A d \in network : d.id \in Ids
    BY DEF Inv, Typed, Fragments
  <1>3. /\ nextFrameId' \in Ids /\ silent' \in 0 .. MaxSilent
        /\ \A d \in network : receiving =>
              Age(d.id)' = Age(d.id) + 1 /\ Age(d.id) + 1 <= silent' + 2
        /\ run = 0 /\ receiving =>
              /\ Age(reassembler.frameId)' = Age(reassembler.frameId) + 1
              /\ Age(reassembler.frameId) + 1 <= silent' + 1
    BY <1>1, UnitNumbered
  <1>4. Typed'
    <2>1. sinceKey' \in 0 .. Gop - 1
      BY KeyCounted DEF SkipUnit, Inv, Typed
    <2> QED
      BY <1>1, <1>3, <2>1 DEF Inv, Typed
  <1>5. \A d \in network : receiving => Age(d.id)' # 0 /\ Age(d.id)' <= silent' + 2
    BY <1>2, <1>3, AgeIs
  <1>6. InFlight'
    BY <1>1, <1>5 DEF Inv, InFlight
  <1>7. InStep'
    <2> SUFFICES ASSUME run' = 0, receiving' PROVE InStep'
      BY <1>1 DEF InStep
    <2>1. /\ Age(reassembler.frameId)' = Age(reassembler.frameId) + 1
          /\ Age(reassembler.frameId) + 1 <= silent' + 1
      BY <1>1, <1>3
    <2>2. Age(reassembler.frameId) \in Nat
      BY <1>2, AgeIs DEF Inv, Typed, Reassemblers
    <2> QED
      BY <1>1, <2>1, <2>2 DEF Inv, InStep
  <1>8. FirstRunOnly'
    BY <1>1 DEF Inv, FirstRunOnly
  <1> QED
    BY <1>4, <1>6, <1>7, <1>8 DEF Inv

LEMMA RestartKeeps ==
  ASSUME Inv, Restart
  PROVE  Inv'
  <1>1. /\ run' = run + 1 /\ run < MaxRestarts /\ nextFrameId' = 0
        /\ sinceKey' = Gop - 1 /\ network' = {} /\ whole' = FALSE
        /\ arrived' = {} /\ silent' = 0
        /\ UNCHANGED <<receiving, reassembler, waiting, picture>>
    BY DEF Restart, receiverVars
  <1>2. run' # 0 /\ run' \in 0 .. MaxRestarts
    BY <1>1, ConstantsType DEF Inv, Typed
  <1>3. 0 \in Ids /\ Gop - 1 \in 0 .. Gop - 1 /\ 0 \in 0 .. MaxSilent
    BY RangeType, ConstantsType DEF Ids
  <1>4. Typed'
    BY <1>1, <1>2, <1>3 DEF Inv, Typed
  <1> QED
    BY <1>1, <1>2, <1>4 DEF Inv, InFlight, InStep, FirstRunOnly

LEMMA PresentKeeps ==
  ASSUME Inv, Present
  PROVE  Inv'
  BY DEF Inv, Present, Typed, InFlight, InStep, FirstRunOnly, Age, senderVars,
         networkVars

-----------------------------------------------------------------------------
(* The receiver                                                            *)

LEMMA Arrival ==
  ASSUME Inv, NEW d \in network, Arrive(d)
  PROVE  /\ receiving
         /\ UNCHANGED <<nextFrameId, sinceKey, run, network, whole, silent>>
         /\ d \in Fragments /\ d.id \in Ids /\ d.index \in All
         /\ d.total = Total /\ d.unit = run /\ d.shape \in BOOLEAN
         /\ Age(d.id) = 0 => arrived' = arrived \cup {d.index}
         /\ Age(d.id) # 0 => arrived' = arrived
         /\ arrived' \in SUBSET All
  <1>1. /\ d \in Fragments /\ d.unit = run /\ nextFrameId \in Ids
        /\ arrived \in SUBSET All
    BY DEF Inv, Typed, InFlight
  <1>2. /\ d.id \in Ids /\ d.index \in All /\ d.total = Total
        /\ d.shape \in BOOLEAN
    BY <1>1 DEF Fragments
  <1>3. (d.id + 1) % IdRange = nextFrameId <=> Age(d.id) = 0
    BY <1>1, <1>2, LastIsYoungest
  <1>4. /\ Age(d.id) = 0 => arrived' = arrived \cup {d.index}
        /\ Age(d.id) # 0 => arrived' = arrived
    BY <1>1, <1>3 DEF Arrive
  <1>5. receiving /\ UNCHANGED <<nextFrameId, sinceKey, run, network, whole, silent>>
    BY DEF Arrive, senderVars, networkVars
  <1> QED
    BY <1>1, <1>2, <1>4, <1>5

LEMMA ArrivalInFlight ==
  ASSUME Inv, NEW d \in network, Arrive(d)
  PROVE  InFlight'
  <1>1. /\ receiving /\ UNCHANGED <<nextFrameId, run, network, silent>>
        /\ Age(d.id) # 0 => arrived' = arrived
    BY Arrival
  <1>2. \A e \in network : Age(e.id)' = Age(e.id)
    BY <1>1 DEF Age
  <1>3. arrived' # {} => \E e \in network : Age(e.id) = 0
    BY <1>1 DEF Inv, InFlight
  <1> QED
    BY <1>1, <1>2, <1>3 DEF Inv, InFlight

\* Within the first run, what the test of is_newer_frame says of a fragment.
LEMMA FirstRunAges ==
  ASSUME Inv, run = 0, receiving, NEW d \in network
  PROVE  /\ IsNewerFrame(reassembler, d.id) <=> Age(d.id) < Age(reassembler.frameId)
         /\ Age(d.id) \in Nat /\ Age(reassembler.frameId) \in Nat
         /\ Age(reassembler.frameId) <= silent + 1
         /\ silent \in Nat
         /\ Age(d.id) = Age(reassembler.frameId) => d.id = reassembler.frameId
  <1>1. /\ d.id \in Ids /\ reassembler.frameId \in Ids /\ nextFrameId \in Ids
        /\ silent \in Nat /\ silent <= MaxSilent
    BY ConstantsType DEF Inv, Typed, Reassemblers, Fragments
  <1>2. Age(d.id) \in Nat /\ Age(reassembler.frameId) \in Nat
    BY <1>1, AgeIs
  <1>3. Age(d.id) <= silent + 2 /\ Age(reassembler.frameId) <= silent + 1
    BY DEF Inv, InFlight, InStep
  <1>4. /\ Age(d.id) < IdRange \div 2
        /\ Age(reassembler.frameId) < IdRange \div 2
    BY <1>1, <1>2, <1>3, ConstantsType
  <1>5. IsNewerFrame(reassembler, d.id) <=> Age(d.id) < Age(reassembler.frameId)
    BY <1>1, <1>4, NewerIsYounger
  <1>6. Age(d.id) = Age(reassembler.frameId) => d.id = reassembler.frameId
    BY <1>1, SameAge
  <1> QED
    BY <1>1, <1>2, <1>3, <1>5, <1>6

LEMMA CurrentInStep ==
  ASSUME Inv, NEW d \in network, ReceiveCurrent(d)
  PROVE  reassembler' \in Reassemblers /\ InStep' /\ FirstRunOnly'
  <1>1. /\ Arrive(d) /\ d.id = reassembler.frameId /\ Accepts(reassembler, d)
        /\ reassembler' = Add(reassembler, d)
    BY DEF ReceiveCurrent
  <1>2. /\ receiving /\ UNCHANGED <<nextFrameId, run, network, silent>>
        /\ d \in Fragments /\ d.id \in Ids /\ d.index \in All /\ d.unit = run
        /\ d.total = Total
        /\ Age(d.id) = 0 => arrived' = arrived \cup {d.index}
        /\ Age(d.id) # 0 => arrived' = arrived
    BY <1>1, Arrival
  <1>3. /\ reassembler' \in Reassemblers
        /\ reassembler'.frameId = reassembler.frameId
        /\ reassembler'.shape = reassembler.shape
        /\ reassembler'.total = reassembler.total
        /\ reassembler'.received = reassembler.received \cup {d.index}
        /\ reassembler'.buf = [reassembler.buf EXCEPT ![d.index] = d.unit]
    BY <1>1, <1>2, AddTyped DEF Inv, Typed
  <1>4. Age(reassembler.frameId)' = Age(reassembler.frameId)
    BY <1>2, <1>3 DEF Age
  <1>5. ASSUME run = 0
        PROVE  InStep'
    <2> DEFINE f == reassembler.frameId
    <2>1. /\ Age(f) <= silent + 1
          /\ \A e \in network : e.id = f =>
                 e.shape = reassembler.shape /\ reassembler.total = Total
          /\ Age(f) = 0 => reassembler.received \subseteq arrived
          /\ arrived # {} => /\ Age(f) = 0 /\ reassembler.total = Total
                             /\ arrived \subseteq reassembler.received
      BY <1>2, <1>5 DEF Inv, InStep
    <2>2. /\ Age(f) = 0 => arrived' = arrived \cup {d.index}
          /\ Age(f) # 0 => arrived' = arrived
      BY <1>1, <1>2, Zenon
    <2>3. reassembler.total = Total
      BY <1>1, <2>1
    <2>4. Age(f) = 0 => reassembler'.received \subseteq arrived'
      BY <1>3, <2>1, <2>2
    <2>5. arrived' # {} => Age(f) = 0 /\ arrived' \subseteq reassembler'.received
      BY <1>3, <2>1, <2>2
    <2> QED
      BY <1>2, <1>3, <1>4, <2>1, <2>3, <2>4, <2>5 DEF InStep
  <1>6. FirstRunOnly'
    BY <1>2, <1>3 DEF Inv, Typed, Reassemblers, FirstRunOnly
  <1> QED
    BY <1>2, <1>3, <1>5, <1>6 DEF InStep

LEMMA NewerInStep ==
  ASSUME Inv, NEW d \in network, ReceiveNewer(d)
  PROVE  reassembler' \in Reassemblers /\ InStep' /\ FirstRunOnly'
  <1>1. /\ Arrive(d) /\ IsNewerFrame(reassembler, d.id)
        /\ reassembler' = Add(Reset(reassembler, d), d)
    BY DEF ReceiveNewer
  <1>2. /\ receiving /\ UNCHANGED <<nextFrameId, run, network, silent>>
        /\ d \in Fragments /\ d.id \in Ids /\ d.index \in All /\ d.unit = run
        /\ d.total = Total
        /\ Age(d.id) = 0 => arrived' = arrived \cup {d.index}
        /\ Age(d.id) # 0 => arrived' = arrived
    BY <1>1, Arrival
  <1>3. /\ reassembler' \in Reassemblers
        /\ reassembler'.frameId = d.id
        /\ reassembler'.shape = d.shape
        /\ reassembler'.total = Total
        /\ reassembler'.received = {d.index}
        /\ reassembler'.buf = [reassembler.buf EXCEPT ![d.index] = d.unit]
    BY <1>1, <1>2, BegunTyped DEF Inv, Typed
  <1>4. Age(reassembler.frameId)' = Age(d.id)
    BY <1>2, <1>3 DEF Age
  <1>5. ASSUME run = 0
        PROVE  InStep'
    <2>1. /\ Age(d.id) < Age(reassembler.frameId)
          /\ Age(reassembler.frameId) <= silent + 1
          /\ Age(d.id) \in Nat /\ Age(reassembler.frameId) \in Nat
          /\ silent \in Nat
      BY <1>1, <1>2, <1>5, FirstRunAges
    <2>2. arrived = {}
      BY <1>2, <1>5, <2>1 DEF Inv, InStep
    <2>3. Age(d.id) <= silent + 1
      BY <2>1
    <2>4. \A e \in network : e.id = d.id => e.shape = d.shape
      BY DEF Inv, InFlight
    <2>5. Age(d.id) = 0 => reassembler'.received \subseteq arrived'
      BY <1>2, <1>3
    <2>6. arrived' # {} => Age(d.id) = 0 /\ arrived' \subseteq reassembler'.received
      BY <1>2, <1>3, <2>2
    <2> QED
      BY <1>2, <1>3, <1>4, <2>3, <2>4, <2>5, <2>6 DEF InStep
  <1>6. FirstRunOnly'
    BY <1>2, <1>3 DEF Inv, Typed, Reassemblers, FirstRunOnly
  <1> QED
    BY <1>2, <1>3, <1>5, <1>6 DEF InStep

LEMMA IgnoredInStep ==
  ASSUME Inv, NEW d \in network, ReceiveIgnored(d)
  PROVE  /\ reassembler' \in Reassemblers /\ InStep' /\ FirstRunOnly'
         /\ run = 0 => arrived' = arrived
  <1>1. /\ Arrive(d) /\ UNCHANGED <<receiving, reassembler, waiting, picture>>
        /\ \/ d.id # reassembler.frameId /\ ~IsNewerFrame(reassembler, d.id)
           \/ d.id = reassembler.frameId /\ ~Accepts(reassembler, d)
    BY DEF ReceiveIgnored, receiverVars
  <1>2. /\ receiving /\ UNCHANGED <<nextFrameId, run, network, silent>>
        /\ d.index \in All /\ d.total = Total
        /\ Age(d.id) = 0 => arrived' = arrived \cup {d.index}
        /\ Age(d.id) # 0 => arrived' = arrived
    BY <1>1, Arrival
  <1>3. ASSUME run = 0, Age(d.id) = 0
        PROVE  d.index \in arrived
    <2>1. /\ IsNewerFrame(reassembler, d.id) <=> Age(d.id) < Age(reassembler.frameId)
          /\ Age(d.id) \in Nat /\ Age(reassembler.frameId) \in Nat
          /\ Age(d.id) = Age(reassembler.frameId) => d.id = reassembler.frameId
      BY <1>2, <1>3, FirstRunAges
    <2>2. d.id = reassembler.frameId /\ ~Accepts(reassembler, d)
      BY <1>1, <1>3, <2>1
    <2>3. Age(reassembler.frameId) = 0
      BY <1>3, <2>2, Zenon
    <2>4. /\ d.shape = reassembler.shape /\ d.total = reassembler.total
          /\ reassembler.received \subseteq arrived
      BY <1>2, <1>3, <2>2, <2>3 DEF Inv, InStep
    <2>5. d.index < reassembler.total
      BY <1>2, <2>4, ConstantsType DEF All
    <2> QED
      BY <2>2, <2>4, <2>5 DEF Accepts
  <1>4. run = 0 => arrived' = arrived
    BY <1>2, <1>3
  <1>5. InStep' /\ FirstRunOnly'
    BY <1>1, <1>2, <1>4 DEF Inv, InStep, FirstRunOnly, Age
  <1> QED
    BY <1>1, <1>4, <1>5 DEF Inv, Typed

LEMMA AfterAddTyped ==
  ASSUME Typed, receiving, NEW r, NEW mustWait \in BOOLEAN, AfterAdd(r, mustWait)
  PROVE  receiving' \in BOOLEAN /\ waiting' \in BOOLEAN /\ picture' \in BOOLEAN
  BY DEF AfterAdd, Decode, ShowPicture, Typed

LEMMA ReceiveKeeps ==
  ASSUME Inv, NEW d \in network, Receive(d)
  PROVE  Inv'
  <1>1. Arrive(d)
    BY DEF Receive, ReceiveCurrent, ReceiveNewer, ReceiveIgnored
  <1>2. /\ receiving /\ arrived' \in SUBSET All
        /\ UNCHANGED <<nextFrameId, sinceKey, run, network, whole, silent>>
    BY <1>1, Arrival
  <1>3. reassembler' \in Reassemblers /\ InStep' /\ FirstRunOnly'
    BY CurrentInStep, NewerInStep, IgnoredInStep DEF Receive
  <1>4. receiving' \in BOOLEAN /\ waiting' \in BOOLEAN /\ picture' \in BOOLEAN
    <2>1. CASE ReceiveCurrent(d)
      BY <1>2, <2>1, AfterAddTyped DEF ReceiveCurrent, Inv, Typed
    <2>2. CASE ReceiveNewer(d)
      <3>1. (waiting \/ Incomplete(reassembler)) \in BOOLEAN
        BY DEF Inv, Typed, Incomplete
      <3> QED
        BY <1>2, <2>2, <3>1, AfterAddTyped DEF ReceiveNewer, Inv
    <2>3. CASE ReceiveIgnored(d)
      BY <2>3 DEF ReceiveIgnored, receiverVars, Inv, Typed
    <2> QED
      BY <2>1, <2>2, <2>3 DEF Receive
  <1>5. Typed'
    BY <1>2, <1>3, <1>4 DEF Inv, Typed
  <1> QED
    BY <1>1, <1>3, <1>5, ArrivalInFlight DEF Inv

LEMMA InvNext == Inv /\ [Next]_vars => Inv'
  <1> SUFFICES ASSUME Inv, [Next]_vars PROVE Inv'
    OBVIOUS
  <1>1. CASE \E key, intact \in BOOLEAN : SendUnit(key, intact)
    BY <1>1, SendKeeps
  <1>2. CASE \E key \in BOOLEAN : SkipUnit(key)
    BY <1>2, SkipKeeps
  <1>3. CASE Restart
    BY <1>3, RestartKeeps
  <1>4. CASE \E d \in network : Receive(d)
    BY <1>4, ReceiveKeeps
  <1>5. CASE Present
    BY <1>5, PresentKeeps
  <1>6. CASE UNCHANGED vars
    BY <1>6 DEF Inv, Typed, InFlight, InStep, FirstRunOnly, Age, vars, senderVars,
                networkVars, receiverVars
  <1> QED
    BY <1>1, <1>2, <1>3, <1>4, <1>5, <1>6 DEF Next

LEMMA RecoverySafe == Spec => []Inv
  BY InvInit, InvNext, PTL DEF Spec

-----------------------------------------------------------------------------
(* Theorems                                                                *)

\* transport.rs:524-593 - every field of the endless stream holds what the code
\* can store in it, however often the frame ID wraps.
THEOREM RecoveryTypeCorrect == Spec => []TypeOK
  <1>1. Inv => TypeOK
    <2> SUFFICES ASSUME Inv PROVE TypeOK
      OBVIOUS
    <2>1. network \subseteq [id : 0 .. IdRange - 1, shape : BOOLEAN,
                             index : 0 .. Total - 1, total : {Total},
                             unit : 0 .. MaxRestarts]
      BY DEF Inv, Typed, Fragments, Ids, All
    <2> QED
      BY <2>1 DEF Inv, Typed, TypeOK, Reassemblers, Ids, All
  <1> QED
    BY <1>1, RecoverySafe, PTL

\* transport.rs:536-567 - no unit that arrives whole is passed over, after any
\* outage within the horizon and at any wrap of the frame ID.
THEOREM WholeUnitsAssembled == Spec => []WholeUnitAssembled
  <1>1. Inv => WholeUnitAssembled
    <2> SUFFICES ASSUME Inv, run = 0, arrived = 0 .. Total - 1
                 PROVE  Complete(reassembler) /\ Age(reassembler.frameId) = 0
      BY DEF WholeUnitAssembled
    <2>1. arrived = All /\ 0 \in All
      BY ConstantsType DEF All
    <2>2. /\ Age(reassembler.frameId) = 0 /\ reassembler.total = Total
          /\ All \subseteq reassembler.received
      BY <2>1 DEF Inv, InStep
    <2> QED
      BY <2>2, NothingMissing DEF Inv, Typed
  <1> QED
    BY <1>1, RecoverySafe, PTL

\* What add has completed in the first run is decoded, or there is no decoder.
LEMMA IdrDecoded ==
  ASSUME Inv, run = 0, NEW r \in Reassemblers, Complete(r), ~Incomplete(r), r.shape = TRUE,
         \A i \in 0 .. MaxChunks - 1 : r.buf[i] = 0, AfterAdd(r, TRUE)
  PROVE  ~waiting' \/ ~receiving'
  <1>1. r.total \in 0 .. MaxChunks
    BY DEF Reassemblers
  <1>2. \A i \in 0 .. r.total - 1 : i \in 0 .. MaxChunks - 1
    BY <1>1, ConstantsType
  <1>3. Intact(r)
    BY <1>2 DEF Intact
  <1> QED
    BY <1>3 DEF AfterAdd, Decode

\* transport.rs:529 and 574-585 - the last fragment of an IDR ends the wait.
THEOREM IdrsEndWait == Spec => IdrEndsWait
  <1> DEFINE Ended == /\ run = 0 /\ waiting
                      /\ arrived' # arrived /\ arrived' = 0 .. Total - 1
                      /\ \E d \in LastBurst : d.shape
                      => ~waiting' \/ ~receiving'
  <1>1. Inv /\ Inv' /\ [Next]_vars => [Ended]_vars
    <2> SUFFICES ASSUME Inv, Inv', Next, run = 0, waiting, arrived' # arrived,
                        arrived' = 0 .. Total - 1, \E d \in LastBurst : d.shape
                 PROVE  ~waiting' \/ ~receiving'
      OBVIOUS
    <2>1. arrived' = All /\ 0 \in All /\ arrived' # {}
      BY ConstantsType DEF All
    <2>2. PICK e \in network : Receive(e)
      <3>1. ~\E key, intact \in BOOLEAN : SendUnit(key, intact)
        BY <2>1 DEF SendUnit
      <3>2. ~\E key \in BOOLEAN : SkipUnit(key)
        BY <2>1 DEF SkipUnit
      <3>3. ~Restart /\ ~Present
        BY <2>1 DEF Restart, Present
      <3> QED
        BY <3>1, <3>2, <3>3 DEF Next
    <2>3. Arrive(e)
      BY <2>2 DEF Receive, ReceiveCurrent, ReceiveNewer, ReceiveIgnored
    <2>4. /\ Age(e.id) = 0 /\ e.shape \in BOOLEAN /\ e.id \in Ids /\ e \in Fragments
          /\ UNCHANGED run
      BY <2>3, Arrival
    <2>5. e.shape = TRUE
      <3>1. PICK d \in network : (d.id + 1) % IdRange = nextFrameId /\ d.shape
        BY DEF LastBurst
      <3>2. d.id \in Ids /\ nextFrameId \in Ids /\ d.shape \in BOOLEAN
        BY DEF Inv, Typed, Fragments
      <3>3. Age(d.id) = 0
        BY <3>1, <3>2, LastIsYoungest
      <3>4. d.id = e.id
        BY <2>4, <3>2, <3>3, SameAge
      <3> QED
        BY <2>4, <3>1, <3>4 DEF Inv, InFlight
    <2>6. /\ reassembler' \in Reassemblers /\ reassembler'.total = Total
          /\ All \subseteq reassembler'.received
          /\ \A i \in 0 .. MaxChunks - 1 : reassembler'.buf[i] = 0
      BY <2>1, <2>4 DEF Inv, Typed, InStep, FirstRunOnly
    <2>7. Complete(reassembler') /\ ~Incomplete(reassembler')
      BY <2>6, NothingMissing
    <2>8. CASE ReceiveCurrent(e)
      <3>1. /\ reassembler' = Add(reassembler, e) /\ AfterAdd(Add(reassembler, e), waiting)
            /\ e.id = reassembler.frameId /\ Accepts(reassembler, e)
        BY <2>8 DEF ReceiveCurrent
      <3>2. Add(reassembler, e).shape = TRUE
        BY <2>4, <2>5, <3>1, AddTyped DEF Accepts, Inv, Typed
      <3>3. waiting = TRUE
        BY DEF Inv, Typed
      <3> QED
        BY <2>6, <2>7, <3>1, <3>2, <3>3, IdrDecoded
    <2>9. CASE ReceiveNewer(e)
      <3>1. /\ reassembler' = Add(Reset(reassembler, e), e)
            /\ AfterAdd(Add(Reset(reassembler, e), e), waiting \/ Incomplete(reassembler))
        BY <2>9 DEF ReceiveNewer
      <3>2. Add(Reset(reassembler, e), e).shape = TRUE
        BY <2>4, <2>5, BegunTyped DEF Inv, Typed
      <3>3. (waiting \/ Incomplete(reassembler)) = TRUE
        BY DEF Inv, Typed
      <3> QED
        BY <2>6, <2>7, <3>1, <3>2, <3>3, IdrDecoded
    <2>10. ~ReceiveIgnored(e)
      BY IgnoredInStep
    <2> QED
      BY <2>2, <2>8, <2>9, <2>10 DEF Receive
  <1>2. Spec => []Inv
    BY RecoverySafe
  <1> QED
    BY <1>1, <1>2, PTL DEF Spec, IdrEndsWait
=============================================================================
