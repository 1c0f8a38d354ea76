---------------------------- MODULE Rings_proofs ----------------------------
(***************************************************************************)
(* What holds of one ring for every capacity, every width of the cursors   *)
(* that the capacity divides, and any number of operations; then what      *)
(* holds of the two rings of the pipeline in a circle (SlotCycle), for a   *)
(* pool of any size.                                                       *)
(*                                                                         *)
(* The argument for one ring: the four cursors stand in the order          *)
(* headView, head, tailView, tail, at most Capacity apart from the first   *)
(* to the last (Spread).  The range of a cursor holds two laps at least,   *)
(* so distances add up although the cursors wrap, and words less than      *)
(* Capacity apart have different cells.                                    *)
(*                                                                         *)
(* The argument for the circle: in every part of a thread's stores that    *)
(* the other one does not know, the pops outnumber the pushes by at most   *)
(* the IDs it holds (Chronicled).  The pushes the other one misses are in  *)
(* the ring it pops from, and an ID is in a ring or with a thread          *)
(* (Conserved): the pops it misses leave room for the ID in its hand.      *)
(***************************************************************************)
EXTENDS SpscRing, SlotCycle, DivisionLemmas, SequenceTheorems

-----------------------------------------------------------------------------
(* Words: distances and sums without the remainder.                          *)

LEMMA LapsFit ==
  /\ Capacity \in Nat /\ Capacity > 0
  /\ CursorRange \in Nat /\ CursorRange >= 2 * Capacity
  /\ \E laps \in Nat : CursorRange = laps * Capacity
  <1>1. PICK laps \in 2 .. CursorRange : CursorRange = laps * Capacity
    BY RingAssumption
  <1>2. PICK k \in Nat : laps = 2 + k
    <2>1. laps - 2 \in Nat /\ laps = 2 + (laps - 2)
      BY RingAssumption
    <2> QED
      BY <2>1
  <1>3. (2 + k) * Capacity = 2 * Capacity + k * Capacity /\ k * Capacity \in Nat
    BY RingAssumption
  <1>4. laps \in Nat
    BY <1>2
  <1> QED
    BY <1>1, <1>2, <1>3, <1>4, RingAssumption

LEMMA PlusIs ==
  ASSUME NEW a \in Words, NEW n \in 0 .. CursorRange - 1
  PROVE  /\ Plus(a, n) \in Words
         /\ Plus(a, n) = IF a + n < CursorRange THEN a + n ELSE a + n - CursorRange
  <1>0. CursorRange \in Nat /\ CursorRange > 0
    BY LapsFit
  <1>1. CASE a + n < CursorRange
    <2>1. a + n = 0 * CursorRange + (a + n) /\ a + n \in Nat
      BY <1>0 DEF Words
    <2>2. (a + n) % CursorRange = a + n
      BY <1>0, <1>1, <2>1, RemainderIs
    <2> QED
      BY <1>0, <1>1, <2>1, <2>2 DEF Plus, Words
  <1>2. CASE ~(a + n < CursorRange)
    <2> DEFINE r == a + n - CursorRange
    <2>1. r \in Nat /\ r < CursorRange /\ a + n \in Int /\ r = a + n - CursorRange
      BY <1>0, <1>2 DEF Words
    <2> HIDE DEF r
    <2>2. (a + n) % CursorRange = r
      <3>1. 1 * CursorRange = CursorRange
        BY <1>0
      <3> DEFINE s == a + n
      <3>2. s \in Int /\ s = CursorRange + r
        BY <1>0, <2>1 DEF Words
      <3> HIDE DEF s
      <3>3. s = 1 * CursorRange + r
        BY <3>1, <3>2
      <3>4. s % CursorRange = r
        <4>1. CursorRange \in Nat /\ r \in Nat /\ r < CursorRange
          BY <1>0, <2>1
        <4>2. 1 \in Int
          OBVIOUS
        <4> QED
          BY <3>2, <3>3, <4>1, <4>2, RemainderIs
      <3> QED
        BY <3>4 DEF s
    <2> QED
      BY <1>0, <1>2, <2>1, <2>2 DEF Plus, Words
  <1> QED
    BY <1>1, <1>2

LEMMA MinusIs ==
  ASSUME NEW a \in Words, NEW b \in Words
  PROVE  /\ Minus(a, b) \in 0 .. CursorRange - 1
         /\ Minus(a, b) = IF a >= b THEN a - b ELSE a - b + CursorRange
  <1>0. CursorRange \in Nat /\ CursorRange > 0
    BY LapsFit
  <1>1. CASE a >= b
    <2>1. a - b = 0 * CursorRange + (a - b) /\ a - b \in Nat /\ a - b < CursorRange
      BY <1>0, <1>1 DEF Words
    <2>2. (a - b) % CursorRange = a - b
      BY <1>0, <2>1, RemainderIs
    <2> QED
      BY <1>0, <1>1, <2>1, <2>2 DEF Minus, Words
  <1>2. CASE ~(a >= b)
    <2> DEFINE r == a - b + CursorRange
    <2>1. r \in Nat /\ r < CursorRange /\ a - b \in Int /\ r = a - b + CursorRange
      BY <1>0, <1>2 DEF Words
    <2> HIDE DEF r
    <2>2. a - b = (0 - 1) * CursorRange + r /\ 0 - 1 \in Int
      BY <1>0, <2>1
    <2>3. (a - b) % CursorRange = r
      BY <1>0, <2>1, <2>2, RemainderIs
    <2> QED
      BY <1>0, <1>2, <2>1, <2>3 DEF Minus, Words
  <1> QED
    BY <1>1, <1>2

\* Distances in one direction add up while they stay below the range.
LEMMA Chain ==
  ASSUME NEW a \in Words, NEW b \in Words, NEW c \in Words,
         Minus(b, a) + Minus(c, b) < CursorRange
  PROVE  Minus(c, a) = Minus(b, a) + Minus(c, b)
  <1>1. /\ Minus(b, a) = IF b >= a THEN b - a ELSE b - a + CursorRange
        /\ Minus(c, b) = IF c >= b THEN c - b ELSE c - b + CursorRange
        /\ Minus(c, a) = IF c >= a THEN c - a ELSE c - a + CursorRange
    BY MinusIs
  <1> QED
    BY <1>1, LapsFit DEF Words

\* A loaded value lies between the view and the cursor.
LEMMA Loaded ==
  ASSUME NEW view \in Words, NEW current \in Words, NEW l \in Loadable(view, current)
  PROVE  /\ l \in Words
         /\ Minus(l, view) + Minus(current, l) = Minus(current, view)
         /\ Minus(l, view) \in Nat /\ Minus(current, l) \in Nat
  <1>1. PICK n \in 0 .. Minus(current, view) : l = Plus(view, n)
    BY DEF Loadable
  <1>2. n \in 0 .. CursorRange - 1
    BY <1>1, LapsFit, MinusIs
  <1>3. l \in Words /\ l = IF view + n < CursorRange THEN view + n
                                                     ELSE view + n - CursorRange
    BY <1>1, <1>2, PlusIs
  <1>4. /\ Minus(current, view) = IF current >= view THEN current - view
                                  ELSE current - view + CursorRange
        /\ Minus(l, view) = IF l >= view THEN l - view ELSE l - view + CursorRange
        /\ Minus(current, l) = IF current >= l THEN current - l
                               ELSE current - l + CursorRange
    BY <1>3, MinusIs
  <1> QED
    BY <1>1, <1>2, <1>3, <1>4, LapsFit DEF Words

\* wrapping_add of one moves a cursor one away from those behind it and one
\* nearer to those before it.
LEMMA Advance ==
  ASSUME NEW a \in Words, NEW b \in Words
  PROVE  /\ Plus(b, 1) \in Words
         /\ Minus(b, a) < CursorRange - 1 => Minus(Plus(b, 1), a) = Minus(b, a) + 1
         /\ Minus(a, b) > 0 => Minus(a, Plus(b, 1)) = Minus(a, b) - 1
  <1>1. 1 \in 0 .. CursorRange - 1
    BY LapsFit
  <1>2. Plus(b, 1) \in Words
        /\ Plus(b, 1) = IF b + 1 < CursorRange THEN b + 1 ELSE b + 1 - CursorRange
    BY <1>1, PlusIs
  <1>3. /\ Minus(b, a) = IF b >= a THEN b - a ELSE b - a + CursorRange
        /\ Minus(a, b) = IF a >= b THEN a - b ELSE a - b + CursorRange
        /\ Minus(Plus(b, 1), a) = IF Plus(b, 1) >= a THEN Plus(b, 1) - a
                                  ELSE Plus(b, 1) - a + CursorRange
        /\ Minus(a, Plus(b, 1)) = IF a >= Plus(b, 1) THEN a - Plus(b, 1)
                                  ELSE a - Plus(b, 1) + CursorRange
    BY <1>2, MinusIs
  <1> QED
    BY <1>2, <1>3, LapsFit DEF Words

\* Walking the distance leads there, and one step more is one step more.
LEMMA Walk ==
  ASSUME NEW a \in Words, NEW b \in Words
  PROVE  /\ Plus(a, 0) = a
         /\ Plus(a, Minus(b, a)) = b
         /\ \A n \in 0 .. CursorRange - 2 : Plus(Plus(a, 1), n) = Plus(a, n + 1)
         /\ \A n \in 0 .. CursorRange - 1 : Minus(Plus(a, n), a) = n
  <1>1. Plus(a, 0) = a
    BY LapsFit, PlusIs DEF Words
  <1>2. Plus(a, Minus(b, a)) = b
    <2>1. Minus(b, a) \in 0 .. CursorRange - 1
          /\ Minus(b, a) = IF b >= a THEN b - a ELSE b - a + CursorRange
      BY MinusIs
    <2>2. Plus(a, Minus(b, a)) = IF a + Minus(b, a) < CursorRange THEN a + Minus(b, a)
                                 ELSE a + Minus(b, a) - CursorRange
      BY <2>1, PlusIs
    <2> QED
      BY <2>1, <2>2, LapsFit DEF Words
  <1>3. ASSUME NEW n \in 0 .. CursorRange - 2 PROVE Plus(Plus(a, 1), n) = Plus(a, n + 1)
    <2>1. 1 \in 0 .. CursorRange - 1 /\ n \in 0 .. CursorRange - 1
          /\ n + 1 \in 0 .. CursorRange - 1
      BY LapsFit
    <2>2. Plus(a, 1) \in Words
          /\ Plus(a, 1) = IF a + 1 < CursorRange THEN a + 1 ELSE a + 1 - CursorRange
      BY <2>1, PlusIs
    <2>3. Plus(a, n + 1) = IF a + (n + 1) < CursorRange THEN a + (n + 1)
                           ELSE a + (n + 1) - CursorRange
      BY <2>1, PlusIs
    <2>4. Plus(Plus(a, 1), n) = IF Plus(a, 1) + n < CursorRange THEN Plus(a, 1) + n
                                ELSE Plus(a, 1) + n - CursorRange
      BY <2>1, <2>2, PlusIs
    <2> QED
      BY <2>2, <2>3, <2>4, LapsFit DEF Words
  <1>4. ASSUME NEW n \in 0 .. CursorRange - 1 PROVE Minus(Plus(a, n), a) = n
    <2>1. Plus(a, n) \in Words
          /\ Plus(a, n) = IF a + n < CursorRange THEN a + n ELSE a + n - CursorRange
      BY PlusIs
    <2>2. Minus(Plus(a, n), a) = IF Plus(a, n) >= a THEN Plus(a, n) - a
                                 ELSE Plus(a, n) - a + CursorRange
      BY <2>1, MinusIs
    <2> QED
      BY <2>1, <2>2, LapsFit DEF Words
  <1> QED
    BY <1>1, <1>2, <1>3, <1>4

\* spsc.rs:31 - words less than a lap apart have different cells, also across
\* the wrap, because the laps divide the range.
LEMMA CellsApart ==
  ASSUME NEW a \in Words, NEW b \in Words, Minus(b, a) \in 1 .. Capacity - 1
  PROVE  Cell(a) # Cell(b)
  <1> SUFFICES ASSUME Cell(a) = Cell(b) PROVE FALSE
    OBVIOUS
  <1>0. Capacity \in Nat /\ Capacity > 0 /\ CursorRange \in Nat
    BY LapsFit
  <1>1. PICK laps \in Nat : CursorRange = laps * Capacity
    BY LapsFit
  <1> DEFINE q == a \div Capacity
             q2 == b \div Capacity
             r == a % Capacity
             d == Minus(b, a)
  <1>2. q \in Int /\ r \in Int /\ a = q * Capacity + r
    BY <1>0, Division DEF Words
  <1>3. q2 \in Int /\ b = q2 * Capacity + r
    BY <1>0, Division DEF Words, Cell
  <1>4. d = b - a \/ d = b - a + CursorRange
    BY MinusIs
  <1>5. d \in Int /\ 0 < d /\ d < Capacity
    BY <1>0
  <1> HIDE DEF q, q2, r, d
  <1>6. (q2 - q) * Capacity = q2 * Capacity - q * Capacity
    BY <1>0, <1>2, <1>3
  <1>7. (q2 - q + laps) * Capacity = (q2 - q) * Capacity + laps * Capacity
    BY <1>0, <1>2, <1>3
  <1>8. q2 * Capacity \in Int /\ q * Capacity \in Int
    BY <1>0, <1>2, <1>3
  <1>9. d = (q2 - q) * Capacity \/ d = (q2 - q + laps) * Capacity
    BY <1>0, <1>1, <1>2, <1>3, <1>4, <1>6, <1>7, <1>8
  <1>10. q2 - q \in Int /\ q2 - q + laps \in Int
    BY <1>2, <1>3
  <1> QED
    BY <1>0, <1>5, <1>9, <1>10, NoMultipleBetween

-----------------------------------------------------------------------------
(* The cursors.                                                              *)

Unseen == Minus(head, headView)
Seen   == Minus(tailView, head)
Fresh  == Minus(tail, tailView)

\* The four cursors in their order, and how far apart a call in progress
\* leaves them.
Spread ==
  /\ Unseen + Seen + Fresh <= Capacity
  /\ producer # "idle" => Unseen + Seen + Fresh < Capacity
  /\ consumer # "idle" => Seen >= 1

\* What the cells hold: between two calls and in the middle of them.
CellContents ==
  /\ \A n \in 0 .. Minus(tail, head) - 1 : cells[Cell(Plus(head, n))] \in Ids
  /\ producer = "publish" => cells[Cell(tail)] = producerId
  /\ consumer = "release" => consumerId = cells[Cell(head)]

RingInv == TypeOK /\ Spread /\ CellContents

WordsTyped == /\ head \in Words /\ tail \in Words
              /\ headView \in Words /\ tailView \in Words

\* The distances between four words in a lap add up.
LEMMA FourWords ==
  ASSUME NEW a \in Words, NEW b \in Words, NEW c \in Words, NEW d \in Words,
         Minus(b, a) + Minus(c, b) + Minus(d, c) <= Capacity
  PROVE  /\ Minus(b, a) \in Nat /\ Minus(c, b) \in Nat /\ Minus(d, c) \in Nat
         /\ Minus(d, b) = Minus(c, b) + Minus(d, c)
         /\ Minus(d, a) = Minus(b, a) + Minus(c, b) + Minus(d, c)
  <1>1. Minus(b, a) \in Nat /\ Minus(c, b) \in Nat /\ Minus(d, c) \in Nat
    BY MinusIs, LapsFit
  <1>2. Minus(d, b) = Minus(c, b) + Minus(d, c)
    <2>1. Minus(c, b) + Minus(d, c) < CursorRange
      BY <1>1, LapsFit
    <2> QED
      BY <2>1, Chain
  <1>3. Minus(d, a) = Minus(b, a) + Minus(d, b)
    <2>1. Minus(b, a) + Minus(d, b) < CursorRange
      BY <1>1, <1>2, LapsFit
    <2> QED
      BY <2>1, Chain
  <1> QED
    BY <1>1, <1>2, <1>3

LEMMA Distances ==
  ASSUME WordsTyped, Unseen + Seen + Fresh <= Capacity
  PROVE  /\ Unseen \in Nat /\ Seen \in Nat /\ Fresh \in Nat
         /\ Minus(tail, head) = Seen + Fresh
         /\ Minus(tail, headView) = Unseen + Seen + Fresh
  BY FourWords DEF WordsTyped, Unseen, Seen, Fresh

LEMMA RingInvTyped == RingInv => WordsTyped
  BY DEF RingInv, TypeOK, WordsTyped

\* spsc.rs:31 - while a call is in progress the producer's cell is none of
\* those that hold published IDs.
LEMMA WriteApart ==
  ASSUME RingInv, producer # "idle", NEW n \in 0 .. Minus(tail, head) - 1
  PROVE  Plus(head, n) \in Words /\ Cell(Plus(head, n)) # Cell(tail)
  <1>1. WordsTyped /\ Spread
    BY RingInvTyped DEF RingInv
  <1>2. /\ Minus(tail, head) = Seen + Fresh /\ Unseen \in Nat
        /\ Seen \in Nat /\ Fresh \in Nat
        /\ Unseen + Seen + Fresh < Capacity
    BY <1>1, Distances DEF Spread
  <1>3. n \in 0 .. CursorRange - 1
    BY <1>2, LapsFit
  <1> DEFINE p == Plus(head, n)
  <1>4. p \in Words /\ Minus(p, head) = n
    BY <1>1, <1>3, PlusIs, Walk DEF WordsTyped
  <1> HIDE DEF p
  <1>5. Minus(tail, head) = n + Minus(tail, p)
    <2>1. /\ Minus(p, head) = IF p >= head THEN p - head ELSE p - head + CursorRange
          /\ Minus(tail, p) = IF tail >= p THEN tail - p ELSE tail - p + CursorRange
          /\ Minus(tail, head) = IF tail >= head THEN tail - head
                                 ELSE tail - head + CursorRange
          /\ Minus(tail, head) \in Nat
      BY <1>1, <1>4, MinusIs DEF WordsTyped
    <2> QED
      BY <1>1, <1>4, <2>1, LapsFit DEF WordsTyped, Words
  <1>6. Minus(tail, p) \in 1 .. Capacity - 1
    <2>1. Minus(tail, p) \in Int
      BY <1>1, <1>4, MinusIs DEF WordsTyped
    <2> QED
      BY <1>2, <1>5, <2>1, LapsFit
  <1>7. Cell(p) # Cell(tail)
    BY <1>1, <1>4, <1>6, CellsApart DEF WordsTyped
  <1> QED
    BY <1>4, <1>7 DEF p

LEMMA InitRing == Init => RingInv
  <1> SUFFICES ASSUME Init PROVE RingInv
    OBVIOUS
  <1>1. 0 \in Words
    BY LapsFit DEF Words
  <1>2. Minus(0, 0) = 0
    BY <1>1, MinusIs
  <1>3. TypeOK
    BY <1>1 DEF Init, TypeOK
  <1>4. Spread
    BY <1>2, LapsFit DEF Init, Spread, Unseen, Seen, Fresh
  <1>5. CellContents
    BY <1>2 DEF Init, CellContents
  <1> QED
    BY <1>3, <1>4, <1>5 DEF RingInv

\* A load of head, in a call or through the other ring.
LEMMA ProducerLoads ==
  ASSUME RingInv, headView' \in Loadable(headView, head), UNCHANGED <<head, tail, tailView>>
  PROVE  /\ WordsTyped'
         /\ Unseen' \in 0 .. Unseen /\ Seen' = Seen /\ Fresh' = Fresh
         /\ Unseen' + Seen' + Fresh' <= Capacity
         /\ Unseen' = Minus(head, headView')
  <1>1. WordsTyped /\ Spread
    BY RingInvTyped DEF RingInv
  <1>2. /\ headView' \in Words
        /\ Minus(headView', headView) + Minus(head, headView') = Minus(head, headView)
        /\ Minus(headView', headView) \in Nat /\ Minus(head, headView') \in Nat
    BY <1>1, Loaded DEF WordsTyped
  <1>3. Unseen' = Minus(head, headView') /\ Seen' = Seen /\ Fresh' = Fresh
    BY DEF Unseen, Seen, Fresh
  <1>4. Unseen \in Nat /\ Seen \in Nat /\ Fresh \in Nat
    BY <1>1, Distances DEF Spread
  <1>5. Unseen' \in 0 .. Unseen
    BY <1>2, <1>3, <1>4 DEF Unseen
  <1>6. Unseen' + Seen' + Fresh' <= Capacity
    BY <1>1, <1>3, <1>4, <1>5, LapsFit DEF Spread
  <1> QED
    BY <1>1, <1>2, <1>3, <1>5, <1>6 DEF WordsTyped

\* A load of tail, in a call or through the other ring.
LEMMA ConsumerLoads ==
  ASSUME RingInv, tailView' \in Loadable(tailView, tail), UNCHANGED <<head, tail, headView>>
  PROVE  /\ WordsTyped'
         /\ Unseen' = Unseen /\ Seen' >= Seen /\ Seen' + Fresh' = Seen + Fresh
         /\ Seen' \in Nat /\ Fresh' \in Nat
         /\ Unseen' + Seen' + Fresh' <= Capacity
  <1>1. WordsTyped /\ Spread
    BY RingInvTyped DEF RingInv
  <1>2. /\ tailView' \in Words
        /\ Minus(tailView', tailView) + Minus(tail, tailView') = Minus(tail, tailView)
        /\ Minus(tailView', tailView) \in Nat /\ Minus(tail, tailView') \in Nat
    BY <1>1, Loaded DEF WordsTyped
  <1>3. Unseen \in Nat /\ Seen \in Nat /\ Fresh \in Nat
    BY <1>1, Distances DEF Spread
  <1>4. Minus(tailView', head) = Seen + Minus(tailView', tailView)
    <2>1. Seen + Minus(tailView', tailView) < CursorRange
      BY <1>1, <1>2, <1>3, LapsFit DEF Spread, Fresh
    <2> QED
      BY <1>1, <1>2, <2>1, Chain DEF WordsTyped, Seen
  <1>5. /\ Unseen' = Unseen /\ Seen' = Minus(tailView', head)
        /\ Fresh' = Minus(tail, tailView')
    BY DEF Unseen, Seen, Fresh
  <1>6. Seen' >= Seen /\ Seen' + Fresh' = Seen + Fresh /\ Seen' \in Nat /\ Fresh' \in Nat
    BY <1>2, <1>3, <1>4, <1>5 DEF Fresh
  <1> QED
    BY <1>1, <1>2, <1>3, <1>5, <1>6 DEF WordsTyped, Spread

-----------------------------------------------------------------------------
(* One lemma per operation: the invariant, and the step of the queue.        *)

LEMMA LenContents ==
  ASSUME RingInv
  PROVE  /\ Contents \in Seq(Ids) /\ Len(Contents) = Minus(tail, head)
         /\ Minus(tail, head) = Seen + Fresh /\ Minus(tail, head) \in Nat
         /\ Unseen \in Nat /\ Seen \in Nat /\ Fresh \in Nat
         /\ Minus(tail, headView) = Unseen + Seen + Fresh
         /\ WordsTyped /\ Spread
  <1>1. WordsTyped /\ Spread
    BY RingInvTyped DEF RingInv
  <1>2. /\ Unseen \in Nat /\ Seen \in Nat /\ Fresh \in Nat
        /\ Minus(tail, head) = Seen + Fresh
        /\ Minus(tail, headView) = Unseen + Seen + Fresh
    BY <1>1, Distances DEF Spread
  <1>3. Minus(tail, head) \in Nat
    BY <1>2
  <1>4. \A i \in 1 .. Minus(tail, head) : cells[Cell(Plus(head, i - 1))] \in Ids
    <2>1. \A i \in 1 .. Minus(tail, head) : i - 1 \in 0 .. Minus(tail, head) - 1
      BY <1>3
    <2> QED
      BY <2>1 DEF RingInv, CellContents
  <1>5. Contents \in Seq(Ids) /\ Len(Contents) = Minus(tail, head)
    BY <1>3, <1>4 DEF Contents
  <1> QED
    BY <1>1, <1>2, <1>3, <1>5

\* A load of head changes what the producer has seen, and nothing else.
LEMMA ProducerLoadStep ==
  ASSUME RingInv, producer = "idle", headView' \in Loadable(headView, head),
         UNCHANGED <<cells, head, tail, tailView, consumer, consumerId>>,
         \/ UNCHANGED <<producer, producerId>>
         \/ ~Full(headView') /\ producer' = "write" /\ producerId' \in Ids
  PROVE  RingInv' /\ \E bound \in 0 .. Capacity : Queue!ProducerLearns(bound)
  <1>1. /\ WordsTyped'
        /\ Unseen' \in 0 .. Unseen /\ Seen' = Seen /\ Fresh' = Fresh
        /\ Unseen' + Seen' + Fresh' <= Capacity
        /\ Unseen' = Minus(head, headView')
    BY ProducerLoads
  <1>2. /\ Unseen \in Nat /\ Seen \in Nat /\ Fresh \in Nat /\ WordsTyped /\ Spread
    BY LenContents
  <1>3. Minus(tail', headView') = Unseen' + Seen' + Fresh'
    BY <1>1, FourWords DEF WordsTyped, Unseen, Seen, Fresh
  <1>4. TypeOK'
    BY <1>1 DEF RingInv, TypeOK, WordsTyped
  <1>5. Spread'
    <2>1. producer' # "idle" => Unseen' + Seen' + Fresh' < Capacity
      <3>1. ASSUME producer' # "idle" PROVE Unseen' + Seen' + Fresh' < Capacity
        <4>1. ~(Minus(tail', headView') >= Capacity)
          BY <3>1 DEF Full
        <4> QED
          BY <4>1, <1>1, <1>2, <1>3, LapsFit
      <3> QED
        BY <3>1
    <2> QED
      BY <1>1, <1>2, <2>1 DEF Spread
  <1>6. CellContents'
    BY DEF RingInv, CellContents
  <1>7. \E bound \in 0 .. Capacity : Queue!ProducerLearns(bound)
    <2>1. Contents' = Contents
      BY DEF Contents
    <2>2. Unseen' \in 0 .. Capacity
      BY <1>1, <1>2, LapsFit
    <2>3. Unseen' = IF Unseen' < Unseen THEN Unseen' ELSE Unseen
      BY <1>1, <1>2
    <2>4. Queue!ProducerLearns(Unseen')
      BY <1>1, <2>1, <2>3 DEF Queue!ProducerLearns, Unseen, Seen
    <2> QED
      BY <2>2, <2>4
  <1> QED
    BY <1>4, <1>5, <1>6, <1>7 DEF RingInv

\* A load of tail changes what the consumer has seen, and nothing else.
LEMMA ConsumerLoadStep ==
  ASSUME RingInv, consumer = "idle", tailView' \in Loadable(tailView, tail),
         UNCHANGED <<cells, head, tail, headView, producer, producerId, consumerId>>,
         consumer' = "idle" \/ (consumer' = "read" /\ tailView' # head)
  PROVE  RingInv' /\ Queue!ConsumerLearns
  <1>1. /\ WordsTyped'
        /\ Unseen' = Unseen /\ Seen' >= Seen /\ Seen' + Fresh' = Seen + Fresh
        /\ Seen' \in Nat /\ Fresh' \in Nat
        /\ Unseen' + Seen' + Fresh' <= Capacity
    BY ConsumerLoads
  <1>2. /\ Unseen \in Nat /\ Seen \in Nat /\ Fresh \in Nat /\ WordsTyped /\ Spread
        /\ Len(Contents) = Seen + Fresh
    BY LenContents
  <1>3. TypeOK'
    BY <1>1 DEF RingInv, TypeOK, WordsTyped
  <1>4. Spread'
    <2>1. consumer' # "idle" => Seen' >= 1
      <3>1. ASSUME consumer' # "idle" PROVE Seen' >= 1
        <4>1. tailView' # head /\ tailView' \in Words /\ head \in Words
          BY <1>1, <1>2, <3>1 DEF WordsTyped
        <4>2. Minus(tailView', head) = IF tailView' >= head THEN tailView' - head
                                       ELSE tailView' - head + CursorRange
          BY <4>1, MinusIs
        <4>3. Seen' = Minus(tailView', head)
          BY DEF Seen
        <4> DEFINE v == tailView'  s2 == Seen'
        <4>4. /\ v \in Words /\ head \in Words /\ v # head
              /\ s2 = IF v >= head THEN v - head ELSE v - head + CursorRange
          BY <4>1, <4>2, <4>3
        <4> HIDE DEF v, s2
        <4>5. s2 >= 1
          BY <4>4, LapsFit DEF Words
        <4> QED
          BY <4>5 DEF s2
      <3> QED
        BY <3>1
    <2>2. producer' # "idle" => Unseen' + Seen' + Fresh' < Capacity
      <3> DEFINE u == Unseen  s == Seen  f == Fresh  s2 == Seen'  f2 == Fresh'
      <3>1. /\ {u, s, f, s2, f2} \subseteq Nat /\ s2 + f2 = s + f /\ Unseen' = u
            /\ producer' # "idle" => u + s + f < Capacity
        BY <1>1, <1>2 DEF Spread
      <3> HIDE DEF u, s, f, s2, f2
      <3>2. u + s2 + f2 = u + s + f
        BY <3>1
      <3> QED
        BY <3>1, <3>2 DEF s2, f2
    <2> QED
      BY <1>1, <2>1, <2>2 DEF Spread
  <1>5. CellContents'
    BY DEF RingInv, CellContents
  <1>6. Queue!ConsumerLearns
    <2>1. Contents' = Contents
      BY DEF Contents
    <2>2. Seen' \in Seen .. Len(Contents)
      <3> DEFINE s == Seen  f == Fresh  s2 == Seen'  f2 == Fresh'
      <3>1. /\ {s, f, s2, f2} \subseteq Nat /\ s2 + f2 = s + f /\ s2 >= s
            /\ Len(Contents) = s + f
        BY <1>1, <1>2
      <3> HIDE DEF s, f, s2, f2
      <3>2. s2 \in s .. s + f
        BY <3>1
      <3> QED
        BY <3>1, <3>2 DEF s, s2
    <2> QED
      BY <1>1, <2>1, <2>2 DEF Queue!ConsumerLearns, Unseen, Seen
  <1> QED
    BY <1>3, <1>4, <1>5, <1>6 DEF RingInv

LEMMA PushWriteStep ==
  ASSUME RingInv, PushWrite
  PROVE  RingInv' /\ UNCHANGED Queue!queueVars
  <1>1. /\ producer = "write" /\ producer' = "publish"
        /\ cells' = [cells EXCEPT ![Cell(tail)] = producerId]
        /\ UNCHANGED <<head, tail, headView, tailView, producerId, consumer, consumerId>>
    BY DEF PushWrite
  <1>2. /\ WordsTyped /\ Spread /\ TypeOK /\ producerId \in Ids
        /\ Minus(tail, head) \in Nat /\ Minus(tail, head) = Seen + Fresh
        /\ Seen \in Nat /\ Fresh \in Nat
    BY <1>1, LenContents DEF RingInv, TypeOK
  <1>3. Cell(tail) \in 0 .. Capacity - 1
    <2>1. tail \in Int
      BY <1>2, LapsFit DEF WordsTyped, Words
    <2> QED
      BY <2>1, LapsFit, Division DEF Cell
  <1>4. \A n \in 0 .. Minus(tail, head) - 1 :
          cells'[Cell(Plus(head, n))] = cells[Cell(Plus(head, n))]
    <2> TAKE n \in 0 .. Minus(tail, head) - 1
    <2>1. Plus(head, n) \in Words /\ Cell(Plus(head, n)) # Cell(tail)
      BY <1>1, WriteApart
    <2>2. Cell(Plus(head, n)) \in 0 .. Capacity - 1
      <3>1. Plus(head, n) \in Int
        BY <2>1, LapsFit DEF Words
      <3> QED
        BY <3>1, LapsFit, Division DEF Cell
    <2> QED
      BY <1>1, <1>2, <2>1, <2>2 DEF TypeOK
  <1>5. TypeOK'
    BY <1>1, <1>2, <1>3 DEF TypeOK
  <1>6. Spread'
    <2>1. Unseen' = Unseen /\ Seen' = Seen /\ Fresh' = Fresh
      BY <1>1 DEF Unseen, Seen, Fresh
    <2> QED
      BY <1>1, <1>2, <2>1 DEF Spread
  <1>7. CellContents'
    <2>1. cells'[Cell(tail)] = producerId
      BY <1>1, <1>2, <1>3 DEF TypeOK
    <2>2. consumer = "release" => cells'[Cell(head)] = cells[Cell(head)]
      <3>1. ASSUME consumer = "release" PROVE cells'[Cell(head)] = cells[Cell(head)]
        <4>1. 0 \in 0 .. Minus(tail, head) - 1
          BY <1>2, <3>1 DEF Spread
        <4>2. Plus(head, 0) = head
          BY <1>2, Walk DEF WordsTyped
        <4> QED
          BY <1>4, <4>1, <4>2
      <3> QED
        BY <3>1
    <2> QED
      BY <1>1, <1>4, <2>1, <2>2 DEF RingInv, CellContents
  <1>8. UNCHANGED Queue!queueVars
    <2>1. \A i \in 1 .. Minus(tail, head) : i - 1 \in 0 .. Minus(tail, head) - 1
      BY <1>2
    <2>2. Contents' = Contents
      BY <1>1, <1>4, <2>1 DEF Contents
    <2> QED
      BY <1>1, <2>2 DEF Queue!queueVars
  <1> QED
    BY <1>5, <1>6, <1>7, <1>8 DEF RingInv

\* The store of tail appends the ID that was written.
LEMMA PushPublishStep ==
  ASSUME RingInv, PushPublish
  PROVE  RingInv' /\ \E id \in Ids : Queue!Push(id)
  <1>1. /\ producer = "publish" /\ producer' = "idle" /\ producerId' = Uninit
        /\ tail' = Plus(tail, 1)
        /\ UNCHANGED <<cells, head, headView, tailView, consumer, consumerId>>
    BY DEF PushPublish
  <1>2. /\ WordsTyped /\ Spread /\ TypeOK /\ CellContents /\ producerId \in Ids
        /\ Minus(tail, head) \in Nat /\ Minus(tail, head) = Seen + Fresh
        /\ Unseen \in Nat /\ Seen \in Nat /\ Fresh \in Nat
        /\ Contents \in Seq(Ids) /\ Len(Contents) = Minus(tail, head)
    BY <1>1, LenContents DEF RingInv, TypeOK
  <1>3. Unseen + Seen + Fresh < Capacity
    BY <1>1, <1>2 DEF Spread
  <1>4. /\ tail' \in Words
        /\ Fresh' = Fresh + 1
        /\ Minus(tail', head) = Minus(tail, head) + 1
    <2>1. Fresh < CursorRange - 1 /\ Minus(tail, head) < CursorRange - 1
      BY <1>2, <1>3, LapsFit
    <2> QED
      BY <1>1, <1>2, <2>1, Advance DEF WordsTyped, Fresh
  <1>5. Unseen' = Unseen /\ Seen' = Seen
    BY <1>1 DEF Unseen, Seen
  <1>6. cells[Cell(tail)] = producerId /\ Plus(head, Minus(tail, head)) = tail
    BY <1>1, <1>2, Walk DEF CellContents, WordsTyped
  <1>7. TypeOK'
    BY <1>1, <1>2, <1>4 DEF TypeOK
  <1>8. Spread'
    <2>1. Unseen + Seen + (Fresh + 1) <= Capacity
      BY <1>2, <1>3, LapsFit
    <2> QED
      BY <1>1, <1>2, <1>4, <1>5, <2>1 DEF Spread
  <1>9. CellContents'
    <2>1. \A n \in 0 .. Minus(tail', head) - 1 :
            n \in 0 .. Minus(tail, head) - 1 \/ n = Minus(tail, head)
      BY <1>2, <1>4
    <2>2. \A n \in 0 .. Minus(tail', head) - 1 : cells[Cell(Plus(head, n))] \in Ids
      BY <1>2, <1>6, <2>1 DEF CellContents
    <2> QED
      BY <1>1, <1>2, <2>2 DEF CellContents
  <1>10. Queue!Push(producerId)
    <2> DEFINE d == Minus(tail, head)
               appended == Append(Contents, producerId)
    <2>1. Contents' = [i \in 1 .. d + 1 |-> cells[Cell(Plus(head, i - 1))]]
      BY <1>1, <1>4 DEF Contents
    <2>2. Contents = [i \in 1 .. d |-> cells[Cell(Plus(head, i - 1))]] /\ Len(Contents) = d
      BY <1>2 DEF Contents
    <2>3. cells[Cell(Plus(head, d))] = producerId /\ d \in Nat
      BY <1>2, <1>6
    <2> HIDE DEF d
    <2>4. /\ appended \in Seq(Ids)
          /\ Len(appended) = d + 1
          /\ \A i \in 1 .. d : appended[i] = Contents[i]
          /\ appended[d + 1] = producerId
      <3>1. /\ appended \in Seq(Ids) /\ Len(appended) = Len(Contents) + 1
            /\ \A i \in 1 .. Len(Contents) : appended[i] = Contents[i]
            /\ appended[Len(Contents) + 1] = producerId
        BY <1>2, AppendProperties
      <3> HIDE DEF appended
      <3> QED
        BY <2>2, <3>1
    <2> HIDE DEF appended
    <2>5. \A i \in 1 .. d + 1 :
            cells[Cell(Plus(head, i - 1))] = appended[i]
      <3> TAKE i \in 1 .. d + 1
      <3>1. CASE i = d + 1
        <4>1. i - 1 = d
          BY <2>3, <3>1
        <4> QED
          BY <2>3, <2>4, <3>1, <4>1
      <3>2. CASE i # d + 1
        <4>1. i \in 1 .. d
          BY <2>3, <3>2
        <4> QED
          BY <2>2, <2>4, <4>1
      <3> QED
        BY <3>1, <3>2
    <2>6. Contents' = appended
      <3>1. appended
              = [i \in 1 .. d + 1 |-> appended[i]]
        BY <2>3, <2>4
      <3> QED
        BY <2>1, <2>5, <3>1
    <2>7. Unseen' \in 0 .. Unseen /\ Len(Contents) + Unseen' < Capacity
      BY <1>2, <1>3, <1>5
    <2> QED
      BY <1>5, <2>6, <2>7 DEF Queue!Push, Unseen, Seen, appended
  <1> QED
    BY <1>2, <1>7, <1>8, <1>9, <1>10 DEF RingInv

LEMMA PopReadStep ==
  ASSUME RingInv, PopRead
  PROVE  RingInv' /\ UNCHANGED Queue!queueVars
  <1>1. /\ consumer = "read" /\ consumer' = "release"
        /\ consumerId' = cells[Cell(head)]
        /\ UNCHANGED <<cells, head, tail, headView, tailView, producer, producerId>>
    BY DEF PopRead
  <1>2. /\ WordsTyped /\ Spread /\ TypeOK /\ CellContents
        /\ Minus(tail, head) \in Nat /\ Minus(tail, head) = Seen + Fresh
        /\ Seen \in Nat /\ Fresh \in Nat /\ Seen >= 1
    BY <1>1, LenContents DEF RingInv, Spread
  <1>3. cells[Cell(head)] \in Ids
    <2>1. 0 \in 0 .. Minus(tail, head) - 1 /\ Plus(head, 0) = head
      BY <1>2, Walk DEF WordsTyped
    <2> QED
      BY <1>2, <2>1 DEF CellContents
  <1>4. TypeOK' /\ Spread' /\ CellContents'
    BY <1>1, <1>2, <1>3 DEF TypeOK, Spread, Unseen, Seen, Fresh, CellContents
  <1>5. UNCHANGED Queue!queueVars
    BY <1>1 DEF Queue!queueVars, Contents
  <1> QED
    BY <1>4, <1>5 DEF RingInv

\* The store of head removes the ID that was read.
LEMMA PopReleaseStep ==
  ASSUME RingInv, PopRelease
  PROVE  RingInv' /\ Queue!Pop
  <1>1. /\ consumer = "release" /\ consumer' = "idle" /\ consumerId' = Uninit
        /\ head' = Plus(head, 1)
        /\ UNCHANGED <<cells, tail, headView, tailView, producer, producerId>>
    BY DEF PopRelease
  <1>2. /\ WordsTyped /\ Spread /\ TypeOK /\ CellContents
        /\ Minus(tail, head) \in Nat /\ Minus(tail, head) = Seen + Fresh
        /\ Unseen \in Nat /\ Seen \in Nat /\ Fresh \in Nat /\ Seen >= 1
        /\ Unseen + Seen + Fresh <= Capacity
        /\ Contents \in Seq(Ids) /\ Len(Contents) = Minus(tail, head)
    BY <1>1, LenContents DEF RingInv, Spread
  <1>3. /\ head' \in Words
        /\ Unseen' = Unseen + 1 /\ Seen' = Seen - 1
        /\ Minus(tail, head') = Minus(tail, head) - 1
    <2>1. Unseen < CursorRange - 1 /\ Seen > 0 /\ Minus(tail, head) > 0
      BY <1>2, LapsFit
    <2> QED
      BY <1>1, <1>2, <2>1, Advance DEF WordsTyped, Unseen, Seen
  <1>4. Fresh' = Fresh
    BY <1>1 DEF Fresh
  <1>5. \A n \in 0 .. Minus(tail, head) - 2 : Plus(head', n) = Plus(head, n + 1)
    <2>1. \A n \in 0 .. Minus(tail, head) - 2 : n \in 0 .. CursorRange - 2
      BY <1>2, LapsFit
    <2> QED
      BY <1>1, <1>2, <2>1, Walk DEF WordsTyped
  <1>6. TypeOK'
    BY <1>1, <1>2, <1>3 DEF TypeOK
  <1>7. Spread'
    <2>1. (Unseen + 1) + (Seen - 1) + Fresh = Unseen + Seen + Fresh
      BY <1>2
    <2> QED
      BY <1>1, <1>2, <1>3, <1>4, <2>1 DEF Spread
  <1>8. CellContents'
    <2>1. \A n \in 0 .. Minus(tail, head') - 1 :
            n \in 0 .. Minus(tail, head) - 2 /\ n + 1 \in 0 .. Minus(tail, head) - 1
      BY <1>2, <1>3
    <2>2. \A n \in 0 .. Minus(tail, head') - 1 : cells[Cell(Plus(head', n))] \in Ids
      BY <1>2, <1>5, <2>1 DEF CellContents
    <2> QED
      BY <1>1, <1>2, <2>2 DEF CellContents
  <1>9. Queue!Pop
    <2> DEFINE d == Minus(tail, head)
               h == head'
               e(i) == cells[Cell(Plus(head, i - 1))]
    <2>1. Contents' = [i \in 1 .. d - 1 |-> cells[Cell(Plus(h, i - 1))]]
      BY <1>1, <1>3 DEF Contents
    <2>2. /\ Contents = [i \in 1 .. d |-> e(i)] /\ Len(Contents) = d /\ d \in Nat /\ d >= 1
          /\ Contents # <<>>
      BY <1>2, EmptySeq DEF Contents
    <2>3. \A i \in 1 .. d - 1 : cells[Cell(Plus(h, i - 1))] = e(i + 1)
      <3>1. \A i \in 1 .. d - 1 : i - 1 \in 0 .. d - 2 /\ (i - 1) + 1 = (i + 1) - 1
        BY <1>2
      <3> QED
        BY <1>5, <3>1
    <2> HIDE DEF d, h, e
    <2>4. Tail(Contents) \in Seq(Ids) /\ Len(Tail(Contents)) = d - 1
          /\ \A i \in 1 .. d - 1 : Tail(Contents)[i] = Contents[i + 1]
      BY <1>2, <2>2, HeadTailProperties
    <2>5. \A i \in 1 .. d - 1 : Contents[i + 1] = e(i + 1)
      <3>1. \A i \in 1 .. d - 1 : i + 1 \in 1 .. d
        BY <2>2
      <3> QED
        BY <2>2, <3>1
    <2>6. Contents' = Tail(Contents)
      <3>1. Tail(Contents) = [i \in 1 .. d - 1 |-> Tail(Contents)[i]]
        BY <2>2, <2>4
      <3> QED
        BY <2>1, <2>3, <2>4, <2>5, <3>1
    <2>7. Seen' \in 0 .. Len(Contents) - 1 /\ Seen' >= Seen - 1
      BY <1>2, <1>3
    <2> QED
      BY <1>3, <2>2, <2>6, <2>7 DEF Queue!Pop, Unseen, Seen
  <1> QED
    BY <1>6, <1>7, <1>8, <1>9 DEF RingInv

\* head is loaded as tail only if the consumer has acquired nothing more.
LEMMA PopEmptyStep ==
  ASSUME RingInv, PopEmpty
  PROVE  RingInv' /\ Queue!PopEmpty
  <1>1. /\ head \in Loadable(tailView, tail) /\ tailView' = head
        /\ UNCHANGED <<cells, head, tail, headView, producer, producerId, consumer,
                       consumerId>>
    BY DEF PopEmpty
  <1>2. /\ WordsTyped /\ Spread /\ TypeOK /\ CellContents
        /\ Minus(tail, head) = Seen + Fresh
        /\ Seen \in Nat /\ Fresh \in Nat
    BY LenContents DEF RingInv
  <1>3. /\ Minus(head, tailView) + Minus(tail, head) = Fresh
        /\ Minus(head, tailView) \in Nat
    BY <1>1, <1>2, Loaded DEF WordsTyped, Fresh
  <1>4. Seen = 0
    BY <1>2, <1>3
  <1>5. tailView = head
    <2>1. Seen = IF tailView >= head THEN tailView - head ELSE tailView - head + CursorRange
      BY <1>2, MinusIs DEF Seen, WordsTyped
    <2> QED
      BY <1>2, <1>4, <2>1, LapsFit DEF WordsTyped, Words
  <1>6. UNCHANGED vars
    BY <1>1, <1>5 DEF vars
  <1>7. RingInv' /\ UNCHANGED Queue!queueVars
    BY <1>6 DEF vars, RingInv, TypeOK, Spread, Unseen, Seen, Fresh, CellContents,
       Queue!queueVars, Contents
  <1> QED
    BY <1>4, <1>7 DEF Queue!PopEmpty, Seen

LEMMA RingStep ==
  ASSUME RingInv, [Next]_vars
  PROVE  RingInv' /\ [Queue!Next]_(Queue!queueVars)
  <1>1. CASE \E id \in Ids : PushClaim(id)
    <2>1. PICK id \in Ids : PushClaim(id)
      BY <1>1
    <2>2. /\ producer = "idle" /\ headView' \in Loadable(headView, head)
          /\ UNCHANGED <<cells, head, tail, tailView, consumer, consumerId>>
          /\ ~Full(headView') /\ producer' = "write" /\ producerId' \in Ids
      BY <2>1 DEF PushClaim
    <2> QED
      BY <2>2, ProducerLoadStep DEF Queue!Next
  <1>2. CASE PushRefused
    <2>1. /\ producer = "idle" /\ headView' \in Loadable(headView, head)
          /\ UNCHANGED <<cells, head, tail, tailView, consumer, consumerId>>
          /\ UNCHANGED <<producer, producerId>>
      BY <1>2 DEF PushRefused
    <2> QED
      BY <2>1, ProducerLoadStep DEF Queue!Next
  <1>3. CASE ProducerSync
    <2>1. /\ producer = "idle" /\ headView' \in Loadable(headView, head)
          /\ UNCHANGED <<cells, head, tail, tailView, consumer, consumerId>>
          /\ UNCHANGED <<producer, producerId>>
      BY <1>3 DEF ProducerSync
    <2> QED
      BY <2>1, ProducerLoadStep DEF Queue!Next
  <1>4. CASE PopClaim \/ ConsumerSync
    <2>1. /\ consumer = "idle" /\ tailView' \in Loadable(tailView, tail)
          /\ UNCHANGED <<cells, head, tail, headView, producer, producerId, consumerId>>
          /\ consumer' = "idle" \/ (consumer' = "read" /\ tailView' # head)
      BY <1>4 DEF PopClaim, ConsumerSync
    <2> QED
      BY <2>1, ConsumerLoadStep DEF Queue!Next
  <1>5. CASE PushWrite
    BY <1>5, PushWriteStep
  <1>6. CASE PushPublish
    BY <1>6, PushPublishStep DEF Queue!Next
  <1>7. CASE PopRead
    BY <1>7, PopReadStep
  <1>8. CASE PopRelease
    BY <1>8, PopReleaseStep DEF Queue!Next
  <1>9. CASE PopEmpty
    BY <1>9, PopEmptyStep DEF Queue!Next
  <1>10. CASE UNCHANGED vars
    BY <1>10 DEF vars, RingInv, TypeOK, Spread, Unseen, Seen, Fresh, CellContents,
       Queue!queueVars, Contents
  <1> QED
    BY <1>1, <1>2, <1>3, <1>4, <1>5, <1>6, <1>7, <1>8, <1>9, <1>10 DEF Next

LEMMA RingSafe == Spec => []RingInv
  BY InitRing, RingStep, PTL DEF Spec

-----------------------------------------------------------------------------
(* The theorems.                                                             *)

\* The cursors stay machine words through every wrap, and every cell holds a
\* slot ID or nothing.
THEOREM RingTypeCorrect == Spec => []TypeOK
  <1>1. RingInv => TypeOK
    BY DEF RingInv
  <1> QED
    BY <1>1, RingSafe, PTL

\* spsc.rs:31 - no two threads are ever at one cell.
THEOREM CellsNeverShared == Spec => []CellsExclusive
  <1>1. RingInv => CellsExclusive
    <2> SUFFICES ASSUME RingInv, producer = "write", consumer = "read"
                 PROVE  Cell(tail) # Cell(head)
      BY DEF CellsExclusive
    <2>1. /\ WordsTyped /\ Seen \in Nat /\ Fresh \in Nat /\ Seen >= 1
          /\ Minus(tail, head) = Seen + Fresh
      BY LenContents DEF Spread
    <2>2. 0 \in 0 .. Minus(tail, head) - 1 /\ Plus(head, 0) = head
      BY <2>1, Walk DEF WordsTyped
    <2> QED
      BY <2>2, WriteApart
  <1> QED
    BY <1>1, RingSafe, PTL

\* spsc.rs:87 and 108 - what each end has acquired covers the access it makes.
THEOREM AccessesOrdered == Spec => []CellAccessesOrdered
  <1>1. RingInv => CellAccessesOrdered
    <2> SUFFICES ASSUME RingInv PROVE CellAccessesOrdered
      OBVIOUS
    <2>1. /\ Unseen \in Nat /\ Seen \in Nat /\ Fresh \in Nat /\ Spread
          /\ Minus(tail, headView) = Unseen + Seen + Fresh
      BY LenContents
    <2>2. producer = "write" => Minus(tail, headView) < Capacity
      BY <2>1 DEF Spread
    <2>3. consumer = "read" => Seen \in 1 .. Capacity
      BY <2>1, LapsFit DEF Spread
    <2> QED
      BY <2>2, <2>3 DEF CellAccessesOrdered, Seen
  <1> QED
    BY <1>1, RingSafe, PTL

\* spsc.rs:94 - a pop returns what was pushed first and not popped yet.
THEOREM OldestComesOut == Spec => []PopReturnsOldest
  <1>1. RingInv => PopReturnsOldest
    <2> SUFFICES ASSUME RingInv, consumer = "release"
                 PROVE  Minus(tail, head) > 0 /\ consumerId = Contents[1] /\ consumerId \in Ids
      BY DEF PopReturnsOldest
    <2>1. /\ WordsTyped /\ Seen \in Nat /\ Fresh \in Nat /\ Seen >= 1
          /\ Minus(tail, head) = Seen + Fresh
      BY LenContents DEF Spread
    <2>2. 1 \in 1 .. Minus(tail, head) /\ 0 \in 0 .. Minus(tail, head) - 1 /\ 1 - 1 = 0
      BY <2>1
    <2>3. Plus(head, 0) = head
      BY <2>1, Walk DEF WordsTyped
    <2>4. Contents[1] = cells[Cell(head)] /\ cells[Cell(head)] \in Ids
      BY <2>2, <2>3 DEF Contents, RingInv, CellContents
    <2>5. consumerId = cells[Cell(head)]
      BY DEF RingInv, CellContents
    <2> QED
      BY <2>1, <2>4, <2>5
  <1> QED
    BY <1>1, RingSafe, PTL

\* The ring is the queue its callers are verified with.
THEOREM RingIsQueue == Spec => QueueSpec
  <1>1. Init => Queue!Init
    <2> SUFFICES ASSUME Init PROVE Queue!Init
      OBVIOUS
    <2>1. Minus(0, 0) = 0
      BY LapsFit, MinusIs DEF Words
    <2>2. Contents = <<>>
      BY <2>1 DEF Init, Contents
    <2> QED
      BY <2>1, <2>2 DEF Init, Queue!Init
  <1>2. RingInv /\ [Next]_vars => [Queue!Next]_(Queue!queueVars)
    BY RingStep
  <1> QED
    BY <1>1, <1>2, RingSafe, PTL DEF Spec, QueueSpec, Queue!Spec

-----------------------------------------------------------------------------
(* Two rings in a circle: what a thread does not know of the other one      *)

Stores == Seq([head : Nat, tail : Nat])

\* The stores move both cursors forward only, and of what is popped in a part of
\* them that the reader does not know all but `held' is pushed in it too.
Chronicle(news, held) ==
  /\ news \in Stores
  /\ \A i, j \in 0 .. Len(news) : i <= j =>
       /\ Store(news, i).head <= Store(news, j).head
       /\ Store(news, i).tail <= Store(news, j).tail
  /\ \A i \in 0 .. Len(news) :
       Latest(news).head - Store(news, i).head
         <= Latest(news).tail - Store(news, i).tail + held

LEMMA StoreTyped ==
  ASSUME NEW news \in Stores, NEW i \in 0 .. Len(news)
  PROVE  Store(news, i).head \in Nat /\ Store(news, i).tail \in Nat
  <1>1. CASE i = 0
    BY <1>1 DEF Store, Known
  <1>2. CASE i # 0
    <2>1. i \in 1 .. Len(news)
      BY <1>2, LenProperties DEF Stores
    <2>2. news[i] \in [head : Nat, tail : Nat]
      BY <2>1, ElementOfSeq DEF Stores
    <2> QED
      BY <1>2, <2>2 DEF Store
  <1> QED
    BY <1>1, <1>2

\* Acquiring a store makes it the origin of those after it.
LEMMA AcquiredStores ==
  ASSUME NEW news, NEW held \in Nat, Chronicle(news, held), NEW i \in 0 .. Len(news)
  PROVE  LET rest == Acquired(news, i)
         IN  /\ Chronicle(rest, held)
             /\ Latest(rest).head = Latest(news).head - Store(news, i).head
             /\ Latest(rest).tail = Latest(news).tail - Store(news, i).tail
             /\ Latest(rest).head \in Nat /\ Latest(rest).tail \in Nat
  <1> DEFINE n == Len(news)
             rest == Acquired(news, i)
  <1>1. n \in Nat /\ news \in Stores /\ n - i \in Nat /\ n \in 0 .. n /\ i \in 0 .. n
    BY LenProperties DEF Chronicle, Stores
  <1>2. \A k \in 0 .. n : Store(news, k).head \in Nat /\ Store(news, k).tail \in Nat
    BY <1>1, StoreTyped
  <1>3. \A k \in 0 .. n : k >= i => /\ Store(news, i).head <= Store(news, k).head
                                   /\ Store(news, i).tail <= Store(news, k).tail
    BY DEF Chronicle
  <1>4. \A j \in 1 .. n - i :
          /\ i + j \in 0 .. n /\ i + j >= i /\ i + j # 0
          /\ news[i + j] = Store(news, i + j)
    BY <1>1 DEF Store
  <1>5. \A j \in 1 .. n - i :
          [head |-> news[i + j].head - Store(news, i).head,
           tail |-> news[i + j].tail - Store(news, i).tail] \in [head : Nat, tail : Nat]
    <2> SUFFICES ASSUME NEW j \in 1 .. n - i
                 PROVE  /\ news[i + j].head - Store(news, i).head \in Nat
                        /\ news[i + j].tail - Store(news, i).tail \in Nat
      OBVIOUS
    <2> DEFINE ih == Store(news, i).head
               it == Store(news, i).tail
               jh == news[i + j].head
               jt == news[i + j].tail
    <2>1. /\ i + j \in 0 .. n /\ i + j >= i
          /\ news[i + j] = Store(news, i + j)
      BY <1>4
    <2>2. /\ ih \in Nat /\ it \in Nat /\ jh \in Nat /\ jt \in Nat
          /\ ih <= jh /\ it <= jt
      BY <1>1, <1>2, <1>3, <2>1
    <2> HIDE DEF ih, it, jh, jt
    <2>3. jh - ih \in Nat /\ jt - it \in Nat
      BY <2>2
    <2> QED
      BY <2>3 DEF ih, it, jh, jt
  <1>6. rest \in Stores /\ Len(rest) = n - i
    <2>1. rest = [j \in 1 .. n - i |->
                    [head |-> news[i + j].head - Store(news, i).head,
                     tail |-> news[i + j].tail - Store(news, i).tail]]
      BY DEF Acquired
    <2>2. rest \in [1 .. n - i -> [head : Nat, tail : Nat]]
      BY <1>5, <2>1
    <2>3. rest \in Stores
      <3> DEFINE m == n - i
                 T == [head : Nat, tail : Nat]
      <3>1. m \in Nat /\ rest \in [1 .. m -> T]
        BY <1>1, <2>2
      <3> HIDE DEF m, T, rest
      <3>2. rest \in Seq(T)
        BY <3>1, SeqDef
      <3> QED
        BY <3>2 DEF T, Stores
    <2>4. DOMAIN rest = 1 .. n - i
      BY <2>2
    <2>5. DOMAIN rest = 1 .. Len(rest) /\ Len(rest) \in Nat
      BY <2>3, LenProperties DEF Stores
    <2> HIDE DEF rest, n
    <2>6. Len(rest) = n - i
      BY <1>1, <2>4, <2>5
    <2> QED
      BY <2>3, <2>6
  <1>7. \A j \in 0 .. n - i :
          /\ i + j \in 0 .. n
          /\ Store(rest, j).head = Store(news, i + j).head - Store(news, i).head
          /\ Store(rest, j).tail = Store(news, i + j).tail - Store(news, i).tail
    <2> SUFFICES ASSUME NEW j \in 0 .. n - i
                 PROVE  /\ i + j \in 0 .. n
                        /\ Store(rest, j).head = Store(news, i + j).head - Store(news, i).head
                        /\ Store(rest, j).tail = Store(news, i + j).tail - Store(news, i).tail
      OBVIOUS
    <2>1. CASE j = 0
      BY <1>1, <1>2, <2>1 DEF Store, Known
    <2>2. CASE j # 0
      <3>1. j \in 1 .. n - i
        BY <1>1, <2>2
      <3>2. rest[j] = [head |-> Store(news, i + j).head - Store(news, i).head,
                       tail |-> Store(news, i + j).tail - Store(news, i).tail]
        BY <1>4, <3>1 DEF Acquired
      <3> QED
        BY <1>4, <2>2, <3>1, <3>2 DEF Store
    <2> QED
      BY <2>1, <2>2
  <1> HIDE DEF rest, n
  <1>8. /\ Latest(rest).head = Latest(news).head - Store(news, i).head
        /\ Latest(rest).tail = Latest(news).tail - Store(news, i).tail
    <2>1. n - i \in 0 .. n - i /\ i + (n - i) = n
      BY <1>1
    <2>2. /\ Store(rest, n - i).head = Store(news, n).head - Store(news, i).head
          /\ Store(rest, n - i).tail = Store(news, n).tail - Store(news, i).tail
      BY <1>7, <2>1
    <2> QED
      BY <1>6, <2>2 DEF Latest, n
  <1>9. Chronicle(rest, held)
    <2>1. \A j, k \in 0 .. n - i : j <= k => i + j <= i + k
      BY <1>1
    <2>2. \A j, k \in 0 .. n - i : j <= k =>
            /\ Store(rest, j).head <= Store(rest, k).head
            /\ Store(rest, j).tail <= Store(rest, k).tail
      <3> SUFFICES ASSUME NEW j \in 0 .. n - i, NEW k \in 0 .. n - i, j <= k
                   PROVE  /\ Store(rest, j).head <= Store(rest, k).head
                          /\ Store(rest, j).tail <= Store(rest, k).tail
        OBVIOUS
      <3>1. i + j \in 0 .. n /\ i + k \in 0 .. n /\ i + j <= i + k
        BY <1>7, <2>1
      <3>2. /\ Store(news, i + j).head <= Store(news, i + k).head
            /\ Store(news, i + j).tail <= Store(news, i + k).tail
        BY <3>1 DEF Chronicle, n
      <3>3. /\ Store(rest, j).head = Store(news, i + j).head - Store(news, i).head
            /\ Store(rest, j).tail = Store(news, i + j).tail - Store(news, i).tail
            /\ Store(rest, k).head = Store(news, i + k).head - Store(news, i).head
            /\ Store(rest, k).tail = Store(news, i + k).tail - Store(news, i).tail
        BY <1>7
      <3>4. /\ Store(news, i).head \in Nat /\ Store(news, i).tail \in Nat
            /\ Store(news, i + j).head \in Nat /\ Store(news, i + j).tail \in Nat
            /\ Store(news, i + k).head \in Nat /\ Store(news, i + k).tail \in Nat
        BY <1>1, <1>2, <3>1
      <3> DEFINE ah == Store(news, i).head
                 at == Store(news, i).tail
                 jh == Store(news, i + j).head
                 jt == Store(news, i + j).tail
                 kh == Store(news, i + k).head
                 kt == Store(news, i + k).tail
      <3>5. /\ ah \in Nat /\ at \in Nat /\ jh \in Nat /\ jt \in Nat
            /\ kh \in Nat /\ kt \in Nat /\ jh <= kh /\ jt <= kt
        BY <3>2, <3>4
      <3> HIDE DEF ah, at, jh, jt, kh, kt
      <3>6. jh - ah <= kh - ah /\ jt - at <= kt - at
        BY <3>5
      <3> QED
        BY <3>3, <3>6 DEF ah, at, jh, jt, kh, kt
    <2>3. \A j \in 0 .. n - i :
            Latest(rest).head - Store(rest, j).head
              <= Latest(rest).tail - Store(rest, j).tail + held
      <3> SUFFICES ASSUME NEW j \in 0 .. n - i
                   PROVE  Latest(rest).head - Store(rest, j).head
                            <= Latest(rest).tail - Store(rest, j).tail + held
        OBVIOUS
      <3>1. i + j \in 0 .. n
        BY <1>7
      <3>2. Latest(news).head - Store(news, i + j).head
              <= Latest(news).tail - Store(news, i + j).tail + held
        BY <3>1 DEF Chronicle, n
      <3>3. /\ Store(rest, j).head = Store(news, i + j).head - Store(news, i).head
            /\ Store(rest, j).tail = Store(news, i + j).tail - Store(news, i).tail
        BY <1>7
      <3>4. /\ Latest(news).head \in Nat /\ Latest(news).tail \in Nat
            /\ Store(news, i).head \in Nat /\ Store(news, i).tail \in Nat
            /\ Store(news, i + j).head \in Nat /\ Store(news, i + j).tail \in Nat
        BY <1>1, <1>2, <3>1 DEF Latest, n
      <3> DEFINE ah == Store(news, i).head
                 at == Store(news, i).tail
                 jh == Store(news, i + j).head
                 jt == Store(news, i + j).tail
                 lh == Latest(news).head
                 lt == Latest(news).tail
      <3>5. /\ ah \in Nat /\ at \in Nat /\ jh \in Nat /\ jt \in Nat
            /\ lh \in Nat /\ lt \in Nat /\ lh - jh <= lt - jt + held
        BY <3>2, <3>4
      <3> HIDE DEF ah, at, jh, jt, lh, lt
      <3>6. (lh - ah) - (jh - ah) <= (lt - at) - (jt - at) + held
        BY <3>5
      <3> QED
        BY <1>8, <3>3, <3>6 DEF ah, at, jh, jt, lh, lt
    <2> QED
      BY <1>6, <2>2, <2>3 DEF Chronicle
  <1>10. Latest(rest).head \in Nat /\ Latest(rest).tail \in Nat
    BY <1>1, <1>2, <1>3, <1>8 DEF Latest, n
  <1> QED
    BY <1>8, <1>9, <1>10 DEF rest

\* One more store, of either cursor.
LEMMA HeadStoredStores ==
  ASSUME NEW news, NEW held \in Nat, Chronicle(news, held)
  PROVE  /\ Chronicle(HeadStored(news), held + 1)
         /\ Latest(HeadStored(news)).head = Latest(news).head + 1
         /\ Latest(HeadStored(news)).tail = Latest(news).tail
  <1> DEFINE n == Len(news)
             last == [head |-> Latest(news).head + 1, tail |-> Latest(news).tail]
             more == HeadStored(news)
  <1>1. n \in Nat /\ news \in Stores /\ n \in 0 .. n
    BY LenProperties DEF Chronicle, Stores
  <1>2. \A k \in 0 .. n : Store(news, k).head \in Nat /\ Store(news, k).tail \in Nat
    BY <1>1, StoreTyped
  <1>3. Latest(news).head \in Nat /\ Latest(news).tail \in Nat
    BY <1>1, <1>2 DEF Latest
  <1>4. last \in [head : Nat, tail : Nat]
    BY <1>3
  <1>5. /\ more \in Stores /\ Len(more) = n + 1
        /\ \A i \in 1 .. n : more[i] = news[i]
        /\ more[n + 1] = last
    BY <1>1, <1>4, AppendProperties DEF HeadStored, Stores
  <1>6. \A i \in 0 .. n : Store(more, i) = Store(news, i)
    BY <1>1, <1>5 DEF Store
  <1>7. Store(more, n + 1) = last /\ Latest(more) = last
    BY <1>1, <1>5 DEF Store, Latest
  <1>8. \A i \in 0 .. n : /\ Store(news, i).head <= Latest(news).head
                         /\ Store(news, i).tail <= Latest(news).tail
    BY <1>1 DEF Chronicle, Latest
  <1>9. \A i \in 0 .. n + 1 : i \in 0 .. n \/ i = n + 1
    BY <1>1
  <1>10. \A i, j \in 0 .. n + 1 : i <= j =>
           /\ Store(more, i).head <= Store(more, j).head
           /\ Store(more, i).tail <= Store(more, j).tail
    <2> SUFFICES ASSUME NEW i \in 0 .. n + 1, NEW j \in 0 .. n + 1, i <= j
                 PROVE  /\ Store(more, i).head <= Store(more, j).head
                        /\ Store(more, i).tail <= Store(more, j).tail
      OBVIOUS
    <2>1. CASE j \in 0 .. n
      <3>1. i \in 0 .. n
        BY <1>1, <2>1
      <3> QED
        BY <1>6, <2>1, <3>1 DEF Chronicle
    <2>2. CASE j = n + 1 /\ i \in 0 .. n
      BY <1>2, <1>3, <1>6, <1>7, <1>8, <2>2
    <2>3. CASE j = n + 1 /\ i = n + 1
      BY <1>3, <1>7, <2>3
    <2> QED
      BY <1>9, <2>1, <2>2, <2>3
  <1>11. \A i \in 0 .. n + 1 :
           Latest(more).head - Store(more, i).head
             <= Latest(more).tail - Store(more, i).tail + (held + 1)
    <2> SUFFICES ASSUME NEW i \in 0 .. n + 1
                 PROVE  Latest(more).head - Store(more, i).head
                          <= Latest(more).tail - Store(more, i).tail + (held + 1)
      OBVIOUS
    <2>1. CASE i \in 0 .. n
      <3>1. Latest(news).head - Store(news, i).head
              <= Latest(news).tail - Store(news, i).tail + held
        BY <2>1 DEF Chronicle
      <3>2. /\ Store(news, i).head \in Nat /\ Store(news, i).tail \in Nat
            /\ Store(more, i) = Store(news, i)
        BY <1>2, <1>6, <2>1
      <3>3. Latest(more).head = Latest(news).head + 1 /\ Latest(more).tail = Latest(news).tail
        BY <1>7
      <3> DEFINE ih == Store(news, i).head
                 it == Store(news, i).tail
                 lh == Latest(news).head
                 lt == Latest(news).tail
      <3>4. /\ ih \in Nat /\ it \in Nat /\ lh \in Nat /\ lt \in Nat
            /\ lh - ih <= lt - it + held
        BY <1>3, <3>1, <3>2
      <3> HIDE DEF ih, it, lh, lt
      <3>5. (lh + 1) - ih <= lt - it + (held + 1)
        BY <3>4
      <3> QED
        BY <3>2, <3>3, <3>5 DEF ih, it, lh, lt
    <2>2. CASE i = n + 1
      BY <1>3, <1>7, <2>2
    <2> QED
      BY <1>9, <2>1, <2>2
  <1>12. Chronicle(more, held + 1)
    BY <1>5, <1>10, <1>11 DEF Chronicle
  <1> QED
    BY <1>7, <1>12

LEMMA TailStoredStores ==
  ASSUME NEW news, NEW held \in Nat, Chronicle(news, held + 1)
  PROVE  /\ Chronicle(TailStored(news), held)
         /\ Latest(TailStored(news)).head = Latest(news).head
         /\ Latest(TailStored(news)).tail = Latest(news).tail + 1
  <1> DEFINE n == Len(news)
             last == [head |-> Latest(news).head, tail |-> Latest(news).tail + 1]
             more == TailStored(news)
  <1>1. n \in Nat /\ news \in Stores /\ n \in 0 .. n
    BY LenProperties DEF Chronicle, Stores
  <1>2. \A k \in 0 .. n : Store(news, k).head \in Nat /\ Store(news, k).tail \in Nat
    BY <1>1, StoreTyped
  <1>3. Latest(news).head \in Nat /\ Latest(news).tail \in Nat
    BY <1>1, <1>2 DEF Latest
  <1>4. last \in [head : Nat, tail : Nat]
    BY <1>3
  <1>5. /\ more \in Stores /\ Len(more) = n + 1
        /\ \A i \in 1 .. n : more[i] = news[i]
        /\ more[n + 1] = last
    BY <1>1, <1>4, AppendProperties DEF TailStored, Stores
  <1>6. \A i \in 0 .. n : Store(more, i) = Store(news, i)
    BY <1>1, <1>5 DEF Store
  <1>7. Store(more, n + 1) = last /\ Latest(more) = last
    BY <1>1, <1>5 DEF Store, Latest
  <1>8. \A i \in 0 .. n : /\ Store(news, i).head <= Latest(news).head
                         /\ Store(news, i).tail <= Latest(news).tail
    BY <1>1 DEF Chronicle, Latest
  <1>9. \A i \in 0 .. n + 1 : i \in 0 .. n \/ i = n + 1
    BY <1>1
  <1>10. \A i, j \in 0 .. n + 1 : i <= j =>
           /\ Store(more, i).head <= Store(more, j).head
           /\ Store(more, i).tail <= Store(more, j).tail
    <2> SUFFICES ASSUME NEW i \in 0 .. n + 1, NEW j \in 0 .. n + 1, i <= j
                 PROVE  /\ Store(more, i).head <= Store(more, j).head
                        /\ Store(more, i).tail <= Store(more, j).tail
      OBVIOUS
    <2>1. CASE j \in 0 .. n
      <3>1. i \in 0 .. n
        BY <1>1, <2>1
      <3> QED
        BY <1>6, <2>1, <3>1 DEF Chronicle
    <2>2. CASE j = n + 1 /\ i \in 0 .. n
      BY <1>2, <1>3, <1>6, <1>7, <1>8, <2>2
    <2>3. CASE j = n + 1 /\ i = n + 1
      BY <1>3, <1>7, <2>3
    <2> QED
      BY <1>9, <2>1, <2>2, <2>3
  <1>11. \A i \in 0 .. n + 1 :
           Latest(more).head - Store(more, i).head
             <= Latest(more).tail - Store(more, i).tail + held
    <2> SUFFICES ASSUME NEW i \in 0 .. n + 1
                 PROVE  Latest(more).head - Store(more, i).head
                          <= Latest(more).tail - Store(more, i).tail + held
      OBVIOUS
    <2>1. CASE i \in 0 .. n
      <3>1. Latest(news).head - Store(news, i).head
              <= Latest(news).tail - Store(news, i).tail + (held + 1)
        BY <2>1 DEF Chronicle
      <3>2. /\ Store(news, i).head \in Nat /\ Store(news, i).tail \in Nat
            /\ Store(more, i) = Store(news, i)
        BY <1>2, <1>6, <2>1
      <3>3. Latest(more).head = Latest(news).head /\ Latest(more).tail = Latest(news).tail + 1
        BY <1>7
      <3> DEFINE ih == Store(news, i).head
                 it == Store(news, i).tail
                 lh == Latest(news).head
                 lt == Latest(news).tail
      <3>4. /\ ih \in Nat /\ it \in Nat /\ lh \in Nat /\ lt \in Nat
            /\ lh - ih <= lt - it + (held + 1)
        BY <1>3, <3>1, <3>2
      <3> HIDE DEF ih, it, lh, lt
      <3>5. lh - ih <= (lt + 1) - it + held
        BY <3>4
      <3> QED
        BY <3>2, <3>3, <3>5 DEF ih, it, lh, lt
    <2>2. CASE i = n + 1
      BY <1>3, <1>7, <2>2
    <2> QED
      BY <1>9, <2>1, <2>2
  <1>12. Chronicle(more, held)
    BY <1>5, <1>10, <1>11 DEF Chronicle
  <1> QED
    BY <1>7, <1>12

\* A load acquires some of what was not known, and with all of it acquired a
\* thread has no more pops than pushes ahead of it than the other one holds.
LEMMA LoadAcquires ==
  ASSUME NEW news, NEW held \in Nat, Chronicle(news, held),
         NEW i \in TailLoads(news) \cup HeadLoads(news)
  PROVE  /\ Chronicle(Acquired(news, i), held)
         /\ Latest(Acquired(news, i)).head \in 0 .. Latest(news).head
         /\ Latest(Acquired(news, i)).tail \in 0 .. Latest(news).tail
  <1>1. news \in Stores /\ Len(news) \in Nat
    BY LenProperties DEF Chronicle, Stores
  <1>2. i \in 0 .. Len(news) /\ Len(news) \in 0 .. Len(news)
    BY <1>1 DEF TailLoads, HeadLoads
  <1>3. /\ Store(news, i).head \in Nat /\ Store(news, i).tail \in Nat
        /\ Latest(news).head \in Nat /\ Latest(news).tail \in Nat
    BY <1>1, <1>2, StoreTyped DEF Latest
  <1>4. /\ Chronicle(Acquired(news, i), held)
        /\ Latest(Acquired(news, i)).head = Latest(news).head - Store(news, i).head
        /\ Latest(Acquired(news, i)).tail = Latest(news).tail - Store(news, i).tail
        /\ Latest(Acquired(news, i)).head \in Nat /\ Latest(Acquired(news, i)).tail \in Nat
    BY <1>2, AcquiredStores
  <1> DEFINE ih == Store(news, i).head
             it == Store(news, i).tail
             lh == Latest(news).head
             lt == Latest(news).tail
  <1>5. /\ ih \in Nat /\ it \in Nat /\ lh \in Nat /\ lt \in Nat
        /\ lh - ih \in Nat /\ lt - it \in Nat
    BY <1>3, <1>4
  <1> HIDE DEF ih, it, lh, lt
  <1>6. lh - ih \in 0 .. lh /\ lt - it \in 0 .. lt
    BY <1>5
  <1> QED
    BY <1>4, <1>6 DEF ih, it, lh, lt

LEMMA LatestBounded ==
  ASSUME NEW news, NEW held \in Nat, Chronicle(news, held)
  PROVE  /\ Latest(news).head \in Nat /\ Latest(news).tail \in Nat
         /\ Latest(news).head <= Latest(news).tail + held
  <1>1. news \in Stores /\ Len(news) \in Nat
    BY LenProperties DEF Chronicle, Stores
  <1>2. Latest(news).head \in Nat /\ Latest(news).tail \in Nat
    BY <1>1, StoreTyped DEF Latest
  <1>3. Latest(news).head - Store(news, 0).head
          <= Latest(news).tail - Store(news, 0).tail + held
    BY <1>1 DEF Chronicle
  <1>4. Store(news, 0).head = 0 /\ Store(news, 0).tail = 0
    BY DEF Store, Known
  <1> DEFINE lh == Latest(news).head
             lt == Latest(news).tail
  <1>5. lh \in Nat /\ lt \in Nat /\ lh - 0 <= lt - 0 + held
    BY <1>2, <1>3, <1>4
  <1> HIDE DEF lh, lt
  <1>6. lh <= lt + held
    BY <1>5
  <1> QED
    BY <1>2, <1>6 DEF lh, lt

-----------------------------------------------------------------------------
(* The invariant of the circle                                              *)

\* What of each ring a thread has still to learn.
UnseenReady   == Latest(captureNews).head
UnlearntFree  == Latest(captureNews).tail
UnseenFree    == Latest(senderNews).head
UnlearntReady == Latest(senderNews).tail

Chronicled == Chronicle(captureNews, SenderHolds) /\ Chronicle(senderNews, CaptureHolds)

Standing ==
  /\ captureStep \in {"pop", "popping", "push", "pushing"}
  /\ senderStep \in {"pop", "popping", "drain", "draining", "retire", "retiring",
                     "return", "returning"}

\* An ID is in one ring or with one thread.
Conserved ==
  /\ freeCount \in Nat /\ readyCount \in Nat
  /\ freeCount + readyCount + CaptureHolds + SenderHolds = FramePoolSlots

\* Nobody sees more than there is, and who is about to store has seen an ID, or
\* room for one, in what it knew.
Foreseen ==
  /\ UnlearntFree <= freeCount /\ UnlearntReady <= readyCount
  /\ captureStep = "popping" => UnlearntFree < freeCount
  /\ captureStep = "pushing" => readyCount + UnseenReady < FramePoolSlots
  /\ senderStep \in {"popping", "draining"} => UnlearntReady < readyCount
  /\ senderStep \in {"retiring", "returning"} => freeCount + UnseenFree < FramePoolSlots

CircleInv == Chronicled /\ Standing /\ Conserved /\ Foreseen

LEMMA Held == CaptureHolds \in Nat /\ SenderHolds \in Nat
  BY DEF CaptureHolds, SenderHolds

\* The room a push needs: the pops of the other ring it does not know are pushes
\* to this one that it sees none of, or held.
LEMMA Lags ==
  ASSUME CircleInv
  PROVE  /\ {UnseenReady, UnlearntFree, UnseenFree, UnlearntReady} \subseteq Nat
         /\ UnseenReady <= UnlearntFree + SenderHolds
         /\ UnseenFree <= UnlearntReady + CaptureHolds
         /\ readyCount + UnseenReady <= FramePoolSlots - CaptureHolds
         /\ freeCount + UnseenFree <= FramePoolSlots - SenderHolds
  <1>1. /\ {UnseenReady, UnlearntFree, UnseenFree, UnlearntReady} \subseteq Nat
        /\ UnseenReady <= UnlearntFree + SenderHolds
        /\ UnseenFree <= UnlearntReady + CaptureHolds
    BY Held, LatestBounded
      DEF CircleInv, Chronicled, UnseenReady, UnlearntFree, UnseenFree, UnlearntReady
  <1> QED
    BY <1>1, Held, CycleAssumption DEF CircleInv, Conserved, Foreseen

LEMMA CircleInvInit == CycleInit => CircleInv
  <1> SUFFICES ASSUME CycleInit PROVE CircleInv
    OBVIOUS
  <1>1. Len(<<>>) = 0 /\ <<>> \in Stores
    BY EmptySeq DEF Stores
  <1>2. Latest(<<>>) = Known
    BY <1>1 DEF Latest, Store
  <1>3. Chronicle(<<>>, 0)
    BY <1>1, <1>2 DEF Chronicle, Store, Known
  <1>4. CaptureHolds = 0 /\ SenderHolds = 0
    BY DEF CycleInit, CaptureHolds, SenderHolds
  <1>5. Chronicled
    BY <1>3, <1>4 DEF CycleInit, Chronicled
  <1>6. UnlearntFree = 0 /\ UnlearntReady = 0
    BY <1>2 DEF CycleInit, UnlearntFree, UnlearntReady, Known
  <1>7. Standing
    BY DEF CycleInit, Standing
  <1>8. Conserved
    BY <1>4, CycleAssumption DEF CycleInit, Conserved
  <1>9. Foreseen
    BY <1>6, CycleAssumption DEF CycleInit, Foreseen
  <1> QED
    BY <1>5, <1>7, <1>8, <1>9 DEF CircleInv

-----------------------------------------------------------------------------
(* What the steps of the capture thread do to the standing of both          *)

\* The four figures a step of either thread may change.
LEMMA CaptureLearns ==
  ASSUME CircleInv, NEW i \in TailLoads(captureNews) \cup HeadLoads(captureNews),
         captureNews' = Acquired(captureNews, i), UNCHANGED senderVars
  PROVE  /\ Chronicle(captureNews', SenderHolds')
         /\ UnseenReady' \in 0 .. UnseenReady /\ UnlearntFree' \in 0 .. UnlearntFree
         /\ UnseenFree' = UnseenFree /\ UnlearntReady' = UnlearntReady
  <1>1. SenderHolds' = SenderHolds /\ senderNews' = senderNews
    BY DEF SenderHolds, senderVars
  <1>2. /\ Chronicle(Acquired(captureNews, i), SenderHolds)
        /\ Latest(Acquired(captureNews, i)).head \in 0 .. Latest(captureNews).head
        /\ Latest(Acquired(captureNews, i)).tail \in 0 .. Latest(captureNews).tail
    BY Held, LoadAcquires DEF CircleInv, Chronicled
  <1> QED
    BY <1>1, <1>2 DEF UnseenReady, UnlearntFree, UnseenFree, UnlearntReady

LEMMA SenderLearns ==
  ASSUME CircleInv, NEW i \in TailLoads(senderNews) \cup HeadLoads(senderNews),
         senderNews' = Acquired(senderNews, i), UNCHANGED captureVars
  PROVE  /\ Chronicle(senderNews', CaptureHolds')
         /\ UnseenFree' \in 0 .. UnseenFree /\ UnlearntReady' \in 0 .. UnlearntReady
         /\ UnseenReady' = UnseenReady /\ UnlearntFree' = UnlearntFree
  <1>1. CaptureHolds' = CaptureHolds /\ captureNews' = captureNews
    BY DEF CaptureHolds, captureVars
  <1>2. /\ Chronicle(Acquired(senderNews, i), CaptureHolds)
        /\ Latest(Acquired(senderNews, i)).head \in 0 .. Latest(senderNews).head
        /\ Latest(Acquired(senderNews, i)).tail \in 0 .. Latest(senderNews).tail
    BY Held, LoadAcquires DEF CircleInv, Chronicled
  <1> QED
    BY <1>1, <1>2 DEF UnseenReady, UnlearntFree, UnseenFree, UnlearntReady

LEMMA CapturePops ==
  ASSUME CircleInv, CapturePop
  PROVE  /\ CircleInv'
         /\ UnseenReady' \in 0 .. UnseenReady /\ UnlearntFree' \in 0 .. UnlearntFree
         /\ UnseenFree' = UnseenFree /\ UnlearntReady' = UnlearntReady
         /\ UNCHANGED <<freeCount, readyCount>>
  <1>1. PICK i \in TailLoads(captureNews) : captureNews' = Acquired(captureNews, i)
    BY DEF CapturePop
  <1>2. /\ Chronicle(captureNews', SenderHolds')
        /\ UnseenReady' \in 0 .. UnseenReady /\ UnlearntFree' \in 0 .. UnlearntFree
        /\ UnseenFree' = UnseenFree /\ UnlearntReady' = UnlearntReady
    BY <1>1, CaptureLearns DEF CapturePop
  <1>3. /\ captureStep = "pop"
        /\ captureStep' = IF freeCount > UnlearntFree' THEN "popping" ELSE "pop"
        /\ UNCHANGED <<freeCount, readyCount, senderStep, senderNews>>
    BY DEF CapturePop, UnlearntFree, senderVars
  <1>4. CaptureHolds' = CaptureHolds /\ SenderHolds' = SenderHolds
    BY <1>3 DEF CaptureHolds, SenderHolds
  <1>5. Chronicled'
    BY <1>2, <1>3, <1>4 DEF CircleInv, Chronicled
  <1>6. Standing'
    BY <1>3 DEF CircleInv, Standing
  <1>7. Conserved'
    BY <1>3, <1>4 DEF CircleInv, Conserved
  <1>8. Foreseen'
    BY <1>2, <1>3, Lags DEF CircleInv, Conserved, Foreseen
  <1> QED
    BY <1>2, <1>3, <1>5, <1>6, <1>7, <1>8 DEF CircleInv

LEMMA CapturePushes ==
  ASSUME CircleInv, CapturePush
  PROVE  /\ CircleInv'
         /\ UnseenReady' \in 0 .. UnseenReady /\ UnlearntFree' \in 0 .. UnlearntFree
         /\ UnseenFree' = UnseenFree /\ UnlearntReady' = UnlearntReady
         /\ UNCHANGED <<freeCount, readyCount>>
  <1>1. PICK i \in HeadLoads(captureNews) : captureNews' = Acquired(captureNews, i)
    BY DEF CapturePush
  <1>2. /\ Chronicle(captureNews', SenderHolds')
        /\ UnseenReady' \in 0 .. UnseenReady /\ UnlearntFree' \in 0 .. UnlearntFree
        /\ UnseenFree' = UnseenFree /\ UnlearntReady' = UnlearntReady
    BY <1>1, CaptureLearns DEF CapturePush
  <1>3. /\ captureStep = "push"
        /\ captureStep' = IF readyCount + UnseenReady' >= FramePoolSlots
                          THEN "panicked" ELSE "pushing"
        /\ UNCHANGED <<freeCount, readyCount, senderStep, senderNews>>
    BY DEF CapturePush, UnseenReady, senderVars
  <1>4. CaptureHolds = 1
    BY <1>3 DEF CaptureHolds
  <1>5. readyCount + UnseenReady' < FramePoolSlots /\ readyCount + UnseenReady' \in Nat
    <2>1. /\ readyCount \in Nat /\ UnseenReady \in Nat /\ FramePoolSlots \in Nat
          /\ readyCount + UnseenReady <= FramePoolSlots - 1
      BY <1>4, Lags, CycleAssumption DEF CircleInv, Conserved
    <2>2. \A u \in 0 .. UnseenReady :
            readyCount + u < FramePoolSlots /\ readyCount + u \in Nat
      BY <2>1
    <2> QED
      BY <1>2, <2>2
  <1>6. captureStep' = "pushing"
    BY <1>3, <1>5, CycleAssumption
  <1>7. CaptureHolds' = CaptureHolds /\ SenderHolds' = SenderHolds
    BY <1>3, <1>6 DEF CaptureHolds, SenderHolds
  <1>8. Chronicled'
    BY <1>2, <1>3, <1>7 DEF CircleInv, Chronicled
  <1>9. Standing'
    BY <1>3, <1>6 DEF CircleInv, Standing
  <1>10. Conserved'
    BY <1>3, <1>7 DEF CircleInv, Conserved
  <1>11. Foreseen'
    BY <1>2, <1>3, <1>5, <1>6, Lags DEF CircleInv, Conserved, Foreseen
  <1> QED
    BY <1>2, <1>3, <1>8, <1>9, <1>10, <1>11 DEF CircleInv

LEMMA CapturePopsOne ==
  ASSUME CircleInv, CapturePopped
  PROVE  /\ CircleInv'
         /\ UnlearntFree < freeCount /\ freeCount' = freeCount - 1
         /\ UnseenFree' = UnseenFree + 1
         /\ UNCHANGED <<readyCount, UnseenReady, UnlearntFree, UnlearntReady>>
  <1>1. /\ captureStep = "popping" /\ captureStep' = "push"
        /\ freeCount' = freeCount - 1
        /\ senderNews' = HeadStored(senderNews)
        /\ UNCHANGED <<readyCount, captureNews, senderStep>>
    BY DEF CapturePopped
  <1>2. CaptureHolds = 0 /\ CaptureHolds' = 1 /\ SenderHolds' = SenderHolds
    BY <1>1 DEF CaptureHolds, SenderHolds
  <1>3. /\ Chronicle(HeadStored(senderNews), 0 + 1)
        /\ Latest(HeadStored(senderNews)).head = Latest(senderNews).head + 1
        /\ Latest(HeadStored(senderNews)).tail = Latest(senderNews).tail
    BY <1>2, HeadStoredStores DEF CircleInv, Chronicled
  <1>4. /\ UnseenFree' = UnseenFree + 1
        /\ UNCHANGED <<UnseenReady, UnlearntFree, UnlearntReady>>
    BY <1>1, <1>3 DEF UnseenReady, UnlearntFree, UnseenFree, UnlearntReady
  <1>5. UnlearntFree < freeCount
    BY <1>1 DEF CircleInv, Foreseen
  <1>6. Chronicled'
    BY <1>1, <1>2, <1>3 DEF CircleInv, Chronicled
  <1>7. Standing'
    BY <1>1 DEF CircleInv, Standing
  <1>8. Conserved'
    BY <1>1, <1>2, <1>5, Lags, Held, CycleAssumption DEF CircleInv, Conserved
  <1>9. Foreseen'
    BY <1>1, <1>4, <1>5, Lags, CycleAssumption DEF CircleInv, Conserved, Foreseen
  <1> QED
    BY <1>1, <1>4, <1>5, <1>6, <1>7, <1>8, <1>9 DEF CircleInv

LEMMA CapturePushesOne ==
  ASSUME CircleInv, CapturePushed
  PROVE  /\ CircleInv'
         /\ readyCount + UnseenReady < FramePoolSlots /\ readyCount' = readyCount + 1
         /\ UnlearntReady' = UnlearntReady + 1
         /\ UNCHANGED <<freeCount, UnseenReady, UnlearntFree, UnseenFree>>
  <1>1. /\ captureStep = "pushing" /\ captureStep' = "pop"
        /\ readyCount' = readyCount + 1
        /\ senderNews' = TailStored(senderNews)
        /\ UNCHANGED <<freeCount, captureNews, senderStep>>
    BY DEF CapturePushed
  <1>2. CaptureHolds = 0 + 1 /\ CaptureHolds' = 0 /\ SenderHolds' = SenderHolds
    BY <1>1 DEF CaptureHolds, SenderHolds
  <1>3. /\ Chronicle(TailStored(senderNews), 0)
        /\ Latest(TailStored(senderNews)).head = Latest(senderNews).head
        /\ Latest(TailStored(senderNews)).tail = Latest(senderNews).tail + 1
    BY <1>2, TailStoredStores DEF CircleInv, Chronicled
  <1>4. /\ UnlearntReady' = UnlearntReady + 1
        /\ UNCHANGED <<UnseenReady, UnlearntFree, UnseenFree>>
    BY <1>1, <1>3 DEF UnseenReady, UnlearntFree, UnseenFree, UnlearntReady
  <1>5. readyCount + UnseenReady < FramePoolSlots
    BY <1>1 DEF CircleInv, Foreseen
  <1>6. Chronicled'
    BY <1>1, <1>2, <1>3 DEF CircleInv, Chronicled
  <1>7. Standing'
    BY <1>1 DEF CircleInv, Standing
  <1>8. Conserved'
    BY <1>1, <1>2, Lags, Held, CycleAssumption DEF CircleInv, Conserved
  <1>9. Foreseen'
    BY <1>1, <1>4, Lags, CycleAssumption DEF CircleInv, Conserved, Foreseen
  <1> QED
    BY <1>1, <1>4, <1>5, <1>6, <1>7, <1>8, <1>9 DEF CircleInv

-----------------------------------------------------------------------------
(* And those of the sender                                                  *)

LEMMA SenderPops ==
  ASSUME CircleInv, NEW step, NEW found, NEW none, SenderPop(step, found, none),
         \/ step = "pop" /\ found = "popping" /\ none = "pop"
         \/ step = "drain" /\ found = "draining" /\ none = "return"
  PROVE  /\ CircleInv'
         /\ UnseenFree' \in 0 .. UnseenFree /\ UnlearntReady' \in 0 .. UnlearntReady
         /\ UnseenReady' = UnseenReady /\ UnlearntFree' = UnlearntFree
         /\ UNCHANGED <<freeCount, readyCount>>
  <1>1. PICK i \in TailLoads(senderNews) : senderNews' = Acquired(senderNews, i)
    BY DEF SenderPop
  <1>2. /\ Chronicle(senderNews', CaptureHolds')
        /\ UnseenFree' \in 0 .. UnseenFree /\ UnlearntReady' \in 0 .. UnlearntReady
        /\ UnseenReady' = UnseenReady /\ UnlearntFree' = UnlearntFree
    BY <1>1, SenderLearns DEF SenderPop
  <1>3. /\ senderStep = step
        /\ senderStep' = IF readyCount > UnlearntReady' THEN found ELSE none
        /\ UNCHANGED <<freeCount, readyCount, captureStep, captureNews>>
    BY DEF SenderPop, UnlearntReady, captureVars
  <1>4. CaptureHolds' = CaptureHolds /\ SenderHolds' = SenderHolds
    BY <1>3 DEF CaptureHolds, SenderHolds
  <1>5. Chronicled'
    BY <1>2, <1>3, <1>4 DEF CircleInv, Chronicled
  <1>6. Standing'
    BY <1>3 DEF CircleInv, Standing
  <1>7. Conserved'
    BY <1>3, <1>4 DEF CircleInv, Conserved
  <1>8. Foreseen'
    BY <1>2, <1>3, Lags DEF CircleInv, Conserved, Foreseen
  <1> QED
    BY <1>2, <1>3, <1>5, <1>6, <1>7, <1>8 DEF CircleInv

LEMMA SenderPushes ==
  ASSUME CircleInv, NEW step, NEW next, SenderPush(step, next),
         \/ step = "retire" /\ next = "retiring"
         \/ step = "return" /\ next = "returning"
  PROVE  /\ CircleInv'
         /\ UnseenFree' \in 0 .. UnseenFree /\ UnlearntReady' \in 0 .. UnlearntReady
         /\ UnseenReady' = UnseenReady /\ UnlearntFree' = UnlearntFree
         /\ UNCHANGED <<freeCount, readyCount>>
  <1>1. PICK i \in HeadLoads(senderNews) : senderNews' = Acquired(senderNews, i)
    BY DEF SenderPush
  <1>2. /\ Chronicle(senderNews', CaptureHolds')
        /\ UnseenFree' \in 0 .. UnseenFree /\ UnlearntReady' \in 0 .. UnlearntReady
        /\ UnseenReady' = UnseenReady /\ UnlearntFree' = UnlearntFree
    BY <1>1, SenderLearns DEF SenderPush
  <1>3. /\ senderStep = step
        /\ senderStep' = IF freeCount + UnseenFree' >= FramePoolSlots
                         THEN "panicked" ELSE next
        /\ UNCHANGED <<freeCount, readyCount, captureStep, captureNews>>
    BY DEF SenderPush, UnseenFree, captureVars
  <1>4. SenderHolds \in {1, 2}
    BY <1>3 DEF SenderHolds
  <1>5. freeCount + UnseenFree' < FramePoolSlots /\ freeCount + UnseenFree' \in Nat
    <2>1. /\ freeCount \in Nat /\ UnseenFree \in Nat /\ FramePoolSlots \in Nat
          /\ freeCount + UnseenFree <= FramePoolSlots - SenderHolds
      BY Lags, CycleAssumption DEF CircleInv, Conserved
    <2>2. \A u \in 0 .. UnseenFree :
            freeCount + u < FramePoolSlots /\ freeCount + u \in Nat
      BY <1>4, <2>1
    <2> QED
      BY <1>2, <2>2
  <1>6. senderStep' = next
    BY <1>3, <1>5, CycleAssumption
  <1>7. CaptureHolds' = CaptureHolds /\ SenderHolds' = SenderHolds
    BY <1>3, <1>6 DEF CaptureHolds, SenderHolds
  <1>8. Chronicled'
    BY <1>2, <1>3, <1>7 DEF CircleInv, Chronicled
  <1>9. Standing'
    BY <1>3, <1>6 DEF CircleInv, Standing
  <1>10. Conserved'
    BY <1>3, <1>7 DEF CircleInv, Conserved
  <1>11. Foreseen'
    BY <1>2, <1>3, <1>5, <1>6, Lags DEF CircleInv, Conserved, Foreseen
  <1> QED
    BY <1>2, <1>3, <1>8, <1>9, <1>10, <1>11 DEF CircleInv

LEMMA SenderPopsOne ==
  ASSUME CircleInv, NEW step, NEW next, SenderPopped(step, next),
         \/ step = "popping" /\ next = "drain"
         \/ step = "draining" /\ next = "retire"
  PROVE  /\ CircleInv'
         /\ UnlearntReady < readyCount /\ readyCount' = readyCount - 1
         /\ UnseenReady' = UnseenReady + 1
         /\ UNCHANGED <<freeCount, UnseenFree, UnlearntFree, UnlearntReady>>
  <1>1. /\ senderStep = step /\ senderStep' = next
        /\ readyCount' = readyCount - 1
        /\ captureNews' = HeadStored(captureNews)
        /\ UNCHANGED <<freeCount, captureStep, senderNews>>
    BY DEF SenderPopped
  <1>2. SenderHolds' = SenderHolds + 1 /\ CaptureHolds' = CaptureHolds
    BY <1>1 DEF CaptureHolds, SenderHolds
  <1>3. /\ Chronicle(HeadStored(captureNews), SenderHolds + 1)
        /\ Latest(HeadStored(captureNews)).head = Latest(captureNews).head + 1
        /\ Latest(HeadStored(captureNews)).tail = Latest(captureNews).tail
    BY Held, HeadStoredStores DEF CircleInv, Chronicled
  <1>4. /\ UnseenReady' = UnseenReady + 1
        /\ UNCHANGED <<UnseenFree, UnlearntFree, UnlearntReady>>
    BY <1>1, <1>3 DEF UnseenReady, UnlearntFree, UnseenFree, UnlearntReady
  <1>5. UnlearntReady < readyCount
    BY <1>1 DEF CircleInv, Foreseen
  <1>6. Chronicled'
    BY <1>1, <1>2, <1>3 DEF CircleInv, Chronicled
  <1>7. Standing'
    BY <1>1 DEF CircleInv, Standing
  <1>8. Conserved'
    BY <1>1, <1>2, <1>5, Lags, Held, CycleAssumption DEF CircleInv, Conserved
  <1>9. Foreseen'
    BY <1>1, <1>4, <1>5, Lags, CycleAssumption DEF CircleInv, Conserved, Foreseen
  <1> QED
    BY <1>1, <1>4, <1>5, <1>6, <1>7, <1>8, <1>9 DEF CircleInv

LEMMA SenderPushesOne ==
  ASSUME CircleInv, NEW step, NEW next, SenderPushed(step, next),
         \/ step = "retiring" /\ next = "drain"
         \/ step = "returning" /\ next = "pop"
  PROVE  /\ CircleInv'
         /\ freeCount + UnseenFree < FramePoolSlots /\ freeCount' = freeCount + 1
         /\ UnlearntFree' = UnlearntFree + 1
         /\ UNCHANGED <<readyCount, UnseenFree, UnseenReady, UnlearntReady>>
  <1>1. /\ senderStep = step /\ senderStep' = next
        /\ freeCount' = freeCount + 1
        /\ captureNews' = TailStored(captureNews)
        /\ UNCHANGED <<readyCount, captureStep, senderNews>>
    BY DEF SenderPushed
  <1>2. /\ SenderHolds = SenderHolds' + 1 /\ SenderHolds' \in Nat
        /\ SenderHolds' = SenderHolds - 1
        /\ CaptureHolds' = CaptureHolds
    BY <1>1 DEF CaptureHolds, SenderHolds
  <1>3. /\ Chronicle(TailStored(captureNews), SenderHolds')
        /\ Latest(TailStored(captureNews)).head = Latest(captureNews).head
        /\ Latest(TailStored(captureNews)).tail = Latest(captureNews).tail + 1
    BY <1>2, TailStoredStores DEF CircleInv, Chronicled
  <1>4. /\ UnlearntFree' = UnlearntFree + 1
        /\ UNCHANGED <<UnseenReady, UnseenFree, UnlearntReady>>
    BY <1>1, <1>3 DEF UnseenReady, UnlearntFree, UnseenFree, UnlearntReady
  <1>5. freeCount + UnseenFree < FramePoolSlots
    BY <1>1 DEF CircleInv, Foreseen
  <1>6. Chronicled'
    BY <1>1, <1>2, <1>3 DEF CircleInv, Chronicled
  <1>7. Standing'
    BY <1>1 DEF CircleInv, Standing
  <1>8. Conserved'
    <2>1. SenderHolds \in Nat /\ SenderHolds' = SenderHolds - 1 /\ CaptureHolds \in Nat
      BY <1>2, Held
    <2> QED
      BY <1>1, <1>2, <2>1 DEF CircleInv, Conserved
  <1>9. Foreseen'
    BY <1>1, <1>4, Lags, CycleAssumption DEF CircleInv, Conserved, Foreseen
  <1> QED
    BY <1>1, <1>4, <1>5, <1>6, <1>7, <1>8, <1>9 DEF CircleInv

LEMMA CircleInvStutters ==
  CircleInv /\ UNCHANGED cycleVars => CircleInv'
  BY DEF cycleVars, captureVars, senderVars, CircleInv, Chronicled, Standing, Conserved,
         Foreseen, CaptureHolds, SenderHolds, UnseenReady, UnlearntFree, UnseenFree,
         UnlearntReady

LEMMA CircleInvNext ==
  CircleInv /\ [CycleNext]_cycleVars => CircleInv'
  <1> SUFFICES ASSUME CircleInv, [CycleNext]_cycleVars PROVE CircleInv'
    OBVIOUS
  <1>1. CASE CapturePop \/ CapturePush
    BY <1>1, CapturePops, CapturePushes
  <1>2. CASE CapturePopped \/ CapturePushed
    BY <1>2, CapturePopsOne, CapturePushesOne
  <1>3. CASE SenderTake \/ SenderDrain
    BY <1>3, SenderPops, SenderPopsOne DEF SenderTake, SenderDrain
  <1>4. CASE SenderRetire \/ SenderReturn
    BY <1>4, SenderPushes, SenderPushesOne DEF SenderRetire, SenderReturn
  <1>5. CASE UNCHANGED cycleVars
    BY <1>5, CircleInvStutters
  <1> QED
    BY <1>1, <1>2, <1>3, <1>4, <1>5 DEF CycleNext

LEMMA CircleInvAlways == CycleSpec => []CircleInv
  BY CircleInvInit, CircleInvNext, PTL DEF CycleSpec

\* CycleTypeOK of SlotCycle, for a pool of any size: a ring never holds more than
\* the pool has IDs, whatever stores the cursors are read behind.
THEOREM CycleTypeCorrect == CycleSpec => []CycleTypeOK
  <1>1. CircleInv => CycleTypeOK
    <2> SUFFICES ASSUME CircleInv PROVE CycleTypeOK
      OBVIOUS
    <2>1. freeCount \in 0 .. FramePoolSlots /\ readyCount \in 0 .. FramePoolSlots
      BY Held, CycleAssumption DEF CircleInv, Conserved
    <2>2. {captureNews, senderNews} \subseteq Seq([head : Nat, tail : Nat])
      BY DEF CircleInv, Chronicled, Chronicle, Stores
    <2> QED
      BY <2>1, <2>2
        DEF CircleInv, CycleTypeOK, Standing, Foreseen, UnlearntFree, UnlearntReady
  <1> QED
    BY <1>1, CircleInvAlways, PTL

\* NeverRefused of SlotCycle (pipeline.rs:139, 212 and 268): no push of the
\* pipeline finds its ring full, however old the cursor it loads.
THEOREM PushesNeverRefused == CycleSpec => []NeverRefused
  <1>1. CircleInv => NeverRefused
    BY DEF CircleInv, Standing, NeverRefused
  <1> QED
    BY <1>1, CircleInvAlways, PTL

\* LearnsTheWay of SlotCycle (spsc.rs:72 and 93): a thread misses no more of the
\* other one's pops than that one's holdings and the pushes it misses as well.
THEOREM TheWayIsLearnt == CycleSpec => []LearnsTheWay
  <1>1. CircleInv => LearnsTheWay
    BY Lags DEF LearnsTheWay, UnseenReady, UnlearntFree, UnseenFree, UnlearntReady
  <1> QED
    BY <1>1, CircleInvAlways, PTL

-----------------------------------------------------------------------------
(* Each ring is the queue of SpscQueue                                      *)

LEMMA QueuedIs ==
  ASSUME NEW n \in Nat
  PROVE  /\ Queued(n) \in Seq({0}) /\ Len(Queued(n)) = n
         /\ \A i \in 1 .. n : Queued(n)[i] = 0
  <1>1. Queued(n) \in [1 .. n -> {0}]
    BY DEF Queued
  <1>2. Queued(n) \in Seq({0})
    <2> DEFINE q == Queued(n)
    <2> HIDE DEF q
    <2>1. q \in [1 .. n -> {0}]
      BY <1>1 DEF q
    <2>2. q \in Seq({0})
      BY <2>1, SeqDef
    <2> QED
      BY <2>2 DEF q
  <1>3. DOMAIN Queued(n) = 1 .. n
    BY DEF Queued
  <1>4. DOMAIN Queued(n) = 1 .. Len(Queued(n)) /\ Len(Queued(n)) \in Nat
    BY <1>2, LenProperties
  <1>5. Len(Queued(n)) = n
    BY <1>3, <1>4
  <1> QED
    BY <1>2, <1>5 DEF Queued

LEMMA QueuedGrows ==
  ASSUME NEW n \in Nat
  PROVE  Append(Queued(n), 0) = Queued(n + 1)
  <1>1. /\ Append(Queued(n), 0) \in Seq({0})
        /\ Len(Append(Queued(n), 0)) = n + 1
    BY QueuedIs, AppendProperties
  <1>2. \A i \in 1 .. n + 1 : Append(Queued(n), 0)[i] = 0
    <2>1. \A i \in 1 .. n + 1 : Append(Queued(n), 0)[i] \in {0}
      BY <1>1, ElementOfSeq
    <2> QED
      BY <2>1
  <1>3. n + 1 \in Nat
    OBVIOUS
  <1>4. /\ Queued(n + 1) \in Seq({0}) /\ Len(Queued(n + 1)) = n + 1
        /\ \A i \in 1 .. n + 1 : Queued(n + 1)[i] = 0
    BY <1>3, QueuedIs
  <1> QED
    BY <1>1, <1>2, <1>4, SeqEqual

LEMMA QueuedShrinks ==
  ASSUME NEW n \in Nat, n > 0
  PROVE  Queued(n) # <<>> /\ Tail(Queued(n)) = Queued(n - 1)
  <1>1. Queued(n) \in Seq({0}) /\ Len(Queued(n)) = n
    BY QueuedIs
  <1>2. Queued(n) # <<>>
    BY <1>1, EmptySeq
  <1>3. Tail(Queued(n)) \in Seq({0}) /\ Len(Tail(Queued(n))) = n - 1
    BY <1>1, <1>2, HeadTailProperties
  <1>4. \A i \in 1 .. n - 1 : Tail(Queued(n))[i] \in {0}
    BY <1>3, ElementOfSeq
  <1>5. /\ Queued(n - 1) \in Seq({0}) /\ Len(Queued(n - 1)) = n - 1
        /\ \A i \in 1 .. n - 1 : Queued(n - 1)[i] = 0
    <2>1. n - 1 \in Nat
      OBVIOUS
    <2> QED
      BY <2>1, QueuedIs
  <1>6. \A i \in 1 .. n - 1 : Tail(Queued(n))[i] = Queued(n - 1)[i]
    BY <1>4, <1>5
  <1> QED
    BY <1>2, <1>3, <1>5, <1>6, SeqEqual

\* What the steps of a ring have to do for the queue it is.
LEMMA ProducerLearnsReady ==
  ASSUME CircleInv, UnseenReady' \in 0 .. UnseenReady,
         UNCHANGED <<readyCount, UnlearntReady>>
  PROVE  ReadySlots!Next
  <1>1. /\ readyCount \in Nat /\ UnseenReady \in Nat /\ FramePoolSlots \in Nat
        /\ readyCount + UnseenReady <= FramePoolSlots - CaptureHolds
    BY Lags, CycleAssumption DEF CircleInv, Conserved
  <1>2. \A u \in 0 .. UnseenReady :
          u \in 0 .. FramePoolSlots /\ u = IF u < UnseenReady THEN u ELSE UnseenReady
    BY <1>1, Held
  <1>3. /\ UnseenReady' \in 0 .. FramePoolSlots
        /\ UnseenReady' = IF UnseenReady' < UnseenReady THEN UnseenReady' ELSE UnseenReady
    BY <1>2
  <1>4. ReadySlots!ProducerLearns(UnseenReady')
    BY <1>3 DEF ReadySlots!ProducerLearns, UnseenReady, UnlearntReady
  <1> QED
    BY <1>3, <1>4 DEF ReadySlots!Next

LEMMA ProducerLearnsFree ==
  ASSUME CircleInv, UnseenFree' \in 0 .. UnseenFree,
         UNCHANGED <<freeCount, UnlearntFree>>
  PROVE  FreeSlots!Next
  <1>1. /\ freeCount \in Nat /\ UnseenFree \in Nat /\ FramePoolSlots \in Nat
        /\ freeCount + UnseenFree <= FramePoolSlots - SenderHolds
    BY Lags, CycleAssumption DEF CircleInv, Conserved
  <1>2. \A u \in 0 .. UnseenFree :
          u \in 0 .. FramePoolSlots /\ u = IF u < UnseenFree THEN u ELSE UnseenFree
    BY <1>1, Held
  <1>3. /\ UnseenFree' \in 0 .. FramePoolSlots
        /\ UnseenFree' = IF UnseenFree' < UnseenFree THEN UnseenFree' ELSE UnseenFree
    BY <1>2
  <1>4. FreeSlots!ProducerLearns(UnseenFree')
    BY <1>3 DEF FreeSlots!ProducerLearns, UnseenFree, UnlearntFree
  <1> QED
    BY <1>3, <1>4 DEF FreeSlots!Next

LEMMA ConsumerLearnsReady ==
  ASSUME CircleInv, UnlearntReady' \in 0 .. UnlearntReady,
         UNCHANGED <<readyCount, UnseenReady>>
  PROVE  ReadySlots!Next
  <1>1. readyCount \in Nat /\ UnlearntReady \in Nat /\ UnlearntReady <= readyCount
    BY Lags DEF CircleInv, Conserved, Foreseen
  <1>2. \A u \in 0 .. UnlearntReady :
          readyCount - u \in readyCount - UnlearntReady .. readyCount
    BY <1>1
  <1>3. readyCount - UnlearntReady'
          \in readyCount - UnlearntReady .. Len(Queued(readyCount))
    BY <1>1, <1>2, QueuedIs
  <1>4. ReadySlots!ConsumerLearns
    BY <1>3 DEF ReadySlots!ConsumerLearns, UnseenReady, UnlearntReady
  <1> QED
    BY <1>4 DEF ReadySlots!Next

LEMMA ConsumerLearnsFree ==
  ASSUME CircleInv, UnlearntFree' \in 0 .. UnlearntFree,
         UNCHANGED <<freeCount, UnseenFree>>
  PROVE  FreeSlots!Next
  <1>1. freeCount \in Nat /\ UnlearntFree \in Nat /\ UnlearntFree <= freeCount
    BY Lags DEF CircleInv, Conserved, Foreseen
  <1>2. \A u \in 0 .. UnlearntFree :
          freeCount - u \in freeCount - UnlearntFree .. freeCount
    BY <1>1
  <1>3. freeCount - UnlearntFree'
          \in freeCount - UnlearntFree .. Len(Queued(freeCount))
    BY <1>1, <1>2, QueuedIs
  <1>4. FreeSlots!ConsumerLearns
    BY <1>3 DEF FreeSlots!ConsumerLearns, UnseenFree, UnlearntFree
  <1> QED
    BY <1>4 DEF FreeSlots!Next

LEMMA PopReady ==
  ASSUME CircleInv, UnlearntReady < readyCount, readyCount' = readyCount - 1,
         UnseenReady' = UnseenReady + 1, UNCHANGED UnlearntReady
  PROVE  ReadySlots!Next
  <1>1. readyCount \in Nat /\ UnlearntReady \in Nat /\ readyCount > 0
    BY Lags DEF CircleInv, Conserved
  <1>2. /\ Len(Queued(readyCount)) = readyCount /\ Queued(readyCount) # <<>>
        /\ Tail(Queued(readyCount)) = Queued(readyCount - 1)
    BY <1>1, QueuedIs, QueuedShrinks
  <1>3. /\ (readyCount - 1) - UnlearntReady \in 0 .. readyCount - 1
        /\ (readyCount - 1) - UnlearntReady >= (readyCount - UnlearntReady) - 1
    BY <1>1
  <1>4. ReadySlots!Pop
    BY <1>2, <1>3 DEF ReadySlots!Pop, UnseenReady, UnlearntReady
  <1> QED
    BY <1>4 DEF ReadySlots!Next

LEMMA PopFree ==
  ASSUME CircleInv, UnlearntFree < freeCount, freeCount' = freeCount - 1,
         UnseenFree' = UnseenFree + 1, UNCHANGED UnlearntFree
  PROVE  FreeSlots!Next
  <1>1. freeCount \in Nat /\ UnlearntFree \in Nat /\ freeCount > 0
    BY Lags DEF CircleInv, Conserved
  <1>2. /\ Len(Queued(freeCount)) = freeCount /\ Queued(freeCount) # <<>>
        /\ Tail(Queued(freeCount)) = Queued(freeCount - 1)
    BY <1>1, QueuedIs, QueuedShrinks
  <1>3. /\ (freeCount - 1) - UnlearntFree \in 0 .. freeCount - 1
        /\ (freeCount - 1) - UnlearntFree >= (freeCount - UnlearntFree) - 1
    BY <1>1
  <1>4. FreeSlots!Pop
    BY <1>2, <1>3 DEF FreeSlots!Pop, UnseenFree, UnlearntFree
  <1> QED
    BY <1>4 DEF FreeSlots!Next

LEMMA PushReady ==
  ASSUME CircleInv, readyCount + UnseenReady < FramePoolSlots,
         readyCount' = readyCount + 1, UnlearntReady' = UnlearntReady + 1,
         UNCHANGED UnseenReady
  PROVE  ReadySlots!Next
  <1>1. readyCount \in Nat /\ UnseenReady \in Nat /\ UnlearntReady \in Nat
    BY Lags DEF CircleInv, Conserved
  <1>2. /\ Len(Queued(readyCount)) = readyCount
        /\ Append(Queued(readyCount), 0) = Queued(readyCount + 1)
    BY <1>1, QueuedIs, QueuedGrows
  <1>3. /\ (readyCount + 1) - (UnlearntReady + 1) = readyCount - UnlearntReady
        /\ UnseenReady \in 0 .. UnseenReady
    BY <1>1
  <1>4. ReadySlots!Push(0)
    BY <1>2, <1>3 DEF ReadySlots!Push, UnseenReady, UnlearntReady
  <1> QED
    BY <1>4 DEF ReadySlots!Next

LEMMA PushFree ==
  ASSUME CircleInv, freeCount + UnseenFree < FramePoolSlots,
         freeCount' = freeCount + 1, UnlearntFree' = UnlearntFree + 1,
         UNCHANGED UnseenFree
  PROVE  FreeSlots!Next
  <1>1. freeCount \in Nat /\ UnseenFree \in Nat /\ UnlearntFree \in Nat
    BY Lags DEF CircleInv, Conserved
  <1>2. /\ Len(Queued(freeCount)) = freeCount
        /\ Append(Queued(freeCount), 0) = Queued(freeCount + 1)
    BY <1>1, QueuedIs, QueuedGrows
  <1>3. /\ (freeCount + 1) - (UnlearntFree + 1) = freeCount - UnlearntFree
        /\ UnseenFree \in 0 .. UnseenFree
    BY <1>1
  <1>4. FreeSlots!Push(0)
    BY <1>2, <1>3 DEF FreeSlots!Push, UnseenFree, UnlearntFree
  <1> QED
    BY <1>4 DEF FreeSlots!Next

LEMMA ReadyStands ==
  UNCHANGED <<readyCount, UnlearntReady, UnseenReady>> => UNCHANGED ReadySlots!queueVars
  BY DEF ReadySlots!queueVars, UnlearntReady, UnseenReady

LEMMA CycleStepsAreQueueSteps ==
  CircleInv /\ [CycleNext]_cycleVars =>
    /\ [ReadySlots!Next]_(ReadySlots!queueVars)
    /\ [FreeSlots!Next]_<<freeCount, Latest(captureNews).tail, Latest(senderNews).head>>
  <1> DEFINE freeView == <<freeCount, Latest(captureNews).tail, Latest(senderNews).head>>
             Ready == [ReadySlots!Next]_(ReadySlots!queueVars)
             Free == [FreeSlots!Next]_freeView
  <1> SUFFICES ASSUME CircleInv, [CycleNext]_cycleVars PROVE Ready /\ Free
    OBVIOUS
  <1>0. UNCHANGED <<freeCount, UnlearntFree, UnseenFree>> => UNCHANGED freeView
    BY DEF UnlearntFree, UnseenFree
  <1> HIDE DEF freeView
  <1>1. CASE CapturePop \/ CapturePush
    <2>1. /\ UnseenReady' \in 0 .. UnseenReady /\ UnlearntFree' \in 0 .. UnlearntFree
          /\ UNCHANGED <<UnseenFree, UnlearntReady, freeCount, readyCount>>
      BY <1>1, CapturePops, CapturePushes
    <2> QED
      BY <2>1, ProducerLearnsReady, ConsumerLearnsFree
  <1>2. CASE CapturePopped
    BY <1>2, CapturePopsOne, PopFree, ReadyStands
  <1>3. CASE CapturePushed
    BY <1>3, CapturePushesOne, PushReady, <1>0
  <1>4. ASSUME NEW step, NEW next, SenderPopped(step, next),
               \/ step = "popping" /\ next = "drain"
               \/ step = "draining" /\ next = "retire"
        PROVE  Ready /\ Free
    BY <1>4, SenderPopsOne, PopReady, <1>0
  <1>5. ASSUME NEW step, NEW next, SenderPushed(step, next),
               \/ step = "retiring" /\ next = "drain"
               \/ step = "returning" /\ next = "pop"
        PROVE  Ready /\ Free
    BY <1>5, SenderPushesOne, PushFree, ReadyStands
  <1>6. ASSUME UnseenFree' \in 0 .. UnseenFree, UnlearntReady' \in 0 .. UnlearntReady,
               UNCHANGED <<UnseenReady, UnlearntFree, freeCount, readyCount>>
        PROVE  Ready /\ Free
    BY <1>6, ProducerLearnsFree, ConsumerLearnsReady
  <1>7. CASE SenderTake
    BY <1>7, <1>4, <1>6, SenderPops DEF SenderTake
  <1>8. CASE SenderDrain
    BY <1>8, <1>4, <1>6, SenderPops DEF SenderDrain
  <1>9. CASE SenderRetire
    BY <1>9, <1>5, <1>6, SenderPushes DEF SenderRetire
  <1>10. CASE SenderReturn
    BY <1>10, <1>5, <1>6, SenderPushes DEF SenderReturn
  <1>11. CASE UNCHANGED cycleVars
    BY <1>11, <1>0, ReadyStands
      DEF cycleVars, captureVars, senderVars, UnseenReady, UnlearntFree, UnseenFree,
          UnlearntReady
  <1> QED
    BY <1>1, <1>2, <1>3, <1>7, <1>8, <1>9, <1>10, <1>11 DEF CycleNext

\* RingsAreQueues of SlotCycle (spsc.rs:61 and 88): with the two rings running in
\* a circle, each of them still implements the queue its callers rely on.
THEOREM CycleIsQueues == CycleSpec => RingsAreQueues
  <1>1. CycleInit => ReadySlots!Init
    <2> SUFFICES ASSUME CycleInit PROVE ReadySlots!Init
      OBVIOUS
    <2>1. Latest(<<>>) = Known
      <3>1. Len(<<>>) = 0
        BY EmptySeq
      <3> QED
        BY <3>1 DEF Latest, Store
    <2>2. Queued(0) = <<>>
      BY QueuedIs, EmptySeq
    <2> QED
      BY <2>1, <2>2 DEF CycleInit, ReadySlots!Init, Known
  <1>2. CircleInv /\ [CycleNext]_cycleVars => [ReadySlots!Next]_(ReadySlots!queueVars)
    BY CycleStepsAreQueueSteps
  <1>3. CircleInv /\ [CycleNext]_cycleVars =>
          [FreeSlots!Next]_<<freeCount, Latest(captureNews).tail, Latest(senderNews).head>>
    BY CycleStepsAreQueueSteps
  <1> QED
    BY <1>1, <1>2, <1>3, CircleInvAlways, PTL DEF CycleSpec, RingsAreQueues, ReadySlots!Spec
=============================================================================
