--------------------------- MODULE DivisionLemmas ---------------------------
(***************************************************************************)
(* Quotient and remainder by a positive divisor, for the proofs about the  *)
(* cursors of a ring, the bytes of a word, the chunks of a payload and the *)
(* frames of a file.                                                       *)
(***************************************************************************)
EXTENDS Integers, TLAPS

LEMMA Division ==
  ASSUME NEW n \in Int, NEW b \in Nat, b > 0
  PROVE  /\ n \div b \in Int /\ (n \in Nat => n \div b \in Nat)
         /\ n % b \in 0 .. b - 1
         /\ n = (n \div b) * b + (n % b)
  BY SMT

LEMMA QuotientNotLess ==
  ASSUME NEW b \in Nat, NEW q \in Int, NEW r \in Nat, NEW q2 \in Int, NEW r2 \in Nat,
         r < b, q * b + r = q2 * b + r2
  PROVE  ~(q < q2)
  <1> SUFFICES ASSUME q < q2 PROVE FALSE
    OBVIOUS
  <1>1. PICK k \in Nat : q2 = q + 1 + k
    <2>1. q2 - q - 1 \in Nat /\ q2 = q + 1 + (q2 - q - 1)
      OBVIOUS
    <2> QED
      BY <2>1
  <1>2. (q + 1 + k) * b = q * b + b + k * b
    OBVIOUS
  <1>3. k * b \in Nat /\ q * b \in Int
    OBVIOUS
  <1> QED
    BY <1>1, <1>2, <1>3

\* There is one way to write a number as a multiple and a remainder.
LEMMA DivisionUnique ==
  ASSUME NEW b \in Nat, NEW q \in Int, NEW r \in Nat, NEW q2 \in Int, NEW r2 \in Nat,
         r < b, r2 < b, q * b + r = q2 * b + r2
  PROVE  q = q2 /\ r = r2
  <1>1. ~(q < q2) /\ ~(q2 < q)
    BY QuotientNotLess
  <1>2. q = q2
    BY <1>1
  <1>3. q * b \in Int
    OBVIOUS
  <1> QED
    BY <1>2, <1>3

\* What is written so is divided so.
LEMMA RemainderIs ==
  ASSUME NEW n \in Int, NEW b \in Nat, NEW q \in Int, NEW r \in Nat,
         r < b, n = q * b + r
  PROVE  n % b = r /\ n \div b = q
  <1> DEFINE q2 == n \div b
             r2 == n % b
  <1>1. q2 \in Int /\ r2 \in Nat /\ r2 < b /\ n = q2 * b + r2
    BY Division
  <1> HIDE DEF q2, r2
  <1>2. q2 = q /\ r2 = r
    BY <1>1, DivisionUnique
  <1> QED
    BY <1>2 DEF q2, r2

\* The remainder goes round.
LEMMA NextRemainder ==
  ASSUME NEW n \in Nat, NEW b \in Nat, b > 0
  PROVE  (n + 1) % b = IF (n % b) + 1 = b THEN 0 ELSE (n % b) + 1
  <1> DEFINE q == n \div b
             r == n % b
  <1>1. q \in Int /\ r \in Nat /\ r < b /\ n = q * b + r
    BY Division
  <1> HIDE DEF q, r
  <1>2. q * b \in Int /\ n + 1 \in Int
    BY <1>1
  <1>3. CASE r + 1 = b
    <2>1. (q + 1) * b = q * b + b
      BY <1>1
    <2>2. n + 1 = (q + 1) * b + 0
      BY <1>1, <1>2, <1>3, <2>1
    <2>3. q + 1 \in Int /\ 0 \in Nat /\ 0 < b
      BY <1>1
    <2> QED
      BY <1>2, <1>3, <2>2, <2>3, RemainderIs DEF r
  <1>4. CASE r + 1 # b
    <2> DEFINE t == r + 1
    <2>1. t \in Nat /\ t < b /\ n + 1 = q * b + t
      BY <1>1, <1>2, <1>4
    <2> HIDE DEF t
    <2>2. (n + 1) % b = t
      BY <1>1, <1>2, <2>1, RemainderIs
    <2> QED
      BY <1>4, <2>2 DEF t, r
  <1> QED
    BY <1>3, <1>4

\* A multiple of b is not strictly between two neighbouring multiples.
LEMMA NoMultipleBetween ==
  ASSUME NEW b \in Nat, NEW k \in Int, NEW d \in Int, d = k * b, 0 < d, d < b
  PROVE  FALSE
  <1>1. 0 * b + d = k * b + 0
    BY 0 * b = 0
  <1>2. d \in Nat /\ 0 \in Nat /\ 0 < b
    OBVIOUS
  <1>3. d = 0
    BY <1>1, <1>2, DivisionUnique
  <1> QED
    BY <1>3

\* A number below m multiples of b has a quotient below m.
LEMMA QuotientBelow ==
  ASSUME NEW n \in Nat, NEW b \in Nat, b > 0, NEW m \in Nat, n < m * b
  PROVE  n \div b < m
<1>1. n \div b \in Nat /\ n % b \in Nat /\ n = (n \div b) * b + (n % b)
  BY Division
<1>2. ASSUME n \div b >= m PROVE FALSE
  <2>1. PICK k \in Nat : n \div b = m + k
    <3>1. n \div b - m \in Nat /\ n \div b = m + (n \div b - m)
      BY <1>1, <1>2
    <3>2. QED BY <3>1
  <2>2. (m + k) * b = m * b + k * b
    OBVIOUS
  <2>3. k * b \in Nat
    OBVIOUS
  <2>4. QED BY <1>1, <2>1, <2>2, <2>3
<1>3. QED BY <1>1, <1>2

-----------------------------------------------------------------------------
(* Numbers that are counted modulo b and stand close to each other.        *)

\* Less than a lap apart, different numbers have different remainders.
LEMMA SameRemainder ==
  ASSUME NEW b \in Nat, b > 0, NEW m \in Int, NEW n \in Int,
         m % b = n % b, m - n < b, n - m < b
  PROVE  m = n
  <1> DEFINE p == m \div b
             q == n \div b
             r == m % b
  <1>1. /\ p \in Int /\ q \in Int /\ r \in Int
        /\ m = p * b + r /\ n = q * b + r
    BY Division
  <1> HIDE DEF p, q, r
  <1>2. (p - q) * b = p * b - q * b
    BY <1>1
  <1>3. p * b \in Int /\ q * b \in Int
    BY <1>1
  <1>4. m - n = (p - q) * b /\ n - m = (q - p) * b
    <2>1. (q - p) * b = q * b - p * b
      BY <1>1
    <2> QED
      BY <1>1, <1>2, <1>3, <2>1
  <1>5. p - q \in Int /\ q - p \in Int /\ m - n \in Int /\ n - m \in Int
    BY <1>1
  <1>6. ~(0 < m - n)
    BY <1>4, <1>5, NoMultipleBetween
  <1>7. ~(0 < n - m)
    BY <1>4, <1>5, NoMultipleBetween
  <1> QED
    BY <1>6, <1>7

\* A distance taken between remainders is the distance of the numbers.
LEMMA RemainderOfDifference ==
  ASSUME NEW b \in Nat, b > 0, NEW m \in Int, NEW n \in Int
  PROVE  ((m % b) - (n % b)) % b = (m - n) % b
  <1> DEFINE p == m \div b
             q == n \div b
             k == (m - n) \div b
             r == (m - n) % b
  <1>1. /\ p \in Int /\ q \in Int /\ k \in Int /\ r \in Nat /\ r < b
        /\ m % b \in Int /\ n % b \in Int
        /\ m = p * b + (m % b) /\ n = q * b + (n % b) /\ m - n = k * b + r
    BY Division
  <1> HIDE DEF p, q, k, r
  <1>2. (k - p + q) * b = k * b - p * b + q * b
    BY <1>1
  <1>3. p * b \in Int /\ q * b \in Int /\ k * b \in Int
    BY <1>1
  <1>4. (m % b) - (n % b) = (k - p + q) * b + r
    BY <1>1, <1>2, <1>3
  <1>5. ((m % b) - (n % b)) % b = r
    <2> DEFINE d == (m % b) - (n % b)
               t == k - p + q
    <2>1. d \in Int /\ t \in Int
      BY <1>1
    <2>2. d = t * b + r
      BY <1>4
    <2> HIDE DEF d, t
    <2>3. d % b = r
      BY <1>1, <2>1, <2>2, RemainderIs
    <2> QED
      BY <2>3 DEF d
  <1> QED
    BY <1>5 DEF r

\* What is added to a remainder is added to the number.
LEMMA RemainderOfSum ==
  ASSUME NEW b \in Nat, b > 0, NEW m \in Int, NEW n \in Int
  PROVE  ((m % b) + n) % b = (m + n) % b
  <1> DEFINE p == m \div b
             k == (m + n) \div b
             r == (m + n) % b
             d == (m % b) + n
             t == k - p
  <1>1. /\ p \in Int /\ k \in Int /\ r \in Nat /\ r < b /\ m % b \in Int
        /\ m = p * b + (m % b) /\ m + n = k * b + r
    BY Division
  <1> HIDE DEF p, k, r
  <1>2. t * b = k * b - p * b
    BY <1>1
  <1>3. p * b \in Int /\ k * b \in Int /\ d \in Int /\ t \in Int
    BY <1>1
  <1>4. d = t * b + r
    BY <1>1, <1>2, <1>3
  <1> HIDE DEF d, t
  <1>5. d % b = r
    BY <1>1, <1>3, <1>4, RemainderIs
  <1> QED
    BY <1>5 DEF d, r

\* The remainders count on, also past b.
LEMMA RemainderCounts ==
  ASSUME NEW b \in Nat, b > 0, NEW m \in Int
  PROVE  ((m % b) + 1) % b = (m + 1) % b
  <1> DEFINE n == 1
  <1>1. n \in Int
    OBVIOUS
  <1> HIDE DEF n
  <1>2. ((m % b) + n) % b = (m + n) % b
    BY <1>1, RemainderOfSum
  <1> QED
    BY <1>2 DEF n

\* The test of is_newer_frame sees a number ahead by less than half a lap ...
LEMMA AheadIsNewer ==
  ASSUME NEW b \in Nat, b > 0, b % 2 = 0, NEW m \in Int, NEW n \in Int,
         n < m, m - n < b \div 2
  PROVE  m % b # n % b /\ ((m % b) - (n % b)) % b < b \div 2
  <1>1. b \div 2 \in Nat /\ b \div 2 < b /\ m - n \in Nat /\ m - n < b
    OBVIOUS
  <1>2. m % b # n % b
    BY <1>1, SameRemainder
  <1>3. m - n = 0 * b + (m - n)
    BY <1>1
  <1>4. (m - n) % b = m - n
    BY <1>1, <1>3, RemainderIs
  <1> QED
    BY <1>1, <1>2, <1>4, RemainderOfDifference

\* ... and takes none behind by at most half a lap for a newer one.
LEMMA NewerIsAhead ==
  ASSUME NEW b \in Nat, b > 0, b % 2 = 0, NEW m \in Int, NEW n \in Int,
         m % b # n % b, ((m % b) - (n % b)) % b < b \div 2, n - m <= b \div 2
  PROVE  n < m
  <1>1. b \div 2 \in Nat /\ 2 * (b \div 2) = b
    OBVIOUS
  <1>2. m # n
    OBVIOUS
  <1>3. ASSUME m < n PROVE FALSE
    <2> DEFINE r == b - (n - m)
    <2>1. r \in Nat /\ r < b /\ r >= b \div 2 /\ m - n = (0 - b) + r
      BY <1>1, <1>3
    <2>2. (-1) * b = 0 - b
      OBVIOUS
    <2> HIDE DEF r
    <2>3. m - n = (-1) * b + r
      BY <2>1, <2>2
    <2>4. (m - n) % b = r
      BY <2>1, <2>3, RemainderIs
    <2>5. ((m % b) - (n % b)) % b = (m - n) % b
      BY RemainderOfDifference
    <2> QED
      BY <1>1, <2>1, <2>4, <2>5
  <1> QED
    BY <1>2, <1>3
=============================================================================
