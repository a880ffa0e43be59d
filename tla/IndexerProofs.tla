---------------------------- MODULE IndexerProofs ----------------------------
(***************************************************************************)
(* What the indexer keeps of the chain.  The frontier of the incremental   *)
(* Merkle tree: for every height, level of attachment and sequence of      *)
(* operations, the root it yields is the root of all the leaves in order.  *)
(* And its rows and mirrors: for every chain, failure and restart, they    *)
(* are those of the part of the chain below a cursor, once each and in     *)
(* order, so that what is served and what a restart rebuilds is one tree.  *)
(***************************************************************************)
EXTENDS Imt, Indexer, SharedLemmas

-----------------------------------------------------------------------------
(***************************************************************************)
(* Binary numbers.  A set of n elements has 2^n subsets: this is what the  *)
(* prover knows of powers of two.                                          *)
(***************************************************************************)
LEMMA TwoPower ==
    ASSUME NEW n \in Nat
    PROVE  2^n \in Nat /\ 2^n > 0 /\ 2^(n + 1) = 2 * 2^n
<1> DEFINE A == SUBSET (1..n)
           f == [X \in A |-> X \cup {n + 1}]
           C == {X \cup {n + 1} : X \in A}
<1>1. /\ IsFiniteSet(1..n) /\ Cardinality(1..n) = n
      /\ IsFiniteSet(1..(n + 1)) /\ Cardinality(1..(n + 1)) = n + 1
  <2>1. IsFiniteSet(1..n) /\ Cardinality(1..n) = IF 1 > n THEN 0 ELSE n - 1 + 1
    BY FS_Interval
  <2>2. /\ IsFiniteSet(1..(n + 1))
        /\ Cardinality(1..(n + 1)) = IF 1 > n + 1 THEN 0 ELSE n + 1 - 1 + 1
    BY FS_Interval
  <2>. QED BY <2>1, <2>2
<1>2. /\ IsFiniteSet(A) /\ Cardinality(A) = 2^n
      /\ Cardinality(SUBSET (1..(n + 1))) = 2^(n + 1)
  BY <1>1, FS_SUBSET
<1>3. 2^n \in Nat /\ 2^n /= 0
  <2>1. A /= {}
    OBVIOUS
  <2>. HIDE DEF A
  <2>. QED BY <1>2, <2>1, FS_CardinalityType, FS_EmptySet
<1>4. IsFiniteSet(C) /\ Cardinality(C) = 2^n
  <2>1. f \in Injection(A, C)
    <3>1. f \in [A -> C]
      OBVIOUS
    <3>2. ASSUME NEW X \in A, NEW Y \in A, f[X] = f[Y] PROVE X = Y
      <4>1. n + 1 \notin X /\ n + 1 \notin Y
        OBVIOUS
      <4>. QED BY <3>2, <4>1
    <3>. QED BY <3>1, <3>2 DEF Injection, IsInjective
  <2>2. f \in Surjection(A, C)
    BY DEF Surjection
  <2>3. ExistsBijection(A, C)
    BY <2>1, <2>2 DEF ExistsBijection, Bijection
  <2>. HIDE DEF A, C
  <2>. QED BY <1>2, <2>3, FS_Bijection
<1>5. SUBSET (1..(n + 1)) = A \cup C
  <2>1. A \cup C \subseteq SUBSET (1..(n + 1))
    <3>1. 1..n \subseteq 1..(n + 1) /\ n + 1 \in 1..(n + 1)
      OBVIOUS
    <3>. QED BY <3>1
  <2>2. ASSUME NEW X \in SUBSET (1..(n + 1)) PROVE X \in A \cup C
    <3>1. CASE n + 1 \in X
      <4>1. X \ {n + 1} \in A
        OBVIOUS
      <4>2. X = (X \ {n + 1}) \cup {n + 1}
        BY <3>1
      <4>. QED BY <4>1, <4>2
    <3>2. CASE n + 1 \notin X
      BY <3>2
    <3>. QED BY <3>1, <3>2
  <2>. QED BY <2>1, <2>2
<1>6. A \cap C = {}
  <2>1. \A X \in C : n + 1 \in X
    OBVIOUS
  <2>2. \A X \in A : n + 1 \notin X
    OBVIOUS
  <2>. QED BY <2>1, <2>2
<1>. HIDE DEF A, C
<1>7. Cardinality(A \cup C) = Cardinality(A) + Cardinality(C) - Cardinality(A \cap C)
  BY <1>2, <1>4, FS_Union
<1>8. Cardinality(A \cap C) = 0
  BY <1>6, FS_EmptySet
<1>9. 2^(n + 1) = 2^n + 2^n
  <2>1. 2^(n + 1) = Cardinality(A \cup C)
    BY <1>2, <1>5
  <2>2. Cardinality(A \cup C) = (2^n + 2^n) - 0
    BY <1>2, <1>4, <1>7, <1>8
  <2>. QED BY <1>3, <2>1, <2>2
<1>. QED BY <1>3, <1>9

\* A number has one quotient and one remainder.
LEMMA Division ==
    ASSUME NEW n \in Nat, NEW d \in Nat, d > 0
    PROVE  /\ n \div d \in Nat /\ n % d \in 0..(d - 1) /\ n = d * (n \div d) + (n % d)
           /\ \A q \in Nat, r \in 0..(d - 1) : (n = (d * q) + r) => (n \div d = q /\ n % d = r)
OBVIOUS

\* The next bit of n, and what the bits up to it are worth.
LEMMA Digit ==
    ASSUME NEW n \in Nat, NEW i \in Nat
    PROVE  /\ Bit(n, i) \in {0, 1}
           /\ n % 2^i \in 0..(2^i - 1)
           /\ n % 2^(i + 1) = (n % 2^i) + (IF Bit(n, i) = 1 THEN 2^i ELSE 0)
<1> DEFINE d == 2^i
           q == n \div d
           r == n % d
           h == q \div 2
           b == q % 2
<1>1. d \in Nat /\ d > 0 /\ 2^(i + 1) = 2 * d
  BY TwoPower
<1>. HIDE DEF d
<1>2. q \in Nat /\ r \in 0..(d - 1) /\ n = d * q + r
  BY <1>1, Division
<1>. HIDE DEF q, r
<1>3. h \in Nat /\ b \in 0..1 /\ q = 2 * h + b
  BY <1>2
<1>. HIDE DEF h, b
<1>4. d * b = IF b = 1 THEN d ELSE 0
  BY <1>1, <1>3
<1>5. n = (2 * d) * h + (d * b + r)
  <2>1. n = d * (2 * h + b) + r
    BY <1>2, <1>3
  <2>2. d * (2 * h + b) = (2 * d) * h + d * b
    BY <1>1, <1>3
  <2>3. (2 * d) * h \in Nat /\ d * b \in Nat
    BY <1>1, <1>3
  <2>. QED BY <1>2, <2>1, <2>2, <2>3
<1>6. d * b + r \in 0..(2 * d - 1)
  BY <1>1, <1>2, <1>3, <1>4
<1>7. n % (2 * d) = d * b + r
  <2> DEFINE e == 2 * d
             s == d * b + r
  <2>1. e \in Nat /\ e > 0 /\ s \in 0..(e - 1) /\ n = (e * h) + s
    BY <1>1, <1>5, <1>6
  <2>. HIDE DEF e, s
  <2>2. n % e = s
    BY <1>3, <2>1, Division
  <2>. QED BY <2>2 DEF e, s
<1>8. Bit(n, i) = b
  BY DEF Bit, b, q, d
<1>. QED BY <1>1, <1>2, <1>3, <1>4, <1>7, <1>8 DEF r, d

\* Higher bits add to the lower ones, and leave them.
LEMMA LowBits ==
    ASSUME NEW n \in Nat, NEW l \in Nat, NEW i \in Nat, l <= i
    PROVE  /\ n % 2^l <= n % 2^i
           /\ n % 2^l = 0 => (n % 2^i) + 2^l <= 2^i
<1> DEFINE P(k) == /\ n % 2^l <= n % 2^k
                   /\ n % 2^l = 0 => (n % 2^k) + 2^l <= 2^k
           Bad == {k \in Nat : l <= k /\ ~P(k)}
<1>1. SUFFICES ASSUME Bad /= {} PROVE FALSE
  OBVIOUS
<1>2. PICK k \in Bad : \A j \in Bad : k <= j
  <2>1. Bad \subseteq Nat
    OBVIOUS
  <2>. HIDE DEF Bad
  <2>. QED BY <1>1, <2>1, LeastNatural
<1>3. k \in Nat /\ l <= k /\ ~P(k)
  OBVIOUS
<1>4. n % 2^l \in Nat /\ 2^l \in Nat
  BY TwoPower, Digit
<1>5. k /= l
  BY <1>3, <1>4
<1>6. k - 1 \in Nat /\ P(k - 1)
  <2>1. k - 1 \in Nat /\ l <= k - 1 /\ ~(k <= k - 1)
    BY <1>3, <1>5
  <2>2. k - 1 \notin Bad
    BY <1>2, <2>1
  <2>. QED BY <2>1, <2>2
<1>. HIDE DEF Bad
<1>7. k = (k - 1) + 1
  BY <1>3
<1> DEFINE m == k - 1
<1>8. /\ n % 2^(m + 1) = (n % 2^m) + (IF Bit(n, m) = 1 THEN 2^m ELSE 0)
      /\ n % 2^m \in 0..(2^m - 1) /\ 2^m \in Nat /\ 2^(m + 1) = 2 * 2^m
  BY <1>6, Digit, TwoPower
<1>9. k = m + 1 /\ P(m)
  BY <1>6, <1>7
<1>. HIDE DEF m
<1>. QED BY <1>3, <1>4, <1>8, <1>9

LEMMA LowOfLow ==
    ASSUME NEW l \in Nat, NEW i \in Nat, l <= i
    PROVE  \A n \in Nat : (n % 2^i) % 2^l = n % 2^l
<1> DEFINE P(k) == \A n \in Nat : (n % 2^k) % 2^l = n % 2^l
           Bad == {k \in Nat : l <= k /\ ~P(k)}
<1>1. SUFFICES ASSUME Bad /= {} PROVE FALSE
  OBVIOUS
<1>2. PICK k \in Bad : \A j \in Bad : k <= j
  <2>1. Bad \subseteq Nat
    OBVIOUS
  <2>. HIDE DEF Bad
  <2>. QED BY <1>1, <2>1, LeastNatural
<1>3. k \in Nat /\ l <= k /\ ~P(k)
  OBVIOUS
\* What is less than 2^j is its own remainder.
<1>4. ASSUME NEW j \in Nat, NEW m \in Nat, NEW b \in {0, 1}, NEW r \in 0..(2^j - 1),
             m = r + (IF b = 1 THEN 2^j ELSE 0)
      PROVE  m % 2^j = r
  <2>1. 2^j \in Nat /\ 2^j > 0
    BY TwoPower
  <2>2. m = 2^j * b + r
    BY <1>4, <2>1
  <2>. QED BY <2>1, <2>2, Division
<1>5. k /= l
  <2>1. ASSUME NEW n \in Nat PROVE (n % 2^l) % 2^l = n % 2^l
    <3>1. n % 2^l \in 0..(2^l - 1) /\ n % 2^l \in Nat
      <4>1. 2^l \in Nat /\ n % 2^l \in 0..(2^l - 1)
        BY Digit, TwoPower
      <4>. QED BY <4>1
    <3>2. n % 2^l = (n % 2^l) + (IF 0 = 1 THEN 2^l ELSE 0)
      BY <3>1
    <3>. QED BY <1>4, <3>1, <3>2
  <2>. QED BY <1>3, <2>1
<1>6. k - 1 \in Nat /\ P(k - 1)
  <2>1. k - 1 \in Nat /\ l <= k - 1 /\ ~(k <= k - 1)
    BY <1>3, <1>5
  <2>2. k - 1 \notin Bad
    BY <1>2, <2>1
  <2>. QED BY <2>1, <2>2
<1>. HIDE DEF Bad
<1> DEFINE j == k - 1
<1>7. k = j + 1 /\ j \in Nat /\ P(j)
  BY <1>3, <1>6
<1>. HIDE DEF j
<1>8. ASSUME NEW n \in Nat PROVE (n % 2^k) % 2^l = n % 2^l
  <2> DEFINE m == n % 2^(j + 1)
  <2>1. /\ Bit(n, j) \in {0, 1} /\ n % 2^j \in 0..(2^j - 1)
        /\ m = (n % 2^j) + (IF Bit(n, j) = 1 THEN 2^j ELSE 0)
    BY <1>7, Digit
  <2>2. m \in Nat
    BY <1>7, Digit, TwoPower
  <2>. HIDE DEF m
  <2>3. m % 2^j = n % 2^j
    BY <1>4, <1>7, <2>1, <2>2
  <2>4. (m % 2^j) % 2^l = m % 2^l /\ (n % 2^j) % 2^l = n % 2^l
    BY <1>7, <2>2
  <2>. QED BY <1>7, <2>3, <2>4 DEF m
<1>. QED BY <1>3, <1>8

\* Where the block of level i that holds the place n starts.
Start(n, i) == n - (n % 2^i)

LEMMA StartFacts ==
    ASSUME NEW n \in Nat, NEW i \in Nat
    PROVE  /\ Start(n, i) \in Nat /\ Start(n, i) <= n /\ n < Start(n, i) + 2^i
           /\ Start(n, i + 1) \in Nat
           /\ Start(n, i + 1) = Start(n, i) - (IF Bit(n, i) = 1 THEN 2^i ELSE 0)
           /\ (n \div 2^i) * 2^i = Start(n, i) /\ n \div 2^i \in Nat
           /\ Start(n, 0) = n
<1>1. /\ 2^i \in Nat /\ 2^i > 0 /\ 2^0 = 1
      /\ n % 2^i \in 0..(2^i - 1) /\ Bit(n, i) \in {0, 1}
      /\ n % 2^(i + 1) = (n % 2^i) + (IF Bit(n, i) = 1 THEN 2^i ELSE 0)
  BY TwoPower, Digit
<1>2. n \div 2^i \in Nat /\ n = 2^i * (n \div 2^i) + (n % 2^i)
  BY <1>1, Division
<1>3. n % 2^i <= n
  BY <1>1, <1>2
<1>4. Start(n, i) \in Nat /\ Start(n, i) <= n /\ n < Start(n, i) + 2^i
  BY <1>1, <1>3 DEF Start
<1>8. Start(n, i + 1) \in Nat
  <2> DEFINE k == i + 1
  <2>1. k \in Nat
    OBVIOUS
  <2>. HIDE DEF k
  <2>2. 2^k \in Nat /\ 2^k > 0 /\ n % 2^k \in 0..(2^k - 1)
    BY <2>1, TwoPower, Digit
  <2>3. n \div 2^k \in Nat /\ n = 2^k * (n \div 2^k) + (n % 2^k)
    BY <2>2, Division
  <2>4. n % 2^k <= n
    BY <2>2, <2>3
  <2>. QED BY <2>2, <2>4 DEF Start, k
<1>5. Start(n, i + 1) = Start(n, i) - (IF Bit(n, i) = 1 THEN 2^i ELSE 0)
  BY <1>1 DEF Start
<1>6. (n \div 2^i) * 2^i = Start(n, i)
  BY <1>1, <1>2 DEF Start
<1>7. Start(n, 0) = n
  <2>1. n % 1 = 0
    OBVIOUS
  <2>. QED BY <1>1, <2>1 DEF Start
<1>. QED BY <1>2, <1>4, <1>5, <1>6, <1>7, <1>8

\* Below the level it is a multiple of, a number has no bit.
LEMMA AlignedBlock ==
    ASSUME NEW n \in Nat, NEW l \in Nat, n % 2^l = 0, NEW i \in Nat, i < l
    PROVE  Bit(n, i) = 0
<1>1. (n % 2^l) % 2^(i + 1) = n % 2^(i + 1)
  BY LowOfLow
<1>2. 2^(i + 1) \in Nat /\ 2^(i + 1) > 0 /\ 2^i \in Nat /\ 2^i > 0
  BY TwoPower
<1>3. n % 2^(i + 1) = 0
  <2>1. 0 % 2^(i + 1) = 0
    BY <1>2
  <2>. QED BY <1>1, <2>1
<1>. QED BY <1>2, <1>3, Digit

\* Adding a block of level l moves the start of a block of level i, or stays in it.
LEMMA Advance ==
    ASSUME NEW n \in Nat, NEW l \in Nat, n % 2^l = 0, NEW i \in Nat, l <= i
    PROVE  \/ /\ Start(n + 2^l, i) = Start(n, i)
              /\ Bit(n + 2^l, i) = Bit(n, i)
           \/ /\ Start(n + 2^l, i) = Start(n, i) + 2^i
              /\ Bit(n + 2^l, i) = 1 => Bit(n, i) = 0
              /\ Start(n + 2^l, i) = n + 2^l
<1> DEFINE d == 2^i
           q == n \div d
           r == n % d
           m == n + 2^l
<1>1. /\ 2^l \in Nat /\ 2^l > 0 /\ d \in Nat /\ d > 0 /\ m \in Nat
      /\ r + 2^l <= d
  <2>1. (n % 2^i) + 2^l <= 2^i
    BY LowBits
  <2>2. 2^l \in Nat /\ 2^l > 0 /\ 2^i \in Nat /\ 2^i > 0
    BY TwoPower
  <2>. QED BY <2>1, <2>2
<1>. HIDE DEF d
<1>2. q \in Nat /\ r \in 0..(d - 1) /\ n = (d * q) + r
  BY <1>1, Division
<1>. HIDE DEF q, r
<1>3. m = (d * q) + (r + 2^l)
  <2>1. d * q \in Nat
    BY <1>1, <1>2
  <2>. QED BY <1>1, <1>2, <2>1
<1>. HIDE DEF m
<1>4. CASE r + 2^l < d
  <2>1. r + 2^l \in 0..(d - 1)
    BY <1>1, <1>2, <1>4
  <2>2. m \div d = q /\ m % d = r + 2^l
    BY <1>1, <1>2, <1>3, <2>1, Division
  <2>3. Bit(m, i) = Bit(n, i)
    BY <2>2 DEF Bit, d, q
  <2>4. Start(m, i) = Start(n, i)
    BY <1>1, <1>2, <2>2 DEF Start, d, r, m
  <2>. QED BY <2>3, <2>4 DEF m
<1>5. CASE r + 2^l = d
  <2>1. m = (d * (q + 1)) + 0
    <3>1. d * (q + 1) = (d * q) + d
      BY <1>1, <1>2
    <3>2. d * q \in Nat
      BY <1>1, <1>2
    <3>. QED BY <1>1, <1>2, <1>3, <1>5, <3>1, <3>2
  <2>2. q + 1 \in Nat /\ 0 \in 0..(d - 1)
    BY <1>1, <1>2
  <2>3. m \div d = q + 1 /\ m % d = 0
    BY <1>1, <2>1, <2>2, Division
  <2>4. Bit(m, i) = 1 => Bit(n, i) = 0
    <3>1. Bit(m, i) = (q + 1) % 2 /\ Bit(n, i) = q % 2
      BY <2>3 DEF Bit, d, q
    <3>. QED BY <1>2, <3>1
  <2>5. Start(m, i) = m /\ Start(n, i) + d = m
    BY <1>1, <1>2, <1>5, <2>3 DEF Start, d, r, m
  <2>. QED BY <2>4, <2>5 DEF m, d
<1>. QED BY <1>1, <1>2, <1>4, <1>5

\* A number that is cut at level l keeps what is above.
LEMMA Cut ==
    ASSUME NEW n \in Nat, NEW l \in Nat, NEW i \in Nat, l <= i
    PROVE  /\ Start(Start(n, l), i) = Start(n, i)
           /\ Bit(Start(n, l), i) = Bit(n, i)
           /\ Start(n, l) % 2^l = 0
<1>1. ASSUME NEW k \in Nat, l <= k
      PROVE  /\ Start(n, l) \div 2^k = n \div 2^k
             /\ Start(n, l) % 2^k = (n % 2^k) - (n % 2^l)
  <2> DEFINE d == 2^k
             q == n \div d
             r == n % d
             x == n % 2^l
  <2>1. d \in Nat /\ d > 0 /\ x \in Nat /\ x <= r /\ Start(n, l) = n - x
    <3>1. n % 2^l \in 0..(2^l - 1) /\ 2^l \in Nat
      BY Digit, TwoPower
    <3>2. n % 2^l <= n % 2^k
      BY <1>1, LowBits
    <3>3. 2^k \in Nat /\ 2^k > 0
      BY TwoPower
    <3>. QED BY <3>1, <3>2, <3>3 DEF Start
  <2>. HIDE DEF d, x
  <2>2. q \in Nat /\ r \in 0..(d - 1) /\ n = (d * q) + r
    BY <2>1, Division
  <2>. HIDE DEF q, r
  <2>3. r - x \in 0..(d - 1)
    BY <2>1, <2>2
  <2>4. Start(n, l) = (d * q) + (r - x)
    <3>1. d * q \in Nat
      BY <2>1, <2>2
    <3>. QED BY <2>1, <2>2, <3>1
  <2>5. Start(n, l) \in Nat
    BY StartFacts
  <2>6. Start(n, l) \div d = q /\ Start(n, l) % d = r - x
    BY <2>1, <2>2, <2>3, <2>4, <2>5, Division
  <2>. QED BY <2>6 DEF d, q, r, x
<1>2. n % 2^l \in Nat /\ n % 2^i \in Nat
  BY Digit, TwoPower
<1>3. Start(Start(n, l), i) = Start(n, i)
  BY <1>1, <1>2 DEF Start
<1>4. Bit(Start(n, l), i) = Bit(n, i)
  BY <1>1 DEF Bit
<1>5. Start(n, l) % 2^l = 0
  BY <1>1, <1>2
<1>. QED BY <1>3, <1>4, <1>5

\* What is cut off keeps what is below.
LEMMA CutOff ==
    ASSUME NEW n \in Nat, NEW l \in Nat, NEW i \in Nat, i < l
    PROVE  Bit(n % 2^l, i) = Bit(n, i)
<1>1. n % 2^l \in Nat /\ 2^i \in Nat /\ 2^i > 0
  <2>1. n % 2^l \in 0..(2^l - 1) /\ 2^l \in Nat
    BY Digit, TwoPower
  <2>. QED BY <2>1, TwoPower
<1> DEFINE m == n % 2^l
<1>2. m % 2^(i + 1) = n % 2^(i + 1) /\ m % 2^i = n % 2^i
  <2>1. i + 1 \in Nat /\ i + 1 <= l /\ i <= l
    OBVIOUS
  <2>. QED BY <2>1, LowOfLow
<1>. HIDE DEF m
<1>3. /\ Bit(m, i) \in {0, 1} /\ m % 2^i \in 0..(2^i - 1)
      /\ m % 2^(i + 1) = (m % 2^i) + (IF Bit(m, i) = 1 THEN 2^i ELSE 0)
  BY <1>1, Digit DEF m
<1>4. /\ Bit(n, i) \in {0, 1}
      /\ n % 2^(i + 1) = (n % 2^i) + (IF Bit(n, i) = 1 THEN 2^i ELSE 0)
  BY Digit
<1>5. Bit(m, i) = Bit(n, i)
  BY <1>1, <1>2, <1>3, <1>4
<1>. QED BY <1>5 DEF m

\* Two functions that start alike and go on alike are alike.
GoAlike(f, g, l, top) == /\ f[l] = g[l]
                         /\ \A i \in l..(top - 1) : f[i] = g[i] => f[i + 1] = g[i + 1]

LEMMA StepByStep ==
    ASSUME NEW l \in Nat, NEW top \in Nat, NEW f, NEW g, GoAlike(f, g, l, top)
    PROVE  \A i \in l..top : f[i] = g[i]
<1> DEFINE Bad == {i \in l..top : f[i] /= g[i]}
<1>1. SUFFICES ASSUME Bad /= {} PROVE FALSE
  OBVIOUS
<1>2. PICK k \in Bad : \A j \in Bad : k <= j
  <2>1. Bad \subseteq Nat
    OBVIOUS
  <2>. HIDE DEF Bad
  <2>. QED BY <1>1, <2>1, LeastNatural
<1>3. k \in l..top /\ f[k] /= g[k]
  OBVIOUS
<1>4. k /= l
  BY <1>3 DEF GoAlike
<1>5. k - 1 \in l..(top - 1) /\ k - 1 \in l..top /\ ~(k <= k - 1) /\ (k - 1) + 1 = k
  BY <1>3, <1>4
<1>6. f[k - 1] = g[k - 1]
  BY <1>2, <1>5
<1>7. f[(k - 1) + 1] = g[(k - 1) + 1]
  BY <1>5, <1>6 DEF GoAlike
<1>. QED BY <1>3, <1>5, <1>7

-----------------------------------------------------------------------------
(***************************************************************************)
(* Blocks.  The leaves of a record from a place on; where the record ends  *)
(* they are empty.                                                         *)
(***************************************************************************)
Cell == Leaf \cup {Empty}
Record == Seq(Cell)

Cells(s, from, width) ==
    [j \in 1..width |-> IF from + j <= Len(s) THEN s[from + j] ELSE Empty]

\* u goes on where s ends.
GoesOn(s, u) == Len(s) <= Len(u) /\ \A i \in 1..Len(s) : u[i] = s[i]

LEMMA BlockFacts ==
    ASSUME NEW s \in Record, NEW from \in Nat, NEW width \in Nat
    PROVE  /\ Cells(s, from, width) \in Record
           /\ Len(Cells(s, from, width)) = width
<1>1. \A j \in 1..width : (IF from + j <= Len(s) THEN s[from + j] ELSE Empty) \in Cell
  <2>1. ASSUME NEW j \in 1..width, from + j <= Len(s) PROVE s[from + j] \in Cell
    <3>1. from + j \in 1..Len(s)
      BY <2>1
    <3>. QED BY <3>1 DEF Record
  <2>. QED BY <2>1 DEF Cell
<1>2. Cells(s, from, width) \in [1..width -> Cell]
  BY <1>1 DEF Cells
<1>. HIDE DEF Cells
<1>. QED BY <1>2 DEF Record

LEMMA BlockJoin ==
    ASSUME NEW s \in Record, NEW from \in Nat, NEW width \in Nat
    PROVE  Cells(s, from, width) \o Cells(s, from + width, width) = Cells(s, from, 2 * width)
<1> DEFINE a == Cells(s, from, width)
           b == Cells(s, from + width, width)
           c == Cells(s, from, 2 * width)
<1>1. /\ a \in Record /\ Len(a) = width /\ b \in Record /\ Len(b) = width
      /\ c \in Record /\ Len(c) = 2 * width
  <2>1. from + width \in Nat /\ 2 * width \in Nat
    OBVIOUS
  <2>. QED BY <2>1, BlockFacts
<1>2. ASSUME NEW j \in 1..(2 * width)
      PROVE  c[j] = IF j <= width THEN a[j] ELSE b[j - width]
  <2>1. CASE j <= width
    BY <2>1 DEF Cells
  <2>2. CASE ~(j <= width)
    <3>1. j - width \in 1..width /\ (from + width) + (j - width) = from + j
      BY <2>2
    <3>. QED BY <2>2, <3>1 DEF Cells
  <2>. QED BY <2>1, <2>2
<1>. HIDE DEF a, b, c
<1>3. /\ a \o b \in Record /\ Len(a \o b) = 2 * width
      /\ \A j \in 1..(2 * width) : (a \o b)[j] = IF j <= width THEN a[j] ELSE b[j - width]
  <2>1. a \in Seq(Cell) /\ b \in Seq(Cell) /\ 2 * width = width + width
    BY <1>1 DEF Record
  <2>2. a \o b \in Seq(Cell) /\ Len(a \o b) = 2 * width
    BY <1>1, <2>1
  <2>3. ASSUME NEW j \in 1..(2 * width)
        PROVE  (a \o b)[j] = IF j <= width THEN a[j] ELSE b[j - width]
    <3>1. j \in 1..(Len(a) + Len(b))
      BY <1>1, <2>1
    <3>. QED BY <1>1, <2>1, <3>1
  <2>. QED BY <2>2, <2>3 DEF Record
<1>4. a \o b = c
  <2>1. PICK d : d = a \o b
    OBVIOUS
  <2>2. d \in Seq(Cell) /\ c \in Seq(Cell) /\ Len(d) = 2 * width /\ Len(c) = 2 * width
    BY <1>1, <1>3, <2>1 DEF Record
  <2>3. \A j \in 1..(2 * width) : d[j] = c[j]
    BY <1>2, <1>3, <2>1
  <2>4. d = c
    BY ONLY <2>2, <2>3
  <2>. QED BY <2>1, <2>4
<1>. QED BY <1>4 DEF a, b, c

\* A block that was full stays, and empty leaves at the end are as none.
LEMMA BlockStays ==
    ASSUME NEW s \in Record, NEW u \in Record, GoesOn(s, u), NEW from \in Nat, NEW width \in Nat,
           from + width <= Len(s) \/ \A i \in (Len(s) + 1)..Len(u) : u[i] = Empty
    PROVE  Cells(u, from, width) = Cells(s, from, width)
<1>1. ASSUME NEW j \in 1..width
      PROVE  (IF from + j <= Len(u) THEN u[from + j] ELSE Empty)
                = (IF from + j <= Len(s) THEN s[from + j] ELSE Empty)
  <2>1. CASE from + j <= Len(s)
    <3>1. from + j \in 1..Len(s) /\ from + j <= Len(u)
      BY <2>1 DEF GoesOn, Record
    <3>. QED BY <2>1, <3>1 DEF GoesOn
  <2>2. CASE ~(from + j <= Len(s)) /\ from + j <= Len(u)
    <3>1. from + j \in (Len(s) + 1)..Len(u) /\ ~(from + width <= Len(s))
      BY <2>2 DEF Record
    <3>. QED BY <2>2, <3>1
  <2>3. CASE ~(from + j <= Len(s)) /\ ~(from + j <= Len(u))
    BY <2>3
  <2>. QED BY <2>1, <2>2, <2>3
<1>. QED BY <1>1 DEF Cells

LEMMA EmptyBlock ==
    ASSUME NEW s \in Record, NEW from \in Nat, Len(s) <= from, NEW i \in 0..H
    PROVE  Cells(s, from, 2^i) = zeros[i]
<1>1. 2^i \in Nat /\ Len(s) \in Nat
  BY TwoPower DEF Record
<1>2. \A j \in 1..2^i : ~(from + j <= Len(s))
  BY <1>1
<1>. QED BY <1>2 DEF Cells, zeros

-----------------------------------------------------------------------------
(***************************************************************************)
(* The frontier.                                                           *)
(***************************************************************************)
Tree == [nextLeafIndex : Nat, filledSubtrees : [Level -> Record], root : Record]

\* At each level where n has a bit, the full block to the left of the one n is in.
FrontierOK(filled, n, s) ==
    \A i \in Level : Bit(n, i) = 1 => filled[i] = Cells(s, Start(n, i) - 2^i, 2^i)

HasFrontier(t, n, s) ==
    t \in Tree /\ t.nextLeafIndex = n /\ FrontierOK(t.filledSubtrees, n, s)

IsTreeOf(t, s) == /\ HasFrontier(t, Len(s), s) /\ Len(s) <= Capacity
                  /\ t.root = Cells(s, 0, Capacity)

LEMMA FrontierStays ==
    ASSUME NEW s \in Record, NEW u \in Record, GoesOn(s, u), NEW n \in Nat, n <= Len(s),
           NEW filled, FrontierOK(filled, n, s)
    PROVE  FrontierOK(filled, n, u)
<1>1. ASSUME NEW i \in Level, Bit(n, i) = 1
      PROVE  filled[i] = Cells(u, Start(n, i) - 2^i, 2^i)
  <2>1. i \in Nat
    BY ImtAssumption DEF Level
  <2>2. /\ Start(n, i) \in Nat /\ Start(n, i) <= n /\ Start(n, i + 1) \in Nat
        /\ Start(n, i + 1) = Start(n, i) - 2^i /\ 2^i \in Nat /\ Len(s) \in Nat
    <3>1. Len(s) \in Nat
      BY DEF Record
    <3>. QED BY <1>1, <2>1, <3>1, StartFacts, TwoPower
  <2>3. Start(n, i) - 2^i \in Nat /\ (Start(n, i) - 2^i) + 2^i <= Len(s)
    BY <2>2
  <2>4. Cells(u, Start(n, i) - 2^i, 2^i) = Cells(s, Start(n, i) - 2^i, 2^i)
    BY <2>2, <2>3, BlockStays
  <2>. QED BY <1>1, <2>4 DEF FrontierOK
<1>. QED BY <1>1 DEF FrontierOK

\* One level up: the block of level i + 1 that n is in, from the one of level i.
LEMMA OneLevelUp ==
    ASSUME NEW s \in Record, NEW n \in Nat, NEW l \in Nat, n % 2^l = 0, Len(s) <= n + 2^l,
           NEW i \in Level, l <= i, NEW filled, FrontierOK(filled, n, s)
    PROVE  Cells(s, Start(n, i + 1), 2^(i + 1)) =
              IF Bit(n, i) = 1 THEN poseidon(filled[i], Cells(s, Start(n, i), 2^i))
                               ELSE poseidon(Cells(s, Start(n, i), 2^i), zeros[i])
<1>1. i \in Nat /\ i \in 0..H
  BY ImtAssumption DEF Level
<1>2. /\ Start(n, i) \in Nat /\ Start(n, i + 1) \in Nat
      /\ Start(n, i + 1) = Start(n, i) - (IF Bit(n, i) = 1 THEN 2^i ELSE 0)
      /\ 2^i \in Nat /\ 2^(i + 1) = 2 * 2^i /\ Len(s) \in Nat
  <2>1. Len(s) \in Nat
    BY DEF Record
  <2>. QED BY <1>1, <2>1, StartFacts, TwoPower
<1>3. CASE Bit(n, i) = 1
  <2> DEFINE from == Start(n, i) - 2^i
  <2>1. from = Start(n, i + 1) /\ from \in Nat /\ from + 2^i = Start(n, i)
    BY <1>2, <1>3
  <2>2. filled[i] = Cells(s, from, 2^i)
    BY <1>3 DEF FrontierOK
  <2>. HIDE DEF from
  <2>3. Cells(s, from, 2^i) \o Cells(s, from + 2^i, 2^i) = Cells(s, from, 2 * 2^i)
    BY <1>2, <2>1, BlockJoin
  <2>. QED BY <1>2, <1>3, <2>1, <2>2, <2>3 DEF poseidon
<1>4. CASE Bit(n, i) /= 1
  <2>1. Start(n, i + 1) = Start(n, i)
    BY <1>2, <1>4
  <2>2. Len(s) <= Start(n, i) + 2^i
    <3>1. (n % 2^i) + 2^l <= 2^i
      BY <1>1, LowBits
    <3>2. n % 2^i \in 0..(2^i - 1) /\ 2^l \in Nat
      BY <1>1, Digit, TwoPower
    <3>. QED BY <1>2, <3>1, <3>2 DEF Start
  <2>3. Start(n, i) + 2^i \in Nat
    BY <1>2
  <2>4. Cells(s, Start(n, i) + 2^i, 2^i) = zeros[i]
    BY <1>1, <2>2, <2>3, EmptyBlock
  <2>5. Cells(s, Start(n, i), 2^i) \o Cells(s, Start(n, i) + 2^i, 2^i) = Cells(s, Start(n, i), 2 * 2^i)
    BY <1>2, BlockJoin
  <2>. QED BY <1>2, <1>4, <2>1, <2>4, <2>5 DEF poseidon
<1>. QED BY <1>3, <1>4

-----------------------------------------------------------------------------
(***************************************************************************)
(* _insertNode.                                                            *)
(***************************************************************************)
\* f is the path of _insertNode from node up.
IsPath(f, t, node, l) ==
    f = [i \in l..H |->
            IF i = l THEN node
            ELSE IF Bit(t.nextLeafIndex, i - 1) = 1 THEN poseidon(t.filledSubtrees[i - 1], f[i - 1])
                                                    ELSE poseidon(f[i - 1], zeros[i - 1])]

PathOf(t, node, l) == CHOOSE f : IsPath(f, t, node, l)

LEMMA InsertNodeBy ==
    ASSUME NEW t, NEW node, NEW l
    PROVE  _insertNode(t, node, l) =
             [nextLeafIndex |-> t.nextLeafIndex + 2^l,
              filledSubtrees |-> [i \in Level |-> IF i >= l /\ ~(Bit(t.nextLeafIndex, i) = 1)
                                                  THEN PathOf(t, node, l)[i] ELSE t.filledSubtrees[i]],
              root |-> PathOf(t, node, l)[H]]
BY DEF _insertNode, PathOf, IsPath

\* The path goes through the blocks that n is in.
LEMMA PathIsBlocks ==
    ASSUME NEW s \in Record, NEW n \in Nat, NEW l \in 0..H, n % 2^l = 0, Len(s) <= n + 2^l,
           NEW t, HasFrontier(t, n, s)
    PROVE  \A i \in l..H : PathOf(t, Cells(s, n, 2^l), l)[i] = Cells(s, Start(n, i), 2^i)
<1> DEFINE node == Cells(s, n, 2^l)
           filled == t.filledSubtrees
           g == [i \in l..H |-> Cells(s, Start(n, i), 2^i)]
           f == PathOf(t, node, l)
<1>1. l \in Nat /\ H \in Nat /\ t.nextLeafIndex = n /\ FrontierOK(filled, n, s)
  BY ImtAssumption DEF HasFrontier
<1>2. Start(n, l) = n
  BY DEF Start
<1>3. ASSUME NEW i \in l..(H - 1)
      PROVE  /\ i \in Level /\ i \in l..H /\ i + 1 \in l..H /\ i + 1 /= l /\ (i + 1) - 1 = i
             /\ Cells(s, Start(n, i + 1), 2^(i + 1)) =
                  IF Bit(n, i) = 1 THEN poseidon(filled[i], Cells(s, Start(n, i), 2^i))
                                   ELSE poseidon(Cells(s, Start(n, i), 2^i), zeros[i])
  <2>1. i \in Level /\ i \in l..H /\ i + 1 \in l..H /\ i + 1 /= l /\ (i + 1) - 1 = i /\ l <= i
    BY <1>1 DEF Level
  <2>. HIDE DEF filled
  <2>2. Cells(s, Start(n, i + 1), 2^(i + 1)) =
          IF Bit(n, i) = 1 THEN poseidon(filled[i], Cells(s, Start(n, i), 2^i))
                           ELSE poseidon(Cells(s, Start(n, i), 2^i), zeros[i])
    BY <1>1, <2>1, OneLevelUp
  <2>. QED BY <2>1, <2>2
<1>. HIDE DEF filled
<1>4. ASSUME NEW i \in l..H
      PROVE  g[i] = IF i = l THEN node
                    ELSE IF Bit(n, i - 1) = 1 THEN poseidon(filled[i - 1], g[i - 1])
                                              ELSE poseidon(g[i - 1], zeros[i - 1])
  <2>1. CASE i = l
    BY <1>2, <2>1
  <2>2. CASE i /= l
    <3> DEFINE j == i - 1
    <3>1. j \in l..(H - 1) /\ i = j + 1
      BY <1>1, <2>2
    <3>. HIDE DEF j
    <3>2. i - 1 = j /\ g[i] = Cells(s, Start(n, i), 2^i) /\ g[j] = Cells(s, Start(n, j), 2^j)
      BY <1>3, <3>1
    <3>. HIDE DEF g, node
    <3>. QED BY <1>3, <2>2, <3>1, <3>2
  <2>. QED BY <2>1, <2>2
<1>5. IsPath(g, t, node, l)
  <2>1. g = [i \in l..H |-> g[i]]
    OBVIOUS
  <2>. HIDE DEF g, node
  <2>. QED BY <1>1, <1>4, <2>1 DEF IsPath, filled
<1>6. IsPath(f, t, node, l)
  <2>. HIDE DEF g, node
  <2>. QED BY <1>5 DEF PathOf
<1>. HIDE DEF f, node
<1>7. \A i \in l..H : f[i] = IF i = l THEN node
                    ELSE IF Bit(n, i - 1) = 1 THEN poseidon(filled[i - 1], f[i - 1])
                                              ELSE poseidon(f[i - 1], zeros[i - 1])
  BY <1>1, <1>6 DEF IsPath, filled
<1>8. f[l] = g[l]
  <2>1. l \in l..H
    BY <1>1
  <2>. HIDE DEF g
  <2>. QED BY <1>4, <1>7, <2>1
<1>9. \A i \in l..(H - 1) : f[i] = g[i] => f[i + 1] = g[i + 1]
  <2>. HIDE DEF g
  <2>. QED BY <1>3, <1>4, <1>7
<1>10. \A i \in l..H : f[i] = g[i]
  <2>. HIDE DEF g
  <2>1. GoAlike(f, g, l, H)
    BY <1>8, <1>9 DEF GoAlike
  <2>. QED BY <1>1, <2>1, StepByStep
<1>. QED BY <1>10 DEF f, node

\* Inserting the next block yields the tree of the record it is in.
LEMMA Inserts ==
    ASSUME NEW s \in Record, NEW n \in Nat, NEW l \in 0..H, n % 2^l = 0,
           n + 2^l <= Capacity, Len(s) <= n + 2^l, NEW t, HasFrontier(t, n, s)
    PROVE  LET u == _insertNode(t, Cells(s, n, 2^l), l)
           IN  HasFrontier(u, n + 2^l, s) /\ u.root = Cells(s, 0, Capacity)
<1> DEFINE node == Cells(s, n, 2^l)
           path == PathOf(t, node, l)
           u == _insertNode(t, node, l)
           filled == t.filledSubtrees
           m == n + 2^l
<1>1. /\ l \in Nat /\ H \in Nat /\ 2^l \in Nat /\ 2^l > 0 /\ m \in Nat
      /\ t \in Tree /\ t.nextLeafIndex = n /\ FrontierOK(filled, n, s)
      /\ filled \in [Level -> Record]
  BY ImtAssumption, TwoPower DEF HasFrontier, Tree
<1>2. \A i \in l..H : path[i] = Cells(s, Start(n, i), 2^i)
  BY PathIsBlocks
<1>. HIDE DEF path, node
<1>3. /\ u.nextLeafIndex = m /\ u.root = path[H]
      /\ u.filledSubtrees = [i \in Level |-> IF i >= l /\ ~(Bit(n, i) = 1) THEN path[i] ELSE filled[i]]
      /\ u = [nextLeafIndex |-> m, filledSubtrees |-> u.filledSubtrees, root |-> path[H]]
  BY <1>1, InsertNodeBy DEF path
<1>. HIDE DEF u, filled
<1>4. ASSUME NEW i \in l..H PROVE path[i] \in Record
  <2>1. i \in Nat
    BY <1>1
  <2>2. Start(n, i) \in Nat /\ 2^i \in Nat
    BY <2>1, StartFacts, TwoPower
  <2>. QED BY <1>2, <2>2, BlockFacts
<1>5. \A i \in Level : i \in Nat /\ i \in 0..H /\ (i >= l => i \in l..H)
  BY <1>1 DEF Level
<1>6. u \in Tree
  <2>1. \A i \in Level : (IF i >= l /\ ~(Bit(n, i) = 1) THEN path[i] ELSE filled[i]) \in Record
    BY <1>1, <1>4, <1>5
  <2>2. u.filledSubtrees \in [Level -> Record]
    BY <1>3, <2>1
  <2>3. path[H] \in Record
    BY <1>1, <1>4
  <2>. QED BY <1>1, <1>3, <2>2, <2>3 DEF Tree
<1>7. FrontierOK(u.filledSubtrees, m, s)
  <2>1. SUFFICES ASSUME NEW i \in Level, Bit(m, i) = 1
                 PROVE  u.filledSubtrees[i] = Cells(s, Start(m, i) - 2^i, 2^i)
    BY DEF FrontierOK
  <2>2. u.filledSubtrees[i] = IF i >= l /\ ~(Bit(n, i) = 1) THEN path[i] ELSE filled[i]
    BY <1>3
  <2>3. i \in Nat /\ 2^i \in Nat /\ Start(n, i) \in Nat
    BY <1>5, StartFacts, TwoPower
  \* A level below the block's own: the next place has no bit there.
  <2>4. i >= l
    <3>1. m % 2^l = 0
      <4>1. n % 2^l = 0 /\ (n % 2^l = 0 => n = 2^l * (n \div 2^l)) /\ n \div 2^l \in Nat
        BY <1>1, Division
      <4>2. m = (2^l * ((n \div 2^l) + 1)) + 0
        BY <1>1, <4>1
      <4>3. (n \div 2^l) + 1 \in Nat /\ 0 \in 0..(2^l - 1)
        BY <1>1, <4>1
      <4> DEFINE d == 2^l
                 q == (n \div 2^l) + 1
      <4>4. d \in Nat /\ d > 0 /\ q \in Nat /\ 0 \in 0..(d - 1) /\ m \in Nat /\ m = (d * q) + 0
        BY <1>1, <4>2, <4>3
      <4>. HIDE DEF d, q, m
      <4>5. m % d = 0
        BY <4>4, Division
      <4>. QED BY <4>5 DEF d
    <3>. HIDE DEF m
    <3>2. i < l => Bit(m, i) = 0
      BY <1>1, <2>3, <3>1, AlignedBlock
    <3>. QED BY <1>1, <2>1, <2>3, <3>2
  <2>5. \/ Start(m, i) = Start(n, i) /\ Bit(m, i) = Bit(n, i)
        \/ Start(m, i) = Start(n, i) + 2^i /\ (Bit(m, i) = 1 => Bit(n, i) = 0)
    BY <1>1, <2>3, <2>4, Advance
  <2>. HIDE DEF m
  <2>6. CASE Bit(n, i) = 1
    <3>1. Start(m, i) = Start(n, i)
      BY <2>1, <2>5, <2>6
    <3>. QED BY <1>1, <2>2, <2>6, <3>1 DEF FrontierOK
  <2>7. CASE Bit(n, i) /= 1
    <3>1. Start(m, i) - 2^i = Start(n, i)
      BY <2>1, <2>3, <2>5, <2>7
    <3>. QED BY <1>2, <1>5, <2>2, <2>4, <2>7, <3>1
  <2>. QED BY <2>6, <2>7
<1>8. u.root = Cells(s, 0, Capacity)
  <2>1. 2^H \in Nat /\ 2^H > 0 /\ n < 2^H
    BY <1>1, TwoPower DEF Capacity
  <2>2. Start(n, H) = 0
    <3>1. n = (2^H * 0) + n /\ n \in 0..(2^H - 1)
      BY <2>1
    <3>2. n % 2^H = n
      BY <2>1, <3>1, Division
    <3>. QED BY <3>2 DEF Start
  <2>3. H \in l..H
    BY <1>1
  <2>. QED BY <1>2, <1>3, <2>2, <2>3 DEF Capacity
<1>9. HasFrontier(u, m, s)
  BY <1>3, <1>6, <1>7 DEF HasFrontier
<1>. QED BY <1>8, <1>9 DEF u, node, m

-----------------------------------------------------------------------------
(***************************************************************************)
(* The operations of the two trees.                                        *)
(***************************************************************************)
Blank(k) == [j \in 1..k |-> Empty]

LEMMA BlankFacts ==
    ASSUME NEW s \in Record, NEW k \in Nat
    PROVE  /\ s \o Blank(k) \in Record /\ Len(s \o Blank(k)) = Len(s) + k
           /\ GoesOn(s, s \o Blank(k))
           /\ \A i \in (Len(s) + 1)..Len(s \o Blank(k)) : (s \o Blank(k))[i] = Empty
           /\ s \o Blank(0) = s
<1>1. \A j \in Nat : Blank(j) \in Record /\ Len(Blank(j)) = j /\ \A i \in 1..j : Blank(j)[i] = Empty
  BY DEF Blank, Record, Cell
<1>. HIDE DEF Blank
<1>2. /\ s \o Blank(k) \in Record /\ Len(s \o Blank(k)) = Len(s) + k
      /\ \A i \in 1..(Len(s) + k) :
            (s \o Blank(k))[i] = IF i <= Len(s) THEN s[i] ELSE Blank(k)[i - Len(s)]
  <2> DEFINE a == Blank(k)
  <2>1. a \in Record /\ Len(a) = k
    BY <1>1
  <2>. HIDE DEF a
  <2>2. /\ s \o a \in Record /\ Len(s \o a) = Len(s) + k
        /\ \A i \in 1..(Len(s) + k) : (s \o a)[i] = IF i <= Len(s) THEN s[i] ELSE a[i - Len(s)]
    BY <2>1 DEF Record
  <2>. QED BY <2>2 DEF a
<1>3. \A i \in (Len(s) + 1)..(Len(s) + k) : i - Len(s) \in 1..k /\ i \in 1..(Len(s) + k) /\ ~(i <= Len(s))
  BY DEF Record
<1>4. \A i \in 1..Len(s) : i \in 1..(Len(s) + k) /\ i <= Len(s)
  BY DEF Record
<1>5. GoesOn(s, s \o Blank(k))
  BY <1>2, <1>4 DEF GoesOn, Record
<1>6. s \o Blank(0) = s
  BY <1>1 DEF Record
<1>. QED BY <1>1, <1>2, <1>3, <1>5, <1>6

LEMMA JoinFacts ==
    ASSUME NEW s \in Record, NEW w \in Nat, NEW a \in [1..w -> Cell]
    PROVE  /\ s \o a \in Record /\ Len(s \o a) = Len(s) + w /\ GoesOn(s, s \o a)
           /\ a = Cells(s \o a, Len(s), w)
<1>1. a \in Record /\ Len(a) = w /\ Len(s) \in Nat
  BY DEF Record
<1>2. /\ s \o a \in Record /\ Len(s \o a) = Len(s) + w
      /\ \A i \in 1..(Len(s) + w) : (s \o a)[i] = IF i <= Len(s) THEN s[i] ELSE a[i - Len(s)]
  BY <1>1 DEF Record
<1>3. GoesOn(s, s \o a)
  BY <1>1, <1>2 DEF GoesOn
<1>4. \A j \in 1..w : (IF Len(s) + j <= Len(s \o a) THEN (s \o a)[Len(s) + j] ELSE Empty) = a[j]
  <2>1. ASSUME NEW j \in 1..w
        PROVE  /\ Len(s) + j \in 1..(Len(s) + w) /\ ~(Len(s) + j <= Len(s))
               /\ (Len(s) + j) - Len(s) = j /\ Len(s) + j <= Len(s) + w
    BY <1>1
  <2>. QED BY <1>2, <2>1
<1>5. Cells(s \o a, Len(s), w) = [j \in 1..w |-> a[j]]
  BY <1>4 DEF Cells
<1>. QED BY <1>2, <1>3, <1>5

\* A node that starts where the record ended.
LEMMA Grows ==
    ASSUME NEW s \in Record, NEW l \in 0..H, Len(s) % 2^l = 0,
           NEW t, HasFrontier(t, Len(s), s),
           NEW u \in Record, GoesOn(s, u), Len(u) = Len(s) + 2^l, Len(u) <= Capacity
    PROVE  IsTreeOf(_insertNode(t, Cells(u, Len(s), 2^l), l), u)
<1>1. Len(s) \in Nat
  BY DEF Record
<1>2. HasFrontier(t, Len(s), u)
  <2>1. FrontierOK(t.filledSubtrees, Len(s), u)
    BY <1>1, FrontierStays DEF HasFrontier
  <2>. QED BY <2>1 DEF HasFrontier
<1>3. 2^l \in Nat /\ l \in Nat
  BY TwoPower, ImtAssumption
<1> DEFINE n == Len(s)
<1>4. n \in Nat /\ n % 2^l = 0 /\ n + 2^l <= Capacity /\ Len(u) <= n + 2^l /\ HasFrontier(t, n, u)
  BY <1>1, <1>2, <1>3
<1>. HIDE DEF n
<1>5. /\ HasFrontier(_insertNode(t, Cells(u, n, 2^l), l), n + 2^l, u)
      /\ _insertNode(t, Cells(u, n, 2^l), l).root = Cells(u, 0, Capacity)
  BY <1>4, Inserts
<1>. QED BY <1>5 DEF IsTreeOf, n

\* An append: a block of level 0.
LEMMA GrowsByOne ==
    ASSUME NEW s \in Record, NEW t, HasFrontier(t, Len(s), s), NEW cell \in Cell,
           Len(s) + 1 <= Capacity
    PROVE  IsTreeOf(_insertNode(t, <<cell>>, 0), Append(s, cell))
<1> DEFINE u == Append(s, cell)
<1>1. /\ u \in Record /\ Len(u) = Len(s) + 1 /\ Len(s) \in Nat
      /\ u[Len(s) + 1] = cell /\ \A i \in 1..Len(s) : u[i] = s[i]
  BY DEF Record
<1>. HIDE DEF u
<1>2. GoesOn(s, u)
  BY <1>1 DEF GoesOn
<1>3. 2^0 = 1 /\ 0 \in 0..H /\ Len(s) % 1 = 0
  BY <1>1, ImtAssumption
<1>4. Cells(u, Len(s), 1) = <<cell>>
  <2>1. \A j \in 1..1 : j = 1 /\ Len(s) + j <= Len(u)
    BY <1>1
  <2>2. Cells(u, Len(s), 1) = [j \in 1..1 |-> cell]
    BY <1>1, <2>1 DEF Cells
  <2>3. [j \in 1..1 |-> cell] = <<cell>>
    OBVIOUS
  <2>. QED BY <2>2, <2>3
<1>5. IsTreeOf(_insertNode(t, Cells(u, Len(s), 2^0), 0), u)
  <2> DEFINE l == 0
  <2>1. l \in 0..H /\ Len(s) % 2^l = 0 /\ Len(u) = Len(s) + 2^l /\ Len(u) <= Capacity
    BY <1>1, <1>3
  <2>. HIDE DEF l
  <2>2. IsTreeOf(_insertNode(t, Cells(u, Len(s), 2^l), l), u)
    BY <1>1, <1>2, <2>1, Grows
  <2>. QED BY <2>2 DEF l
<1>. QED BY <1>3, <1>4, <1>5 DEF u

-----------------------------------------------------------------------------
\* The oracle pads leaf by leaf.
IsPadded(f, t, k) ==
    f = [i \in 0..k |-> IF i = 0 THEN t ELSE _insertNode(f[i - 1], zeros[0], 0)]

LEMMA PaddedExists ==
    ASSUME NEW t, NEW k \in Nat
    PROVE  \E f : IsPadded(f, t, k)
<1> DEFINE Bad == {j \in Nat : ~ \E f : IsPadded(f, t, j)}
<1>1. SUFFICES ASSUME Bad /= {} PROVE FALSE
  OBVIOUS
<1>2. PICK m \in Bad : \A j \in Bad : m <= j
  <2>1. Bad \subseteq Nat
    OBVIOUS
  <2>. HIDE DEF Bad
  <2>. QED BY <1>1, <2>1, LeastNatural
<1>3. m \in Nat /\ ~ \E f : IsPadded(f, t, m)
  OBVIOUS
<1>4. m /= 0
  <2> DEFINE g == [i \in 0..0 |-> t]
  <2>1. g = [i \in 0..0 |-> IF i = 0 THEN t ELSE _insertNode(g[i - 1], zeros[0], 0)]
    OBVIOUS
  <2>. HIDE DEF g
  <2>. QED BY <1>3, <2>1 DEF IsPadded
<1>5. m - 1 \in Nat /\ ~(m <= m - 1)
  BY <1>3, <1>4
<1>6. PICK f : IsPadded(f, t, m - 1)
  <2>1. m - 1 \notin Bad
    BY <1>2, <1>5
  <2>. QED BY <1>5, <2>1
<1>. HIDE DEF Bad
<1> DEFINE g == [i \in 0..m |-> IF i = m THEN _insertNode(f[m - 1], zeros[0], 0) ELSE f[i]]
<1>7. ASSUME NEW i \in 0..m
      PROVE  g[i] = IF i = 0 THEN t ELSE _insertNode(g[i - 1], zeros[0], 0)
  <2>1. CASE i = m
    <3>1. m - 1 \in 0..m /\ m - 1 /= m /\ i /= 0
      BY <1>4, <1>5, <2>1
    <3>. QED BY <2>1, <3>1
  <2>2. CASE i /= m
    <3>1. i \in 0..(m - 1)
      BY <1>3, <1>5, <2>2
    <3>2. f[i] = IF i = 0 THEN t ELSE _insertNode(f[i - 1], zeros[0], 0)
      BY <1>6, <3>1 DEF IsPadded
    <3>3. i /= 0 => i - 1 \in 0..m /\ i - 1 /= m
      BY <1>3, <3>1
    <3>. QED BY <2>2, <3>2, <3>3
  <2>. QED BY <2>1, <2>2
<1>8. IsPadded(g, t, m)
  <2>1. g = [i \in 0..m |-> g[i]]
    OBVIOUS
  <2>. HIDE DEF g
  <2>. QED BY <1>7, <2>1 DEF IsPadded
<1>. QED BY <1>3, <1>8

LEMMA PadsTheRecord ==
    ASSUME NEW s \in Record, NEW t, IsTreeOf(t, s), NEW k \in Nat, Len(s) + k <= Capacity,
           NEW f, IsPadded(f, t, k)
    PROVE  IsTreeOf(f[k], s \o Blank(k))
<1> DEFINE Bad == {j \in 0..k : ~IsTreeOf(f[j], s \o Blank(j))}
<1>1. SUFFICES ASSUME Bad /= {} PROVE FALSE
  OBVIOUS
<1>2. PICK m \in Bad : \A j \in Bad : m <= j
  <2>1. Bad \subseteq Nat
    OBVIOUS
  <2>. HIDE DEF Bad
  <2>. QED BY <1>1, <2>1, LeastNatural
<1>3. m \in 0..k /\ ~IsTreeOf(f[m], s \o Blank(m))
  OBVIOUS
<1>4. f[m] = IF m = 0 THEN t ELSE _insertNode(f[m - 1], zeros[0], 0)
  BY <1>3 DEF IsPadded
<1>5. m /= 0
  BY <1>3, <1>4, BlankFacts
<1>6. m - 1 \in 0..k /\ ~(m <= m - 1) /\ m - 1 \in Nat
  BY <1>3, <1>5
<1>7. IsTreeOf(f[m - 1], s \o Blank(m - 1))
  BY <1>2, <1>6
<1>. HIDE DEF Bad
<1> DEFINE a == s \o Blank(m - 1)
           b == s \o Blank(m)
<1>8. /\ a \in Record /\ Len(a) = Len(s) + (m - 1) /\ Len(s) \in Nat
      /\ b \in Record /\ Len(b) = Len(s) + m
      /\ \A i \in (Len(s) + 1)..Len(b) : b[i] = Empty
      /\ \A i \in (Len(s) + 1)..Len(a) : a[i] = Empty
      /\ GoesOn(s, a) /\ GoesOn(s, b)
  <2>1. m \in Nat /\ Len(s) \in Nat
    BY <1>3 DEF Record
  <2>. QED BY <1>6, <2>1, BlankFacts
<1>. HIDE DEF a, b
<1>9. b = Append(a, Empty)
  <2>1. Empty \in Cell
    BY DEF Cell
  <2>2. /\ Append(a, Empty) \in Record /\ Len(Append(a, Empty)) = Len(a) + 1
        /\ \A i \in 1..Len(a) : Append(a, Empty)[i] = a[i]
        /\ Append(a, Empty)[Len(a) + 1] = Empty
    BY <1>8, <2>1 DEF Record
  <2>3. Len(b) = Len(a) + 1
    BY <1>3, <1>8
  <2>4. ASSUME NEW i \in 1..Len(b) PROVE b[i] = Append(a, Empty)[i]
    <3>1. CASE i <= Len(s)
      <4>1. i \in 1..Len(s) /\ i \in 1..Len(a)
        BY <1>6, <1>8, <3>1
      <4>. QED BY <1>8, <2>2, <4>1 DEF GoesOn
    <3>2. CASE ~(i <= Len(s)) /\ i <= Len(a)
      <4>1. i \in (Len(s) + 1)..Len(b) /\ i \in (Len(s) + 1)..Len(a) /\ i \in 1..Len(a)
        BY <1>3, <1>6, <1>8, <3>2
      <4>. QED BY <1>8, <2>2, <4>1
    <3>3. CASE i = Len(a) + 1
      <4>1. i \in (Len(s) + 1)..Len(b)
        BY <1>3, <1>6, <1>8, <3>3
      <4>. QED BY <1>8, <2>2, <3>3, <4>1
    <3>4. i <= Len(a) \/ i = Len(a) + 1
      BY <1>3, <1>6, <1>8
    <3>. QED BY <3>1, <3>2, <3>3, <3>4
  <2>. QED BY <1>8, <2>2, <2>3, <2>4 DEF Record
<1>10. zeros[0] = <<Empty>>
  <2>1. 0 \in 0..H /\ 2^0 = 1
    BY ImtAssumption
  <2>2. zeros[0] = [j \in 1..1 |-> Empty]
    BY <2>1 DEF zeros
  <2>. QED BY <2>2
<1>11. IsTreeOf(_insertNode(f[m - 1], <<Empty>>, 0), Append(a, Empty))
  <2>1. HasFrontier(f[m - 1], Len(a), a)
    BY <1>7 DEF IsTreeOf, a
  <2>2. Empty \in Cell /\ Len(a) + 1 <= Capacity
    <3>1. Capacity \in Nat
      BY TwoPower, ImtAssumption DEF Capacity
    <3>2. m <= k /\ Len(a) + 1 = Len(s) + m
      BY <1>3, <1>8
    <3>. QED BY <1>3, <1>8, <3>1, <3>2 DEF Cell
  <2>. QED BY <1>8, <2>1, <2>2, GrowsByOne
<1>. QED BY <1>3, <1>4, <1>5, <1>9, <1>10, <1>11 DEF b

-----------------------------------------------------------------------------
\* The contract folds the pending block up to the level of a batch.
IsClosing(f, t) ==
    f = [i \in 0..LOG_B |->
            IF i = 0 THEN zeros[0]
            ELSE IF Bit(t.nextLeafIndex % B, i - 1) = 1 THEN poseidon(t.filledSubtrees[i - 1], f[i - 1])
                                                        ELSE poseidon(f[i - 1], zeros[i - 1])]

LEMMA ClosedBlockIsBlock ==
    ASSUME NEW s \in Record, NEW t, HasFrontier(t, Len(s), s)
    PROVE  ClosedBlock(t) = Cells(s, Start(Len(s), LOG_B), B)
<1> DEFINE n == Len(s)
           filled == t.filledSubtrees
           f == CHOOSE h : IsClosing(h, t)
           g == [i \in 0..LOG_B |-> Cells(s, Start(n, i), 2^i)]
<1>1. /\ n \in Nat /\ LOG_B \in Nat /\ LOG_B <= H /\ H \in Nat /\ t.nextLeafIndex = n
      /\ FrontierOK(filled, n, s) /\ B = 2^LOG_B
  BY ImtAssumption DEF Record, HasFrontier, B
<1>2. 2^0 = 1 /\ n % 1 = 0 /\ n <= n + 1
  BY <1>1
<1>. HIDE DEF n, filled
<1>3. Cells(s, Start(n, 0), 2^0) = zeros[0]
  <2> DEFINE z == 0
  <2>1. z \in 0..H /\ Len(s) <= n
    BY <1>1 DEF n
  <2>. HIDE DEF z
  <2>2. Cells(s, n, 2^z) = zeros[z]
    BY <1>1, <2>1, EmptyBlock
  <2>3. Start(n, 0) = n
    BY <1>1, StartFacts DEF z
  <2>. QED BY <2>2, <2>3 DEF z
<1>4. ASSUME NEW i \in 0..(LOG_B - 1)
      PROVE  /\ i \in 0..LOG_B /\ i + 1 \in 0..LOG_B /\ i + 1 /= 0 /\ (i + 1) - 1 = i
             /\ Bit(n % B, i) = Bit(n, i)
             /\ Cells(s, Start(n, i + 1), 2^(i + 1)) =
                  IF Bit(n, i) = 1 THEN poseidon(filled[i], Cells(s, Start(n, i), 2^i))
                                   ELSE poseidon(Cells(s, Start(n, i), 2^i), zeros[i])
  <2>1. /\ i \in 0..LOG_B /\ i + 1 \in 0..LOG_B /\ i + 1 /= 0 /\ (i + 1) - 1 = i
        /\ i \in Nat /\ i < LOG_B /\ i \in Level
    BY <1>1 DEF Level
  <2>2. Bit(n % B, i) = Bit(n, i)
    BY <1>1, <2>1, CutOff
  <2> DEFINE l == 0
  <2>3. l \in Nat /\ n % 2^l = 0 /\ Len(s) <= n + 2^l /\ l <= i
    BY <1>1, <1>2, <2>1 DEF n
  <2>. HIDE DEF l
  <2>4. Cells(s, Start(n, i + 1), 2^(i + 1)) =
          IF Bit(n, i) = 1 THEN poseidon(filled[i], Cells(s, Start(n, i), 2^i))
                           ELSE poseidon(Cells(s, Start(n, i), 2^i), zeros[i])
    BY <1>1, <2>1, <2>3, OneLevelUp
  <2>. QED BY <2>1, <2>2, <2>4
<1>5. ASSUME NEW i \in 0..LOG_B
      PROVE  g[i] = IF i = 0 THEN zeros[0]
                    ELSE IF Bit(n % B, i - 1) = 1 THEN poseidon(filled[i - 1], g[i - 1])
                                                  ELSE poseidon(g[i - 1], zeros[i - 1])
  <2>1. CASE i = 0
    BY <1>3, <2>1
  <2>2. CASE i /= 0
    <3> DEFINE j == i - 1
    <3>1. j \in 0..(LOG_B - 1) /\ i = j + 1
      BY <1>1, <2>2
    <3>. HIDE DEF j
    <3>2. i - 1 = j /\ g[i] = Cells(s, Start(n, i), 2^i) /\ g[j] = Cells(s, Start(n, j), 2^j)
      BY <1>4, <3>1
    <3>. HIDE DEF g
    <3>. QED BY <1>4, <2>2, <3>1, <3>2
  <2>. QED BY <2>1, <2>2
<1>6. IsClosing(g, t)
  <2>1. g = [i \in 0..LOG_B |-> g[i]]
    OBVIOUS
  <2>. HIDE DEF g
  <2>. QED BY <1>1, <1>5, <2>1 DEF IsClosing, filled
<1>7. IsClosing(f, t)
  <2>. HIDE DEF g
  <2>. QED BY <1>6
<1>8. ClosedBlock(t) = f[LOG_B]
  BY DEF ClosedBlock, IsClosing
<1>. HIDE DEF f
<1>9. GoAlike(f, g, 0, LOG_B)
  <2>1. \A i \in 0..LOG_B : f[i] = IF i = 0 THEN zeros[0]
                    ELSE IF Bit(n % B, i - 1) = 1 THEN poseidon(filled[i - 1], f[i - 1])
                                                  ELSE poseidon(f[i - 1], zeros[i - 1])
    BY <1>1, <1>7 DEF IsClosing, filled
  <2>2. 0 \in 0..LOG_B
    BY <1>1
  <2>. HIDE DEF g
  <2>. QED BY <1>4, <1>5, <2>1, <2>2 DEF GoAlike
<1>10. f[LOG_B] = g[LOG_B]
  <2>1. LOG_B \in 0..LOG_B
    BY <1>1
  <2>. HIDE DEF g
  <2>. QED BY <1>1, <1>9, <2>1, StepByStep
<1>. QED BY <1>1, <1>8, <1>10 DEF n

\* How much a batch pads, and that it ends at a boundary.
LEMMA PadFacts ==
    ASSUME NEW n \in Nat
    PROVE  LET pad == (B - (n % B)) % B
           IN  /\ pad \in Nat /\ (n + pad) % B = 0 /\ n + pad \in Nat
               /\ n % B = 0 => pad = 0
               /\ n % B /= 0 => n + pad = Start(n, LOG_B) + B
               /\ Start(n, LOG_B) = n - (n % B) /\ n % B \in Nat
<1>1. B \in Nat /\ B > 0 /\ B = 2^LOG_B /\ LOG_B \in Nat
  BY TwoPower, ImtAssumption DEF B
<1>2. n % B \in 0..(B - 1) /\ n \div B \in Nat /\ n = B * (n \div B) + (n % B)
  BY <1>1, Division
<1>3. Start(n, LOG_B) = n - (n % B)
  BY <1>1 DEF Start
<1> DEFINE pad == (B - (n % B)) % B
           r == n % B
           q == n \div B
<1>4. CASE r = 0
  <2>1. B % B = 0
    <3>1. B = (B * 1) + 0 /\ 0 \in 0..(B - 1)
      BY <1>1
    <3>. QED BY <1>1, <3>1, Division
  <2>2. pad = 0
    BY <1>1, <1>4, <2>1
  <2>. QED BY <1>1, <1>2, <1>3, <1>4, <2>2
<1>5. CASE r /= 0
  <2>1. B - r \in 0..(B - 1) /\ B - r \in Nat
    BY <1>1, <1>2, <1>5
  <2>2. pad = B - r
    <3>. HIDE DEF r
    <3>1. B - r = (B * 0) + (B - r)
      BY <1>1, <2>1
    <3>2. (B - r) % B = B - r
      BY <1>1, <2>1, <3>1, Division
    <3>. QED BY <3>2 DEF r
  <2>3. (n + pad) % B = 0
    <3>. HIDE DEF q, r, pad
    <3>1. n + pad = (B * (q + 1)) + 0
      <4>1. n = (B * q) + r /\ q \in Nat /\ r \in Nat /\ B * q \in Nat
        BY <1>1, <1>2 DEF q, r
      <4>2. B * (q + 1) = (B * q) + B
        BY <1>1, <4>1
      <4>. QED BY <1>1, <2>2, <4>1, <4>2
    <3>2. q + 1 \in Nat /\ n + pad \in Nat /\ 0 \in 0..(B - 1)
      BY <1>1, <1>2, <2>1, <2>2 DEF q
    <3> DEFINE e == n + pad
               k == q + 1
    <3>3. e \in Nat /\ k \in Nat /\ e = (B * k) + 0
      BY <3>1, <3>2
    <3>. HIDE DEF e, k
    <3>4. e % B = 0
      BY <1>1, <3>2, <3>3, Division
    <3>. QED BY <3>4 DEF e
  <2>4. n + pad = Start(n, LOG_B) + B
    BY <1>1, <1>2, <1>3, <2>2
  <2>. QED BY <1>2, <1>3, <1>5, <2>1, <2>2, <2>3, <2>4
<1>. QED BY <1>4, <1>5

\* The contract's side: one closing node, or none.
LEMMA PoolCloses ==
    ASSUME NEW s \in Record, NEW t, IsTreeOf(t, s),
           NEW pad, pad = (B - (Len(s) % B)) % B, Len(s) + pad <= Capacity
    PROVE  LET rem == t.nextLeafIndex % B
               start == [t EXCEPT !.nextLeafIndex = @ - rem]
           IN  HasFrontier(IF rem = 0 THEN t ELSE _insertNode(start, ClosedBlock(t), LOG_B),
                           Len(s) + pad, s \o Blank(pad))
<1> DEFINE n == Len(s)
           m == Start(n, LOG_B)
           u == s \o Blank(pad)
           rem == t.nextLeafIndex % B
           start == [t EXCEPT !.nextLeafIndex = @ - rem]
<1>1. /\ n \in Nat /\ t.nextLeafIndex = n /\ t \in Tree /\ HasFrontier(t, n, s)
      /\ FrontierOK(t.filledSubtrees, n, s)
  BY DEF IsTreeOf, HasFrontier, Record
<1>2. /\ LOG_B \in Nat /\ LOG_B \in 0..H /\ H \in Nat /\ B = 2^LOG_B /\ B \in Nat /\ B > 0
  BY ImtAssumption, TwoPower DEF B
<1>3. /\ pad \in Nat
      /\ n % B = 0 => pad = 0
      /\ n % B /= 0 => n + pad = m + B
      /\ m = n - (n % B) /\ n % B \in Nat
  BY <1>1, PadFacts
<1>4. u \in Record /\ Len(u) = n + pad /\ GoesOn(s, u) /\ s \o Blank(0) = s
      /\ \A i \in (Len(s) + 1)..Len(u) : u[i] = Empty
  <2>1. pad \in Nat
    BY <1>3
  <2>. HIDE DEF n
  <2>2. /\ s \o Blank(pad) \in Record /\ Len(s \o Blank(pad)) = Len(s) + pad
        /\ GoesOn(s, s \o Blank(pad)) /\ s \o Blank(0) = s
        /\ \A i \in (Len(s) + 1)..Len(s \o Blank(pad)) : (s \o Blank(pad))[i] = Empty
    BY <2>1, BlankFacts
  <2>. QED BY <2>2 DEF n
<1>5. CASE rem = 0
  <2>1. pad = 0 /\ u = s /\ n + pad = n
    BY <1>1, <1>3, <1>4, <1>5
  <2>. QED BY <1>1, <1>5, <2>1
<1>6. CASE rem /= 0
  <2>1. n + pad = m + B
    BY <1>1, <1>3, <1>6
  <2>2. m \in Nat /\ m <= n /\ m % 2^LOG_B = 0
    BY <1>1, <1>2, StartFacts, Cut
  <2>3. ClosedBlock(t) = Cells(u, m, 2^LOG_B)
    <3>1. ClosedBlock(t) = Cells(s, m, B)
      BY <1>1, ClosedBlockIsBlock
    <3>2. Cells(u, m, B) = Cells(s, m, B)
      <4>. HIDE DEF u, m
      <4>. QED BY <1>2, <1>4, <2>2, BlockStays
    <3>. QED BY <1>2, <3>1, <3>2
  <2>4. start \in Tree /\ start.nextLeafIndex = m /\ start.filledSubtrees = t.filledSubtrees
    <3>1. start.nextLeafIndex = m
      BY <1>1, <1>3 DEF Tree
    <3>2. start = [t EXCEPT !.nextLeafIndex = m]
      BY <1>1, <1>3 DEF Tree
    <3>. HIDE DEF m
    <3>. QED BY <1>1, <2>2, <3>1, <3>2 DEF Tree
  <2>. HIDE DEF m, start, u, n
  <2>5. FrontierOK(t.filledSubtrees, m, s)
    <3>1. SUFFICES ASSUME NEW i \in Level, Bit(m, i) = 1
                   PROVE  t.filledSubtrees[i] = Cells(s, Start(m, i) - 2^i, 2^i)
      BY DEF FrontierOK
    <3>2. i \in Nat
      BY <1>2 DEF Level
    <3>3. LOG_B <= i
      <4>1. i < LOG_B => Bit(m, i) = 0
        BY <1>2, <2>2, <3>2, AlignedBlock
      <4>. QED BY <1>2, <3>1, <3>2, <4>1
    <3>4. Start(m, i) = Start(n, i) /\ Bit(m, i) = Bit(n, i)
      BY <1>1, <1>2, <3>2, <3>3, Cut DEF m
    <3>. QED BY <1>1, <3>1, <3>4 DEF FrontierOK
  <2>6. FrontierOK(t.filledSubtrees, m, u)
    <3>1. m <= Len(s)
      BY <2>2 DEF n
    <3>. QED BY <1>4, <2>2, <2>5, <3>1, FrontierStays
  <2>7. HasFrontier(start, m, u)
    BY <2>4, <2>6 DEF HasFrontier
  <2>8. HasFrontier(_insertNode(start, Cells(u, m, 2^LOG_B), LOG_B), m + 2^LOG_B, u)
    <3>1. m + 2^LOG_B <= Capacity /\ Len(u) <= m + 2^LOG_B
      BY <1>2, <1>4, <2>1, <2>2 DEF n
    <3>. QED BY <1>2, <1>4, <2>2, <2>7, <3>1, Inserts
  <2>9. HasFrontier(_insertNode(start, ClosedBlock(t), LOG_B), n + pad, u)
    BY <1>2, <2>1, <2>3, <2>8
  <2>. QED BY <1>6, <2>9 DEF start, u, n
<1>. QED BY <1>5, <1>6

\* What is attached, in the contract and in the oracle.
LEMMA AttachGrows ==
    ASSUME NEW s \in Record, NEW t, IsTreeOf(t, s), BatchFits(t),
           NEW batch \in [1..B -> Cell]
    PROVE  LET u == s \o Padding(t) \o batch
           IN  /\ u \in Record
               /\ IsTreeOf(_attachSubtree(t, batch), u)
               /\ IsTreeOf(_insertNode(_padToBlockBoundary(t), batch, LOG_B), u)
<1> DEFINE n == Len(s)
           pad == (B - (n % B)) % B
           v == s \o Blank(pad)
           u == v \o batch
           rem == t.nextLeafIndex % B
           start == [t EXCEPT !.nextLeafIndex = @ - rem]
           closed == IF rem = 0 THEN t ELSE _insertNode(start, ClosedBlock(t), LOG_B)
           padded == CHOOSE f : IsPadded(f, t, pad)
<1>1. n \in Nat /\ t.nextLeafIndex = n
  BY DEF IsTreeOf, HasFrontier, Record
<1>2. /\ LOG_B \in 0..H /\ B = 2^LOG_B /\ B \in Nat /\ B > 0 /\ Capacity \in Nat
  BY ImtAssumption, TwoPower DEF B, Capacity
<1>3. pad \in Nat /\ (n + pad) % B = 0
  BY <1>1, PadFacts
<1>4. (n + pad) + B <= Capacity /\ n + pad <= Capacity
  <2>1. (n + pad) + B <= Capacity
    BY <1>1 DEF BatchFits
  <2>. HIDE DEF pad, n
  <2>. QED BY <1>1, <1>2, <1>3, <2>1
<1>5. Padding(t) = Blank(pad)
  BY <1>1 DEF Padding, Blank
<1>. HIDE DEF pad
<1>6. v \in Record /\ Len(v) = n + pad
  BY <1>3, BlankFacts
<1>7. HasFrontier(closed, n + pad, v)
  BY <1>4, PoolCloses DEF pad
<1>8. /\ _padToBlockBoundary(t) = padded[pad]
      /\ IsPadded(padded, t, pad)
  <2>1. _padToBlockBoundary(t) = padded[pad]
    BY <1>1 DEF _padToBlockBoundary, IsPadded, pad
  <2>2. \E f : IsPadded(f, t, pad)
    BY <1>3, PaddedExists
  <2>. QED BY <2>1, <2>2
<1>. HIDE DEF padded, n
<1>9. IsTreeOf(padded[pad], v)
  BY <1>3, <1>4, <1>8, PadsTheRecord DEF n
<1>. HIDE DEF v, closed
<1>10. /\ u \in Record /\ Len(u) = Len(v) + B /\ GoesOn(v, u)
       /\ batch = Cells(u, Len(v), 2^LOG_B)
  BY <1>2, <1>6, JoinFacts
<1>. HIDE DEF u
<1>11. ASSUME NEW x, HasFrontier(x, Len(v), v)
       PROVE  IsTreeOf(_insertNode(x, batch, LOG_B), u)
  <2>1. Len(v) % 2^LOG_B = 0 /\ Len(u) = Len(v) + 2^LOG_B /\ Len(u) <= Capacity
    BY <1>2, <1>3, <1>4, <1>6, <1>10
  <2>2. IsTreeOf(_insertNode(x, Cells(u, Len(v), 2^LOG_B), LOG_B), u)
    BY <1>2, <1>6, <1>10, <1>11, <2>1, Grows
  <2>. QED BY <1>10, <2>2
<1>12. IsTreeOf(_insertNode(closed, batch, LOG_B), u)
  BY <1>6, <1>7, <1>11
<1>13. IsTreeOf(_insertNode(padded[pad], batch, LOG_B), u)
  BY <1>9, <1>11 DEF IsTreeOf
<1>14. _attachSubtree(t, batch) = _insertNode(closed, batch, LOG_B)
  BY DEF _attachSubtree, closed
<1>15. s \o Padding(t) \o batch = u
  BY <1>5 DEF u, v
<1>. QED BY <1>8, <1>10, <1>12, <1>13, <1>14, <1>15

-----------------------------------------------------------------------------
(***************************************************************************)
(* The invariant: both trees are those of the record.                      *)
(***************************************************************************)
ImtInv == ~threw => leaves \in Record /\ IsTreeOf(pool, leaves) /\ IsTreeOf(oracle, leaves)

LEMMA EmptyTreeOfNone == IsTreeOf(EmptyTree, <<>>)
<1> DEFINE s == <<>>
<1>1. s \in Record /\ Len(s) = 0 /\ H \in 0..H /\ H \in Nat /\ Capacity \in Nat /\ 2^H = Capacity
  BY ImtAssumption, TwoPower DEF Record, Capacity
<1>. HIDE DEF s
<1>2. \A i \in Level : i \in Nat /\ i \in 0..H
  BY ImtAssumption DEF Level
<1>3. \A i \in 0..H : zeros[i] = Cells(s, 0, 2^i) /\ zeros[i] \in Record
  <2>1. ASSUME NEW i \in 0..H PROVE Cells(s, 0, 2^i) = zeros[i] /\ Cells(s, 0, 2^i) \in Record
    <3>1. i \in Nat /\ 2^i \in Nat
      BY TwoPower
    <3>2. Cells(s, 0, 2^i) = zeros[i]
      BY <1>1, EmptyBlock
    <3>3. Cells(s, 0, 2^i) \in Record
      BY <1>1, <3>1, BlockFacts
    <3>. QED BY <3>2, <3>3
  <2>. QED BY <2>1
<1>4. EmptyTree \in Tree
  <2>1. [i \in Level |-> zeros[i]] \in [Level -> Record]
    BY <1>2, <1>3
  <2>. QED BY <1>1, <1>3, <2>1 DEF EmptyTree, Tree
<1>5. ASSUME NEW i \in Level PROVE Bit(0, i) = 0
  <2>1. 2^(i + 1) \in Nat /\ 2^(i + 1) > 0 /\ i + 1 \in Nat /\ i < i + 1
    BY <1>2, TwoPower
  <2>2. 0 % 2^(i + 1) = 0
    BY <2>1
  <2>. QED BY <1>2, <2>1, <2>2, AlignedBlock
<1>6. HasFrontier(EmptyTree, 0, s)
  BY <1>4, <1>5 DEF HasFrontier, FrontierOK, EmptyTree
<1>7. EmptyTree.root = Cells(s, 0, Capacity)
  BY <1>1, <1>3 DEF EmptyTree
<1>8. Len(s) <= Capacity
  BY <1>1
<1>. QED BY <1>1, <1>6, <1>7, <1>8 DEF IsTreeOf, s

LEMMA ImtInitInv == ImtInit => ImtInv
BY EmptyTreeOfNone DEF ImtInit, ImtInv, Record

LEMMA ImtNextInv == ImtInv /\ [ImtNext]_imtVars => ImtInv'
<1>. SUFFICES ASSUME ImtInv, [ImtNext]_imtVars PROVE ImtInv'
  OBVIOUS
<1>1. ASSUME NEW leaf \in Leaf, AppendLeaf(leaf) PROVE ImtInv'
  <2>1. /\ leaves \in Record /\ IsTreeOf(pool, leaves) /\ IsTreeOf(oracle, leaves)
        /\ leaf \in Cell
    BY <1>1 DEF AppendLeaf, ImtInv, Cell
  <2>2. Len(leaves) + 1 <= Capacity
    <3>1. 2^0 = 1
      OBVIOUS
    <3>. QED BY <1>1, <2>1, <3>1 DEF AppendLeaf, HasRoom, IsTreeOf, HasFrontier
  <2>3. /\ IsTreeOf(_insertNode(pool, <<leaf>>, 0), Append(leaves, leaf))
        /\ IsTreeOf(_insertNode(oracle, <<leaf>>, 0), Append(leaves, leaf))
    BY <2>1, <2>2, GrowsByOne DEF IsTreeOf
  <2>4. Append(leaves, leaf) \in Record
    BY <2>1 DEF Record
  <2>. QED BY <1>1, <2>3, <2>4 DEF AppendLeaf, ImtInv
<1>2. ASSUME NEW batch \in Batch, Attach(batch) PROVE ImtInv'
  <2>1. /\ leaves \in Record /\ IsTreeOf(pool, leaves) /\ IsTreeOf(oracle, leaves)
        /\ batch \in [1..B -> Cell]
    BY <1>2, ImtAssumption DEF Attach, ImtInv, Cell, B
  <2>2. pool.nextLeafIndex = oracle.nextLeafIndex
    BY <2>1 DEF IsTreeOf, HasFrontier
  <2>3. BatchFits(pool) /\ BatchFits(oracle) /\ Padding(pool) = Padding(oracle)
    BY <1>2, <2>2 DEF Attach, BatchFits, Padding
  <2>4. /\ leaves \o Padding(oracle) \o batch \in Record
        /\ IsTreeOf(_attachSubtree(pool, batch), leaves \o Padding(oracle) \o batch)
    BY <2>1, <2>3, AttachGrows
  <2>5. IsTreeOf(_insertNode(_padToBlockBoundary(oracle), batch, LOG_B),
                 leaves \o Padding(oracle) \o batch)
    BY <2>1, <2>3, AttachGrows
  <2>. QED BY <1>2, <2>4, <2>5 DEF Attach, ImtInv
<1>3. ASSUME NEW batch \in Batch, AttachRefused(batch) PROVE ImtInv'
  BY <1>3 DEF AttachRefused, ImtInv
<1>4. CASE UNCHANGED imtVars
  BY <1>4 DEF imtVars, ImtInv
<1>. QED BY <1>1, <1>2, <1>3, <1>4 DEF ImtNext

\* The node of level i and place k is the block of the leaves below it.
LEMMA NodeIsBlock ==
    ASSUME NEW i \in Nat, NEW k \in Int
    PROVE  NodeAt(i, k) = Cells(leaves, k * 2^i, 2^i)
BY DEF NodeAt, Cells

-----------------------------------------------------------------------------
\* As long as nothing threw, the frontiers of both trees hold at every level where the
\* next place has a bit the full block of leaves to its left.
THEOREM ImtInvariant == ImtSpec => []ImtInv
<1>. QED BY ImtInitInv, ImtNextInv, PTL DEF ImtSpec

\* Appends and attachments in any order leave the contract with the oracle's root and
\* index, and that root is the Merkle root of all the leaves, recomputed with no
\* frontier (BongtuPool.sol, _insertNode and _attachSubtree; packages/core/src/imt.ts).
THEOREM ImtRootsAgree == ImtSpec => []RootsAgree
<1>1. naiveRoot = Cells(leaves, 0, Capacity)
  <2>1. H \in Nat /\ 2^H \in Nat
    BY ImtAssumption, TwoPower
  <2>2. NodeAt(H, 0) = Cells(leaves, 0 * 2^H, 2^H)
    BY <2>1, NodeIsBlock
  <2>3. 0 * 2^H = 0
    BY <2>1
  <2>. QED BY <2>2, <2>3 DEF naiveRoot, Capacity
<1>2. ImtInv => RootsAgree
  BY <1>1 DEF ImtInv, RootsAgree, IsTreeOf, HasFrontier
<1>. QED BY <1>2, ImtInvariant, PTL

-----------------------------------------------------------------------------
\* f is the way foldToRoot goes.
IsFolded(f, leaf, siblings, index) ==
    f = [i \in 0..H |-> IF i = 0 THEN <<leaf>>
                        ELSE IF Bit(index, i - 1) = 1 THEN poseidon(siblings[i - 1], f[i - 1])
                                                      ELSE poseidon(f[i - 1], siblings[i - 1])]

\* The sibling on the path of index is the other half of the block one level up.
LEMMA SiblingFits ==
    ASSUME leaves \in Record, NEW index \in Nat, NEW i \in Level
    PROVE  Cells(leaves, Start(index, i + 1), 2^(i + 1)) =
              IF Bit(index, i) = 1
              THEN poseidon(merklePath(index)[i], Cells(leaves, Start(index, i), 2^i))
              ELSE poseidon(Cells(leaves, Start(index, i), 2^i), merklePath(index)[i])
<1> DEFINE d == 2^i
           k == index \div d
           from == Start(index, i)
<1>1. i \in Nat
  BY ImtAssumption DEF Level
<1>2. /\ d \in Nat /\ d > 0 /\ 2^(i + 1) = 2 * d
      /\ k \in Nat /\ k * d = from /\ from \in Nat /\ Start(index, i + 1) \in Nat
      /\ Start(index, i + 1) = from - (IF Bit(index, i) = 1 THEN d ELSE 0)
  BY <1>1, StartFacts, TwoPower
<1>3. Bit(index, i) = k % 2
  BY DEF Bit
<1>4. merklePath(index)[i] = IF k % 2 = 1 THEN NodeAt(i, k - 1) ELSE NodeAt(i, k + 1)
  BY DEF merklePath
<1>5. /\ NodeAt(i, k - 1) = Cells(leaves, (k - 1) * d, d)
      /\ NodeAt(i, k + 1) = Cells(leaves, (k + 1) * d, d)
  <2>1. k - 1 \in Int /\ k + 1 \in Int
    BY <1>2
  <2>. HIDE DEF k
  <2>. QED BY <1>1, <2>1, NodeIsBlock
<1>. HIDE DEF d, k, from
<1>6. (k - 1) * d = from - d /\ (k + 1) * d = from + d
  BY <1>2
<1>7. CASE Bit(index, i) = 1
  <2> DEFINE left == from - d
  <2>1. left \in Nat /\ left + d = from /\ left = Start(index, i + 1)
    BY <1>2, <1>7
  <2>2. merklePath(index)[i] = Cells(leaves, left, d)
    BY <1>3, <1>4, <1>5, <1>6, <1>7
  <2>. HIDE DEF left
  <2>3. Cells(leaves, left, d) \o Cells(leaves, left + d, d) = Cells(leaves, left, 2 * d)
    BY <1>2, <2>1, BlockJoin
  <2>4. Cells(leaves, Start(index, i + 1), 2^(i + 1)) = poseidon(merklePath(index)[i], Cells(leaves, from, d))
    BY <1>2, <2>1, <2>2, <2>3 DEF poseidon
  <2>. QED BY <1>7, <2>4 DEF from, d
<1>8. CASE Bit(index, i) /= 1
  <2>1. Start(index, i + 1) = from
    BY <1>2, <1>8
  <2>2. merklePath(index)[i] = Cells(leaves, from + d, d)
    BY <1>3, <1>4, <1>5, <1>6, <1>8
  <2>3. Cells(leaves, from, d) \o Cells(leaves, from + d, d) = Cells(leaves, from, 2 * d)
    BY <1>2, BlockJoin
  <2>4. Cells(leaves, Start(index, i + 1), 2^(i + 1)) = poseidon(Cells(leaves, from, d), merklePath(index)[i])
    BY <1>2, <2>1, <2>2, <2>3 DEF poseidon
  <2>. QED BY <1>8, <2>4 DEF from, d
<1>. QED BY <1>7, <1>8

LEMMA FoldsToTheRoot ==
    ASSUME leaves \in Record, Len(leaves) <= Capacity, NEW index \in 0..(Len(leaves) - 1)
    PROVE  foldToRoot(leaves[index + 1], merklePath(index), index) = Cells(leaves, 0, Capacity)
<1> DEFINE leaf == leaves[index + 1]
           path == merklePath(index)
           f == CHOOSE h : IsFolded(h, leaf, path, index)
           g == [i \in 0..H |-> Cells(leaves, Start(index, i), 2^i)]
<1>1. /\ index \in Nat /\ index + 1 \in 1..Len(leaves) /\ H \in Nat /\ Len(leaves) \in Nat
      /\ Capacity = 2^H /\ 2^H \in Nat /\ 2^H > 0 /\ index < 2^H
  BY ImtAssumption, TwoPower DEF Record, Capacity
<1>2. Start(index, 0) = index /\ 2^0 = 1
  BY <1>1, StartFacts
<1>3. Cells(leaves, Start(index, 0), 2^0) = <<leaf>>
  <2>1. \A j \in 1..1 : j = 1 /\ index + j <= Len(leaves)
    BY <1>1
  <2>2. Cells(leaves, index, 1) = [j \in 1..1 |-> leaf]
    BY <2>1 DEF Cells
  <2>3. [j \in 1..1 |-> leaf] = <<leaf>>
    OBVIOUS
  <2>. QED BY <1>2, <2>2, <2>3
<1>4. ASSUME NEW i \in 0..(H - 1)
      PROVE  /\ i \in 0..H /\ i + 1 \in 0..H /\ i + 1 /= 0 /\ (i + 1) - 1 = i
             /\ Cells(leaves, Start(index, i + 1), 2^(i + 1)) =
                  IF Bit(index, i) = 1 THEN poseidon(path[i], Cells(leaves, Start(index, i), 2^i))
                                       ELSE poseidon(Cells(leaves, Start(index, i), 2^i), path[i])
  <2>1. i \in 0..H /\ i + 1 \in 0..H /\ i + 1 /= 0 /\ (i + 1) - 1 = i
    BY <1>1
  <2>2. i \in Level
    BY DEF Level
  <2>. QED BY <1>1, <2>1, <2>2, SiblingFits
<1>. HIDE DEF leaf, path
<1>5. ASSUME NEW i \in 0..H
      PROVE  g[i] = IF i = 0 THEN <<leaf>>
                    ELSE IF Bit(index, i - 1) = 1 THEN poseidon(path[i - 1], g[i - 1])
                                                  ELSE poseidon(g[i - 1], path[i - 1])
  <2>1. CASE i = 0
    BY <1>3, <2>1
  <2>2. CASE i /= 0
    <3> DEFINE j == i - 1
    <3>1. j \in 0..(H - 1) /\ i = j + 1
      BY <1>1, <2>2
    <3>. HIDE DEF j
    <3>2. i - 1 = j /\ g[i] = Cells(leaves, Start(index, i), 2^i) /\ g[j] = Cells(leaves, Start(index, j), 2^j)
      BY <1>4, <3>1
    <3>. HIDE DEF g
    <3>. QED BY <1>4, <2>2, <3>1, <3>2
  <2>. QED BY <2>1, <2>2
<1>6. IsFolded(g, leaf, path, index)
  <2>1. g = [i \in 0..H |-> g[i]]
    OBVIOUS
  <2>. HIDE DEF g
  <2>. QED BY <1>5, <2>1 DEF IsFolded
<1>7. IsFolded(f, leaf, path, index)
  <2>. HIDE DEF g
  <2>. QED BY <1>6
<1>8. foldToRoot(leaf, path, index) = f[H]
  BY DEF foldToRoot, IsFolded
<1>. HIDE DEF f
<1>9. GoAlike(f, g, 0, H)
  <2>1. \A i \in 0..H : f[i] = IF i = 0 THEN <<leaf>>
                    ELSE IF Bit(index, i - 1) = 1 THEN poseidon(path[i - 1], f[i - 1])
                                                  ELSE poseidon(f[i - 1], path[i - 1])
    BY <1>7 DEF IsFolded
  <2>2. 0 \in 0..H
    BY <1>1
  <2>. HIDE DEF g
  <2>. QED BY <1>4, <1>5, <2>1, <2>2 DEF GoAlike
<1>10. f[H] = g[H]
  <2>1. H \in 0..H
    BY <1>1
  <2>. HIDE DEF g
  <2>. QED BY <1>1, <1>9, <2>1, StepByStep
<1>11. g[H] = Cells(leaves, 0, Capacity)
  <2>1. index = (2^H * 0) + index /\ index \in 0..(2^H - 1)
    BY <1>1
  <2>2. index % 2^H = index
    BY <1>1, <2>1, Division
  <2>3. Start(index, H) = 0
    BY <1>1, <2>2 DEF Start
  <2>. QED BY <1>1, <2>3
<1>. QED BY <1>8, <1>10, <1>11 DEF leaf, path

\* Every recorded leaf folds back along its merklePath to the root the contract has,
\* whatever was appended, padded or attached since (packages/core/src/imt.ts, merklePath).
THEOREM ImtPathsFoldToTheRoot == ImtSpec => []PathsFoldToTheRoot
<1>1. ImtInv => PathsFoldToTheRoot
  BY FoldsToTheRoot DEF ImtInv, PathsFoldToTheRoot, IsTreeOf
<1>. QED BY <1>1, ImtInvariant, PTL

-----------------------------------------------------------------------------
(***************************************************************************)
(* What the logs at some places of a chain L come to.                      *)
(***************************************************************************)
FamilyIn(L, S) == {i \in S : IsFamily(L[i])}
FeedIn(L, S) == [k \in 1..Cardinality(FamilyIn(L, S)) |-> L[InOrder(FamilyIn(L, S))[k]].leaf]

LogsOf(L, S, m) == {i \in S : IsRegistry(L[i], m)}
Lasting(L, S, m) == \E i \in LogsOf(L, S, m) : /\ L[i].name = "ModuleRegistered"
                                               /\ \A j \in LogsOf(L, S, m) : j <= i
StatusIn(L, S, m) == IF LogsOf(L, S, m) = {} THEN "unknown"
                     ELSE IF Lasting(L, S, m) THEN "registered" ELSE "removed"
RegistryIn(L, S) == [m \in Module |-> StatusIn(L, S, m)]

AcceptsIn(L, S) == {<<L[i].leaf, L[i].chunk>> : i \in {j \in S : L[j].name = "Accepted"}}
BatchesIn(L, S) ==
    {[leaf |-> L[i].leaf, module |-> L[i].from] : i \in {j \in S : L[j].name = "Disbursed"}}
LeavesIn(L, S) == {L[i].leaf : i \in {j \in S : IsTree(L[j])}}

LEMMA FeedInIs ==
    ASSUME NEW L, NEW n \in Nat
    PROVE  /\ FamilyIn(L, 1..n) \subseteq Nat /\ IsFiniteSet(FamilyIn(L, 1..n))
           /\ Cardinality(FamilyIn(L, 1..n)) \in Nat
           /\ IsSeq(FeedIn(L, 1..n))
           /\ Len(FeedIn(L, 1..n)) = Cardinality(FamilyIn(L, 1..n))
           /\ ToSet(FeedIn(L, 1..n)) = {L[i].leaf : i \in FamilyIn(L, 1..n)}
<1>1. PICK S : S = FamilyIn(L, 1..n)
  OBVIOUS
<1>2. S \subseteq 1..n
  BY <1>1 DEF FamilyIn
<1>3. S \subseteq Nat /\ IsFiniteSet(S) /\ Cardinality(S) \in Nat
  <2>1. IsFiniteSet(1..n)
    <3>1. 1 \in Int /\ n \in Int
      OBVIOUS
    <3>. QED BY <3>1, FS_Interval
  <2>2. IsFiniteSet(S)
    BY <1>2, <2>1, FS_Subset
  <2>3. Cardinality(S) \in Nat
    BY <2>2, FS_CardinalityType
  <2>4. S \subseteq Nat
    BY <1>2
  <2>. QED BY <2>2, <2>3, <2>4
<1>4. PICK f : f = FeedIn(L, 1..n)
  OBVIOUS
<1>5. f = [k \in 1..Cardinality(S) |-> L[InOrder(S)[k]].leaf]
  BY <1>1, <1>4 DEF FeedIn
<1>6. IsSeq(f) /\ Len(f) = Cardinality(S) /\ DOMAIN f = 1..Cardinality(S)
  <2>1. f = [k \in 1..Cardinality(S) |-> f[k]] /\ DOMAIN f = 1..Cardinality(S)
    BY <1>5
  <2>. QED BY ONLY <1>3, <2>1, FunIsSeq
<1>7. ToSet(f) = {L[i].leaf : i \in S}
  <2>1. ASSUME NEW k \in DOMAIN f PROVE f[k] \in {L[i].leaf : i \in S}
    <3>1. k \in 1..Cardinality(S)
      BY <1>6
    <3>2. InOrder(S)[k] \in S
      BY <1>3, <3>1, InOrderMembers
    <3>. QED BY <1>5, <3>1, <3>2
  <2>2. ASSUME NEW i \in S PROVE L[i].leaf \in ToSet(f)
    <3>1. PICK k : k = Cardinality(Lower(S, i)) + 1
      OBVIOUS
    <3>2. k \in 1..Cardinality(S) /\ InOrder(S)[k] = i
      BY <1>3, <3>1, NthIs
    <3>3. f[k] = L[i].leaf
      BY <1>5, <3>2
    <3>. QED BY <1>6, <3>2, <3>3 DEF ToSet
  <2>. QED BY <2>1, <2>2 DEF ToSet
<1>. QED BY <1>1, <1>3, <1>4, <1>6, <1>7

\* A chain and its continuation say the same of the places both have.
LEMMA SameIn ==
    ASSUME NEW L, NEW M, NEW n \in Nat, \A i \in 1..n : M[i] = L[i]
    PROVE  /\ FeedIn(M, 1..n) = FeedIn(L, 1..n)
           /\ RegistryIn(M, 1..n) = RegistryIn(L, 1..n)
           /\ AcceptsIn(M, 1..n) = AcceptsIn(L, 1..n)
           /\ BatchesIn(M, 1..n) = BatchesIn(L, 1..n)
           /\ LeavesIn(M, 1..n) = LeavesIn(L, 1..n)
<1>1. FamilyIn(M, 1..n) = FamilyIn(L, 1..n)
  BY DEF FamilyIn
<1>2. PICK S : S = FamilyIn(L, 1..n)
  OBVIOUS
<1>3. FeedIn(M, 1..n) = FeedIn(L, 1..n)
  <2>1. ASSUME NEW k \in 1..Cardinality(S)
        PROVE  M[InOrder(S)[k]].leaf = L[InOrder(S)[k]].leaf
    <3>1. S \subseteq Nat /\ IsFiniteSet(S)
      BY <1>2, FeedInIs
    <3>2. InOrder(S)[k] \in S
      BY <3>1, InOrderMembers
    <3>3. InOrder(S)[k] \in 1..n
      BY <1>2, <3>2 DEF FamilyIn
    <3>. QED BY <3>3
  <2>2. /\ FeedIn(M, 1..n) = [k \in 1..Cardinality(S) |-> M[InOrder(S)[k]].leaf]
        /\ FeedIn(L, 1..n) = [k \in 1..Cardinality(S) |-> L[InOrder(S)[k]].leaf]
    BY <1>1, <1>2 DEF FeedIn
  <2>. QED BY <2>1, <2>2
<1>4. RegistryIn(M, 1..n) = RegistryIn(L, 1..n)
  <2>1. ASSUME NEW m \in Module PROVE StatusIn(M, 1..n, m) = StatusIn(L, 1..n, m)
    <3>1. LogsOf(M, 1..n, m) = LogsOf(L, 1..n, m)
      BY DEF LogsOf
    <3>2. \A i \in LogsOf(L, 1..n, m) : M[i] = L[i]
      BY DEF LogsOf
    <3>. QED BY <3>1, <3>2 DEF StatusIn, Lasting
  <2>. QED BY <2>1 DEF RegistryIn
<1>5. AcceptsIn(M, 1..n) = AcceptsIn(L, 1..n)
  BY DEF AcceptsIn
<1>6. BatchesIn(M, 1..n) = BatchesIn(L, 1..n)
  BY DEF BatchesIn
<1>7. LeavesIn(M, 1..n) = LeavesIn(L, 1..n)
  BY DEF LeavesIn
<1>. QED BY <1>3, <1>4, <1>5, <1>6, <1>7

\* Tree events alone say nothing to the feed, the registry and the chunks.
LEMMA TreeIsSilent ==
    ASSUME NEW L, NEW p \in Nat, NEW q \in Nat, p <= q,
           \A i \in (p + 1)..q : IsTree(L[i])
    PROVE  /\ FeedIn(L, 1..p) = FeedIn(L, 1..q)
           /\ RegistryIn(L, 1..p) = RegistryIn(L, 1..q)
           /\ AcceptsIn(L, 1..p) = AcceptsIn(L, 1..q)
           /\ BatchesIn(L, 1..p) = BatchesIn(L, 1..q)
<1>1. \A i \in 1..q : i \in 1..p \/ L[i].name \in {"Appended", "SubtreeAppended"}
  BY DEF IsTree
<1>2. 1..p \subseteq 1..q
  OBVIOUS
<1>3. FamilyIn(L, 1..p) = FamilyIn(L, 1..q)
  BY <1>1, <1>2 DEF FamilyIn, IsFamily
<1>4. \A m : LogsOf(L, 1..p, m) = LogsOf(L, 1..q, m)
  BY <1>1, <1>2 DEF LogsOf, IsRegistry
<1>5. /\ {j \in 1..p : L[j].name = "Accepted"} = {j \in 1..q : L[j].name = "Accepted"}
      /\ {j \in 1..p : L[j].name = "Disbursed"} = {j \in 1..q : L[j].name = "Disbursed"}
  BY <1>1, <1>2
<1>6. FeedIn(L, 1..p) = FeedIn(L, 1..q)
  BY <1>3 DEF FeedIn
<1>7. RegistryIn(L, 1..p) = RegistryIn(L, 1..q)
  BY <1>4 DEF RegistryIn, StatusIn, Lasting
<1>8. AcceptsIn(L, 1..p) = AcceptsIn(L, 1..q)
  BY <1>5 DEF AcceptsIn
<1>9. BatchesIn(L, 1..p) = BatchesIn(L, 1..q)
  BY <1>5 DEF BatchesIn
<1>. QED BY <1>6, <1>7, <1>8, <1>9

\* What one more log adds.
LEMMA FeedGrows ==
    ASSUME NEW L, NEW n \in Nat
    PROVE  FeedIn(L, 1..(n + 1)) = IF IsFamily(L[n + 1])
                                   THEN Append(FeedIn(L, 1..n), L[n + 1].leaf)
                                   ELSE FeedIn(L, 1..n)
<1>1. 1..(n + 1) = (1..n) \cup {n + 1}
  OBVIOUS
<1>2. CASE ~IsFamily(L[n + 1])
  <2>1. FamilyIn(L, 1..(n + 1)) = FamilyIn(L, 1..n)
    BY <1>1, <1>2 DEF FamilyIn
  <2>. QED BY <1>2, <2>1 DEF FeedIn
<1>3. CASE IsFamily(L[n + 1])
  <2>1. PICK S, c, f : S = FamilyIn(L, 1..n) /\ c = Cardinality(S) /\ f = FeedIn(L, 1..n)
    OBVIOUS
  <2>2. FamilyIn(L, 1..(n + 1)) = S \cup {n + 1}
    BY <1>1, <1>3, <2>1 DEF FamilyIn
  <2>3. S \subseteq Nat /\ IsFiniteSet(S) /\ IsSeq(f) /\ Len(f) = c /\ c \in Nat
    BY <2>1, FeedInIs
  <2>4. /\ Cardinality(S \cup {n + 1}) = c + 1
        /\ \A k \in 1..c : InOrder(S \cup {n + 1})[k] = InOrder(S)[k]
        /\ InOrder(S \cup {n + 1})[c + 1] = n + 1
    <3>1. PICK i \in Nat : i = n + 1
      OBVIOUS
    <3>2. \A j \in S : j < i
      BY <2>1, <3>1 DEF FamilyIn
    <3>3. /\ Cardinality(S \cup {i}) = Cardinality(S) + 1
          /\ \A k \in 1..Cardinality(S) : InOrder(S \cup {i})[k] = InOrder(S)[k]
          /\ InOrder(S \cup {i})[Cardinality(S) + 1] = i
      BY <2>3, <3>2, InOrderAdd
    <3>. QED BY <2>1, <3>1, <3>3
  <2>5. f = [k \in 1..c |-> L[InOrder(S)[k]].leaf]
    BY <2>1 DEF FeedIn
  <2>6. FeedIn(L, 1..(n + 1)) = [k \in 1..(c + 1) |-> L[InOrder(S \cup {n + 1})[k]].leaf]
    BY <2>2, <2>4 DEF FeedIn
  <2>7. ASSUME NEW x
        PROVE  Append(f, x) = [k \in 1..(c + 1) |-> IF k = c + 1 THEN x ELSE f[k]]
    <3>1. PICK T : f \in Seq(T)
      BY <2>3 DEF IsSeq
    <3>2. f \in Seq(T \cup {x})
      BY <3>1
    <3>3. PICK r : r = Append(f, x)
      OBVIOUS
    <3>4. /\ r \in Seq(T \cup {x}) /\ Len(r) = c + 1
          /\ \A k \in 1..(c + 1) : r[k] = IF k = c + 1 THEN x ELSE f[k]
      BY <2>3, <3>2, <3>3
    <3>5. r = [k \in 1..(c + 1) |-> r[k]]
      BY <3>4
    <3>. QED BY <3>3, <3>4, <3>5
  <2>8. ASSUME NEW k \in 1..(c + 1)
        PROVE  L[InOrder(S \cup {n + 1})[k]].leaf =
                   IF k = c + 1 THEN L[n + 1].leaf ELSE f[k]
    <3>1. CASE k = c + 1
      BY <2>4, <3>1
    <3>2. CASE k # c + 1
      <4>1. k \in 1..c
        BY <2>3, <3>2
      <4>. QED BY <2>4, <2>5, <3>2, <4>1
    <3>. QED BY <3>1, <3>2
  <2>9. FeedIn(L, 1..(n + 1)) = [k \in 1..(c + 1) |-> IF k = c + 1 THEN L[n + 1].leaf ELSE f[k]]
    BY <2>6, <2>8
  <2>10. FeedIn(L, 1..(n + 1)) = Append(f, L[n + 1].leaf)
    BY <2>7, <2>9
  <2>. QED BY <1>3, <2>1, <2>10
<1>. QED BY <1>2, <1>3

\* The feed of fewer logs is the first part of that of more.
LEMMA FeedPrefix ==
    ASSUME NEW L, NEW p \in Nat, NEW q \in Nat, p <= q
    PROVE  /\ Len(FeedIn(L, 1..p)) \in Nat /\ Len(FeedIn(L, 1..q)) \in Nat
           /\ Len(FeedIn(L, 1..p)) <= Len(FeedIn(L, 1..q))
           /\ \A k \in 1..Len(FeedIn(L, 1..p)) : FeedIn(L, 1..p)[k] = FeedIn(L, 1..q)[k]
<1>1. PICK S, R, c, d : /\ S = FamilyIn(L, 1..p) /\ R = FamilyIn(L, 1..q)
                        /\ c = Cardinality(S) /\ d = Cardinality(R)
  OBVIOUS
<1>2. /\ R \subseteq Nat /\ IsFiniteSet(R) /\ c \in Nat /\ d \in Nat
      /\ Len(FeedIn(L, 1..p)) = c /\ Len(FeedIn(L, 1..q)) = d
  BY <1>1, FeedInIs
<1>3. S \subseteq R /\ \A i \in S, j \in R : j < i => j \in S
  BY <1>1 DEF FamilyIn
<1>4. c <= d /\ \A k \in 1..c : InOrder(R)[k] = InOrder(S)[k]
  BY <1>1, <1>2, <1>3, InOrderLower
<1>5. ASSUME NEW k \in 1..c PROVE FeedIn(L, 1..p)[k] = FeedIn(L, 1..q)[k]
  <2>1. FeedIn(L, 1..p)[k] = L[InOrder(S)[k]].leaf
    BY <1>1 DEF FeedIn
  <2>2. k \in 1..d
    BY <1>2, <1>4
  <2>3. FeedIn(L, 1..q)[k] = L[InOrder(R)[k]].leaf
    BY <1>1, <2>2 DEF FeedIn
  <2>. QED BY <1>4, <2>1, <2>3
<1>. QED BY <1>2, <1>4, <1>5

\* Leaves that differ from place to place differ from entry to entry.
LEMMA FeedApart ==
    ASSUME NEW L, NEW n \in Nat,
           \A i, j \in FamilyIn(L, 1..n) : L[i].leaf = L[j].leaf => i = j
    PROVE  \A k, l \in 1..Len(FeedIn(L, 1..n)) :
               FeedIn(L, 1..n)[k] = FeedIn(L, 1..n)[l] => k = l
<1>1. PICK S, c : S = FamilyIn(L, 1..n) /\ c = Cardinality(S)
  OBVIOUS
<1>2. S \subseteq Nat /\ IsFiniteSet(S) /\ c \in Nat /\ Len(FeedIn(L, 1..n)) = c
  BY <1>1, FeedInIs
<1>3. ASSUME NEW k \in 1..c, NEW l \in 1..c, FeedIn(L, 1..n)[k] = FeedIn(L, 1..n)[l]
      PROVE  k = l
  <2>1. /\ InOrder(S)[k] \in S /\ InOrder(S)[l] \in S
        /\ Cardinality(Lower(S, InOrder(S)[k])) = k - 1
        /\ Cardinality(Lower(S, InOrder(S)[l])) = l - 1
    BY <1>1, <1>2, NthRank
  <2>2. L[InOrder(S)[k]].leaf = L[InOrder(S)[l]].leaf
    BY <1>1, <1>3 DEF FeedIn
  <2>3. InOrder(S)[k] = InOrder(S)[l]
    BY <1>1, <2>1, <2>2
  <2>4. k - 1 = l - 1
    BY <2>1, <2>3
  <2>. QED BY <1>2, <2>4
<1>. QED BY <1>2, <1>3

LEMMA RegistryGrows ==
    ASSUME NEW L, NEW n \in Nat, NEW m \in Module
    PROVE  RegistryIn(L, 1..(n + 1))[m] =
               IF ~IsRegistry(L[n + 1], m) THEN RegistryIn(L, 1..n)[m]
               ELSE IF L[n + 1].name = "ModuleRegistered" THEN "registered" ELSE "removed"
<1>1. 1..(n + 1) = (1..n) \cup {n + 1} /\ n + 1 \notin 1..n
  OBVIOUS
<1>2. /\ RegistryIn(L, 1..(n + 1))[m] = StatusIn(L, 1..(n + 1), m)
      /\ RegistryIn(L, 1..n)[m] = StatusIn(L, 1..n, m)
  BY DEF RegistryIn
<1>3. CASE ~IsRegistry(L[n + 1], m)
  <2>1. LogsOf(L, 1..(n + 1), m) = LogsOf(L, 1..n, m)
    BY <1>1, <1>3 DEF LogsOf
  <2>. QED BY <1>2, <1>3, <2>1 DEF StatusIn, Lasting
<1>4. CASE IsRegistry(L[n + 1], m)
  <2>1. PICK S : S = LogsOf(L, 1..(n + 1), m)
    OBVIOUS
  <2>2. n + 1 \in S /\ \A j \in S : j \in Nat /\ j <= n + 1
    BY <1>1, <1>4, <2>1 DEF LogsOf
  <2>3. ASSUME NEW i \in S, \A j \in S : j <= i PROVE i = n + 1
    BY <2>2, <2>3
  <2>4. Lasting(L, 1..(n + 1), m) <=> L[n + 1].name = "ModuleRegistered"
    BY <2>1, <2>2, <2>3 DEF Lasting
  <2>5. S # {}
    BY <2>2
  <2>. QED BY <1>2, <1>4, <2>1, <2>4, <2>5 DEF StatusIn
<1>. QED BY <1>3, <1>4

\* A module that became registered was registered in between.
LEMMA Registers ==
    ASSUME NEW L, NEW p \in Nat, NEW q \in Nat, p <= q, NEW m \in Module,
           RegistryIn(L, 1..p)[m] # "registered", RegistryIn(L, 1..q)[m] = "registered"
    PROVE  \E j \in (p + 1)..q : L[j].name = "ModuleRegistered" /\ L[j].module = m
<1>1. /\ StatusIn(L, 1..p, m) # "registered" /\ StatusIn(L, 1..q, m) = "registered"
  BY DEF RegistryIn
<1>2. Lasting(L, 1..q, m)
  BY <1>1 DEF StatusIn
<1>3. PICK i \in LogsOf(L, 1..q, m) : /\ L[i].name = "ModuleRegistered"
                                      /\ \A j \in LogsOf(L, 1..q, m) : j <= i
  BY <1>2 DEF Lasting
<1>4. i \in 1..q /\ IsRegistry(L[i], m)
  BY DEF LogsOf
<1>5. ~(i <= p)
  <2>1. SUFFICES ASSUME i <= p PROVE FALSE
    OBVIOUS
  <2>2. i \in LogsOf(L, 1..p, m)
    BY <1>4, <2>1 DEF LogsOf
  <2>3. \A j \in LogsOf(L, 1..p, m) : j \in LogsOf(L, 1..q, m)
    BY DEF LogsOf
  <2>4. Lasting(L, 1..p, m)
    BY <1>3, <2>2, <2>3 DEF Lasting
  <2>. QED BY <1>1, <2>2, <2>4 DEF StatusIn
<1>6. i \in (p + 1)..q
  BY <1>4, <1>5
<1>. QED BY <1>3, <1>4, <1>6 DEF IsRegistry

\* Once known, a module stays known.
LEMMA StaysKnown ==
    ASSUME NEW L, NEW p \in Nat, NEW q \in Nat, p <= q, NEW m \in Module,
           RegistryIn(L, 1..p)[m] # "unknown"
    PROVE  RegistryIn(L, 1..q)[m] # "unknown"
<1>1. StatusIn(L, 1..p, m) # "unknown"
  BY DEF RegistryIn
<1>2. LogsOf(L, 1..p, m) # {}
  BY <1>1 DEF StatusIn
<1>3. LogsOf(L, 1..p, m) \subseteq LogsOf(L, 1..q, m)
  BY DEF LogsOf
<1>. QED BY <1>2, <1>3 DEF StatusIn, RegistryIn

-----------------------------------------------------------------------------
(***************************************************************************)
(* The chain.  Every log fits what was before it: blocks do not go back, a *)
(* registry log has its block alone, a family event follows its tree event *)
(* and comes from the pool or from a module registered by then, leaves are *)
(* dense, the registry is balanced, and a chunk is accepted once, after    *)
(* its batch.                                                              *)
(***************************************************************************)
Names == {"Appended", "SubtreeAppended", "Op", "Disbursed", "Accepted",
          "ModuleRegistered", "ModuleRemoved"}

IsOnRegistry(l) == l.name \in {"ModuleRegistered", "ModuleRemoved"}

LogOK(l) ==
    /\ l.name \in Names
    /\ l.block \in Nat \ {0}
    /\ l.from \in Module \cup {Pool}
    /\ IsTree(l) => l.from = Pool /\ l.leaf \in Nat
    /\ IsFamily(l) => l.leaf \in Nat
    /\ l.name = "Disbursed" => l.from \in Module
    /\ l.name = "Accepted" => l.from \in Module /\ l.leaf \in Nat /\ l.chunk \in Chunk
    /\ IsOnRegistry(l) => l.from = Pool /\ l.module \in Module

InOrderOfBlocks(L, k) ==
    \A i \in 1..(k - 1) : /\ L[i].block <= L[k].block
                          /\ IsOnRegistry(L[i]) \/ IsOnRegistry(L[k]) => L[i].block < L[k].block

Follows(L, k) ==
    IsFamily(L[k]) =>
        /\ k # 1 /\ IsTree(L[k - 1])
        /\ L[k - 1].leaf = L[k].leaf /\ L[k - 1].block = L[k].block
        /\ L[k].name = "Disbursed" <=> L[k - 1].name = "SubtreeAppended"
        /\ L[k].from \in Module => RegistryIn(L, 1..(k - 1))[L[k].from] = "registered"

Fits(L, k) ==
    /\ LogOK(L[k])
    /\ InOrderOfBlocks(L, k)
    /\ Follows(L, k)
    /\ IsTree(L[k]) => LeavesIn(L, 1..(k - 1)) = 0..(L[k].leaf - 1)
    /\ IsOnRegistry(L[k]) =>
           (L[k].name = "ModuleRegistered" <=>
                RegistryIn(L, 1..(k - 1))[L[k].module] # "registered")
    /\ L[k].name = "Accepted" =>
           /\ \E d \in 1..(k - 1) : /\ L[d].name = "Disbursed"
                                    /\ L[d].leaf = L[k].leaf /\ L[d].from = L[k].from
           /\ <<L[k].leaf, L[k].chunk>> \notin AcceptsIn(L, 1..(k - 1))

\* No tree event is left without the family event that claims its leaf.
Spoken(L) == \A i \in 1..Len(L) : IsTree(L[i]) => i + 1 \in 1..Len(L) /\ IsFamily(L[i + 1])

ChainOK(L) ==
    /\ IsSeq(L)
    /\ \A k \in 1..Len(L) : Fits(L, k)
    /\ Spoken(L)
    /\ \E n \in Nat : LeavesIn(L, 1..Len(L)) = 0..(n - 1)

\* The places of the logs up to a block are the first q ones.
Upto(L, b, q) == q \in 0..Len(L) /\ \A i \in 1..Len(L) : L[i].block <= b <=> i <= q

LEMMA ChainFacts ==
    ASSUME NEW L, ChainOK(L)
    PROVE  /\ Len(L) \in Nat /\ DOMAIN L = 1..Len(L)
           /\ \A i \in 1..Len(L) : L[i].block \in Nat \ {0} /\ LogOK(L[i])
           /\ \A i, j \in 1..Len(L) : i <= j => L[i].block <= L[j].block
           /\ \A i, j \in 1..Len(L) : i < j /\ (IsOnRegistry(L[i]) \/ IsOnRegistry(L[j]))
                                      => L[i].block < L[j].block
<1>1. Len(L) \in Nat /\ DOMAIN L = 1..Len(L)
  BY SeqFacts DEF ChainOK
<1>2. \A k \in 1..Len(L) : LogOK(L[k]) /\ InOrderOfBlocks(L, k)
  BY DEF ChainOK, Fits
<1>3. \A i \in 1..Len(L) : L[i].block \in Nat \ {0}
  BY <1>2 DEF LogOK
<1>4. ASSUME NEW i \in 1..Len(L), NEW j \in 1..Len(L), i < j
      PROVE  /\ L[i].block <= L[j].block
             /\ IsOnRegistry(L[i]) \/ IsOnRegistry(L[j]) => L[i].block < L[j].block
  <2>1. i \in 1..(j - 1)
    BY <1>1, <1>4
  <2>. QED BY <1>2, <2>1 DEF InOrderOfBlocks
<1>5. ASSUME NEW i \in 1..Len(L), NEW j \in 1..Len(L), i <= j
      PROVE  L[i].block <= L[j].block
  <2>1. CASE i = j
    BY <1>3, <2>1
  <2>2. CASE i # j
    BY <1>1, <1>4, <1>5, <2>2
  <2>. QED BY <2>1, <2>2
<1>. QED BY <1>1, <1>2, <1>3, <1>4, <1>5

LEMMA UptoExists ==
    ASSUME NEW L, ChainOK(L), NEW b \in Nat
    PROVE  \E q : Upto(L, b, q)
<1>1. PICK S : S = {i \in 1..Len(L) : ~(L[i].block <= b)}
  OBVIOUS
<1>2. Len(L) \in Nat /\ S \subseteq Nat
  BY <1>1, ChainFacts
<1>3. CASE S = {}
  BY <1>1, <1>2, <1>3 DEF Upto
<1>4. CASE S # {}
  <2>1. PICK k \in S : \A j \in S : k <= j
    BY <1>2, <1>4, LeastNatural
  <2>2. k \in 1..Len(L) /\ ~(L[k].block <= b)
    BY <1>1, <2>1
  <2>3. ASSUME NEW i \in 1..Len(L) PROVE L[i].block <= b <=> i <= k - 1
    <3>1. CASE i < k
      BY <1>1, <1>2, <2>1, <2>2, <3>1
    <3>2. CASE ~(i < k)
      <4>1. L[k].block <= L[i].block
        BY <1>2, <2>2, <3>2, ChainFacts
      <4>2. L[k].block \in Nat /\ L[i].block \in Nat
        BY <2>2, ChainFacts
      <4>. QED BY <1>2, <2>2, <3>2, <4>1, <4>2
    <3>. QED BY <3>1, <3>2
  <2>4. k - 1 \in 0..Len(L)
    BY <1>2, <2>2
  <2>. QED BY <2>3, <2>4 DEF Upto
<1>. QED BY <1>3, <1>4

LEMMA UptoFacts ==
    ASSUME NEW L, ChainOK(L), NEW b, NEW q, Upto(L, b, q)
    PROVE  /\ q \in Nat /\ q <= Len(L) /\ Len(L) \in Nat
           /\ {i \in DOMAIN L : L[i].block <= b} = 1..q
<1>1. Len(L) \in Nat /\ DOMAIN L = 1..Len(L)
  BY ChainFacts
<1>2. q \in 0..Len(L) /\ \A i \in 1..Len(L) : L[i].block <= b <=> i <= q
  BY DEF Upto
<1>3. {i \in 1..Len(L) : L[i].block <= b} = 1..q
  BY <1>1, <1>2
<1>. QED BY <1>1, <1>2, <1>3

\* Where the logs of an earlier block end.
LEMMA UptoBelow ==
    ASSUME NEW L, ChainOK(L), NEW b \in Nat, NEW c \in Nat, b <= c,
           NEW q, NEW r, Upto(L, b, q), Upto(L, c, r)
    PROVE  q <= r
<1>1. q \in Nat /\ r \in Nat /\ q <= Len(L) /\ Len(L) \in Nat
  BY UptoFacts
<1>2. CASE q = 0
  BY <1>1, <1>2
<1>3. CASE q # 0
  <2>1. q \in 1..Len(L)
    BY <1>1, <1>3
  <2>2. L[q].block <= b /\ L[q].block \in Nat
    BY <1>1, <2>1, ChainFacts DEF Upto
  <2>3. L[q].block <= c
    BY <2>2
  <2>. QED BY <2>1, <2>3 DEF Upto
<1>. QED BY <1>2, <1>3

\* Tree events have leaves that ascend, and so have family events.
LEMMA LeavesAscend ==
    ASSUME NEW L, ChainOK(L), NEW i \in 1..Len(L), NEW j \in 1..Len(L),
           L[i].leaf = L[j].leaf
    PROVE  /\ IsTree(L[i]) /\ IsTree(L[j]) => i = j
           /\ IsFamily(L[i]) /\ IsFamily(L[j]) => i = j
<1>1. Len(L) \in Nat /\ \A k \in 1..Len(L) : Fits(L, k) /\ LogOK(L[k])
  BY ChainFacts DEF ChainOK
<1>2. ASSUME NEW x \in 1..Len(L), NEW y \in 1..Len(L), x < y, IsTree(L[x]), IsTree(L[y])
      PROVE  L[x].leaf # L[y].leaf
  <2>1. LeavesIn(L, 1..(y - 1)) = 0..(L[y].leaf - 1)
    BY <1>1, <1>2 DEF Fits
  <2>2. x \in 1..(y - 1)
    BY <1>1, <1>2
  <2>3. L[x].leaf \in LeavesIn(L, 1..(y - 1))
    BY <1>2, <2>2 DEF LeavesIn
  <2>4. L[y].leaf \in Nat
    BY <1>1, <1>2 DEF LogOK
  <2>. QED BY <2>1, <2>3, <2>4
<1>3. ASSUME NEW x \in 1..Len(L), NEW y \in 1..Len(L), IsTree(L[x]), IsTree(L[y]),
             L[x].leaf = L[y].leaf
      PROVE  x = y
  BY <1>1, <1>2, <1>3
<1>4. ASSUME IsFamily(L[i]), IsFamily(L[j]) PROVE i = j
  <2>1. /\ i # 1 /\ IsTree(L[i - 1]) /\ L[i - 1].leaf = L[i].leaf
        /\ j # 1 /\ IsTree(L[j - 1]) /\ L[j - 1].leaf = L[j].leaf
    BY <1>1, <1>4 DEF Fits, Follows
  <2>2. i - 1 \in 1..Len(L) /\ j - 1 \in 1..Len(L)
    BY <1>1, <2>1
  <2>3. i - 1 = j - 1
    BY <1>3, <2>1, <2>2
  <2>. QED BY <1>1, <2>3
<1>. QED BY <1>3, <1>4

-----------------------------------------------------------------------------
(***************************************************************************)
(* The read model after the first p logs of L.                             *)
(***************************************************************************)
\* Nodes return the calldata the chain has: bytes that fail the hash check are not
\* the chain's, since the module checks the same hash.
Honest == "corrupt" \notin Calldata

MemIs(m, L, p) ==
    /\ m.feed = FeedIn(L, 1..p)
    /\ m.registry = RegistryIn(L, 1..p)
    /\ m.batches = BatchesIn(L, 1..p)
    /\ m.accepted \subseteq AcceptsIn(L, 1..p)
    /\ Honest => m.accepted = AcceptsIn(L, 1..p)
    /\ \A i \in 1..p : L[i].name = "Op" => L[i].leaf \in m.leaves

\* Which logs the gates have seen since the cursor in memory.
IsGated(l) == l.name \in {"ModuleRegistered", "ModuleRemoved", "Accepted"}
SeenIs(m, L, p) ==
    \A i \in 1..Len(L) : IsGated(L[i]) /\ L[i].block > m.lastBlock => (L[i] \in m.seen <=> i <= p)

DeliveredIn(L, m) ==
    {i \in DOMAIN L :
        /\ L[i].block > m.lastBlock
        /\ \/ L[i].from = Pool
           \/ L[i].from \in watchAddresses(m)
           \/ \E j \in DOMAIN L : /\ L[j].name = "ModuleRegistered"
                                  /\ L[j].module = L[i].from
                                  /\ L[j].block > m.lastBlock /\ L[j].block < L[i].block}

\* A log that a poll does not deliver was applied before: the registry in memory
\* may be ahead of the range, but then so is everything it was behind.
LEMMA DeliveredIs ==
    ASSUME NEW L, ChainOK(L), NEW m, NEW p \in 0..Len(L), MemIs(m, L, p),
           m.lastBlock \in Nat,
           \A i \in 1..Len(L) : L[i].block <= m.lastBlock => i <= p,
           NEW i \in 1..Len(L), L[i].block > m.lastBlock, i \notin DeliveredIn(L, m)
    PROVE  i <= p
<1>1. SUFFICES ASSUME ~(i <= p) PROVE FALSE
  OBVIOUS
<1>2. /\ Len(L) \in Nat /\ DOMAIN L = 1..Len(L) /\ p \in Nat /\ p < i
      /\ \A j \in 1..Len(L) : L[j].block \in Nat \ {0} /\ LogOK(L[j]) /\ Fits(L, j)
  BY <1>1, ChainFacts DEF ChainOK
<1>3. /\ L[i].from # Pool /\ L[i].from \notin watchAddresses(m)
      /\ \A j \in 1..Len(L) : /\ L[j].name = "ModuleRegistered"
                              /\ L[j].module = L[i].from
                              /\ L[j].block > m.lastBlock
                              => ~(L[j].block < L[i].block)
  BY <1>2 DEF DeliveredIn
<1>4. PICK a \in Module : a = L[i].from
  BY <1>2, <1>3 DEF LogOK
<1>5. L[i].name \in {"Op", "Disbursed", "Accepted"}
  BY <1>2, <1>3 DEF LogOK, Names, IsTree, IsOnRegistry
<1>6. m.registry[a] # "registered"
  BY <1>3, <1>4 DEF watchAddresses
<1>7. RegistryIn(L, 1..p)[a] # "registered"
  BY <1>6 DEF MemIs
\* It was not registered since what memory has.
<1>8. ASSUME NEW k \in 1..i, p < k, IsFamily(L[k]), L[k].from = a PROVE FALSE
  <2>1. RegistryIn(L, 1..(k - 1))[a] = "registered"
    <3>1. k \in 1..Len(L)
      BY <1>2
    <3>. QED BY <1>2, <1>8, <3>1 DEF Fits, Follows
  <2>2. k - 1 \in Nat /\ p <= k - 1
    BY <1>2, <1>8
  <2>3. PICK j \in (p + 1)..(k - 1) : L[j].name = "ModuleRegistered" /\ L[j].module = a
    BY <1>2, <1>7, <2>1, <2>2, Registers
  <2>4. j \in 1..Len(L) /\ j < i /\ ~(j <= p)
    BY <1>2, <2>2
  <2>5. L[j].block > m.lastBlock
    BY <1>2, <2>4
  <2>6. L[j].block < L[i].block
    BY <2>3, <2>4, ChainFacts DEF IsOnRegistry
  <2>. QED BY <1>3, <1>4, <2>3, <2>4, <2>5, <2>6
<1>9. CASE L[i].name # "Accepted"
  BY <1>2, <1>4, <1>5, <1>8, <1>9 DEF IsFamily
<1>10. CASE L[i].name = "Accepted"
  <2>1. /\ L[i].leaf \in Nat /\ L[i].chunk \in Chunk
        /\ <<L[i].leaf, L[i].chunk>> \notin AcceptsIn(L, 1..(i - 1))
    BY <1>2, <1>10 DEF Fits, LogOK
  <2>2. PICK d \in 1..(i - 1) : /\ L[d].name = "Disbursed"
                                /\ L[d].leaf = L[i].leaf /\ L[d].from = a
    BY <1>2, <1>4, <1>10 DEF Fits
  <2>3. d \in 1..Len(L) /\ d \in 1..i
    BY <1>2
  <2>4. CASE p < d
    BY <1>8, <2>2, <2>3, <2>4 DEF IsFamily
  <2>5. CASE ~(p < d)
    <3>1. d \in 1..p
      BY <1>2, <2>3, <2>5
    <3>2. PICK b : b = [leaf |-> L[d].leaf, module |-> L[d].from]
      OBVIOUS
    <3>3. b \in m.batches /\ b.leaf = L[i].leaf /\ b.module = a
      BY <2>2, <3>1, <3>2 DEF MemIs, BatchesIn
    <3>4. AcceptsIn(L, 1..p) \subseteq AcceptsIn(L, 1..(i - 1))
      <4>1. 1..p \subseteq 1..(i - 1)
        BY <1>2
      <4>. QED BY <4>1 DEF AcceptsIn
    <3>5. <<b.leaf, L[i].chunk>> \notin m.accepted
      BY <2>1, <3>3, <3>4 DEF MemIs
    <3>6. a \in pendingModules(m)
      BY <2>1, <3>3, <3>5 DEF pendingModules
    <3>7. RegistryIn(L, 1..(d - 1))[a] = "registered"
      BY <1>2, <2>2, <2>3 DEF Fits, Follows, IsFamily
    <3>8. RegistryIn(L, 1..p)[a] # "unknown"
      <4>1. d - 1 \in Nat /\ d - 1 <= p
        BY <1>2, <3>1
      <4>. QED BY <1>2, <3>7, <4>1, StaysKnown
    <3>9. RegistryIn(L, 1..p)[a] = "removed"
      BY <1>7, <3>8 DEF RegistryIn, StatusIn
    <3>10. m.registry[a] = "removed"
      BY <3>9 DEF MemIs
    <3>. QED BY <1>3, <1>4, <3>6, <3>10 DEF watchAddresses
  <2>. QED BY <2>4, <2>5
<1>. QED BY <1>9, <1>10

Shape(m) ==
    /\ m = [frontier |-> m.frontier, leaves |-> m.leaves, feed |-> m.feed,
            registry |-> m.registry, batches |-> m.batches, accepted |-> m.accepted,
            bytes |-> m.bytes, seen |-> m.seen, dirty |-> m.dirty, lastBlock |-> m.lastBlock]
    /\ m.dirty = [leaves |-> m.dirty.leaves, feed |-> m.dirty.feed,
                  modules |-> m.dirty.modules, batches |-> m.dirty.batches,
                  accepted |-> m.dirty.accepted, bytes |-> m.dirty.bytes]
    /\ m.lastBlock \in Nat

\* The part of a feed behind its first d entries.
Behind(feed, d) == [k \in 1..(Len(feed) - d) |-> feed[d + k]]

\* What memory has and the rows lack is in the buffers.
Covers(m, rows) ==
    /\ m.leaves = rows.leaves \cup m.dirty.leaves
    /\ m.batches = rows.batches \cup m.dirty.batches
    /\ m.accepted = rows.accepted \cup m.dirty.accepted
    /\ \A a \in Module \ m.dirty.modules : m.registry[a] = rows.registry[a]
    /\ \E d \in 0..Len(rows.feed) : d <= Len(m.feed) /\ m.dirty.feed = Behind(m.feed, d)

Good(m, L, p, rows) ==
    Shape(m) /\ MemIs(m, L, p) /\ SeenIs(m, L, p) /\ Covers(m, rows) /\ Len(rows.feed) \in Nat

\* Tree events change nothing of this.
LEMMA Slides ==
    ASSUME NEW L, ChainOK(L), NEW p \in 0..Len(L), NEW q \in 0..Len(L), p <= q,
           \A j \in (p + 1)..q : IsTree(L[j]),
           NEW m, NEW rows, Good(m, L, p, rows)
    PROVE  Good(m, L, q, rows)
<1>1. p \in Nat /\ q \in Nat /\ Len(L) \in Nat
  BY ChainFacts
<1>2. \A j \in (p + 1)..q : L[j].name # "Op" /\ ~IsGated(L[j])
  BY DEF IsTree, IsGated
<1>3. MemIs(m, L, q)
  <2>1. MemIs(m, L, p)
    BY DEF Good
  <2>2. \A j \in 1..q : L[j].name = "Op" => j \in 1..p
    BY <1>1, <1>2
  <2>. QED BY <1>1, <2>1, <2>2, TreeIsSilent DEF MemIs
<1>4. SeenIs(m, L, q)
  <2>1. SeenIs(m, L, p)
    BY DEF Good
  <2>2. \A j \in 1..Len(L) : IsGated(L[j]) => (j <= p <=> j <= q)
    BY <1>1, <1>2
  <2>. QED BY <2>1, <2>2 DEF SeenIs
<1>. QED BY <1>3, <1>4 DEF Good

LEMMA AppendFacts ==
    ASSUME NEW s, IsSeq(s), NEW x
    PROVE  /\ IsSeq(Append(s, x)) /\ Len(Append(s, x)) = Len(s) + 1 /\ Len(s) \in Nat
           /\ \A k \in 1..Len(s) : Append(s, x)[k] = s[k]
           /\ Append(s, x)[Len(s) + 1] = x
<1>1. PICK T : s \in Seq(T)
  BY DEF IsSeq
<1>2. s \in Seq(T \cup {x})
  BY <1>1
<1>3. PICK r : r = Append(s, x)
  OBVIOUS
<1>4. /\ r \in Seq(T \cup {x}) /\ Len(r) = Len(s) + 1 /\ Len(s) \in Nat
      /\ \A k \in 1..Len(s) : r[k] = s[k]
      /\ r[Len(s) + 1] = x
  BY <1>2, <1>3
<1>. QED BY <1>3, <1>4 DEF IsSeq

LEMMA BehindGrows ==
    ASSUME NEW s, IsSeq(s), NEW x, NEW d \in Nat, d <= Len(s)
    PROVE  Behind(Append(s, x), d) = Append(Behind(s, d), x)
<1>1. PICK t, u, n : t = Append(s, x) /\ u = Behind(s, d) /\ n = Len(s)
  OBVIOUS
<1>2. /\ n \in Nat /\ Len(t) = n + 1 /\ t[n + 1] = x
      /\ \A k \in 1..n : t[k] = s[k]
  BY <1>1, AppendFacts
<1>3. u = [k \in 1..(n - d) |-> s[d + k]] /\ n - d \in Nat
  BY <1>1, <1>2 DEF Behind
<1>4. IsSeq(u) /\ Len(u) = n - d
  <2>1. u = [k \in 1..(n - d) |-> u[k]]
    BY <1>3
  <2>. QED BY ONLY <1>3, <2>1, FunIsSeq
<1>5. PICK v : v = Append(u, x)
  OBVIOUS
<1>6. /\ IsSeq(v) /\ Len(v) = n - d + 1 /\ v[n - d + 1] = x
      /\ \A k \in 1..(n - d) : v[k] = u[k]
  BY <1>4, <1>5, AppendFacts
<1>7. v = [k \in 1..(n - d + 1) |-> v[k]]
  BY <1>6 DEF IsSeq
<1>8. ASSUME NEW k \in 1..(n - d + 1) PROVE v[k] = t[d + k]
  <2>1. CASE k = n - d + 1
    <3>1. d + k = n + 1
      BY <1>2, <2>1
    <3>. QED BY <1>2, <1>6, <2>1, <3>1
  <2>2. CASE k # n - d + 1
    <3>1. k \in 1..(n - d) /\ d + k \in 1..n
      BY <1>2, <1>3, <2>2
    <3>. QED BY <1>2, <1>3, <1>6, <3>1
  <2>. QED BY <2>1, <2>2
<1>9. Behind(t, d) = [k \in 1..(n - d + 1) |-> t[d + k]]
  <2>1. (n + 1) - d = n - d + 1
    BY <1>2
  <2>. QED BY <1>2, <2>1 DEF Behind
<1>10. v = Behind(t, d)
  BY <1>7, <1>8, <1>9
<1>. QED BY <1>1, <1>5, <1>10

-----------------------------------------------------------------------------
(***************************************************************************)
(* The handlers.  A log that was applied before changes nothing; the next  *)
(* one takes memory one log further.                                       *)
(***************************************************************************)
LEMMA FeedHas ==
    ASSUME NEW L, ChainOK(L), NEW p \in 0..Len(L), NEW m, MemIs(m, L, p),
           NEW i \in 1..Len(L), IsFamily(L[i])
    PROVE  /\ IsSeq(m.feed) /\ Len(m.feed) \in Nat
           /\ seenEvent(m, L[i]) <=> i <= p
<1>1. p \in Nat /\ Len(L) \in Nat
  BY ChainFacts
<1>2. /\ IsSeq(m.feed) /\ ToSet(m.feed) = {L[j].leaf : j \in FamilyIn(L, 1..p)}
  BY <1>1, FeedInIs DEF MemIs
<1>3. Len(m.feed) \in Nat /\ DOMAIN m.feed = 1..Len(m.feed)
  BY <1>2, SeqFacts
<1>4. seenEvent(m, L[i]) <=> L[i].leaf \in ToSet(m.feed)
  BY DEF seenEvent, ToSet
<1>5. ASSUME i <= p PROVE L[i].leaf \in ToSet(m.feed)
  <2>1. i \in FamilyIn(L, 1..p)
    BY <1>1, <1>5 DEF FamilyIn
  <2>. QED BY <1>2, <2>1
<1>6. ASSUME L[i].leaf \in ToSet(m.feed) PROVE i <= p
  <2>1. PICK j \in FamilyIn(L, 1..p) : L[j].leaf = L[i].leaf
    BY <1>2, <1>6
  <2>2. j \in 1..Len(L) /\ IsFamily(L[j]) /\ j <= p
    BY <1>1, <2>1 DEF FamilyIn
  <2>3. i = j
    BY <2>1, <2>2, LeavesAscend
  <2>. QED BY <2>2, <2>3
<1>. QED BY <1>2, <1>3, <1>4, <1>5, <1>6

LEMMA FamilyAgain ==
    ASSUME NEW L, ChainOK(L), NEW p \in 0..Len(L), NEW m, NEW rows, Good(m, L, p, rows),
           NEW i \in 1..Len(L), IsFamily(L[i]), i <= p
    PROVE  FamilyAdds(m, L[i]) = m
<1>1. PICK l : l = L[i]
  OBVIOUS
<1>2. Shape(m) /\ MemIs(m, L, p)
  BY DEF Good
<1>3. seenEvent(m, l)
  BY <1>1, <1>2, FeedHas
<1>4. l.name = "Op" => l.leaf \in m.leaves
  <2>1. i \in 1..p
    BY ChainFacts
  <2>. QED BY <1>1, <1>2, <2>1 DEF MemIs
<1>5. recordBatch(m, l) = m /\ addEvent(m, l) = m
  BY <1>3 DEF recordBatch, addEvent
<1>6. CASE l.name # "Op"
  BY <1>1, <1>5, <1>6 DEF FamilyAdds
<1>7. CASE l.name = "Op"
  <2>1. PICK dirty : dirty = [m.dirty EXCEPT !.leaves = @ \cup ({l.leaf} \ m.leaves)]
    OBVIOUS
  <2>2. {l.leaf} \ m.leaves = {} /\ m.leaves \cup {l.leaf} = m.leaves
    BY <1>4, <1>7
  <2>3. dirty = m.dirty
    BY <1>2, <2>1, <2>2 DEF Shape
  <2>4. recordLeaf(m, {l.leaf}) = [m EXCEPT !.leaves = m.leaves, !.dirty = m.dirty]
    BY <2>1, <2>2, <2>3 DEF recordLeaf
  <2>5. recordLeaf(m, {l.leaf}) = m
    BY <1>2, <2>4 DEF Shape
  <2>. QED BY <1>1, <1>5, <1>7, <2>5 DEF FamilyAdds
<1>. QED BY <1>6, <1>7

\* Memory after an event of either family, seen first.
FamilyNext(m, l) ==
    LET gained == IF l.name = "Op" THEN {l.leaf} ELSE {}
        batch == IF l.name = "Op" THEN {} ELSE {[leaf |-> l.leaf, module |-> l.from]}
    IN  [frontier |-> m.frontier, leaves |-> m.leaves \cup gained,
         feed |-> Append(m.feed, l.leaf), registry |-> m.registry,
         batches |-> m.batches \cup batch, accepted |-> m.accepted,
         bytes |-> m.bytes, seen |-> m.seen,
         dirty |-> [leaves |-> m.dirty.leaves \cup (gained \ m.leaves),
                    feed |-> Append(m.dirty.feed, l.leaf),
                    modules |-> m.dirty.modules, batches |-> m.dirty.batches \cup batch,
                    accepted |-> m.dirty.accepted, bytes |-> m.dirty.bytes],
         lastBlock |-> m.lastBlock]

LEMMA FamilyAddsIs ==
    ASSUME NEW m, Shape(m), NEW l, ~seenEvent(m, l),
           l.name # "Op" => \A b \in m.batches : b.leaf # l.leaf
    PROVE  FamilyAdds(m, l) = FamilyNext(m, l)
<1>1. ASSUME NEW n, Shape(n), ~seenEvent(n, l)
      PROVE  addEvent(n, l) =
               [frontier |-> n.frontier, leaves |-> n.leaves,
                feed |-> Append(n.feed, l.leaf), registry |-> n.registry,
                batches |-> n.batches, accepted |-> n.accepted,
                bytes |-> n.bytes, seen |-> n.seen,
                dirty |-> [leaves |-> n.dirty.leaves, feed |-> Append(n.dirty.feed, l.leaf),
                           modules |-> n.dirty.modules, batches |-> n.dirty.batches,
                           accepted |-> n.dirty.accepted, bytes |-> n.dirty.bytes],
                lastBlock |-> n.lastBlock]
  <2>1. PICK dirty : dirty = [n.dirty EXCEPT !.feed = Append(@, l.leaf)]
    OBVIOUS
  <2>2. dirty = [leaves |-> n.dirty.leaves, feed |-> Append(n.dirty.feed, l.leaf),
                 modules |-> n.dirty.modules, batches |-> n.dirty.batches,
                 accepted |-> n.dirty.accepted, bytes |-> n.dirty.bytes]
    BY <1>1, <2>1 DEF Shape
  <2>3. addEvent(n, l) = [n EXCEPT !.feed = Append(@, l.leaf), !.dirty = dirty]
    BY <1>1, <2>1 DEF addEvent
  <2>4. addEvent(n, l) = [frontier |-> n.frontier, leaves |-> n.leaves,
                          feed |-> Append(n.feed, l.leaf), registry |-> n.registry,
                          batches |-> n.batches, accepted |-> n.accepted,
                          bytes |-> n.bytes, seen |-> n.seen,
                          dirty |-> dirty, lastBlock |-> n.lastBlock]
    BY <1>1, <2>3 DEF Shape
  <2>. QED BY <2>2, <2>4
<1>2. CASE l.name = "Op"
  <2>1. PICK dirty, n : /\ dirty = [m.dirty EXCEPT !.leaves = @ \cup ({l.leaf} \ m.leaves)]
                        /\ n = recordLeaf(m, {l.leaf})
    OBVIOUS
  <2>2. dirty = [leaves |-> m.dirty.leaves \cup ({l.leaf} \ m.leaves), feed |-> m.dirty.feed,
                 modules |-> m.dirty.modules, batches |-> m.dirty.batches,
                 accepted |-> m.dirty.accepted, bytes |-> m.dirty.bytes]
    BY <2>1 DEF Shape
  <2>3. n = [m EXCEPT !.leaves = @ \cup {l.leaf}, !.dirty = dirty]
    BY <2>1 DEF recordLeaf
  <2>4. n = [frontier |-> m.frontier, leaves |-> m.leaves \cup {l.leaf}, feed |-> m.feed,
             registry |-> m.registry, batches |-> m.batches, accepted |-> m.accepted,
             bytes |-> m.bytes, seen |-> m.seen, dirty |-> dirty, lastBlock |-> m.lastBlock]
    BY <2>3 DEF Shape
  <2>5. Shape(n) /\ ~seenEvent(n, l)
    BY <2>2, <2>4 DEF Shape, seenEvent
  <2>6. FamilyAdds(m, l) = addEvent(n, l)
    BY <1>2, <2>1 DEF FamilyAdds
  <2>7. m.batches \cup {} = m.batches /\ m.dirty.batches \cup {} = m.dirty.batches
    OBVIOUS
  <2>8. FamilyNext(m, l) =
          [frontier |-> m.frontier, leaves |-> m.leaves \cup {l.leaf},
           feed |-> Append(m.feed, l.leaf), registry |-> m.registry,
           batches |-> m.batches, accepted |-> m.accepted,
           bytes |-> m.bytes, seen |-> m.seen,
           dirty |-> [leaves |-> m.dirty.leaves \cup ({l.leaf} \ m.leaves),
                      feed |-> Append(m.dirty.feed, l.leaf),
                      modules |-> m.dirty.modules, batches |-> m.dirty.batches,
                      accepted |-> m.dirty.accepted, bytes |-> m.dirty.bytes],
           lastBlock |-> m.lastBlock]
    BY <1>2, <2>7 DEF FamilyNext
  <2>9. /\ n.frontier = m.frontier /\ n.leaves = m.leaves \cup {l.leaf} /\ n.feed = m.feed
        /\ n.registry = m.registry /\ n.batches = m.batches /\ n.accepted = m.accepted
        /\ n.bytes = m.bytes /\ n.seen = m.seen /\ n.lastBlock = m.lastBlock /\ n.dirty = dirty
    BY <2>4
  <2>10. /\ dirty.leaves = m.dirty.leaves \cup ({l.leaf} \ m.leaves)
         /\ dirty.feed = m.dirty.feed /\ dirty.modules = m.dirty.modules
         /\ dirty.batches = m.dirty.batches /\ dirty.accepted = m.dirty.accepted
         /\ dirty.bytes = m.dirty.bytes
    BY <2>2
  <2>11. addEvent(n, l) = FamilyNext(m, l)
    BY <1>1, <2>5, <2>8, <2>9, <2>10
  <2>. QED BY <2>6, <2>11
<1>3. CASE l.name # "Op"
  <2>1. PICK batch, n : /\ batch = {[leaf |-> l.leaf, module |-> l.from]}
                        /\ n = recordBatch(m, l)
    OBVIOUS
  <2>2. PICK dirty : dirty = [m.dirty EXCEPT !.batches = @ \cup batch]
    OBVIOUS
  <2>3. dirty = [leaves |-> m.dirty.leaves, feed |-> m.dirty.feed,
                 modules |-> m.dirty.modules, batches |-> m.dirty.batches \cup batch,
                 accepted |-> m.dirty.accepted, bytes |-> m.dirty.bytes]
    BY <2>2 DEF Shape
  <2>4. n = [m EXCEPT !.batches = @ \cup batch, !.dirty = dirty]
    BY <1>3, <2>1, <2>2 DEF recordBatch
  <2>5. n = [frontier |-> m.frontier, leaves |-> m.leaves, feed |-> m.feed,
             registry |-> m.registry, batches |-> m.batches \cup batch, accepted |-> m.accepted,
             bytes |-> m.bytes, seen |-> m.seen, dirty |-> dirty, lastBlock |-> m.lastBlock]
    BY <2>4 DEF Shape
  <2>6. Shape(n) /\ ~seenEvent(n, l)
    BY <2>3, <2>5 DEF Shape, seenEvent
  <2>7. FamilyAdds(m, l) = addEvent(n, l)
    BY <1>3, <2>1 DEF FamilyAdds
  <2>8. m.leaves \cup {} = m.leaves /\ m.dirty.leaves \cup ({} \ m.leaves) = m.dirty.leaves
    OBVIOUS
  <2>9. FamilyNext(m, l) =
          [frontier |-> m.frontier, leaves |-> m.leaves,
           feed |-> Append(m.feed, l.leaf), registry |-> m.registry,
           batches |-> m.batches \cup batch, accepted |-> m.accepted,
           bytes |-> m.bytes, seen |-> m.seen,
           dirty |-> [leaves |-> m.dirty.leaves, feed |-> Append(m.dirty.feed, l.leaf),
                      modules |-> m.dirty.modules, batches |-> m.dirty.batches \cup batch,
                      accepted |-> m.dirty.accepted, bytes |-> m.dirty.bytes],
           lastBlock |-> m.lastBlock]
    BY <1>3, <2>1, <2>8 DEF FamilyNext
  <2>10. /\ n.frontier = m.frontier /\ n.leaves = m.leaves /\ n.feed = m.feed
         /\ n.registry = m.registry /\ n.batches = m.batches \cup batch
         /\ n.accepted = m.accepted /\ n.bytes = m.bytes /\ n.seen = m.seen
         /\ n.lastBlock = m.lastBlock /\ n.dirty = dirty
    BY <2>5
  <2>11. /\ dirty.leaves = m.dirty.leaves /\ dirty.feed = m.dirty.feed
         /\ dirty.modules = m.dirty.modules /\ dirty.batches = m.dirty.batches \cup batch
         /\ dirty.accepted = m.dirty.accepted /\ dirty.bytes = m.dirty.bytes
    BY <2>3
  <2>12. addEvent(n, l) = FamilyNext(m, l)
    BY <1>1, <2>6, <2>9, <2>10, <2>11
  <2>. QED BY <2>7, <2>12
<1>. QED BY <1>2, <1>3

\* A log further, the registry, the chunks and the batches.
LEMMA SetsGrow ==
    ASSUME NEW L, NEW n \in Nat
    PROVE  /\ AcceptsIn(L, 1..(n + 1)) =
                AcceptsIn(L, 1..n) \cup (IF L[n + 1].name = "Accepted"
                                         THEN {<<L[n + 1].leaf, L[n + 1].chunk>>} ELSE {})
           /\ BatchesIn(L, 1..(n + 1)) =
                BatchesIn(L, 1..n) \cup
                    (IF L[n + 1].name = "Disbursed"
                     THEN {[leaf |-> L[n + 1].leaf, module |-> L[n + 1].from]} ELSE {})
           /\ LeavesIn(L, 1..(n + 1)) =
                LeavesIn(L, 1..n) \cup (IF IsTree(L[n + 1]) THEN {L[n + 1].leaf} ELSE {})
<1>1. 1..(n + 1) = (1..n) \cup {n + 1}
  OBVIOUS
<1>2. /\ {j \in 1..(n + 1) : L[j].name = "Accepted"} =
           {j \in 1..n : L[j].name = "Accepted"} \cup
               (IF L[n + 1].name = "Accepted" THEN {n + 1} ELSE {})
      /\ {j \in 1..(n + 1) : L[j].name = "Disbursed"} =
           {j \in 1..n : L[j].name = "Disbursed"} \cup
               (IF L[n + 1].name = "Disbursed" THEN {n + 1} ELSE {})
      /\ {j \in 1..(n + 1) : IsTree(L[j])} =
           {j \in 1..n : IsTree(L[j])} \cup (IF IsTree(L[n + 1]) THEN {n + 1} ELSE {})
  BY <1>1
<1>3. AcceptsIn(L, 1..(n + 1)) =
        AcceptsIn(L, 1..n) \cup (IF L[n + 1].name = "Accepted"
                                 THEN {<<L[n + 1].leaf, L[n + 1].chunk>>} ELSE {})
  BY <1>2 DEF AcceptsIn
<1>4. BatchesIn(L, 1..(n + 1)) =
        BatchesIn(L, 1..n) \cup
            (IF L[n + 1].name = "Disbursed"
             THEN {[leaf |-> L[n + 1].leaf, module |-> L[n + 1].from]} ELSE {})
  BY <1>2 DEF BatchesIn
<1>5. LeavesIn(L, 1..(n + 1)) =
        LeavesIn(L, 1..n) \cup (IF IsTree(L[n + 1]) THEN {L[n + 1].leaf} ELSE {})
  BY <1>2 DEF LeavesIn
<1>. QED BY <1>3, <1>4, <1>5

LEMMA SameRegistry ==
    ASSUME NEW L, NEW n \in Nat, \A m \in Module : ~IsRegistry(L[n + 1], m)
    PROVE  RegistryIn(L, 1..(n + 1)) = RegistryIn(L, 1..n)
<1>1. \A m \in Module : RegistryIn(L, 1..(n + 1))[m] = RegistryIn(L, 1..n)[m]
  BY RegistryGrows
<1>2. /\ RegistryIn(L, 1..(n + 1)) = [m \in Module |-> RegistryIn(L, 1..(n + 1))[m]]
      /\ RegistryIn(L, 1..n) = [m \in Module |-> RegistryIn(L, 1..n)[m]]
  BY DEF RegistryIn
<1>. QED BY <1>1, <1>2

\* A gated log is there once.
LEMMA GatedApart ==
    ASSUME NEW L, ChainOK(L), NEW i \in 1..Len(L), NEW j \in 1..Len(L), IsGated(L[i]), L[i] = L[j]
    PROVE  i = j
<1>1. ASSUME NEW x \in 1..Len(L), NEW y \in 1..Len(L), x < y, IsGated(L[y]) PROVE L[x] # L[y]
  <2>1. Fits(L, y) /\ Len(L) \in Nat /\ L[y].block \in Nat
    BY ChainFacts DEF ChainOK
  <2>2. CASE L[y].name = "Accepted"
    <3>1. <<L[y].leaf, L[y].chunk>> \notin AcceptsIn(L, 1..(y - 1))
      BY <2>1, <2>2 DEF Fits
    <3>2. x \in 1..(y - 1)
      BY <1>1, <2>1
    <3>3. SUFFICES ASSUME L[x] = L[y] PROVE FALSE
      OBVIOUS
    <3>4. <<L[x].leaf, L[x].chunk>> \in AcceptsIn(L, 1..(y - 1))
      BY <2>2, <3>2, <3>3 DEF AcceptsIn
    <3>. QED BY <3>1, <3>3, <3>4
  <2>3. CASE L[y].name # "Accepted"
    <3>1. L[x].block < L[y].block
      BY <1>1, <2>3, ChainFacts DEF IsGated, IsOnRegistry
    <3>. QED BY <2>1, <3>1
  <2>. QED BY <2>2, <2>3
<1>2. Len(L) \in Nat
  BY ChainFacts
<1>. QED BY <1>1, <1>2

LEMMA FamilyNextIs ==
    ASSUME NEW L, ChainOK(L), NEW p \in 0..Len(L), NEW m, NEW rows, Good(m, L, p, rows),
           p + 1 \in 1..Len(L), IsFamily(L[p + 1])
    PROVE  /\ FamilyAdds(m, L[p + 1]) = FamilyNext(m, L[p + 1])
           /\ Good(FamilyNext(m, L[p + 1]), L, p + 1, rows)
<1>1. PICK i, l, r : i = p + 1 /\ l = L[i] /\ r = FamilyNext(m, l)
  OBVIOUS
<1>2. /\ Shape(m) /\ MemIs(m, L, p) /\ SeenIs(m, L, p) /\ Covers(m, rows) /\ Len(rows.feed) \in Nat
  BY DEF Good
<1>3. /\ p \in Nat /\ Len(L) \in Nat /\ i \in 1..Len(L) /\ ~(i <= p) /\ IsFamily(L[i])
  BY <1>1, ChainFacts
<1>4. IsSeq(m.feed) /\ Len(m.feed) \in Nat /\ ~seenEvent(m, l)
  BY <1>1, <1>2, <1>3, FeedHas
<1>5. l.name \in {"Op", "Disbursed"}
  BY <1>1, <1>3 DEF IsFamily
<1>6. \A b \in m.batches : b.leaf # l.leaf
  <2>1. ASSUME NEW b \in BatchesIn(L, 1..p), b.leaf = l.leaf PROVE FALSE
    <3>1. PICK j \in 1..p : L[j].name = "Disbursed" /\ b = [leaf |-> L[j].leaf, module |-> L[j].from]
      BY DEF BatchesIn
    <3>2. j \in 1..Len(L) /\ IsFamily(L[j]) /\ L[j].leaf = L[i].leaf
      BY <1>1, <1>3, <2>1, <3>1 DEF IsFamily
    <3>3. j = i
      BY <1>3, <3>2, LeavesAscend
    <3>. QED BY <1>3, <3>3
  <2>. QED BY <1>2, <2>1 DEF MemIs
<1>7. FamilyAdds(m, l) = r
  BY <1>1, <1>2, <1>4, <1>6, FamilyAddsIs
<1>8. PICK gained, batch : /\ gained = IF l.name = "Op" THEN {l.leaf} ELSE {}
                           /\ batch = IF l.name = "Op" THEN {}
                                      ELSE {[leaf |-> l.leaf, module |-> l.from]}
  OBVIOUS
<1>9. r = [frontier |-> m.frontier, leaves |-> m.leaves \cup gained,
           feed |-> Append(m.feed, l.leaf), registry |-> m.registry,
           batches |-> m.batches \cup batch, accepted |-> m.accepted,
           bytes |-> m.bytes, seen |-> m.seen,
           dirty |-> [leaves |-> m.dirty.leaves \cup (gained \ m.leaves),
                      feed |-> Append(m.dirty.feed, l.leaf),
                      modules |-> m.dirty.modules, batches |-> m.dirty.batches \cup batch,
                      accepted |-> m.dirty.accepted, bytes |-> m.dirty.bytes],
           lastBlock |-> m.lastBlock]
  BY <1>1, <1>8 DEF FamilyNext
<1>10. Shape(r)
  BY <1>2, <1>9 DEF Shape
<1>11. MemIs(r, L, i)
  <2>1. r.feed = FeedIn(L, 1..i)
    <3>1. FeedIn(L, 1..(p + 1)) = Append(FeedIn(L, 1..p), L[p + 1].leaf)
      BY <1>1, <1>3, FeedGrows
    <3>2. r.feed = Append(m.feed, l.leaf) /\ m.feed = FeedIn(L, 1..p)
      BY <1>2, <1>9 DEF MemIs
    <3>. QED BY <1>1, <3>1, <3>2
  <2>2. r.registry = RegistryIn(L, 1..i)
    <3>1. \A a \in Module : ~IsRegistry(L[p + 1], a)
      BY <1>1, <1>5 DEF IsRegistry
    <3>. QED BY <1>1, <1>2, <1>3, <1>9, <3>1, SameRegistry DEF MemIs
  <2>3. r.batches = BatchesIn(L, 1..i)
    <3>1. BatchesIn(L, 1..i) = BatchesIn(L, 1..p) \cup batch
      BY <1>1, <1>3, <1>5, <1>8, SetsGrow
    <3>. QED BY <1>2, <1>9, <3>1 DEF MemIs
  <2>4. AcceptsIn(L, 1..i) = AcceptsIn(L, 1..p)
    <3>1. L[p + 1].name # "Accepted"
      BY <1>1, <1>5
    <3>2. AcceptsIn(L, 1..(p + 1)) = AcceptsIn(L, 1..p) \cup {}
      BY <1>3, <3>1, SetsGrow
    <3>. QED BY <1>1, <3>2
  <2>5. r.accepted \subseteq AcceptsIn(L, 1..i) /\ (Honest => r.accepted = AcceptsIn(L, 1..i))
    BY <1>2, <1>9, <2>4 DEF MemIs
  <2>6. ASSUME NEW j \in 1..i, L[j].name = "Op" PROVE L[j].leaf \in r.leaves
    <3>1. CASE j = i
      BY <1>1, <1>8, <1>9, <2>6, <3>1
    <3>2. CASE j # i
      <4>1. j \in 1..p
        BY <1>1, <1>3, <3>2
      <4>. QED BY <1>2, <1>9, <2>6, <4>1 DEF MemIs
    <3>. QED BY <3>1, <3>2
  <2>. QED BY <2>1, <2>2, <2>3, <2>5, <2>6 DEF MemIs
<1>12. SeenIs(r, L, i)
  <2>1. \A j \in 1..Len(L) : IsGated(L[j]) => (j <= p <=> j <= i)
    <3>1. ~IsGated(L[i])
      BY <1>1, <1>5 DEF IsGated
    <3>. QED BY <1>1, <1>3, <3>1
  <2>. QED BY <1>2, <1>9, <2>1 DEF SeenIs
<1>13. Covers(r, rows)
  <2>1. /\ r.leaves = rows.leaves \cup r.dirty.leaves
        /\ r.batches = rows.batches \cup r.dirty.batches
        /\ r.accepted = rows.accepted \cup r.dirty.accepted
        /\ \A a \in Module \ r.dirty.modules : r.registry[a] = rows.registry[a]
    BY <1>2, <1>9 DEF Covers
  <2>2. PICK d \in 0..Len(rows.feed) : d <= Len(m.feed) /\ m.dirty.feed = Behind(m.feed, d)
    BY <1>2 DEF Covers
  <2>3. d \in Nat
    BY <1>2
  <2>4. r.dirty.feed = Behind(r.feed, d)
    <3>1. Behind(Append(m.feed, l.leaf), d) = Append(Behind(m.feed, d), l.leaf)
      BY <1>4, <2>2, <2>3, BehindGrows
    <3>2. r.feed = Append(m.feed, l.leaf) /\ r.dirty.feed = Append(m.dirty.feed, l.leaf)
      BY <1>9
    <3>. QED BY <2>2, <3>1, <3>2
  <2>5. d <= Len(r.feed)
    <3>1. Len(r.feed) = Len(m.feed) + 1
      BY <1>4, <1>9, AppendFacts
    <3>. QED BY <1>4, <2>2, <2>3, <3>1
  <2>. QED BY <2>1, <2>4, <2>5 DEF Covers
<1>. QED BY <1>1, <1>2, <1>7, <1>10, <1>11, <1>12, <1>13 DEF Good

\* A registry log or an accept that is not seen yet is not before p, one that is is.
LEMMA SeenNow ==
    ASSUME NEW L, ChainOK(L), NEW p \in 0..Len(L), NEW m, NEW rows, Good(m, L, p, rows),
           NEW i \in 1..Len(L), IsGated(L[i]), L[i].block > m.lastBlock
    PROVE  L[i] \in m.seen <=> i <= p
BY DEF Good, SeenIs

\* The log behind the first p is marked as seen.
LEMMA SeenGrows ==
    ASSUME NEW L, ChainOK(L), NEW p \in 0..Len(L), p + 1 \in 1..Len(L), IsGated(L[p + 1]),
           NEW m, NEW r, SeenIs(m, L, p), r.lastBlock = m.lastBlock,
           r.seen = m.seen \cup {L[p + 1]}
    PROVE  SeenIs(r, L, p + 1)
<1>1. ASSUME NEW j \in 1..Len(L), IsGated(L[j]), L[j].block > r.lastBlock
      PROVE  L[j] \in r.seen <=> j <= p + 1
  <2>1. L[j] \in m.seen <=> j <= p
    BY <1>1 DEF SeenIs
  <2>2. L[j] = L[p + 1] => j = p + 1
    BY <1>1, GatedApart
  <2>3. p \in Nat /\ j \in Nat
    BY ChainFacts
  <2>. QED BY <2>1, <2>2, <2>3
<1>. QED BY <1>1 DEF SeenIs

RegistryNext(m, l) ==
    [frontier |-> m.frontier, leaves |-> m.leaves, feed |-> m.feed,
     registry |-> [m.registry EXCEPT ![l.module] =
                       IF m.registry[l.module] = "registered" THEN "removed" ELSE "registered"],
     batches |-> m.batches, accepted |-> m.accepted,
     bytes |-> m.bytes, seen |-> m.seen \cup {l},
     dirty |-> [leaves |-> m.dirty.leaves, feed |-> m.dirty.feed,
                modules |-> m.dirty.modules \cup {l.module}, batches |-> m.dirty.batches,
                accepted |-> m.dirty.accepted, bytes |-> m.dirty.bytes],
     lastBlock |-> m.lastBlock]

LEMMA RegistryNextIs ==
    ASSUME NEW L, ChainOK(L), NEW p \in 0..Len(L), NEW m, NEW rows, Good(m, L, p, rows),
           p + 1 \in 1..Len(L), IsOnRegistry(L[p + 1])
    PROVE  /\ m.registry[L[p + 1].module] = "registered" <=> L[p + 1].name # "ModuleRegistered"
           /\ Good(RegistryNext(m, L[p + 1]), L, p + 1, rows)
<1>1. PICK i, l, r : i = p + 1 /\ l = L[i] /\ r = RegistryNext(m, l)
  OBVIOUS
<1>2. /\ Shape(m) /\ MemIs(m, L, p) /\ SeenIs(m, L, p) /\ Covers(m, rows) /\ Len(rows.feed) \in Nat
  BY DEF Good
<1>3. /\ p \in Nat /\ Len(L) \in Nat /\ i \in 1..Len(L) /\ ~(i <= p) /\ Fits(L, i) /\ LogOK(l)
  BY <1>1, ChainFacts DEF ChainOK
<1>4. l.name \in {"ModuleRegistered", "ModuleRemoved"}
  BY <1>1 DEF IsOnRegistry
<1>5. PICK a \in Module : a = l.module
  BY <1>3, <1>4 DEF LogOK, IsOnRegistry
<1>6. m.registry = RegistryIn(L, 1..p) /\ i - 1 = p
  BY <1>1, <1>2, <1>3 DEF MemIs
<1>7. m.registry[a] = "registered" <=> l.name # "ModuleRegistered"
  BY <1>1, <1>3, <1>4, <1>5, <1>6 DEF Fits, IsOnRegistry
<1>8. PICK registry : registry = [m.registry EXCEPT ![a] =
                         IF m.registry[a] = "registered" THEN "removed" ELSE "registered"]
  OBVIOUS
<1>9. r = [frontier |-> m.frontier, leaves |-> m.leaves, feed |-> m.feed,
           registry |-> registry, batches |-> m.batches, accepted |-> m.accepted,
           bytes |-> m.bytes, seen |-> m.seen \cup {l},
           dirty |-> [leaves |-> m.dirty.leaves, feed |-> m.dirty.feed,
                      modules |-> m.dirty.modules \cup {a}, batches |-> m.dirty.batches,
                      accepted |-> m.dirty.accepted, bytes |-> m.dirty.bytes],
           lastBlock |-> m.lastBlock]
  BY <1>1, <1>5, <1>8 DEF RegistryNext
<1>10. Shape(r)
  BY <1>2, <1>9 DEF Shape
<1>11. registry = RegistryIn(L, 1..i)
  <2>1. ASSUME NEW b \in Module PROVE registry[b] = RegistryIn(L, 1..(p + 1))[b]
    <3>1. m.registry = [c \in Module |-> m.registry[c]]
      BY <1>6 DEF RegistryIn
    <3>2. CASE b = a
      <4>1. registry[b] = IF m.registry[a] = "registered" THEN "removed" ELSE "registered"
        BY <1>8, <3>1, <3>2
      <4>2. IsRegistry(L[p + 1], b)
        BY <1>1, <1>4, <1>5, <3>2 DEF IsRegistry
      <4>3. RegistryIn(L, 1..(p + 1))[b] =
              IF L[p + 1].name = "ModuleRegistered" THEN "registered" ELSE "removed"
        BY <1>3, <4>2, RegistryGrows
      <4>. QED BY <1>1, <1>7, <4>1, <4>3
    <3>3. CASE b # a
      <4>1. registry[b] = m.registry[b]
        BY <1>8, <3>1, <3>3
      <4>2. ~IsRegistry(L[p + 1], b)
        BY <1>1, <1>5, <3>3 DEF IsRegistry
      <4>3. RegistryIn(L, 1..(p + 1))[b] = RegistryIn(L, 1..p)[b]
        BY <1>3, <4>2, RegistryGrows
      <4>. QED BY <1>6, <4>1, <4>3
    <3>. QED BY <3>2, <3>3
  <2>2. registry = [b \in Module |-> registry[b]]
    BY <1>6, <1>8 DEF RegistryIn
  <2>3. RegistryIn(L, 1..(p + 1)) = [b \in Module |-> RegistryIn(L, 1..(p + 1))[b]]
    BY DEF RegistryIn
  <2>4. registry = RegistryIn(L, 1..(p + 1))
    BY <2>1, <2>2, <2>3
  <2>. QED BY <1>1, <2>4
<1>12. MemIs(r, L, i)
  <2>1. /\ L[p + 1].name # "Accepted" /\ L[p + 1].name # "Disbursed" /\ L[p + 1].name # "Op"
        /\ ~IsFamily(L[p + 1])
    BY <1>1, <1>4 DEF IsFamily
  <2>2. /\ FeedIn(L, 1..(p + 1)) = FeedIn(L, 1..p)
        /\ AcceptsIn(L, 1..(p + 1)) = AcceptsIn(L, 1..p) \cup {}
        /\ BatchesIn(L, 1..(p + 1)) = BatchesIn(L, 1..p) \cup {}
    BY <1>3, <2>1, FeedGrows, SetsGrow
  <2>3. \A j \in 1..i : L[j].name = "Op" => j \in 1..p
    BY <1>1, <1>3, <2>1
  <2>4. /\ m.feed = FeedIn(L, 1..p) /\ m.batches = BatchesIn(L, 1..p)
        /\ m.accepted \subseteq AcceptsIn(L, 1..p)
        /\ Honest => m.accepted = AcceptsIn(L, 1..p)
        /\ \A j \in 1..p : L[j].name = "Op" => L[j].leaf \in m.leaves
    BY <1>2 DEF MemIs
  <2>5. /\ r.feed = FeedIn(L, 1..i) /\ r.batches = BatchesIn(L, 1..i)
        /\ r.accepted \subseteq AcceptsIn(L, 1..i)
        /\ Honest => r.accepted = AcceptsIn(L, 1..i)
        /\ r.registry = RegistryIn(L, 1..i)
        /\ \A j \in 1..i : L[j].name = "Op" => L[j].leaf \in r.leaves
    BY <1>1, <1>9, <1>11, <2>2, <2>3, <2>4
  <2>. QED BY <2>5 DEF MemIs
<1>13. SeenIs(r, L, i)
  <2>1. IsGated(L[p + 1])
    BY <1>1, <1>4 DEF IsGated
  <2>2. r.lastBlock = m.lastBlock /\ r.seen = m.seen \cup {L[p + 1]}
    BY <1>1, <1>9
  <2>3. p + 1 \in 1..Len(L)
    OBVIOUS
  <2>4. SeenIs(r, L, p + 1)
    BY <1>2, <2>1, <2>2, <2>3, SeenGrows
  <2>. QED BY <1>1, <2>4
<1>14. Covers(r, rows)
  <2>1. /\ r.leaves = rows.leaves \cup r.dirty.leaves
        /\ r.batches = rows.batches \cup r.dirty.batches
        /\ r.accepted = rows.accepted \cup r.dirty.accepted
        /\ r.feed = m.feed /\ r.dirty.feed = m.dirty.feed
    BY <1>2, <1>9 DEF Covers
  <2>2. ASSUME NEW b \in Module \ r.dirty.modules PROVE r.registry[b] = rows.registry[b]
    <3>1. b # a /\ b \in Module \ m.dirty.modules
      BY <1>9, <2>2
    <3>2. registry[b] = m.registry[b]
      <4>1. m.registry = [c \in Module |-> m.registry[c]]
        BY <1>6 DEF RegistryIn
      <4>. QED BY <1>8, <3>1, <4>1
    <3>3. m.registry[b] = rows.registry[b]
      BY <1>2, <3>1 DEF Covers
    <3>4. r.registry = registry
      BY <1>9
    <3>. QED BY <3>2, <3>3, <3>4
  <2>. QED BY <1>2, <2>1, <2>2 DEF Covers
<1>15. Good(r, L, i, rows)
  BY <1>2, <1>10, <1>12, <1>13, <1>14 DEF Good
<1>. QED BY <1>1, <1>5, <1>7, <1>15

MarkedNext(m, l) ==
    [frontier |-> m.frontier, leaves |-> m.leaves, feed |-> m.feed, registry |-> m.registry,
     batches |-> m.batches, accepted |-> m.accepted,
     bytes |-> m.bytes, seen |-> m.seen \cup {l}, dirty |-> m.dirty, lastBlock |-> m.lastBlock]

AcceptNext(m, l, got) ==
    [frontier |-> m.frontier, leaves |-> m.leaves, feed |-> m.feed, registry |-> m.registry,
     batches |-> m.batches, accepted |-> m.accepted \cup {<<l.leaf, l.chunk>>},
     bytes |-> m.bytes \cup got, seen |-> m.seen \cup {l},
     dirty |-> [leaves |-> m.dirty.leaves, feed |-> m.dirty.feed,
                modules |-> m.dirty.modules, batches |-> m.dirty.batches,
                accepted |-> m.dirty.accepted \cup {<<l.leaf, l.chunk>>},
                bytes |-> m.dirty.bytes \cup got],
     lastBlock |-> m.lastBlock]

\* What an accept leaves as it was.
LEMMA AcceptSays ==
    ASSUME NEW L, ChainOK(L), NEW p \in 0..Len(L), p + 1 \in 1..Len(L),
           L[p + 1].name = "Accepted"
    PROVE  /\ FeedIn(L, 1..(p + 1)) = FeedIn(L, 1..p)
           /\ RegistryIn(L, 1..(p + 1)) = RegistryIn(L, 1..p)
           /\ BatchesIn(L, 1..(p + 1)) = BatchesIn(L, 1..p)
           /\ AcceptsIn(L, 1..(p + 1)) =
                AcceptsIn(L, 1..p) \cup {<<L[p + 1].leaf, L[p + 1].chunk>>}
           /\ \A j \in 1..(p + 1) : L[j].name = "Op" => j \in 1..p
<1>1. p \in Nat /\ ~IsFamily(L[p + 1]) /\ L[p + 1].name # "Disbursed" /\ L[p + 1].name # "Op"
  BY ChainFacts DEF IsFamily
<1>2. \A a \in Module : ~IsRegistry(L[p + 1], a)
  BY DEF IsRegistry
<1>3. FeedIn(L, 1..(p + 1)) = FeedIn(L, 1..p)
  BY <1>1, FeedGrows
<1>4. RegistryIn(L, 1..(p + 1)) = RegistryIn(L, 1..p)
  BY <1>1, <1>2, SameRegistry
<1>5. /\ BatchesIn(L, 1..(p + 1)) = BatchesIn(L, 1..p) \cup {}
      /\ AcceptsIn(L, 1..(p + 1)) =
           AcceptsIn(L, 1..p) \cup {<<L[p + 1].leaf, L[p + 1].chunk>>}
  BY <1>1, SetsGrow
<1>6. \A j \in 1..(p + 1) : L[j].name = "Op" => j \in 1..p
  BY <1>1
<1>. QED BY <1>3, <1>4, <1>5, <1>6

\* The batch of an accept is known when its turn comes, and its chunk is not.
LEMMA AcceptIsNew ==
    ASSUME NEW L, ChainOK(L), NEW p \in 0..Len(L), p + 1 \in 1..Len(L),
           L[p + 1].name = "Accepted", NEW m, MemIs(m, L, p)
    PROVE  /\ \E b \in m.batches : b.leaf = L[p + 1].leaf
           /\ <<L[p + 1].leaf, L[p + 1].chunk>> \notin m.accepted
<1>1. p \in Nat /\ Len(L) \in Nat /\ Fits(L, p + 1) /\ (p + 1) - 1 = p
  BY ChainFacts DEF ChainOK
<1>2. PICK d \in 1..p : L[d].name = "Disbursed" /\ L[d].leaf = L[p + 1].leaf
  BY <1>1 DEF Fits
<1>3. <<L[p + 1].leaf, L[p + 1].chunk>> \notin AcceptsIn(L, 1..p)
  BY <1>1 DEF Fits
<1>4. PICK b : b = [leaf |-> L[d].leaf, module |-> L[d].from]
  OBVIOUS
<1>5. b \in m.batches /\ b.leaf = L[p + 1].leaf
  BY <1>2, <1>4 DEF MemIs, BatchesIn
<1>. QED BY <1>3, <1>5 DEF MemIs

LEMMA AcceptNextIs ==
    ASSUME NEW L, ChainOK(L), NEW p \in 0..Len(L), NEW m, NEW rows, Good(m, L, p, rows),
           p + 1 \in 1..Len(L), L[p + 1].name = "Accepted", NEW got
    PROVE  Good(AcceptNext(m, L[p + 1], got), L, p + 1, rows)
<1>1. PICK i, l, r, c : i = p + 1 /\ l = L[i] /\ r = AcceptNext(m, l, got) /\ c = {<<l.leaf, l.chunk>>}
  OBVIOUS
<1>2. /\ Shape(m) /\ MemIs(m, L, p) /\ SeenIs(m, L, p) /\ Covers(m, rows) /\ Len(rows.feed) \in Nat
  BY DEF Good
<1>3. /\ FeedIn(L, 1..i) = FeedIn(L, 1..p)
      /\ RegistryIn(L, 1..i) = RegistryIn(L, 1..p)
      /\ BatchesIn(L, 1..i) = BatchesIn(L, 1..p)
      /\ AcceptsIn(L, 1..i) = AcceptsIn(L, 1..p) \cup c
      /\ \A j \in 1..i : L[j].name = "Op" => j \in 1..p
  BY <1>1, AcceptSays
<1>4. r = [frontier |-> m.frontier, leaves |-> m.leaves, feed |-> m.feed, registry |-> m.registry,
           batches |-> m.batches, accepted |-> m.accepted \cup c,
           bytes |-> m.bytes \cup got, seen |-> m.seen \cup {l},
           dirty |-> [leaves |-> m.dirty.leaves, feed |-> m.dirty.feed,
                      modules |-> m.dirty.modules, batches |-> m.dirty.batches,
                      accepted |-> m.dirty.accepted \cup c, bytes |-> m.dirty.bytes \cup got],
           lastBlock |-> m.lastBlock]
  BY <1>1 DEF AcceptNext
<1>5. Shape(r)
  BY <1>2, <1>4 DEF Shape
<1>6. MemIs(r, L, i)
  <2>1. /\ m.feed = FeedIn(L, 1..p) /\ m.batches = BatchesIn(L, 1..p)
        /\ m.registry = RegistryIn(L, 1..p)
        /\ m.accepted \subseteq AcceptsIn(L, 1..p)
        /\ Honest => m.accepted = AcceptsIn(L, 1..p)
        /\ \A j \in 1..p : L[j].name = "Op" => L[j].leaf \in m.leaves
    BY <1>2 DEF MemIs
  <2>2. /\ r.feed = FeedIn(L, 1..i) /\ r.batches = BatchesIn(L, 1..i)
        /\ r.registry = RegistryIn(L, 1..i)
        /\ r.accepted \subseteq AcceptsIn(L, 1..i)
        /\ Honest => r.accepted = AcceptsIn(L, 1..i)
        /\ \A j \in 1..i : L[j].name = "Op" => L[j].leaf \in r.leaves
    BY <1>3, <1>4, <2>1
  <2>. QED BY <2>2 DEF MemIs
<1>7. SeenIs(r, L, i)
  <2>1. IsGated(L[p + 1])
    BY DEF IsGated
  <2>2. r.lastBlock = m.lastBlock /\ r.seen = m.seen \cup {L[p + 1]}
    BY <1>1, <1>4
  <2>3. SeenIs(r, L, p + 1)
    BY <1>2, <2>1, <2>2, SeenGrows
  <2>. QED BY <1>1, <2>3
<1>8. Covers(r, rows)
  <2>1. /\ m.leaves = rows.leaves \cup m.dirty.leaves
        /\ m.batches = rows.batches \cup m.dirty.batches
        /\ m.accepted = rows.accepted \cup m.dirty.accepted
        /\ \A a \in Module \ m.dirty.modules : m.registry[a] = rows.registry[a]
        /\ \E d \in 0..Len(rows.feed) : d <= Len(m.feed) /\ m.dirty.feed = Behind(m.feed, d)
    BY <1>2 DEF Covers
  <2>2. /\ r.leaves = m.leaves /\ r.dirty.leaves = m.dirty.leaves
        /\ r.batches = m.batches /\ r.dirty.batches = m.dirty.batches
        /\ r.accepted = m.accepted \cup c /\ r.dirty.accepted = m.dirty.accepted \cup c
        /\ r.registry = m.registry /\ r.dirty.modules = m.dirty.modules
        /\ r.feed = m.feed /\ r.dirty.feed = m.dirty.feed
    BY <1>4
  <2>3. r.accepted = rows.accepted \cup r.dirty.accepted
    BY <2>1, <2>2
  <2>. QED BY <2>1, <2>2, <2>3 DEF Covers
<1>. QED BY <1>1, <1>2, <1>5, <1>6, <1>7, <1>8 DEF Good

\* Bytes that fail the check leave the accept marked and its chunk missing.
LEMMA MarkedNextIs ==
    ASSUME NEW L, ChainOK(L), NEW p \in 0..Len(L), NEW m, NEW rows, Good(m, L, p, rows),
           p + 1 \in 1..Len(L), L[p + 1].name = "Accepted", ~Honest
    PROVE  Good(MarkedNext(m, L[p + 1]), L, p + 1, rows)
<1>1. PICK i, l, r : i = p + 1 /\ l = L[i] /\ r = MarkedNext(m, l)
  OBVIOUS
<1>2. /\ Shape(m) /\ MemIs(m, L, p) /\ SeenIs(m, L, p) /\ Covers(m, rows) /\ Len(rows.feed) \in Nat
  BY DEF Good
<1>3. /\ FeedIn(L, 1..i) = FeedIn(L, 1..p)
      /\ RegistryIn(L, 1..i) = RegistryIn(L, 1..p)
      /\ BatchesIn(L, 1..i) = BatchesIn(L, 1..p)
      /\ AcceptsIn(L, 1..p) \subseteq AcceptsIn(L, 1..i)
      /\ \A j \in 1..i : L[j].name = "Op" => j \in 1..p
  BY <1>1, AcceptSays
<1>4. /\ r.frontier = m.frontier /\ r.leaves = m.leaves /\ r.feed = m.feed
      /\ r.registry = m.registry /\ r.batches = m.batches /\ r.accepted = m.accepted
      /\ r.seen = m.seen \cup {l} /\ r.dirty = m.dirty /\ r.lastBlock = m.lastBlock
  BY <1>1 DEF MarkedNext
<1>5. Shape(r)
  BY <1>1, <1>2 DEF Shape, MarkedNext
<1>6. MemIs(r, L, i)
  <2>1. /\ m.feed = FeedIn(L, 1..p) /\ m.batches = BatchesIn(L, 1..p)
        /\ m.registry = RegistryIn(L, 1..p)
        /\ m.accepted \subseteq AcceptsIn(L, 1..p)
        /\ \A j \in 1..p : L[j].name = "Op" => L[j].leaf \in m.leaves
    BY <1>2 DEF MemIs
  <2>2. /\ r.feed = FeedIn(L, 1..i) /\ r.batches = BatchesIn(L, 1..i)
        /\ r.registry = RegistryIn(L, 1..i)
        /\ r.accepted \subseteq AcceptsIn(L, 1..i)
        /\ \A j \in 1..i : L[j].name = "Op" => L[j].leaf \in r.leaves
    BY <1>3, <1>4, <2>1
  <2>. QED BY <2>2 DEF MemIs
<1>7. SeenIs(r, L, i)
  <2>1. IsGated(L[p + 1])
    BY DEF IsGated
  <2>2. r.lastBlock = m.lastBlock /\ r.seen = m.seen \cup {L[p + 1]}
    BY <1>1, <1>4
  <2>3. SeenIs(r, L, p + 1)
    BY <1>2, <2>1, <2>2, SeenGrows
  <2>. QED BY <1>1, <2>3
<1>8. Covers(r, rows)
  BY <1>2, <1>4 DEF Covers
<1>. QED BY <1>1, <1>2, <1>5, <1>6, <1>7, <1>8 DEF Good

\* The mirror and the row of a batch.
MirrorNext(m, frontier, row) ==
    [frontier |-> frontier, leaves |-> m.leaves \cup row, feed |-> m.feed,
     registry |-> m.registry, batches |-> m.batches, accepted |-> m.accepted,
     bytes |-> m.bytes, seen |-> m.seen,
     dirty |-> [leaves |-> m.dirty.leaves \cup (row \ m.leaves), feed |-> m.dirty.feed,
                modules |-> m.dirty.modules, batches |-> m.dirty.batches,
                accepted |-> m.dirty.accepted, bytes |-> m.dirty.bytes],
     lastBlock |-> m.lastBlock]

LEMMA MirrorNextIs ==
    ASSUME NEW L, NEW p, NEW m, NEW rows, Good(m, L, p, rows), NEW frontier, NEW row
    PROVE  Good(MirrorNext(m, frontier, row), L, p, rows)
<1>1. PICK r : r = MirrorNext(m, frontier, row)
  OBVIOUS
<1>2. /\ Shape(m) /\ MemIs(m, L, p) /\ SeenIs(m, L, p) /\ Covers(m, rows) /\ Len(rows.feed) \in Nat
  BY DEF Good
<1>3. /\ r.leaves = m.leaves \cup row /\ r.dirty.leaves = m.dirty.leaves \cup (row \ m.leaves)
      /\ r.feed = m.feed /\ r.registry = m.registry
      /\ r.batches = m.batches /\ r.accepted = m.accepted /\ r.seen = m.seen
      /\ r.lastBlock = m.lastBlock
      /\ r.dirty.feed = m.dirty.feed /\ r.dirty.modules = m.dirty.modules
      /\ r.dirty.batches = m.dirty.batches /\ r.dirty.accepted = m.dirty.accepted
  BY <1>1 DEF MirrorNext
<1>4. Shape(r)
  BY <1>1, <1>2 DEF Shape, MirrorNext
<1>5. MemIs(r, L, p)
  BY <1>2, <1>3 DEF MemIs
<1>6. SeenIs(r, L, p)
  BY <1>2, <1>3 DEF SeenIs
<1>7. Covers(r, rows)
  BY <1>2, <1>3 DEF Covers
<1>. QED BY <1>1, <1>2, <1>4, <1>5, <1>6, <1>7 DEF Good

\* The EXCEPTs of the handlers.
LEMMA MarkedIs ==
    ASSUME NEW m, Shape(m), NEW l
    PROVE  [m EXCEPT !.seen = @ \cup {l}] = MarkedNext(m, l)
BY DEF Shape, MarkedNext

LEMMA MirrorIs ==
    ASSUME NEW m, Shape(m), NEW frontier, NEW row
    PROVE  recordLeaf([m EXCEPT !.frontier = frontier], row) = MirrorNext(m, frontier, row)
<1>1. PICK n : n = [m EXCEPT !.frontier = frontier]
  OBVIOUS
<1>2. /\ n = [frontier |-> frontier, leaves |-> m.leaves, feed |-> m.feed,
              registry |-> m.registry, batches |-> m.batches, accepted |-> m.accepted,
              bytes |-> m.bytes, seen |-> m.seen, dirty |-> m.dirty, lastBlock |-> m.lastBlock]
  BY <1>1 DEF Shape
<1>3. PICK dirty : dirty = [n.dirty EXCEPT !.leaves = @ \cup (row \ n.leaves)]
  OBVIOUS
<1>4. dirty = [leaves |-> m.dirty.leaves \cup (row \ m.leaves), feed |-> m.dirty.feed,
               modules |-> m.dirty.modules, batches |-> m.dirty.batches,
               accepted |-> m.dirty.accepted, bytes |-> m.dirty.bytes]
  BY <1>2, <1>3 DEF Shape
<1>5. recordLeaf(n, row) = [n EXCEPT !.leaves = @ \cup row, !.dirty = dirty]
  BY <1>3 DEF recordLeaf
<1>6. recordLeaf(n, row) = MirrorNext(m, frontier, row)
  BY <1>2, <1>4, <1>5 DEF MirrorNext
<1>. QED BY <1>1, <1>6

-----------------------------------------------------------------------------
(***************************************************************************)
(* The invariant.  The rows are the chain's at the cursor; memory is ahead *)
(* of them, and what it is ahead by is in the buffers; what a poll still   *)
(* has to apply is all that memory lacks of the range.                     *)
(***************************************************************************)
\* The last block, and the places of the logs up to a block.
HeadBlock(L) == IF L = <<>> THEN 0 ELSE L[Len(L)].block

UntilIn(L, b) == {i \in 1..Len(L) : L[i].block <= b}

\* The rows are those of the first q logs.
RowsAre(rows, L, q) ==
    /\ rows.feed = FeedIn(L, 1..q)
    /\ rows.registry = RegistryIn(L, 1..q)
    /\ rows.batches = BatchesIn(L, 1..q)
    /\ rows.leaves = LeavesIn(L, 1..q)
    /\ rows.accepted \subseteq AcceptsIn(L, 1..q)
    /\ Honest => rows.accepted = AcceptsIn(L, 1..q)

\* Memory is the read model after the first p logs, and goes no less far than the rows.
Ahead(m, L, p, rows, u) ==
    /\ p \in 0..Len(L)
    /\ Good(m, L, p, rows)
    /\ m.lastBlock <= rows.cursor
    /\ \A i \in UntilIn(L, rows.cursor) : i <= p
    /\ \A i \in 1..p : L[i].block <= u
    /\ m.leaves \subseteq LeavesIn(L, UntilIn(L, u))
    /\ \A l \in m.seen : l.block \in 0..u

\* What is left of a poll's range: every log of it that memory lacks, and no log
\* below the cursor in memory.
Polled(m, L, p, u, T) ==
    /\ \A i \in T : i \in UntilIn(L, u) /\ L[i].block > m.lastBlock
    /\ \A i \in UntilIn(L, u) :
           L[i].block > m.lastBlock /\ i \notin T =>
               /\ IsTree(L[i]) \/ i <= p
               /\ L[i].name = "SubtreeAppended" => L[i].leaf \in m.leaves

\* A process that is up, and the whole state.
Running(L, m, rows, ph, u, T) ==
    \E p \in 0..Len(L) : /\ Ahead(m, L, p, rows, u)
                         /\ ph \in {"applying", "applied"} => Polled(m, L, p, u, T)

State(L, m, rows, ph, u, T) ==
    /\ ChainOK(L)
    /\ ph \in {"down", "idle", "applying", "applied", "committed"}
    /\ u \in Nat /\ u <= HeadBlock(L)
    /\ rows.cursor \in Nat /\ rows.cursor <= u
    /\ \E q \in 0..Len(L) : Upto(L, rows.cursor, q) /\ RowsAre(rows, L, q)
    /\ ph # "applying" => T = {}
    /\ IF ph = "down" THEN m = NoMem ELSE Running(L, m, rows, ph, u, T)
    /\ ph = "committed" => rows.cursor = u /\ rows.accepted = m.accepted

IndexerInv == traffic \in Traffics /\ State(chain, mem, db, phase, upTo, todo)

-----------------------------------------------------------------------------
(* The chain grows.                                                        *)

LEMMA HeadFacts ==
    ASSUME NEW L, ChainOK(L)
    PROVE  /\ HeadBlock(L) \in Nat
           /\ \A i \in 1..Len(L) : L[i].block <= HeadBlock(L)
<1>1. Len(L) \in Nat /\ DOMAIN L = 1..Len(L)
  BY ChainFacts
<1>2. L = <<>> => Len(L) = 0
  OBVIOUS
<1>3. CASE L = <<>>
  BY <1>1, <1>2, <1>3 DEF HeadBlock
<1>4. CASE L # <<>>
  <2>1. Len(L) # 0
    <3>1. PICK S : L \in Seq(S)
      BY DEF ChainOK, IsSeq
    <3>. QED BY <1>4, <3>1
  <2>2. Len(L) \in 1..Len(L)
    BY <1>1, <2>1
  <2>3. L[Len(L)].block \in Nat /\ \A i \in 1..Len(L) : L[i].block <= L[Len(L)].block
    BY <1>1, <2>2, ChainFacts
  <2>. QED BY <1>4, <2>3 DEF HeadBlock
<1>. QED BY <1>3, <1>4

\* M continues L with logs of later blocks.
Continues(M, L) ==
    /\ Len(L) <= Len(M)
    /\ \A i \in 1..Len(L) : M[i] = L[i]
    /\ \A i \in (Len(L) + 1)..Len(M) : M[i].block > HeadBlock(L)

LEMMA UptoStays ==
    ASSUME NEW L, NEW M, ChainOK(L), ChainOK(M), Continues(M, L),
           NEW b \in Nat, b <= HeadBlock(L)
    PROVE  /\ UntilIn(M, b) = UntilIn(L, b)
           /\ \A q : Upto(L, b, q) => Upto(M, b, q)
<1>1. Len(L) \in Nat /\ Len(M) \in Nat /\ Len(L) <= Len(M) /\ HeadBlock(L) \in Nat
  BY ChainFacts, HeadFacts DEF Continues
<1>2. ASSUME NEW i \in 1..Len(M) PROVE i \in 1..Len(L) \/ ~(M[i].block <= b)
  <2>1. CASE i \in 1..Len(L)
    BY <2>1
  <2>2. CASE i \notin 1..Len(L)
    <3>1. i \in (Len(L) + 1)..Len(M)
      BY <1>1, <2>2
    <3>2. M[i].block > HeadBlock(L) /\ M[i].block \in Nat
      BY <3>1, ChainFacts DEF Continues
    <3>. QED BY <1>1, <3>2
  <2>. QED BY <2>1, <2>2
<1>3. \A i \in 1..Len(L) : i \in 1..Len(M) /\ M[i] = L[i]
  BY <1>1 DEF Continues
<1>4. UntilIn(M, b) = UntilIn(L, b)
  BY <1>2, <1>3 DEF UntilIn
<1>5. ASSUME NEW q, Upto(L, b, q) PROVE Upto(M, b, q)
  <2>1. q \in 0..Len(L) /\ \A i \in 1..Len(L) : L[i].block <= b <=> i <= q
    BY <1>5 DEF Upto
  <2>2. ASSUME NEW i \in 1..Len(M) PROVE M[i].block <= b <=> i <= q
    <3>1. CASE i \in 1..Len(L)
      BY <1>3, <2>1, <3>1
    <3>2. CASE i \notin 1..Len(L)
      BY <1>1, <1>2, <2>1, <3>2
    <3>. QED BY <3>1, <3>2
  <2>3. q \in 0..Len(M)
    BY <1>1, <2>1
  <2>. QED BY <2>2, <2>3 DEF Upto
<1>. QED BY <1>4, <1>5

LEMMA StateStays ==
    ASSUME NEW L, NEW M, NEW m, NEW rows, NEW ph, NEW u, NEW T,
           State(L, m, rows, ph, u, T), ph # "applying", ChainOK(M), Continues(M, L)
    PROVE  State(M, m, rows, ph, u, T)
<1>1. /\ ChainOK(L) /\ u \in Nat /\ u <= HeadBlock(L) /\ rows.cursor \in Nat /\ rows.cursor <= u
      /\ rows.cursor <= HeadBlock(L)
  BY HeadFacts DEF State
<1>2. /\ Len(L) \in Nat /\ Len(M) \in Nat /\ Len(L) <= Len(M)
      /\ \A i \in 1..Len(L) : M[i] = L[i]
      /\ HeadBlock(L) \in Nat /\ HeadBlock(M) \in Nat
  BY <1>1, ChainFacts, HeadFacts DEF Continues
<1>3. HeadBlock(L) <= HeadBlock(M)
  <2>1. CASE L = <<>>
    BY <1>2, <2>1 DEF HeadBlock
  <2>2. CASE L # <<>>
    <3>1. PICK S : L \in Seq(S)
      BY <1>1 DEF ChainOK, IsSeq
    <3>2. Len(L) \in 1..Len(L) /\ Len(L) \in 1..Len(M)
      BY <1>2, <2>2, <3>1
    <3>3. HeadBlock(L) = M[Len(L)].block
      BY <1>2, <2>2, <3>2 DEF HeadBlock
    <3>. QED BY <3>2, <3>3, HeadFacts
  <2>. QED BY <2>1, <2>2
<1>4. /\ UntilIn(M, u) = UntilIn(L, u) /\ UntilIn(M, rows.cursor) = UntilIn(L, rows.cursor)
      /\ \A q : Upto(L, rows.cursor, q) => Upto(M, rows.cursor, q)
  BY <1>1, UptoStays
<1>5. ASSUME NEW n \in 0..Len(L)
      PROVE  /\ FeedIn(M, 1..n) = FeedIn(L, 1..n)
             /\ RegistryIn(M, 1..n) = RegistryIn(L, 1..n)
             /\ AcceptsIn(M, 1..n) = AcceptsIn(L, 1..n)
             /\ BatchesIn(M, 1..n) = BatchesIn(L, 1..n)
             /\ LeavesIn(M, 1..n) = LeavesIn(L, 1..n)
             /\ \A i \in 1..n : M[i] = L[i]
  <2>1. n \in Nat /\ \A i \in 1..n : M[i] = L[i]
    BY <1>2
  <2>. QED BY <2>1, SameIn
<1>6. \E q \in 0..Len(M) : Upto(M, rows.cursor, q) /\ RowsAre(rows, M, q)
  <2>1. PICK q \in 0..Len(L) : Upto(L, rows.cursor, q) /\ RowsAre(rows, L, q)
    BY DEF State
  <2>2. RowsAre(rows, M, q)
    BY <1>5, <2>1 DEF RowsAre
  <2>3. Upto(M, rows.cursor, q) /\ q \in 0..Len(M)
    BY <1>2, <1>4, <2>1
  <2>. QED BY <2>2, <2>3
<1>7. ASSUME NEW p \in 0..Len(L), Ahead(m, L, p, rows, u) PROVE Ahead(m, M, p, rows, u)
  <2>1. /\ Good(m, L, p, rows) /\ m.lastBlock <= rows.cursor
        /\ \A i \in UntilIn(L, rows.cursor) : i <= p
        /\ \A i \in 1..p : L[i].block <= u
        /\ m.leaves \subseteq LeavesIn(L, UntilIn(L, u))
        /\ \A l \in m.seen : l.block \in 0..u
    BY <1>7 DEF Ahead
  <2>2. /\ Shape(m) /\ MemIs(m, L, p) /\ SeenIs(m, L, p) /\ Covers(m, rows) /\ Len(rows.feed) \in Nat
    BY <2>1 DEF Good
  <2>3. MemIs(m, M, p)
    BY <1>5, <2>2 DEF MemIs
  <2>4. SeenIs(m, M, p)
    <3>1. ASSUME NEW i \in 1..Len(M), IsGated(M[i]), M[i].block > m.lastBlock
          PROVE  M[i] \in m.seen <=> i <= p
      <4>1. CASE i \in 1..Len(L)
        BY <1>2, <2>2, <3>1, <4>1 DEF SeenIs
      <4>2. CASE i \notin 1..Len(L)
        <5>1. i \in (Len(L) + 1)..Len(M) /\ ~(i <= p)
          BY <1>2, <4>2
        <5>2. M[i].block > HeadBlock(L) /\ M[i].block \in Nat
          BY <5>1, ChainFacts DEF Continues
        <5>3. ~(M[i].block <= u)
          BY <1>1, <1>2, <5>2
        <5>. QED BY <2>1, <5>1, <5>3
      <4>. QED BY <4>1, <4>2
    <3>. QED BY <3>1 DEF SeenIs
  <2>5. Good(m, M, p, rows)
    BY <2>2, <2>3, <2>4 DEF Good
  <2>6. LeavesIn(M, UntilIn(M, u)) = LeavesIn(L, UntilIn(L, u))
    <3>1. \A i \in UntilIn(L, u) : M[i] = L[i]
      BY <1>2 DEF UntilIn
    <3>. QED BY <1>4, <3>1 DEF LeavesIn
  <2>7. \A i \in 1..p : M[i].block <= u
    BY <1>5, <2>1
  <2>8. p \in 0..Len(M)
    BY <1>2
  <2>. QED BY <1>4, <2>1, <2>5, <2>6, <2>7, <2>8 DEF Ahead
<1>8. ASSUME NEW p \in 0..Len(L), Polled(m, L, p, u, T) PROVE Polled(m, M, p, u, T)
  <2>1. \A i \in UntilIn(L, u) : M[i] = L[i]
    BY <1>2 DEF UntilIn
  <2>. QED BY <1>4, <1>8, <2>1 DEF Polled
<1>9. Running(L, m, rows, ph, u, T) => Running(M, m, rows, ph, u, T)
  <2>1. SUFFICES ASSUME Running(L, m, rows, ph, u, T) PROVE Running(M, m, rows, ph, u, T)
    OBVIOUS
  <2>2. PICK p \in 0..Len(L) : /\ Ahead(m, L, p, rows, u)
                               /\ ph \in {"applying", "applied"} => Polled(m, L, p, u, T)
    BY <2>1 DEF Running
  <2>3. p \in 0..Len(M)
    BY <1>2
  <2>. QED BY <1>7, <1>8, <2>2, <2>3 DEF Running
<1>10. u <= HeadBlock(M)
  BY <1>1, <1>2, <1>3
<1>. QED BY <1>1, <1>6, <1>9, <1>10 DEF State

LEMMA ShortSeqs ==
    ASSUME NEW x, NEW y
    PROVE  /\ IsSeq(<<x>>) /\ Len(<<x>>) = 1 /\ <<x>>[1] = x
           /\ IsSeq(<<x, y>>) /\ Len(<<x, y>>) = 2 /\ <<x, y>>[1] = x /\ <<x, y>>[2] = y
<1>1. <<x>> \in Seq({x, y}) /\ <<x, y>> \in Seq({x, y})
  OBVIOUS
<1>. QED BY <1>1 DEF IsSeq

LEMMA PairConcat ==
    ASSUME NEW L, IsSeq(L), NEW s, IsSeq(s), Len(s) = 2
    PROVE  /\ IsSeq(L \o s) /\ Len(L \o s) = Len(L) + 2
           /\ \A i \in 1..Len(L) : (L \o s)[i] = L[i]
           /\ (L \o s)[Len(L) + 1] = s[1] /\ (L \o s)[Len(L) + 2] = s[2]
<1>1. PICK M : M = L \o s
  OBVIOUS
<1>2. /\ IsSeq(M) /\ Len(M) = Len(L) + 2 /\ \A i \in 1..Len(L) : M[i] = L[i]
      /\ \A k \in 1..2 : M[Len(L) + k] = s[k]
  <2>0. IsSeq(L) /\ IsSeq(s)
    OBVIOUS
  <2>1. /\ IsSeq(L \o s) /\ Len(L \o s) = Len(L) + Len(s)
        /\ \A k \in 1..Len(L) : (L \o s)[k] = L[k]
        /\ \A k \in 1..Len(s) : (L \o s)[Len(L) + k] = s[k]
    BY ONLY <2>0, ConcatFacts
  <2>2. /\ IsSeq(M) /\ Len(M) = Len(L) + Len(s)
        /\ \A k \in 1..Len(L) : M[k] = L[k]
        /\ \A k \in 1..Len(s) : M[Len(L) + k] = s[k]
    BY ONLY <1>1, <2>1
  <2>3. Len(s) = 2
    OBVIOUS
  <2>. QED BY ONLY <2>2, <2>3
<1>3. 1 \in 1..2 /\ 2 \in 1..2
  OBVIOUS
<1>. QED BY <1>1, <1>2, <1>3

LEMMA SingleConcat ==
    ASSUME NEW L, IsSeq(L), NEW s, IsSeq(s), Len(s) = 1
    PROVE  /\ IsSeq(L \o s) /\ Len(L \o s) = Len(L) + 1
           /\ \A i \in 1..Len(L) : (L \o s)[i] = L[i]
           /\ (L \o s)[Len(L) + 1] = s[1]
<1>1. PICK M : M = L \o s
  OBVIOUS
<1>2. /\ IsSeq(M) /\ Len(M) = Len(L) + 1 /\ \A i \in 1..Len(L) : M[i] = L[i]
      /\ \A k \in 1..1 : M[Len(L) + k] = s[k]
  <2>0. IsSeq(L) /\ IsSeq(s)
    OBVIOUS
  <2>1. /\ IsSeq(L \o s) /\ Len(L \o s) = Len(L) + Len(s)
        /\ \A k \in 1..Len(L) : (L \o s)[k] = L[k]
        /\ \A k \in 1..Len(s) : (L \o s)[Len(L) + k] = s[k]
    BY ONLY <2>0, ConcatFacts
  <2>2. /\ IsSeq(M) /\ Len(M) = Len(L) + Len(s)
        /\ \A k \in 1..Len(L) : M[k] = L[k]
        /\ \A k \in 1..Len(s) : M[Len(L) + k] = s[k]
    BY ONLY <1>1, <2>1
  <2>3. Len(s) = 1
    OBVIOUS
  <2>. QED BY ONLY <2>2, <2>3
<1>3. 1 \in 1..1
  OBVIOUS
<1>. QED BY <1>1, <1>2, <1>3

LEMMA FitsStays ==
    ASSUME NEW L, NEW M, NEW k \in Nat \ {0}, \A i \in 1..k : M[i] = L[i], Fits(L, k)
    PROVE  Fits(M, k)
<1>1. k - 1 \in Nat /\ (\A i \in 1..(k - 1) : M[i] = L[i]) /\ M[k] = L[k]
  OBVIOUS
<1>2. /\ RegistryIn(M, 1..(k - 1)) = RegistryIn(L, 1..(k - 1))
      /\ AcceptsIn(M, 1..(k - 1)) = AcceptsIn(L, 1..(k - 1))
      /\ LeavesIn(M, 1..(k - 1)) = LeavesIn(L, 1..(k - 1))
  BY <1>1, SameIn
<1>3. InOrderOfBlocks(M, k)
  BY <1>1 DEF Fits, InOrderOfBlocks
<1>4. Follows(M, k)
  <2>1. k # 1 => M[k - 1] = L[k - 1]
    OBVIOUS
  <2>. QED BY <1>1, <1>2, <2>1 DEF Fits, Follows
<1>. QED BY <1>1, <1>2, <1>3, <1>4 DEF Fits

\* An operation's two logs, at the end of L and in block b.
IsPair(L, b, n, t, f) ==
    /\ IsTree(t) /\ t.from = Pool /\ t.block = b /\ t.leaf = n
    /\ IsFamily(f) /\ f.block = b /\ f.leaf = n
    /\ f.name = "Disbursed" <=> t.name = "SubtreeAppended"
    /\ f.from \in Module \cup {Pool}
    /\ f.name = "Disbursed" => f.from \in Module
    /\ f.from \in Module => RegistryIn(L, 1..Len(L))[f.from] = "registered"

\* Block b may hold more logs of operations behind those of L.
Open(L, b) == \A i \in 1..Len(L) : L[i].block <= b /\ (IsOnRegistry(L[i]) => L[i].block < b)

LEMMA PairFits ==
    ASSUME NEW L, ChainOK(L), NEW b \in Nat \ {0}, Open(L, b),
           NEW n \in Nat, LeavesIn(L, 1..Len(L)) = 0..(n - 1),
           NEW t, NEW f, IsPair(L, b, n, t, f), NEW M, IsSeq(M), Len(M) = Len(L) + 2,
           \A i \in 1..Len(L) : M[i] = L[i], M[Len(L) + 1] = t, M[Len(L) + 2] = f
    PROVE  /\ ChainOK(M) /\ Open(M, b)
           /\ LeavesIn(M, 1..Len(M)) = 0..n
           /\ RegistryIn(M, 1..Len(M)) = RegistryIn(L, 1..Len(L))
<1>1. PICK c : c = Len(L)
  OBVIOUS
<1>2. /\ c \in Nat /\ IsSeq(L) /\ \A k \in 1..c : Fits(L, k)
      /\ \A k \in 1..c : L[k].block \in Nat
  BY <1>1, ChainFacts DEF ChainOK
<1>3. /\ IsSeq(M) /\ Len(M) = c + 2 /\ \A i \in 1..c : M[i] = L[i]
      /\ M[c + 1] = t /\ M[c + 2] = f
  BY <1>1
<1>4. /\ RegistryIn(M, 1..c) = RegistryIn(L, 1..c)
      /\ LeavesIn(M, 1..c) = LeavesIn(L, 1..c)
  BY ONLY <1>2, <1>3, SameIn
<1>5. /\ t.name \in {"Appended", "SubtreeAppended"} /\ f.name \in {"Op", "Disbursed"}
      /\ ~IsOnRegistry(t) /\ ~IsOnRegistry(f) /\ ~IsTree(f) /\ ~IsFamily(t)
  BY DEF IsPair, IsTree, IsFamily, IsOnRegistry
<1>6. /\ \A m \in Module : ~IsRegistry(t, m) /\ ~IsRegistry(f, m)
  BY <1>5 DEF IsRegistry
<1>7. c + 1 \in Nat /\ (c + 1) - 1 = c /\ (c + 2) - 1 = c + 1 /\ (c + 1) + 1 = c + 2
  BY <1>2
<1>8. /\ RegistryIn(M, 1..(c + 1)) = RegistryIn(M, 1..c)
      /\ RegistryIn(M, 1..(c + 2)) = RegistryIn(M, 1..(c + 1))
  <2>1. RegistryIn(M, 1..(c + 1)) = RegistryIn(M, 1..c)
    BY <1>2, <1>3, <1>6, SameRegistry
  <2>2. \A m \in Module : ~IsRegistry(M[(c + 1) + 1], m)
    BY <1>3, <1>6, <1>7
  <2>3. RegistryIn(M, 1..((c + 1) + 1)) = RegistryIn(M, 1..(c + 1))
    BY <1>7, <2>2, SameRegistry
  <2>. QED BY <1>7, <2>1, <2>3
<1>9. LeavesIn(M, 1..(c + 1)) = 0..n /\ LeavesIn(M, 1..(c + 2)) = 0..n
  <2>1. LeavesIn(M, 1..(c + 1)) = LeavesIn(M, 1..c) \cup {n}
    <3>1. IsTree(M[c + 1]) /\ M[c + 1].leaf = n
      BY <1>3 DEF IsPair
    <3>. QED BY ONLY <1>2, <3>1, SetsGrow
  <2>2. (0..(n - 1)) \cup {n} = 0..n
    OBVIOUS
  <2>3. LeavesIn(M, 1..(c + 1)) = 0..n
    BY <1>1, <1>4, <2>1, <2>2
  <2>4. ~IsTree(M[(c + 1) + 1])
    BY <1>3, <1>5, <1>7
  <2>5. LeavesIn(M, 1..((c + 1) + 1)) = LeavesIn(M, 1..(c + 1)) \cup {}
    BY <1>7, <2>4, SetsGrow
  <2>. QED BY <1>7, <2>3, <2>5
<1>10. Fits(M, c + 1)
  <2>1. LogOK(t)
    BY <1>5 DEF IsPair, LogOK, Names
  <2>2. InOrderOfBlocks(M, c + 1)
    <3>1. \A i \in 1..c : M[i].block <= t.block /\ (IsOnRegistry(M[i]) => M[i].block < t.block)
      BY <1>1, <1>3 DEF Open, IsPair
    <3>. QED BY <1>3, <1>5, <1>7, <3>1 DEF InOrderOfBlocks
  <2>3. Follows(M, c + 1)
    BY <1>3, <1>5 DEF Follows
  <2>4. LeavesIn(M, 1..((c + 1) - 1)) = 0..(t.leaf - 1)
    BY <1>1, <1>4, <1>7 DEF IsPair
  <2>5. t.name # "Accepted"
    BY <1>5
  <2>. QED BY <1>3, <1>5, <2>1, <2>2, <2>3, <2>4, <2>5 DEF Fits
<1>11. Fits(M, c + 2)
  <2>1. LogOK(f)
    BY <1>5 DEF IsPair, LogOK, Names
  <2>2. InOrderOfBlocks(M, c + 2)
    <3>1. \A i \in 1..(c + 1) : M[i].block <= f.block /\ (IsOnRegistry(M[i]) => M[i].block < f.block)
      <4>1. \A i \in 1..c : M[i].block <= f.block /\ (IsOnRegistry(M[i]) => M[i].block < f.block)
        BY <1>1, <1>3 DEF Open, IsPair
      <4>2. M[c + 1].block <= f.block /\ ~IsOnRegistry(M[c + 1])
        BY <1>3, <1>5 DEF IsPair
      <4>. QED BY <1>2, <4>1, <4>2
    <3>. QED BY <1>3, <1>5, <1>7, <3>1 DEF InOrderOfBlocks
  <2>3. Follows(M, c + 2)
    <3>1. c + 2 # 1 /\ M[(c + 2) - 1] = t /\ M[c + 2] = f
      BY <1>2, <1>3, <1>7
    <3>2. f.from \in Module => RegistryIn(M, 1..((c + 2) - 1))[f.from] = "registered"
      BY <1>1, <1>4, <1>7, <1>8 DEF IsPair
    <3>3. /\ IsTree(t) /\ t.leaf = f.leaf /\ t.block = f.block
          /\ f.name = "Disbursed" <=> t.name = "SubtreeAppended"
      BY DEF IsPair
    <3>. QED BY <3>1, <3>2, <3>3 DEF Follows
  <2>4. ~IsTree(f) /\ f.name # "Accepted" /\ ~IsOnRegistry(f)
    BY <1>5
  <2>. QED BY <1>3, <2>1, <2>2, <2>3, <2>4 DEF Fits
<1>12. \A k \in 1..Len(M) : Fits(M, k)
  <2>1. ASSUME NEW k \in 1..c PROVE Fits(M, k)
    <3>1. k \in Nat \ {0} /\ \A i \in 1..k : M[i] = L[i]
      BY <1>2, <1>3
    <3>2. Fits(L, k)
      BY <1>2
    <3>. QED BY <3>1, <3>2, FitsStays
  <2>2. \A k \in 1..(c + 2) : k \in 1..c \/ k = c + 1 \/ k = c + 2
    <3>1. c \in Nat
      BY <1>2
    <3>. QED BY ONLY <3>1
  <2>3. \A k \in 1..(c + 2) : Fits(M, k)
    BY ONLY <1>10, <1>11, <2>1, <2>2
  <2>. QED BY <1>3, <2>3
<1>13. Spoken(M)
  <2>1. ASSUME NEW i \in 1..Len(M), IsTree(M[i]) PROVE i + 1 \in 1..Len(M) /\ IsFamily(M[i + 1])
    <3>1. CASE i \in 1..c
      <4>1. i + 1 \in 1..c /\ IsFamily(L[i + 1])
        BY <1>1, <1>3, <2>1, <3>1 DEF ChainOK, Spoken
      <4>. QED BY <1>2, <1>3, <4>1
    <3>2. CASE i = c + 1
      BY <1>3, <1>7, <3>2 DEF IsPair
    <3>3. CASE i = c + 2
      BY <1>3, <1>5, <2>1, <3>3
    <3>. QED BY <1>2, <1>3, <3>1, <3>2, <3>3
  <2>. QED BY <2>1 DEF Spoken
<1>14. ChainOK(M)
  <2>1. n + 1 \in Nat /\ (n + 1) - 1 = n
    OBVIOUS
  <2>2. LeavesIn(M, 1..Len(M)) = 0..((n + 1) - 1)
    BY <1>3, <1>9, <2>1
  <2>. QED BY <1>3, <1>12, <1>13, <2>1, <2>2 DEF ChainOK
<1>15. Open(M, b)
  <2>1. \A i \in 1..c : M[i].block <= b /\ (IsOnRegistry(M[i]) => M[i].block < b)
    BY <1>1, <1>3 DEF Open
  <2>2. t.block = b /\ f.block = b
    BY DEF IsPair
  <2>. QED BY <1>2, <1>3, <1>5, <2>1, <2>2 DEF Open
<1>. QED BY <1>1, <1>3, <1>4, <1>8, <1>9, <1>14, <1>15

\* One log that is no operation's, in a block of its own.
LEMMA SingleFits ==
    ASSUME NEW L, ChainOK(L), NEW l, LogOK(l), ~IsTree(l), ~IsFamily(l),
           \A i \in 1..Len(L) : L[i].block < l.block,
           IsOnRegistry(l) => (l.name = "ModuleRegistered" <=>
                                   RegistryIn(L, 1..Len(L))[l.module] # "registered"),
           l.name = "Accepted" =>
               /\ \E d \in 1..Len(L) : /\ L[d].name = "Disbursed"
                                       /\ L[d].leaf = l.leaf /\ L[d].from = l.from
               /\ <<l.leaf, l.chunk>> \notin AcceptsIn(L, 1..Len(L)),
           NEW M, IsSeq(M), Len(M) = Len(L) + 1,
           \A i \in 1..Len(L) : M[i] = L[i], M[Len(L) + 1] = l
    PROVE  ChainOK(M)
<1>1. PICK c : c = Len(L)
  OBVIOUS
<1>2. /\ c \in Nat /\ IsSeq(L) /\ \A k \in 1..c : Fits(L, k)
      /\ \A k \in 1..c : L[k].block \in Nat
  BY <1>1, ChainFacts DEF ChainOK
<1>3. /\ IsSeq(M) /\ Len(M) = c + 1 /\ \A i \in 1..c : M[i] = L[i]
      /\ M[c + 1] = l
  BY <1>1
<1>4. /\ RegistryIn(M, 1..c) = RegistryIn(L, 1..c)
      /\ LeavesIn(M, 1..c) = LeavesIn(L, 1..c)
      /\ AcceptsIn(M, 1..c) = AcceptsIn(L, 1..c)
  BY <1>2, <1>3, SameIn
<1>5. (c + 1) - 1 = c
  BY <1>2
<1>6. Fits(M, c + 1)
  <2>1. InOrderOfBlocks(M, c + 1)
    <3>1. \A i \in 1..c : M[i].block < l.block /\ M[i].block \in Nat /\ l.block \in Nat
      BY <1>1, <1>2, <1>3 DEF LogOK
    <3>2. \A i \in 1..c : M[i].block <= l.block /\ M[i].block < l.block
      BY <3>1
    <3>. QED BY <1>3, <1>5, <3>2 DEF InOrderOfBlocks
  <2>2. Follows(M, c + 1)
    BY <1>3 DEF Follows
  <2>3. l.name = "Accepted" =>
             /\ \E d \in 1..((c + 1) - 1) : /\ M[d].name = "Disbursed"
                                            /\ M[d].leaf = l.leaf /\ M[d].from = l.from
             /\ <<l.leaf, l.chunk>> \notin AcceptsIn(M, 1..((c + 1) - 1))
    BY <1>1, <1>3, <1>4, <1>5
  <2>4. IsOnRegistry(l) => (l.name = "ModuleRegistered" <=>
                                RegistryIn(M, 1..((c + 1) - 1))[l.module] # "registered")
    BY <1>1, <1>4, <1>5
  <2>. QED BY <1>3, <2>1, <2>2, <2>3, <2>4 DEF Fits
<1>7. \A k \in 1..Len(M) : Fits(M, k)
  <2>1. ASSUME NEW k \in 1..c PROVE Fits(M, k)
    <3>1. k \in Nat \ {0} /\ \A i \in 1..k : M[i] = L[i]
      BY <1>2, <1>3
    <3>2. Fits(L, k)
      BY <1>2
    <3>. QED BY <3>1, <3>2, FitsStays
  <2>. QED BY <1>2, <1>3, <1>6, <2>1
<1>8. Spoken(M)
  <2>1. ASSUME NEW i \in 1..Len(M), IsTree(M[i]) PROVE i + 1 \in 1..Len(M) /\ IsFamily(M[i + 1])
    <3>1. i \in 1..c
      BY <1>2, <1>3, <2>1
    <3>2. i + 1 \in 1..c /\ IsFamily(L[i + 1])
      BY <1>1, <1>3, <2>1, <3>1 DEF ChainOK, Spoken
    <3>. QED BY <1>2, <1>3, <3>2
  <2>. QED BY <2>1 DEF Spoken
<1>9. \E n \in Nat : LeavesIn(M, 1..Len(M)) = 0..(n - 1)
  <2>1. LeavesIn(M, 1..(c + 1)) = LeavesIn(M, 1..c) \cup {}
    BY <1>2, <1>3, SetsGrow
  <2>. QED BY <1>1, <1>3, <1>4, <2>1 DEF ChainOK
<1>. QED BY <1>1, <1>3, <1>7, <1>8, <1>9 DEF ChainOK

\* What the model says of the chain up to a block, by places.
LEMMA AtIs ==
    ASSUME ChainOK(chain), NEW b, NEW q, Upto(chain, b, q)
    PROVE  /\ Until(b) = 1..q /\ UntilIn(chain, b) = 1..q
           /\ LeavesAt(b) = LeavesIn(chain, 1..q)
           /\ FeedAt(b) = FeedIn(chain, 1..q)
           /\ RegistryAt(b) = RegistryIn(chain, 1..q)
           /\ AcceptsAt(b) = AcceptsIn(chain, 1..q)
<1>1. Until(b) = 1..q
  BY UptoFacts DEF Until
<1>2. UntilIn(chain, b) = 1..q
  BY UptoFacts, ChainFacts DEF UntilIn
<1>3. LeavesAt(b) = LeavesIn(chain, 1..q)
  BY <1>1 DEF LeavesAt, LeavesOf, LeavesIn
<1>4. FeedAt(b) = FeedIn(chain, 1..q)
  BY <1>1 DEF FeedAt, FeedOf, FeedIn, FamilyIn
<1>5. RegistryAt(b) = RegistryIn(chain, 1..q)
  BY <1>1 DEF RegistryAt, RegistryOf, RegistryIn, StatusIn, LogsOf, Lasting
<1>6. AcceptsAt(b) = AcceptsIn(chain, 1..q)
  BY <1>1 DEF AcceptsAt, AcceptsOf, AcceptsIn
<1>. QED BY <1>1, <1>2, <1>3, <1>4, <1>5, <1>6

LEMMA AtHead ==
    ASSUME ChainOK(chain)
    PROVE  /\ headBlock = HeadBlock(chain) /\ HeadBlock(chain) \in Nat
           /\ Upto(chain, headBlock, Len(chain))
           /\ LeavesAt(headBlock) = LeavesIn(chain, 1..Len(chain))
           /\ FeedAt(headBlock) = FeedIn(chain, 1..Len(chain))
           /\ RegistryAt(headBlock) = RegistryIn(chain, 1..Len(chain))
           /\ AcceptsAt(headBlock) = AcceptsIn(chain, 1..Len(chain))
<1>1. headBlock = HeadBlock(chain)
  BY DEF headBlock, HeadBlock
<1>2. HeadBlock(chain) \in Nat /\ \A i \in 1..Len(chain) : chain[i].block <= HeadBlock(chain)
  BY HeadFacts
<1>3. Len(chain) \in Nat
  BY ChainFacts
<1>4. Upto(chain, headBlock, Len(chain))
  BY <1>1, <1>2, <1>3 DEF Upto
<1>. QED BY <1>1, <1>2, <1>4, AtIs

\* The next leaf.
LEMMA NextLeaf ==
    ASSUME ChainOK(chain)
    PROVE  \E n \in Nat : /\ LeavesIn(chain, 1..Len(chain)) = 0..(n - 1)
                          /\ Cardinality(LeavesAt(headBlock)) = n
<1>1. PICK n \in Nat : LeavesIn(chain, 1..Len(chain)) = 0..(n - 1)
  BY DEF ChainOK
<1>2. Cardinality(0..(n - 1)) = n
  <2>1. 0 \in Int /\ n - 1 \in Int
    OBVIOUS
  <2>2. Cardinality(0..(n - 1)) = IF 0 > n - 1 THEN 0 ELSE (n - 1) - 0 + 1
    BY ONLY <2>1, FS_Interval
  <2>. QED BY <2>2
<1>. QED BY <1>1, <1>2, AtHead

LEMMA OpLogsAre ==
    ASSUME NEW L, NEW b, b = headBlock + 1, b \in Nat \ {0}, NEW n \in Nat,
           NEW name \in {"Op", "Disbursed"}, NEW from \in Module \cup {Pool},
           name = "Disbursed" => from \in Module,
           from \in Module => RegistryIn(L, 1..Len(L))[from] = "registered"
    PROVE  LET s == OpLogs(name, from, n)
           IN  IsSeq(s) /\ Len(s) = 2 /\ IsPair(L, b, n, s[1], s[2])
<1>1. PICK t, f :
         /\ t = [name |-> IF name = "Disbursed" THEN "SubtreeAppended" ELSE "Appended",
                 from |-> Pool, block |-> b, leaf |-> n]
         /\ f = [name |-> name, from |-> from, block |-> b, leaf |-> n]
  OBVIOUS
<1>2. OpLogs(name, from, n) = <<t, f>>
  BY <1>1 DEF OpLogs
<1>3. /\ t.name = (IF name = "Disbursed" THEN "SubtreeAppended" ELSE "Appended")
      /\ t.from = Pool /\ t.block = b /\ t.leaf = n
      /\ f.name = name /\ f.from = from /\ f.block = b /\ f.leaf = n
  BY <1>1
<1>4. IsPair(L, b, n, t, f)
  BY <1>3 DEF IsPair, IsTree, IsFamily
<1>5. PICK s : s = <<t, f>>
  OBVIOUS
<1>6. IsSeq(s) /\ Len(s) = 2 /\ s[1] = t /\ s[2] = f
  BY <1>5, ShortSeqs
<1>7. OpLogs(name, from, n) = s
  BY ONLY <1>2, <1>5
<1>. QED BY ONLY <1>4, <1>6, <1>7

\* A transaction of one operation.
LEMMA OpTxFits ==
    ASSUME ChainOK(chain), NEW n \in Nat, LeavesIn(chain, 1..Len(chain)) = 0..(n - 1),
           NEW s, IsSeq(s), Len(s) = 2, IsPair(chain, headBlock + 1, n, s[1], s[2])
    PROVE  /\ ChainOK(chain \o s) /\ Continues(chain \o s, chain)
           /\ Open(chain \o s, headBlock + 1)
           /\ LeavesIn(chain \o s, 1..Len(chain \o s)) = 0..n
           /\ RegistryIn(chain \o s, 1..Len(chain \o s)) = RegistryIn(chain, 1..Len(chain))
<1>1. PICK M, L, b : M = chain \o s /\ L = chain /\ b = headBlock + 1
  OBVIOUS
<1>2. /\ ChainOK(L) /\ b \in Nat \ {0} /\ HeadBlock(L) < b /\ HeadBlock(L) \in Nat
      /\ \A i \in 1..Len(L) : L[i].block <= HeadBlock(L) /\ L[i].block \in Nat
  BY <1>1, AtHead, HeadFacts, ChainFacts
<1>3. Len(L) \in Nat /\ IsSeq(L)
  BY <1>2, ChainFacts DEF ChainOK
<1>4. Open(L, b)
  <2>1. \A i \in 1..Len(L) : L[i].block < b /\ L[i].block <= b
    BY <1>2
  <2>. QED BY <2>1 DEF Open
<1>5. /\ IsSeq(M) /\ Len(M) = Len(L) + 2 /\ \A i \in 1..Len(L) : M[i] = L[i]
      /\ M[Len(L) + 1] = s[1] /\ M[Len(L) + 2] = s[2]
  <2>1. /\ IsSeq(L \o s) /\ Len(L \o s) = Len(L) + 2
        /\ \A i \in 1..Len(L) : (L \o s)[i] = L[i]
        /\ (L \o s)[Len(L) + 1] = s[1] /\ (L \o s)[Len(L) + 2] = s[2]
    <3>1. IsSeq(s) /\ Len(s) = 2
      OBVIOUS
    <3>. QED BY ONLY <1>3, <3>1, PairConcat
  <2>2. M = L \o s
    BY <1>1
  <2>. QED BY ONLY <2>1, <2>2
<1>6. LeavesIn(L, 1..Len(L)) = 0..(n - 1) /\ IsPair(L, b, n, s[1], s[2])
  BY <1>1
<1>7. /\ ChainOK(M) /\ Open(M, b)
      /\ LeavesIn(M, 1..Len(M)) = 0..n
      /\ RegistryIn(M, 1..Len(M)) = RegistryIn(L, 1..Len(L))
  <2>1. n \in Nat
    OBVIOUS
  <2>. QED BY ONLY <1>2, <1>4, <1>5, <1>6, <2>1, PairFits
<1>8. Continues(M, L)
  <2>1. s[1].block = b /\ s[2].block = b
    BY <1>6 DEF IsPair
  <2>2. \A i \in (Len(L) + 1)..Len(M) : M[i].block > HeadBlock(L)
    BY ONLY <1>2, <1>3, <1>5, <2>1
  <2>3. Len(L) <= Len(M)
    BY ONLY <1>3, <1>5
  <2>. QED BY ONLY <1>5, <2>2, <2>3 DEF Continues
<1>. QED BY ONLY <1>1, <1>7, <1>8

\* And one of a module's operation and then the pool's.
LEMMA BundleFits ==
    ASSUME ChainOK(chain), NEW n \in Nat, LeavesIn(chain, 1..Len(chain)) = 0..(n - 1),
           NEW s, IsSeq(s), Len(s) = 2, IsPair(chain, headBlock + 1, n, s[1], s[2]),
           NEW t, IsSeq(t), Len(t) = 2,
           IsPair(chain \o s, headBlock + 1, n + 1, t[1], t[2])
    PROVE  ChainOK(chain \o (s \o t)) /\ Continues(chain \o (s \o t), chain)
<1>1. PICK M, L, N, b, u : /\ M = L \o u /\ u = s \o t /\ L = chain /\ N = chain \o s
                           /\ b = headBlock + 1
  OBVIOUS
<1>2. /\ ChainOK(L) /\ b \in Nat \ {0} /\ HeadBlock(L) < b /\ HeadBlock(L) \in Nat
      /\ Len(L) \in Nat /\ IsSeq(L)
  BY <1>1, AtHead, HeadFacts, ChainFacts DEF ChainOK
<1>3. /\ ChainOK(N) /\ Continues(N, L) /\ Open(N, b) /\ LeavesIn(N, 1..Len(N)) = 0..n
  BY <1>1, OpTxFits
<1>4. IsSeq(s) /\ Len(s) = 2 /\ IsSeq(t) /\ Len(t) = 2
  OBVIOUS
<1>5. /\ Len(N) = Len(L) + 2 /\ \A i \in 1..Len(L) : N[i] = L[i]
      /\ N[Len(L) + 1] = s[1] /\ N[Len(L) + 2] = s[2]
  <2>1. /\ Len(L \o s) = Len(L) + 2
        /\ \A i \in 1..Len(L) : (L \o s)[i] = L[i]
        /\ (L \o s)[Len(L) + 1] = s[1] /\ (L \o s)[Len(L) + 2] = s[2]
    BY ONLY <1>2, <1>4, PairConcat
  <2>2. N = L \o s
    BY <1>1
  <2>. QED BY ONLY <2>1, <2>2
<1>6. /\ IsSeq(u) /\ Len(u) = 4 /\ u[1] = s[1] /\ u[2] = s[2] /\ u[3] = t[1] /\ u[4] = t[2]
  <2>1. /\ IsSeq(s \o t) /\ Len(s \o t) = Len(s) + 2
        /\ \A i \in 1..Len(s) : (s \o t)[i] = s[i]
        /\ (s \o t)[Len(s) + 1] = t[1] /\ (s \o t)[Len(s) + 2] = t[2]
    BY ONLY <1>4, PairConcat
  <2>2. u = s \o t
    BY <1>1
  <2>3. /\ IsSeq(u) /\ Len(u) = Len(s) + 2
        /\ \A i \in 1..Len(s) : u[i] = s[i]
        /\ u[Len(s) + 1] = t[1] /\ u[Len(s) + 2] = t[2]
    BY ONLY <2>1, <2>2
  <2>. QED BY ONLY <1>4, <2>3
<1>7. /\ IsSeq(M) /\ Len(M) = Len(L) + 4 /\ \A i \in 1..Len(L) : M[i] = L[i]
      /\ M[Len(L) + 1] = s[1] /\ M[Len(L) + 2] = s[2]
      /\ M[Len(L) + 3] = t[1] /\ M[Len(L) + 4] = t[2]
  <2>1. /\ IsSeq(L \o u) /\ Len(L \o u) = Len(L) + Len(u)
        /\ \A i \in 1..Len(L) : (L \o u)[i] = L[i]
        /\ \A i \in 1..Len(u) : (L \o u)[Len(L) + i] = u[i]
    <3>1. IsSeq(L) /\ IsSeq(u)
      BY <1>2, <1>6
    <3>. QED BY ONLY <3>1, ConcatFacts
  <2>2. M = L \o u
    BY <1>1
  <2>3. /\ IsSeq(M) /\ Len(M) = Len(L) + Len(u)
        /\ \A i \in 1..Len(L) : M[i] = L[i]
        /\ \A i \in 1..Len(u) : M[Len(L) + i] = u[i]
    BY ONLY <2>1, <2>2
  <2>. QED BY ONLY <1>6, <2>3
<1>8. /\ Len(M) = Len(N) + 2 /\ \A i \in 1..Len(N) : M[i] = N[i]
      /\ M[Len(N) + 1] = t[1] /\ M[Len(N) + 2] = t[2]
  <2>1. Len(M) = Len(N) + 2 /\ Len(N) + 1 = Len(L) + 3 /\ Len(N) + 2 = Len(L) + 4
    BY ONLY <1>2, <1>5, <1>7
  <2>2. \A i \in 1..Len(N) : M[i] = N[i]
    BY ONLY <1>2, <1>5, <1>7
  <2>. QED BY ONLY <1>7, <2>1, <2>2
<1>9. IsPair(N, b, n + 1, t[1], t[2])
  BY <1>1
<1>10. ChainOK(M)
  <2>1. n + 1 \in Nat /\ (n + 1) - 1 = n
    OBVIOUS
  <2>2. LeavesIn(N, 1..Len(N)) = 0..((n + 1) - 1)
    BY ONLY <1>3, <2>1
  <2>. QED BY ONLY <1>2, <1>3, <1>7, <1>8, <1>9, <2>1, <2>2, PairFits
<1>11. Continues(M, L)
  <2>1. s[1].block = b /\ s[2].block = b /\ t[1].block = b /\ t[2].block = b
    BY <1>1 DEF IsPair
  <2>2. \A i \in (Len(L) + 1)..Len(M) : M[i].block > HeadBlock(L)
    BY ONLY <1>2, <1>7, <2>1
  <2>3. Len(L) <= Len(M)
    BY ONLY <1>2, <1>7
  <2>. QED BY ONLY <1>7, <2>2, <2>3 DEF Continues
<1>12. M = chain \o (s \o t)
  BY <1>1
<1>. QED BY ONLY <1>1, <1>10, <1>11, <1>12

\* A transaction of one log.
LEMMA LogTxFits ==
    ASSUME ChainOK(chain), NEW l, LogOK(l), ~IsTree(l), ~IsFamily(l), l.block = headBlock + 1,
           IsOnRegistry(l) => (l.name = "ModuleRegistered" <=>
                                   RegistryIn(chain, 1..Len(chain))[l.module] # "registered"),
           l.name = "Accepted" =>
               /\ \E d \in 1..Len(chain) : /\ chain[d].name = "Disbursed"
                                           /\ chain[d].leaf = l.leaf /\ chain[d].from = l.from
               /\ <<l.leaf, l.chunk>> \notin AcceptsIn(chain, 1..Len(chain))
    PROVE  ChainOK(chain \o <<l>>) /\ Continues(chain \o <<l>>, chain)
<1>1. PICK s, M, L : s = <<l>> /\ M = L \o s /\ L = chain
  OBVIOUS
<1>2. /\ ChainOK(L) /\ l.block = HeadBlock(L) + 1 /\ HeadBlock(L) \in Nat
      /\ Len(L) \in Nat /\ IsSeq(L)
      /\ \A i \in 1..Len(L) : L[i].block <= HeadBlock(L) /\ L[i].block \in Nat
  BY <1>1, AtHead, HeadFacts, ChainFacts DEF ChainOK
<1>3. IsSeq(s) /\ Len(s) = 1 /\ s[1] = l
  BY <1>1, ShortSeqs
<1>4. /\ IsSeq(M) /\ Len(M) = Len(L) + 1 /\ \A i \in 1..Len(L) : M[i] = L[i]
      /\ M[Len(L) + 1] = l
  <2>1. /\ IsSeq(L \o s) /\ Len(L \o s) = Len(L) + 1
        /\ \A i \in 1..Len(L) : (L \o s)[i] = L[i]
        /\ (L \o s)[Len(L) + 1] = s[1]
    BY ONLY <1>2, <1>3, SingleConcat
  <2>2. M = L \o s
    BY <1>1
  <2>. QED BY ONLY <1>3, <2>1, <2>2
<1>5. ChainOK(M)
  <2>1. \A i \in 1..Len(L) : L[i].block < l.block
    BY ONLY <1>2
  <2>2. /\ IsOnRegistry(l) => (l.name = "ModuleRegistered" <=>
                                   RegistryIn(L, 1..Len(L))[l.module] # "registered")
        /\ l.name = "Accepted" =>
               /\ \E d \in 1..Len(L) : /\ L[d].name = "Disbursed"
                                       /\ L[d].leaf = l.leaf /\ L[d].from = l.from
               /\ <<l.leaf, l.chunk>> \notin AcceptsIn(L, 1..Len(L))
    BY <1>1
  <2>3. LogOK(l) /\ ~IsTree(l) /\ ~IsFamily(l)
    OBVIOUS
  <2>. QED BY ONLY <1>2, <1>4, <2>1, <2>2, <2>3, SingleFits
<1>6. Continues(M, L)
  <2>1. \A i \in (Len(L) + 1)..Len(M) : M[i].block > HeadBlock(L)
    BY ONLY <1>2, <1>4
  <2>2. Len(L) <= Len(M)
    BY ONLY <1>2, <1>4
  <2>. QED BY ONLY <1>4, <2>1, <2>2 DEF Continues
<1>. QED BY ONLY <1>1, <1>5, <1>6

\* No module changes the tree without an event of its own.
AllSpeak == \A t \in Traffics : "silent" \notin t

LEMMA TxFits ==
    ASSUME ChainOK(chain),
           NEW kind \in {"pool", "module", "disburse", "bundle", "accept", "register", "remove"},
           NEW tx \in TxsOf(kind)
    PROVE  ChainOK(chain \o tx) /\ Continues(chain \o tx, chain)
<1>1. PICK b : b = headBlock + 1
  OBVIOUS
<1>2. b \in Nat \ {0}
  BY <1>1, AtHead
<1>3. PICK n \in Nat : /\ LeavesIn(chain, 1..Len(chain)) = 0..(n - 1)
                       /\ Cardinality(LeavesAt(headBlock)) = n
  BY NextLeaf
<1>4. /\ RegistryAt(headBlock) = RegistryIn(chain, 1..Len(chain))
      /\ LeavesAt(headBlock) = LeavesIn(chain, 1..Len(chain))
      /\ AcceptsAt(headBlock) = AcceptsIn(chain, 1..Len(chain))
  BY AtHead
<1>5. PICK live : live = {m \in Module : RegistryAt(headBlock)[m] = "registered"}
  OBVIOUS
<1>6. /\ kind = "pool" => tx = OpLogs("Op", Pool, n)
      /\ kind = "module" => \E m \in live : tx = OpLogs("Op", m, n)
      /\ kind = "disburse" => \E m \in live : tx = OpLogs("Disbursed", m, n)
      /\ kind = "bundle" => \E m \in live : tx = OpLogs("Op", m, n) \o OpLogs("Op", Pool, n + 1)
      /\ kind = "accept" => \E l \in Unaccepted : tx = <<l>>
      /\ kind = "register" => \E m \in Module \ live : tx = RegistryLog("ModuleRegistered", m)
      /\ kind = "remove" => \E m \in live : tx = RegistryLog("ModuleRemoved", m)
  BY <1>3, <1>5 DEF TxsOf
\* One operation, and what it leaves.
<1>7. ASSUME NEW name \in {"Op", "Disbursed"}, NEW from \in Module \cup {Pool},
             name = "Disbursed" => from \in Module,
             from \in Module => from \in live,
             NEW s, s = OpLogs(name, from, n)
      PROVE  /\ ChainOK(chain \o s) /\ Continues(chain \o s, chain)
             /\ IsSeq(s) /\ Len(s) = 2 /\ IsPair(chain, headBlock + 1, n, s[1], s[2])
             /\ Open(chain \o s, headBlock + 1)
             /\ LeavesIn(chain \o s, 1..Len(chain \o s)) = 0..n
             /\ RegistryIn(chain \o s, 1..Len(chain \o s)) = RegistryIn(chain, 1..Len(chain))
  <2>1. from \in Module => RegistryIn(chain, 1..Len(chain))[from] = "registered"
    BY <1>4, <1>5, <1>7
  <2>2. IsSeq(s) /\ Len(s) = 2 /\ IsPair(chain, b, n, s[1], s[2])
    BY <1>1, <1>2, <1>7, <2>1, OpLogsAre
  <2>3. IsSeq(s) /\ Len(s) = 2 /\ IsPair(chain, headBlock + 1, n, s[1], s[2])
    BY <1>1, <2>2
  <2>. QED BY <1>3, <2>3, OpTxFits
<1>8. CASE kind = "pool"
  <2>1. Pool \notin Module
    BY IndexerAssumption
  <2>2. tx = OpLogs("Op", Pool, n)
    BY <1>6, <1>8
  <2>. QED BY <1>7, <2>1, <2>2
<1>9. CASE kind = "module"
  <2>1. PICK m \in live : tx = OpLogs("Op", m, n)
    BY <1>6, <1>9
  <2>2. m \in Module \cup {Pool}
    BY <1>5
  <2>. QED BY <1>7, <2>1, <2>2
<1>10. CASE kind = "disburse"
  <2>1. PICK m \in live : tx = OpLogs("Disbursed", m, n)
    BY <1>6, <1>10
  <2>2. m \in Module
    BY <1>5
  <2>. QED BY <1>7, <2>1, <2>2
<1>11. CASE kind = "bundle"
  <2>1. PICK m \in live : tx = OpLogs("Op", m, n) \o OpLogs("Op", Pool, n + 1)
    BY <1>6, <1>11
  <2>2. m \in Module \cup {Pool}
    BY <1>5
  <2>3. PICK s, t : s = OpLogs("Op", m, n) /\ t = OpLogs("Op", Pool, n + 1)
    OBVIOUS
  <2>4. IsSeq(s) /\ Len(s) = 2 /\ IsPair(chain, headBlock + 1, n, s[1], s[2])
    BY <1>7, <2>2, <2>3
  <2>5. IsSeq(t) /\ Len(t) = 2 /\ IsPair(chain \o s, b, n + 1, t[1], t[2])
    <3>1. Pool \notin Module /\ n + 1 \in Nat /\ Pool \in Module \cup {Pool}
      BY IndexerAssumption
    <3>. QED BY <1>1, <1>2, <2>3, <3>1, OpLogsAre
  <2>6. IsPair(chain \o s, headBlock + 1, n + 1, t[1], t[2])
    BY <1>1, <2>5
  <2>7. tx = s \o t
    BY <2>1, <2>3
  <2>8. ChainOK(chain \o (s \o t)) /\ Continues(chain \o (s \o t), chain)
    <3>1. ChainOK(chain) /\ n \in Nat
      OBVIOUS
    <3>. QED BY ONLY <1>3, <2>4, <2>5, <2>6, <3>1, BundleFits
  <2>. QED BY ONLY <2>7, <2>8
<1>12. CASE kind = "accept"
  <2>1. PICK l \in Unaccepted : tx = <<l>>
    BY <1>6, <1>12
  <2>2. /\ l.name = "Accepted" /\ l.from \in Module /\ l.block = b
        /\ l.leaf \in LeavesAt(headBlock) /\ l.chunk \in Chunk
        /\ \E i \in DOMAIN chain : /\ chain[i].name = "Disbursed"
                                   /\ chain[i].from = l.from /\ chain[i].leaf = l.leaf
        /\ <<l.leaf, l.chunk>> \notin AcceptsAt(headBlock)
    BY <1>1 DEF Unaccepted
  <2>3. l.leaf \in Nat
    <3>1. l.leaf \in 0..(n - 1)
      BY <1>3, <1>4, <2>2
    <3>. QED BY <3>1
  <2>4. ~IsTree(l) /\ ~IsFamily(l) /\ ~IsOnRegistry(l)
    BY <2>2 DEF IsTree, IsFamily, IsOnRegistry
  <2>5. LogOK(l)
    BY <1>2, <2>2, <2>3, <2>4 DEF LogOK, Names
  <2>6. /\ \E d \in 1..Len(chain) : /\ chain[d].name = "Disbursed"
                                    /\ chain[d].leaf = l.leaf /\ chain[d].from = l.from
        /\ <<l.leaf, l.chunk>> \notin AcceptsIn(chain, 1..Len(chain))
    BY <1>4, <2>2, ChainFacts
  <2>7. l.block = headBlock + 1
    BY <1>1, <2>2
  <2>8. ChainOK(chain \o <<l>>) /\ Continues(chain \o <<l>>, chain)
    BY <2>4, <2>5, <2>6, <2>7, LogTxFits
  <2>. QED BY ONLY <2>1, <2>8
<1>13. ASSUME NEW name \in {"ModuleRegistered", "ModuleRemoved"}, NEW m \in Module,
              m \in live <=> name # "ModuleRegistered", tx = RegistryLog(name, m)
       PROVE  ChainOK(chain \o tx) /\ Continues(chain \o tx, chain)
  <2>1. PICK l : l = [name |-> name, from |-> Pool, block |-> b, module |-> m]
    OBVIOUS
  <2>2. l.name = name /\ l.from = Pool /\ l.block = b /\ l.module = m
    BY <2>1
  <2>3. tx = <<l>>
    BY <1>1, <1>13, <2>1 DEF RegistryLog
  <2>4. ~IsTree(l) /\ ~IsFamily(l) /\ l.name # "Accepted"
    BY <2>2 DEF IsTree, IsFamily
  <2>5. LogOK(l)
    BY <1>2, <2>2, <2>4 DEF LogOK, Names, IsFamily
  <2>6. l.name = "ModuleRegistered" <=> RegistryIn(chain, 1..Len(chain))[l.module] # "registered"
    BY <1>4, <1>5, <1>13, <2>2
  <2>7. l.block = headBlock + 1
    BY <1>1, <2>2
  <2>8. ChainOK(chain \o <<l>>) /\ Continues(chain \o <<l>>, chain)
    BY <2>4, <2>5, <2>6, <2>7, LogTxFits
  <2>. QED BY ONLY <2>3, <2>8
<1>14. CASE kind = "register"
  BY <1>5, <1>6, <1>13, <1>14
<1>15. CASE kind = "remove"
  BY <1>5, <1>6, <1>13, <1>15
<1>. QED BY <1>8, <1>9, <1>10, <1>11, <1>12, <1>14, <1>15

LEMMA BlockKeeps ==
    ASSUME IndexerInv, AllSpeak, Block
    PROVE  IndexerInv'
<1>1. PICK kind \in traffic : \E tx \in TxsOf(kind) : chain' = chain \o tx
  BY DEF Block
<1>2. PICK tx \in TxsOf(kind) : chain' = chain \o tx
  BY <1>1
<1>3. kind \in {"pool", "module", "disburse", "bundle", "accept", "register", "remove"}
  BY <1>1, IndexerAssumption DEF IndexerInv, AllSpeak
<1>4. ChainOK(chain)
  BY DEF IndexerInv, State
<1>5. ChainOK(chain') /\ Continues(chain', chain)
  BY <1>2, <1>3, <1>4, TxFits
<1>6. State(chain', mem, db, phase, upTo, todo)
  BY <1>5, StateStays DEF IndexerInv, Block
<1>. QED BY <1>6 DEF IndexerInv, Block

-----------------------------------------------------------------------------
(* The process. *)

LEMMA NothingYet ==
    ASSUME NEW L, NEW S, S = {}
    PROVE  /\ FeedIn(L, S) = <<>> /\ RegistryIn(L, S) = [m \in Module |-> "unknown"]
           /\ AcceptsIn(L, S) = {} /\ BatchesIn(L, S) = {} /\ LeavesIn(L, S) = {}
<1>1. FamilyIn(L, S) = {} /\ \A m : LogsOf(L, S, m) = {}
  BY DEF FamilyIn, LogsOf
<1>2. Cardinality({}) = 0
  BY FS_EmptySet
<1>3. FeedIn(L, S) = <<>>
  <2>1. FeedIn(L, S) = [k \in 1..0 |-> L[InOrder({})[k]].leaf]
    BY <1>1, <1>2 DEF FeedIn
  <2>2. PICK f : f = FeedIn(L, S)
    OBVIOUS
  <2>3. f = [k \in 1..0 |-> f[k]]
    BY <2>1, <2>2
  <2>4. IsSeq(f) /\ Len(f) = 0
    <3>1. 0 \in Nat
      OBVIOUS
    <3>. QED BY ONLY <2>3, <3>1, FunIsSeq
  <2>5. f = <<>>
    BY ONLY <2>4 DEF IsSeq
  <2>. QED BY <2>2, <2>5
<1>4. RegistryIn(L, S) = [m \in Module |-> "unknown"]
  BY <1>1 DEF RegistryIn, StatusIn
<1>5. AcceptsIn(L, S) = {} /\ BatchesIn(L, S) = {} /\ LeavesIn(L, S) = {}
  BY DEF AcceptsIn, BatchesIn, LeavesIn
<1>. QED BY <1>3, <1>4, <1>5

LEMMA InitIs ==
    ASSUME Init
    PROVE  IndexerInv
<1>1. PICK L : L = <<>>
  OBVIOUS
<1>2. IsSeq(L) /\ Len(L) = 0
  <2>1. L \in Seq({}) /\ Len(L) = 0
    BY <1>1
  <2>. QED BY <2>1 DEF IsSeq
<1>3. ChainOK(L)
  <2>1. LeavesIn(L, 1..Len(L)) = 0..(0 - 1)
    BY <1>2, NothingYet
  <2>2. Spoken(L) /\ \A k \in 1..Len(L) : Fits(L, k)
    BY <1>2 DEF Spoken
  <2>3. 0 \in Nat
    OBVIOUS
  <2>. QED BY <1>2, <2>1, <2>2, <2>3 DEF ChainOK
<1>4. HeadBlock(L) = 0
  BY <1>1 DEF HeadBlock
<1>5. PICK rows : rows = db
  OBVIOUS
<1>6. /\ rows.leaves = {} /\ rows.feed = <<>> /\ rows.registry = [m \in Module |-> "unknown"]
      /\ rows.batches = {} /\ rows.accepted = {} /\ rows.cursor = 0
  BY <1>5 DEF Init
<1>7. Upto(L, 0, 0) /\ RowsAre(rows, L, 0)
  <2>1. 1..0 = {} /\ 0 \in 0..Len(L)
    BY <1>2
  <2>2. Upto(L, 0, 0)
    BY <1>2 DEF Upto
  <2>. QED BY <1>6, <2>1, <2>2, NothingYet DEF RowsAre
<1>8. \E q \in 0..Len(L) : Upto(L, rows.cursor, q) /\ RowsAre(rows, L, q)
  <2>1. 0 \in 0..Len(L)
    BY <1>2
  <2>. QED BY <1>6, <1>7, <2>1
<1>9. State(L, NoMem, rows, "down", 0, {})
  BY <1>3, <1>4, <1>6, <1>8 DEF State
<1>. QED BY <1>1, <1>5, <1>9 DEF Init, IndexerInv

LEMMA BehindAll ==
    ASSUME NEW s, IsSeq(s)
    PROVE  Behind(s, Len(s)) = <<>>
<1>1. PICK f, n : f = Behind(s, Len(s)) /\ n = Len(s)
  OBVIOUS
<1>2. n \in Nat /\ n - n = 0
  BY <1>1, SeqFacts
<1>3. f = [k \in 1..0 |-> s[n + k]]
  BY <1>1, <1>2 DEF Behind
<1>4. f = [k \in 1..0 |-> f[k]]
  BY <1>3
<1>5. IsSeq(f) /\ Len(f) = 0
  <2>1. 0 \in Nat
    OBVIOUS
  <2>. QED BY ONLY <1>4, <2>1, FunIsSeq
<1>6. f = <<>>
  BY ONLY <1>5 DEF IsSeq
<1>. QED BY ONLY <1>1, <1>6

\* Where the logs up to the cursor end is not behind what memory has.
LEMMA RowsBehind ==
    ASSUME NEW L, ChainOK(L), NEW m, NEW p, NEW rows, NEW u, Ahead(m, L, p, rows, u),
           NEW q, Upto(L, rows.cursor, q)
    PROVE  /\ UntilIn(L, rows.cursor) = 1..q /\ q \in Nat /\ p \in Nat /\ q <= p
           /\ Len(L) \in Nat /\ p <= Len(L) /\ q <= Len(L)
<1>1. /\ q \in Nat /\ q <= Len(L) /\ Len(L) \in Nat /\ DOMAIN L = 1..Len(L)
      /\ {i \in DOMAIN L : L[i].block <= rows.cursor} = 1..q
  BY UptoFacts, ChainFacts
<1>2. UntilIn(L, rows.cursor) = 1..q
  BY <1>1 DEF UntilIn
<1>3. p \in 0..Len(L) /\ \A i \in 1..q : i <= p
  BY <1>2 DEF Ahead
<1>4. q <= p
  <2>1. CASE q = 0
    BY <1>1, <1>3, <2>1
  <2>2. CASE q # 0
    BY <1>1, <1>3, <2>2
  <2>. QED BY <2>1, <2>2
<1>. QED BY <1>1, <1>2, <1>3, <1>4

\* Memory read from the rows.
LEMMA BootIs ==
    ASSUME NEW L, NEW rows, NEW u, NEW T, State(L, NoMem, rows, "down", u, T), NEW found, NEW frontier,
           NEW bytes, NEW m,
           m = [frontier |-> frontier, leaves |-> rows.leaves,
                feed |-> rows.feed, registry |-> rows.registry,
                batches |-> rows.batches, accepted |-> rows.accepted,
                bytes |-> bytes, seen |-> {},
                dirty |-> [leaves |-> {}, feed |-> <<>>, modules |-> {}, batches |-> {},
                           accepted |-> {}, bytes |-> found],
                lastBlock |-> rows.cursor]
    PROVE  State(L, m, rows, "idle", u, T)
<1>1. /\ ChainOK(L) /\ u \in Nat /\ u <= HeadBlock(L) /\ rows.cursor \in Nat /\ rows.cursor <= u
      /\ T = {}
  BY DEF State
<1>2. PICK q \in 0..Len(L) : Upto(L, rows.cursor, q) /\ RowsAre(rows, L, q)
  BY DEF State
<1>3. /\ q \in Nat /\ q <= Len(L) /\ Len(L) \in Nat
      /\ \A i \in 1..Len(L) : (L[i].block <= rows.cursor <=> i <= q) /\ L[i].block \in Nat
  BY <1>1, <1>2, UptoFacts, ChainFacts DEF Upto
<1>4. /\ m.leaves = rows.leaves /\ m.feed = rows.feed /\ m.registry = rows.registry
      /\ m.batches = rows.batches /\ m.accepted = rows.accepted /\ m.seen = {}
      /\ m.lastBlock = rows.cursor
      /\ m.dirty.leaves = {} /\ m.dirty.feed = <<>> /\ m.dirty.modules = {}
      /\ m.dirty.batches = {} /\ m.dirty.accepted = {}
  OBVIOUS
<1>5. Shape(m)
  <2>1. m.lastBlock \in Nat
    BY <1>1, <1>4
  <2>. QED BY <2>1 DEF Shape
<1>6. MemIs(m, L, q)
  <2>1. ASSUME NEW i \in 1..q, L[i].name = "Op" PROVE L[i].leaf \in m.leaves
    <3>1. i \in 1..Len(L) /\ IsFamily(L[i])
      BY <1>3, <2>1 DEF IsFamily
    <3>2. i # 1 /\ IsTree(L[i - 1]) /\ L[i - 1].leaf = L[i].leaf
      BY <1>1, <3>1 DEF ChainOK, Fits, Follows
    <3>3. i - 1 \in 1..q
      BY <1>3, <3>2
    <3>4. L[i].leaf \in LeavesIn(L, 1..q)
      BY <3>2, <3>3 DEF LeavesIn
    <3>. QED BY <1>2, <1>4, <3>4 DEF RowsAre
  <2>. QED BY <1>2, <1>4, <2>1 DEF RowsAre, MemIs
<1>7. SeenIs(m, L, q)
  <2>1. ASSUME NEW i \in 1..Len(L), L[i].block > m.lastBlock PROVE L[i] \notin m.seen /\ ~(i <= q)
    BY <1>1, <1>3, <1>4, <2>1
  <2>. QED BY <2>1 DEF SeenIs
<1>8. IsSeq(rows.feed) /\ Len(rows.feed) \in Nat
  BY <1>2, <1>3, FeedInIs, SeqFacts DEF RowsAre
<1>9. Covers(m, rows)
  <2>1. Len(rows.feed) \in 0..Len(rows.feed) /\ Len(rows.feed) <= Len(m.feed)
    BY <1>4, <1>8
  <2>2. m.dirty.feed = Behind(m.feed, Len(rows.feed))
    BY <1>4, <1>8, BehindAll
  <2>3. /\ m.leaves = rows.leaves \cup m.dirty.leaves
        /\ m.batches = rows.batches \cup m.dirty.batches
        /\ m.accepted = rows.accepted \cup m.dirty.accepted
        /\ \A a \in Module \ m.dirty.modules : m.registry[a] = rows.registry[a]
    BY <1>4
  <2>. QED BY <2>1, <2>2, <2>3 DEF Covers
<1>10. Ahead(m, L, q, rows, u)
  <2>1. /\ \A i \in UntilIn(L, rows.cursor) : i <= q
        /\ \A i \in 1..q : i \in UntilIn(L, u)
    BY <1>1, <1>3 DEF UntilIn
  <2>2. \A i \in 1..q : L[i].block <= u
    BY <2>1 DEF UntilIn
  <2>3. m.leaves \subseteq LeavesIn(L, UntilIn(L, u))
    BY <1>2, <1>4, <2>1 DEF RowsAre, LeavesIn
  <2>4. Good(m, L, q, rows)
    BY <1>5, <1>6, <1>7, <1>8, <1>9 DEF Good
  <2>5. m.lastBlock <= rows.cursor /\ \A l \in m.seen : l.block \in 0..u
    BY <1>1, <1>4
  <2>. QED BY <1>2, <2>1, <2>2, <2>3, <2>4, <2>5 DEF Ahead
<1>11. Running(L, m, rows, "idle", u, T)
  BY <1>2, <1>10 DEF Running
<1>. QED BY <1>1, <1>2, <1>11 DEF State

LEMMA PollIs ==
    ASSUME NEW L, NEW m, NEW rows, NEW u, NEW T, State(L, m, rows, "idle", u, T), NEW ph,
           ph = IF DeliveredIn(L, m) = {} THEN "applied" ELSE "applying"
    PROVE  State(L, m, rows, ph, HeadBlock(L), DeliveredIn(L, m))
<1>1. /\ ChainOK(L) /\ u \in Nat /\ u <= HeadBlock(L) /\ rows.cursor \in Nat /\ rows.cursor <= u
      /\ T = {} /\ HeadBlock(L) \in Nat
      /\ Len(L) \in Nat /\ DOMAIN L = 1..Len(L)
      /\ \A i \in 1..Len(L) : L[i].block \in Nat /\ L[i].block <= HeadBlock(L)
  BY HeadFacts, ChainFacts DEF State
<1>2. PICK p \in 0..Len(L) : Ahead(m, L, p, rows, u)
  BY DEF State, Running
<1>3. /\ Good(m, L, p, rows) /\ m.lastBlock <= rows.cursor
      /\ \A i \in UntilIn(L, rows.cursor) : i <= p
      /\ \A i \in 1..p : L[i].block <= u
      /\ m.leaves \subseteq LeavesIn(L, UntilIn(L, u))
      /\ \A l \in m.seen : l.block \in 0..u
  BY <1>2 DEF Ahead
<1>4. Ahead(m, L, p, rows, HeadBlock(L))
  <2>1. \A i \in 1..p : L[i].block <= HeadBlock(L)
    <3>1. \A i \in 1..p : i \in 1..Len(L)
      BY <1>1, <1>2
    <3>. QED BY <1>1, <3>1
  <2>2. m.leaves \subseteq LeavesIn(L, UntilIn(L, HeadBlock(L)))
    <3>1. UntilIn(L, u) \subseteq UntilIn(L, HeadBlock(L))
      BY <1>1 DEF UntilIn
    <3>. QED BY <1>3, <3>1 DEF LeavesIn
  <2>3. ASSUME NEW l \in m.seen PROVE l.block \in 0..HeadBlock(L)
    <3>1. l.block \in 0..u
      BY <1>3, <2>3
    <3>. QED BY <1>1, <3>1
  <2>. QED BY <1>2, <1>3, <2>1, <2>2, <2>3 DEF Ahead
<1>5. Polled(m, L, p, HeadBlock(L), DeliveredIn(L, m))
  <2>1. MemIs(m, L, p) /\ m.lastBlock \in Nat
    BY <1>3 DEF Good, Shape
  <2>2. ASSUME NEW i \in 1..Len(L), L[i].block <= m.lastBlock PROVE i <= p
    <3>1. i \in UntilIn(L, rows.cursor)
      BY <1>1, <1>3, <2>1, <2>2 DEF UntilIn
    <3>. QED BY <1>3, <3>1
  <2>3. ASSUME NEW i \in DeliveredIn(L, m) PROVE i \in UntilIn(L, HeadBlock(L)) /\ L[i].block > m.lastBlock
    BY <1>1 DEF DeliveredIn, UntilIn
  <2>4. ASSUME NEW i \in UntilIn(L, HeadBlock(L)), L[i].block > m.lastBlock, i \notin DeliveredIn(L, m)
        PROVE  i <= p /\ L[i].name # "SubtreeAppended"
    <3>1. i \in 1..Len(L)
      BY DEF UntilIn
    <3>2. i <= p
      BY <1>1, <2>1, <2>2, <2>4, <3>1, DeliveredIs
    <3>3. L[i].from # Pool
      BY <1>1, <2>4, <3>1 DEF DeliveredIn
    <3>4. LogOK(L[i])
      BY <1>1, <3>1, ChainFacts
    <3>5. ~IsTree(L[i])
      BY <3>3, <3>4 DEF LogOK
    <3>. QED BY <3>2, <3>5 DEF IsTree
  <2>. QED BY <2>3, <2>4 DEF Polled
<1>6. Running(L, m, rows, ph, HeadBlock(L), DeliveredIn(L, m))
  BY <1>2, <1>4, <1>5 DEF Running
<1>7. ph \in {"applied", "applying"} /\ (ph # "applying" => DeliveredIn(L, m) = {})
  OBVIOUS
<1>8. \E q \in 0..Len(L) : Upto(L, rows.cursor, q) /\ RowsAre(rows, L, q)
  BY DEF State
<1>9. rows.cursor <= HeadBlock(L) /\ HeadBlock(L) <= HeadBlock(L)
  BY <1>1
<1>. QED BY <1>1, <1>6, <1>7, <1>8, <1>9 DEF State

\* The entries of a buffer that the rows lack.
Fresh(e, g) == Kept(e, {k \in DOMAIN e : e[k] \notin ToSet(g)})

\* Rows that are a feed's beginning, and what its buffer has that they lack.
LEMMA FlushFeed ==
    ASSUME NEW f, IsSeq(f), \A k \in 1..Len(f), l \in 1..Len(f) : f[k] = f[l] => k = l,
           NEW g, IsSeq(g), Len(g) <= Len(f), \A k \in 1..Len(g) : g[k] = f[k],
           NEW d \in 0..Len(g), NEW e, e = Behind(f, d),
           NEW new, new = Fresh(e, g)
    PROVE  g \o new = f
<1>1. PICK n, r : n = Len(f) /\ r = Len(g)
  OBVIOUS
<1>2. /\ n \in Nat /\ r \in Nat /\ r <= n /\ d \in Nat /\ d <= r
      /\ DOMAIN f = 1..n /\ DOMAIN g = 1..r
  BY <1>1, SeqFacts
<1>3. /\ e = [k \in 1..(n - d) |-> f[d + k]] /\ DOMAIN e = 1..(n - d)
      /\ n - d \in Nat /\ r - d \in Nat /\ r - d <= n - d
  BY <1>1, <1>2 DEF Behind
<1>4. ASSUME NEW k \in 1..(n - d) PROVE e[k] \in ToSet(g) <=> k <= r - d
  <2>1. e[k] = f[d + k] /\ d + k \in 1..n
    BY <1>2, <1>3
  <2>2. ASSUME k <= r - d PROVE e[k] \in ToSet(g)
    <3>1. d + k \in 1..r
      BY <1>2, <2>2
    <3>2. g[d + k] = e[k]
      BY <1>1, <2>1, <3>1
    <3>. QED BY <1>2, <3>1, <3>2 DEF ToSet
  <2>3. ASSUME e[k] \in ToSet(g) PROVE k <= r - d
    <3>1. PICK l \in 1..r : g[l] = e[k]
      BY <1>2, <2>3 DEF ToSet
    <3>2. f[l] = f[d + k] /\ l \in 1..n
      BY <1>1, <1>2, <2>1, <3>1
    <3>3. l = d + k
      BY <1>1, <2>1, <3>2
    <3>. QED BY <1>2, <3>1, <3>3
  <2>. QED BY <2>2, <2>3
<1>5. PICK S : S = {k \in DOMAIN e : e[k] \notin ToSet(g)}
  OBVIOUS
<1>6. S = ((r - d) + 1)..(n - d)
  <2>1. \A k \in 1..(n - d) : k \in S <=> k \in ((r - d) + 1)..(n - d)
    BY <1>2, <1>3, <1>4, <1>5
  <2>2. S \subseteq 1..(n - d) /\ ((r - d) + 1)..(n - d) \subseteq 1..(n - d)
    BY <1>2, <1>3, <1>5
  <2>. QED BY <2>1, <2>2
<1>7. InOrder(S) = [k \in 1..((n - d) - (r - d)) |-> (r - d) + k]
  BY ONLY <1>3, <1>6, InOrderInterval
<1>8. (n - d) - (r - d) = n - r /\ n - r \in Nat
  BY <1>2
<1>9. S \subseteq Nat /\ IsFiniteSet(S)
  <2>1. (r - d) + 1 \in Int /\ n - d \in Int
    BY <1>3
  <2>2. IsFiniteSet(S)
    BY ONLY <1>6, <2>1, FS_Interval
  <2>. QED BY <1>3, <1>6, <2>2
<1>10. new = Kept(e, S)
  BY <1>5 DEF Fresh
<1>11. /\ IsSeq(new) /\ Len(new) = Cardinality(S) /\ DOMAIN new = 1..Cardinality(S)
  BY ONLY <1>9, <1>10, KeptFacts
<1>12. Cardinality(S) = n - r
  <2>1. DOMAIN InOrder(S) = 1..Cardinality(S) /\ Cardinality(S) \in Nat
    BY <1>9, FS_CardinalityType DEF InOrder
  <2>2. 1..Cardinality(S) = 1..(n - r)
    BY <1>7, <1>8, <2>1
  <2>. QED BY <1>8, <2>1, <2>2
<1>13. ASSUME NEW k \in 1..(n - r) PROVE new[k] = f[r + k]
  <2>1. InOrder(S)[k] = (r - d) + k
    BY <1>7, <1>8
  <2>2. new[k] = e[(r - d) + k]
    <3>1. new = [j \in 1..(n - r) |-> e[InOrder(S)[j]]]
      BY ONLY <1>10, <1>12 DEF Kept
    <3>. QED BY ONLY <2>1, <3>1
  <2>3. (r - d) + k \in 1..(n - d) /\ d + ((r - d) + k) = r + k
    BY <1>2
  <2>. QED BY <1>3, <2>2, <2>3
<1>14. PICK h : h = g \o new
  OBVIOUS
<1>15. /\ IsSeq(h) /\ Len(h) = n
       /\ \A k \in 1..r : h[k] = g[k]
       /\ \A k \in 1..(n - r) : h[r + k] = new[k]
  <2>1. IsSeq(g) /\ IsSeq(new)
    BY <1>11
  <2>2. /\ IsSeq(g \o new) /\ Len(g \o new) = Len(g) + Len(new)
        /\ \A k \in 1..Len(g) : (g \o new)[k] = g[k]
        /\ \A k \in 1..Len(new) : (g \o new)[Len(g) + k] = new[k]
    BY ONLY <2>1, ConcatFacts
  <2>3. /\ IsSeq(h) /\ Len(h) = Len(g) + Len(new)
        /\ \A k \in 1..Len(g) : h[k] = g[k]
        /\ \A k \in 1..Len(new) : h[Len(g) + k] = new[k]
    BY ONLY <1>14, <2>2
  <2>4. Len(g) = r /\ Len(new) = n - r
    BY <1>1, <1>11, <1>12
  <2>. QED BY ONLY <1>2, <2>3, <2>4
<1>16. ASSUME NEW k \in 1..n PROVE h[k] = f[k]
  <2>1. CASE k <= r
    BY <1>1, <1>2, <1>15, <2>1
  <2>2. CASE ~(k <= r)
    <3>1. k - r \in 1..(n - r) /\ r + (k - r) = k
      BY <1>2, <2>2
    <3>. QED BY <1>13, <1>15, <3>1
  <2>. QED BY <2>1, <2>2
<1>17. h = [k \in 1..n |-> h[k]] /\ f = [k \in 1..n |-> f[k]]
  BY <1>1, <1>15 DEF IsSeq
<1>18. h = f
  BY ONLY <1>16, <1>17
<1>. QED BY ONLY <1>14, <1>18

\* A poll that applied its range leaves no leaf of it out.
LEMMA LeavesDone ==
    ASSUME NEW L, ChainOK(L), NEW m, NEW p, NEW rows, NEW u, u \in Nat, rows.cursor \in Nat,
           Ahead(m, L, p, rows, u), Polled(m, L, p, u, {}),
           NEW q, Upto(L, rows.cursor, q), RowsAre(rows, L, q)
    PROVE  m.leaves = LeavesIn(L, UntilIn(L, u))
<1>1. /\ Len(L) \in Nat /\ \A i \in 1..Len(L) : L[i].block \in Nat /\ Fits(L, i)
      /\ Shape(m) /\ MemIs(m, L, p) /\ Covers(m, rows)
      /\ m.lastBlock \in Nat /\ m.lastBlock <= rows.cursor
      /\ m.leaves \subseteq LeavesIn(L, UntilIn(L, u))
      /\ \A i \in UntilIn(L, rows.cursor) : i <= p
  BY ChainFacts DEF Ahead, Good, Shape, ChainOK
<1>2. q \in Nat /\ p \in Nat /\ q <= p /\ p <= Len(L) /\ UntilIn(L, rows.cursor) = 1..q
  BY RowsBehind
<1>3. ASSUME NEW i \in UntilIn(L, u), IsTree(L[i]) PROVE L[i].leaf \in m.leaves
  <2>1. i \in 1..Len(L) /\ L[i].block <= u
    BY DEF UntilIn
  <2>2. CASE i <= q
    <3>1. L[i].leaf \in LeavesIn(L, 1..q)
      BY <1>3, <2>1, <2>2 DEF LeavesIn
    <3>. QED BY <1>1, <3>1 DEF RowsAre, Covers
  <2>3. CASE ~(i <= q)
    <3>1. L[i].block > m.lastBlock
      <4>1. i \notin UntilIn(L, rows.cursor)
        BY <1>2, <2>3
      <4>2. ~(L[i].block <= rows.cursor)
        BY <2>1, <4>1 DEF UntilIn
      <4>. QED BY <1>1, <2>1, <4>2
    <3>2. CASE L[i].name = "SubtreeAppended"
      BY <3>1, <3>2 DEF Polled
    <3>3. CASE L[i].name = "Appended"
      <4>1. i + 1 \in 1..Len(L) /\ IsFamily(L[i + 1])
        BY <1>3, <2>1 DEF ChainOK, Spoken
      <4>2. Follows(L, i + 1) /\ (i + 1) - 1 = i
        <5>1. Fits(L, i + 1) /\ i \in Nat
          BY <1>1, <2>1, <4>1
        <5>. QED BY <5>1 DEF Fits
      <4>3. /\ L[i].leaf = L[i + 1].leaf /\ L[i].block = L[i + 1].block
            /\ L[i + 1].name = "Disbursed" <=> L[i].name = "SubtreeAppended"
        BY <4>1, <4>2 DEF Follows
      <4>4. L[i + 1].name = "Op" /\ ~IsTree(L[i + 1])
        BY <3>3, <4>1, <4>3 DEF IsFamily, IsTree
      <4>5. i + 1 \in UntilIn(L, u) /\ L[i + 1].block > m.lastBlock
        BY <2>1, <3>1, <4>1, <4>3 DEF UntilIn
      <4>6. i + 1 <= p
        BY <4>4, <4>5 DEF Polled
      <4>7. i + 1 \in 1..p
        BY <1>2, <4>1, <4>6
      <4>. QED BY <1>1, <4>3, <4>4, <4>7 DEF MemIs
    <3>. QED BY <1>3, <3>2, <3>3 DEF IsTree
  <2>. QED BY <2>2, <2>3
<1>4. LeavesIn(L, UntilIn(L, u)) \subseteq m.leaves
  BY <1>3 DEF LeavesIn
<1>. QED BY <1>1, <1>4

LEMMA FlushIs ==
    ASSUME NEW L, NEW m, NEW rows, NEW u, State(L, m, rows, "applied", u, {}), NEW flushed,
           flushed.leaves = rows.leaves \cup m.dirty.leaves,
           flushed.feed = rows.feed \o Fresh(m.dirty.feed, rows.feed),
           flushed.registry = [a \in Module |-> IF a \in m.dirty.modules
                                                THEN m.registry[a] ELSE rows.registry[a]],
           flushed.batches = rows.batches \cup m.dirty.batches,
           flushed.accepted = rows.accepted \cup m.dirty.accepted,
           flushed.cursor = u
    PROVE  State(L, m, flushed, "committed", u, {})
<1>1. /\ ChainOK(L) /\ u \in Nat /\ u <= HeadBlock(L) /\ rows.cursor \in Nat /\ rows.cursor <= u
      /\ Len(L) \in Nat
      /\ \A i \in 1..Len(L) : L[i].block \in Nat
  BY ChainFacts DEF State
<1>2. PICK p \in 0..Len(L) : Ahead(m, L, p, rows, u) /\ Polled(m, L, p, u, {})
  BY DEF State, Running
<1>3. PICK r \in 0..Len(L) : Upto(L, rows.cursor, r) /\ RowsAre(rows, L, r)
  BY DEF State
<1>4. r \in Nat /\ p \in Nat /\ r <= p /\ p <= Len(L) /\ UntilIn(L, rows.cursor) = 1..r
  BY <1>1, <1>2, <1>3, RowsBehind
<1>5. PICK q : Upto(L, u, q)
  BY <1>1, UptoExists
<1>6. q \in Nat /\ q <= Len(L) /\ UntilIn(L, u) = 1..q
  BY <1>1, <1>5, UptoFacts, ChainFacts DEF UntilIn
<1>7. p <= q
  <2>1. CASE p = 0
    BY <1>6, <2>1
  <2>2. CASE p # 0
    <3>1. p \in 1..p /\ p \in 1..Len(L)
      BY <1>4, <2>2
    <3>2. L[p].block <= u
      BY <1>2, <3>1 DEF Ahead
    <3>. QED BY <1>5, <3>1, <3>2 DEF Upto
  <2>. QED BY <2>1, <2>2
<1>8. \A j \in (p + 1)..q : IsTree(L[j])
  <2>1. ASSUME NEW j \in (p + 1)..q PROVE IsTree(L[j])
    <3>1. j \in 1..Len(L) /\ j \in UntilIn(L, u) /\ ~(j <= p) /\ ~(j <= r)
      BY <1>4, <1>6
    <3>2. ~(L[j].block <= rows.cursor)
      BY <1>3, <3>1 DEF Upto
    <3>3. m.lastBlock \in Nat /\ m.lastBlock <= rows.cursor
      BY <1>2 DEF Ahead, Good, Shape
    <3>4. L[j].block > m.lastBlock
      BY <1>1, <3>1, <3>2, <3>3
    <3>. QED BY <1>2, <3>1, <3>4 DEF Polled
  <2>. QED BY <2>1
<1>9. Good(m, L, q, rows)
  <2>1. Good(m, L, p, rows)
    BY <1>2 DEF Ahead
  <2>2. q \in 0..Len(L)
    BY <1>6
  <2>. QED BY <1>1, <1>2, <1>7, <1>8, <2>1, <2>2, Slides
<1>10. /\ Shape(m) /\ MemIs(m, L, q) /\ SeenIs(m, L, q) /\ Covers(m, rows) /\ Len(rows.feed) \in Nat
  BY <1>9 DEF Good
<1>11. m.leaves = LeavesIn(L, 1..q)
  BY <1>1, <1>2, <1>3, <1>6, LeavesDone
<1>12. flushed.feed = m.feed
  <2>1. PICK f, g, d, e : /\ f = m.feed /\ g = rows.feed /\ e = m.dirty.feed
                          /\ d \in 0..Len(g) /\ d <= Len(f) /\ e = Behind(f, d)
    BY <1>10 DEF Covers
  <2>2. f = FeedIn(L, 1..q) /\ g = FeedIn(L, 1..r)
    BY <1>3, <1>10, <2>1 DEF MemIs, RowsAre
  <2>3. IsSeq(f) /\ IsSeq(g)
    BY <1>4, <1>6, <2>2, FeedInIs
  <2>4. Len(g) <= Len(f) /\ \A k \in 1..Len(g) : g[k] = f[k]
    BY <1>4, <1>6, <1>7, <2>2, FeedPrefix
  <2>5. \A k \in 1..Len(f), l \in 1..Len(f) : f[k] = f[l] => k = l
    <3>1. \A i, j \in FamilyIn(L, 1..q) : L[i].leaf = L[j].leaf => i = j
      <4>1. ASSUME NEW i \in FamilyIn(L, 1..q), NEW j \in FamilyIn(L, 1..q), L[i].leaf = L[j].leaf
            PROVE  i = j
        <5>1. i \in 1..Len(L) /\ j \in 1..Len(L) /\ IsFamily(L[i]) /\ IsFamily(L[j])
          BY <1>6 DEF FamilyIn
        <5>. QED BY <1>1, <4>1, <5>1, LeavesAscend
      <4>. QED BY <4>1
    <3>. QED BY <1>6, <2>2, <3>1, FeedApart
  <2>6. PICK new : new = Fresh(e, g)
    OBVIOUS
  <2>7. g \o new = f
    <3>1. d \in 0..Len(g) /\ e = Behind(f, d)
      BY ONLY <2>1
    <3>. QED BY ONLY <2>3, <2>4, <2>5, <2>6, <3>1, FlushFeed
  <2>8. flushed.feed = g \o new
    BY <2>1, <2>6
  <2>. QED BY ONLY <2>1, <2>7, <2>8
<1>13. flushed.registry = m.registry
  <2>1. m.registry = [a \in Module |-> m.registry[a]]
    BY <1>10 DEF MemIs, RegistryIn
  <2>2. \A a \in Module : flushed.registry[a] = m.registry[a]
    BY <1>10 DEF Covers
  <2>3. flushed.registry = [a \in Module |-> flushed.registry[a]]
    OBVIOUS
  <2>. QED BY ONLY <2>1, <2>2, <2>3
<1>14. flushed.leaves = m.leaves /\ flushed.batches = m.batches /\ flushed.accepted = m.accepted
  BY <1>10 DEF Covers
<1>15. RowsAre(flushed, L, q)
  BY <1>10, <1>11, <1>12, <1>13, <1>14 DEF MemIs, RowsAre
<1>16. Covers(m, flushed) /\ Len(flushed.feed) \in Nat
  <2>1. PICK d \in 0..Len(rows.feed) : d <= Len(m.feed) /\ m.dirty.feed = Behind(m.feed, d)
    BY <1>10 DEF Covers
  <2>2. Len(m.feed) \in Nat
    BY <1>6, <1>10, FeedInIs DEF MemIs
  <2>3. d \in 0..Len(flushed.feed) /\ d <= Len(m.feed) /\ Len(flushed.feed) \in Nat
    <3>1. Len(rows.feed) \in Nat
      BY <1>10
    <3>. QED BY ONLY <1>12, <2>1, <2>2, <3>1
  <2>4. m.leaves = flushed.leaves \cup m.dirty.leaves /\ m.batches = flushed.batches \cup m.dirty.batches
        /\ m.accepted = flushed.accepted \cup m.dirty.accepted
    BY <1>10, <1>14 DEF Covers
  <2>5. \A a \in Module \ m.dirty.modules : m.registry[a] = flushed.registry[a]
    BY <1>13
  <2>. QED BY ONLY <2>1, <2>3, <2>4, <2>5 DEF Covers
<1>17. Ahead(m, L, q, flushed, u)
  <2>1. Good(m, L, q, flushed)
    BY <1>10, <1>16 DEF Good
  <2>2. m.lastBlock <= u
    <3>1. m.lastBlock \in Nat /\ m.lastBlock <= rows.cursor
      BY <1>2 DEF Ahead, Good, Shape
    <3>. QED BY <1>1, <3>1
  <2>3. \A i \in UntilIn(L, u) : i <= q
    BY <1>6
  <2>4. \A i \in 1..q : L[i].block <= u
    BY <1>6 DEF UntilIn
  <2>5. m.leaves \subseteq LeavesIn(L, UntilIn(L, u)) /\ \A l \in m.seen : l.block \in 0..u
    BY <1>2 DEF Ahead
  <2>6. q \in 0..Len(L)
    BY <1>6
  <2>. QED BY <2>1, <2>2, <2>3, <2>4, <2>5, <2>6 DEF Ahead
<1>18. Running(L, m, flushed, "committed", u, {})
  <2>1. q \in 0..Len(L)
    BY <1>6
  <2>. QED BY <1>17, <2>1 DEF Running
<1>19. \E s \in 0..Len(L) : Upto(L, flushed.cursor, s) /\ RowsAre(flushed, L, s)
  <2>1. q \in 0..Len(L)
    BY <1>6
  <2>. QED BY <1>5, <1>15, <2>1
<1>. QED BY <1>1, <1>14, <1>18, <1>19 DEF State

LEMMA CommitIs ==
    ASSUME NEW L, NEW m, NEW rows, NEW u, State(L, m, rows, "committed", u, {}), NEW n,
           n = [frontier |-> m.frontier, leaves |-> m.leaves, feed |-> m.feed,
                registry |-> m.registry, batches |-> m.batches, accepted |-> m.accepted,
                bytes |-> m.bytes, seen |-> m.seen, dirty |-> NoDirt, lastBlock |-> u]
    PROVE  State(L, n, rows, "idle", u, {})
<1>1. /\ ChainOK(L) /\ u \in Nat /\ u <= HeadBlock(L) /\ rows.cursor = u
      /\ rows.accepted = m.accepted
      /\ Len(L) \in Nat
      /\ \A i \in 1..Len(L) : L[i].block \in Nat
  BY ChainFacts DEF State
<1>2. PICK p \in 0..Len(L) : Ahead(m, L, p, rows, u)
  BY DEF State, Running
<1>3. PICK q \in 0..Len(L) : Upto(L, u, q) /\ RowsAre(rows, L, q)
  BY <1>1 DEF State
<1>4. q \in Nat /\ p \in Nat /\ q <= p /\ p <= Len(L) /\ UntilIn(L, u) = 1..q
  BY <1>1, <1>2, <1>3, RowsBehind
<1>5. p = q
  <2>1. CASE p = 0
    BY <1>4, <2>1
  <2>2. CASE p # 0
    <3>1. p \in 1..p /\ p \in 1..Len(L)
      BY <1>4, <2>2
    <3>2. L[p].block <= u
      BY <1>2, <3>1 DEF Ahead
    <3>3. p <= q
      BY <1>3, <3>1, <3>2 DEF Upto
    <3>. QED BY <1>4, <3>3
  <2>. QED BY <2>1, <2>2
<1>6. /\ MemIs(m, L, q) /\ Covers(m, rows) /\ Len(rows.feed) \in Nat
      /\ m.leaves \subseteq LeavesIn(L, 1..q)
      /\ \A l \in m.seen : l.block \in 0..u
  BY <1>2, <1>4, <1>5 DEF Ahead, Good
<1>7. /\ n.leaves = m.leaves /\ n.feed = m.feed /\ n.registry = m.registry
      /\ n.batches = m.batches /\ n.accepted = m.accepted /\ n.seen = m.seen
      /\ n.lastBlock = u
      /\ n.dirty.leaves = {} /\ n.dirty.feed = <<>> /\ n.dirty.modules = {}
      /\ n.dirty.batches = {} /\ n.dirty.accepted = {}
  BY DEF NoDirt
<1>8. Shape(n)
  BY <1>1 DEF Shape, NoDirt
<1>9. MemIs(n, L, q)
  BY <1>6, <1>7 DEF MemIs
<1>10. SeenIs(n, L, q)
  <2>1. ASSUME NEW i \in 1..Len(L), L[i].block > n.lastBlock PROVE L[i] \notin n.seen /\ ~(i <= q)
    <3>1. ~(L[i].block <= u) /\ L[i].block \notin 0..u
      BY <1>1, <1>7, <2>1
    <3>2. L[i] \notin n.seen
      BY <1>6, <1>7, <3>1
    <3>3. ~(i <= q)
      BY <1>3, <3>1 DEF Upto
    <3>. QED BY <3>2, <3>3
  <2>. QED BY <2>1 DEF SeenIs
<1>11. n.leaves = rows.leaves /\ n.feed = rows.feed /\ n.batches = rows.batches
       /\ n.registry = rows.registry /\ n.accepted = rows.accepted
  <2>1. n.leaves = rows.leaves
    <3>1. m.leaves \subseteq rows.leaves
      BY <1>3, <1>6 DEF RowsAre
    <3>2. rows.leaves \subseteq m.leaves
      BY <1>6 DEF Covers
    <3>. QED BY <1>7, <3>1, <3>2
  <2>2. n.feed = rows.feed /\ n.batches = rows.batches /\ n.registry = rows.registry
    BY <1>3, <1>6, <1>7 DEF RowsAre, MemIs
  <2>. QED BY <1>1, <1>7, <2>1, <2>2
<1>12. Covers(n, rows)
  <2>1. IsSeq(rows.feed)
    BY <1>3, <1>4, FeedInIs DEF RowsAre
  <2>2. Len(rows.feed) \in 0..Len(rows.feed) /\ Len(rows.feed) <= Len(n.feed)
    BY <1>6, <1>11
  <2>3. n.dirty.feed = Behind(n.feed, Len(rows.feed))
    BY <1>7, <1>11, <2>1, BehindAll
  <2>4. /\ n.leaves = rows.leaves \cup n.dirty.leaves
        /\ n.batches = rows.batches \cup n.dirty.batches
        /\ n.accepted = rows.accepted \cup n.dirty.accepted
        /\ \A a \in Module \ n.dirty.modules : n.registry[a] = rows.registry[a]
    BY <1>7, <1>11
  <2>. QED BY <2>2, <2>3, <2>4 DEF Covers
<1>13. Good(n, L, q, rows)
  BY <1>6, <1>8, <1>9, <1>10, <1>12 DEF Good
<1>14. Ahead(n, L, q, rows, u)
  <2>1. n.lastBlock <= rows.cursor
    BY <1>1, <1>7
  <2>2. (\A i \in UntilIn(L, rows.cursor) : i <= q) /\ \A i \in 1..q : L[i].block <= u
    BY <1>1, <1>2, <1>4, <1>5 DEF Ahead
  <2>3. n.leaves \subseteq LeavesIn(L, UntilIn(L, u)) /\ \A l \in n.seen : l.block \in 0..u
    BY <1>4, <1>6, <1>7
  <2>. QED BY <1>3, <1>13, <2>1, <2>2, <2>3 DEF Ahead
<1>15. Running(L, n, rows, "idle", u, {})
  BY <1>3, <1>14 DEF Running
<1>. QED BY <1>1, <1>3, <1>15 DEF State

\* A poll that ends early leaves what it applied.
LEMMA EndIs ==
    ASSUME NEW L, NEW m, NEW rows, NEW u, NEW T, NEW ph \in {"applied", "committed"},
           State(L, m, rows, ph, u, T)
    PROVE  State(L, m, rows, "idle", u, T) /\ State(L, NoMem, rows, "down", u, T)
<1>1. Running(L, m, rows, "idle", u, T)
  BY DEF State, Running
<1>. QED BY <1>1 DEF State

LEMMA DownIs ==
    ASSUME NEW L, NEW m, NEW rows, NEW u, NEW T, NEW ph, ph # "applying",
           State(L, m, rows, ph, u, T)
    PROVE  State(L, NoMem, rows, "down", u, T)
BY DEF State

LEMMA bootPostgresKeeps ==
    ASSUME IndexerInv, bootPostgres
    PROVE  IndexerInv'
<1>1. State(chain, NoMem, db, "down", upTo, todo)
  BY DEF IndexerInv, bootPostgres, State
<1>2. PICK found :
        mem' = [frontier |-> Cardinality(db.leaves), leaves |-> db.leaves,
                feed |-> db.feed, registry |-> db.registry,
                batches |-> db.batches, accepted |-> db.accepted,
                bytes |-> db.bytes \cup found, seen |-> {},
                dirty |-> [NoDirt EXCEPT !.bytes = found],
                lastBlock |-> db.cursor]
  BY DEF bootPostgres
<1>3. [NoDirt EXCEPT !.bytes = found] =
        [leaves |-> {}, feed |-> <<>>, modules |-> {}, batches |-> {},
         accepted |-> {}, bytes |-> found]
  <2>1. PICK e : e = <<>>
    OBVIOUS
  <2>2. NoDirt = [leaves |-> {}, feed |-> e, modules |-> {}, batches |-> {},
                  accepted |-> {}, bytes |-> {}]
    BY <2>1 DEF NoDirt
  <2>3. [NoDirt EXCEPT !.bytes = found] =
          [leaves |-> {}, feed |-> e, modules |-> {}, batches |-> {},
           accepted |-> {}, bytes |-> found]
    BY ONLY <2>2
  <2>. QED BY ONLY <2>1, <2>3
<1>4. PICK L, rows, u, T, m, frontier, bytes :
        /\ L = chain /\ rows = db /\ u = upTo /\ T = todo /\ m = mem'
        /\ frontier = Cardinality(db.leaves) /\ bytes = db.bytes \cup found
  OBVIOUS
<1>5. State(L, NoMem, rows, "down", u, T)
  BY <1>1, <1>4
<1>6. m = [frontier |-> frontier, leaves |-> rows.leaves,
           feed |-> rows.feed, registry |-> rows.registry,
           batches |-> rows.batches, accepted |-> rows.accepted,
           bytes |-> bytes, seen |-> {},
           dirty |-> [leaves |-> {}, feed |-> <<>>, modules |-> {}, batches |-> {},
                      accepted |-> {}, bytes |-> found],
           lastBlock |-> rows.cursor]
  BY <1>2, <1>3, <1>4
<1>7. State(L, m, rows, "idle", u, T)
  BY ONLY <1>5, <1>6, BootIs
<1>8. State(chain, mem', db, "idle", upTo, todo)
  BY ONLY <1>4, <1>7
<1>. QED BY <1>8 DEF IndexerInv, bootPostgres

LEMMA pollOnceKeeps ==
    ASSUME IndexerInv, pollOnce
    PROVE  IndexerInv'
<1>1. State(chain, mem, db, "idle", upTo, todo) /\ ChainOK(chain)
  BY DEF IndexerInv, pollOnce, State
<1>2. todo' = DeliveredIn(chain, mem)
  BY DEF pollOnce, Delivered, DeliveredIn
<1>3. phase' = IF DeliveredIn(chain, mem) = {} THEN "applied" ELSE "applying"
  BY <1>2 DEF pollOnce
<1>4. upTo' = HeadBlock(chain)
  BY <1>1, AtHead DEF pollOnce
<1>5. PICK ph : ph = phase'
  OBVIOUS
<1>6. State(chain, mem, db, ph, HeadBlock(chain), DeliveredIn(chain, mem))
  BY <1>1, <1>3, <1>5, PollIs
<1>7. State(chain, mem, db, phase', upTo', todo')
  BY ONLY <1>2, <1>4, <1>5, <1>6
<1>. QED BY <1>7 DEF IndexerInv, pollOnce

LEMMA persistAtomicallyKeeps ==
    ASSUME IndexerInv, persistAtomically
    PROVE  IndexerInv'
<1>1. State(chain, mem, db, "applied", upTo, {}) /\ todo = {}
  BY DEF IndexerInv, persistAtomically, State
<1>2. PICK flushed : flushed = db'
  OBVIOUS
<1>3. /\ flushed.leaves = db.leaves \cup mem.dirty.leaves
      /\ flushed.feed = db.feed \o Unknown(mem.dirty.feed)
      /\ flushed.registry = [m \in Module |-> IF m \in mem.dirty.modules
                                              THEN mem.registry[m] ELSE db.registry[m]]
      /\ flushed.batches = db.batches \cup mem.dirty.batches
      /\ flushed.accepted = db.accepted \cup mem.dirty.accepted
      /\ flushed.cursor = upTo
  BY <1>2 DEF persistAtomically, Flushed
<1>4. Unknown(mem.dirty.feed) = Fresh(mem.dirty.feed, db.feed)
  BY DEF Unknown, Fresh
<1>5. PICK L, m, rows, u : L = chain /\ m = mem /\ rows = db /\ u = upTo
  OBVIOUS
<1>6. /\ State(L, m, rows, "applied", u, {})
      /\ flushed.leaves = rows.leaves \cup m.dirty.leaves
      /\ flushed.feed = rows.feed \o Fresh(m.dirty.feed, rows.feed)
      /\ flushed.registry = [a \in Module |-> IF a \in m.dirty.modules
                                              THEN m.registry[a] ELSE rows.registry[a]]
      /\ flushed.batches = rows.batches \cup m.dirty.batches
      /\ flushed.accepted = rows.accepted \cup m.dirty.accepted
      /\ flushed.cursor = u
  BY ONLY <1>1, <1>3, <1>4, <1>5
<1>7. State(L, m, flushed, "committed", u, {})
  BY ONLY <1>6, FlushIs
<1>8. State(chain, mem, db', "committed", upTo, {})
  BY ONLY <1>2, <1>5, <1>7
<1>. QED BY <1>1, <1>8 DEF IndexerInv, persistAtomically

LEMMA commitFlushKeeps ==
    ASSUME IndexerInv, commitFlush
    PROVE  IndexerInv'
<1>1. State(chain, mem, db, "committed", upTo, {}) /\ todo = {}
  BY DEF IndexerInv, commitFlush, State
<1>2. PICK p : Good(mem, chain, p, db)
  BY <1>1 DEF State, Running, Ahead
<1>3. Shape(mem)
  BY <1>2 DEF Good
<1>4. PICK L, m, rows, u, n : L = chain /\ m = mem /\ rows = db /\ u = upTo /\ n = mem'
  OBVIOUS
<1>5. n = [m EXCEPT !.dirty = NoDirt, !.lastBlock = u]
  BY <1>4 DEF commitFlush
<1>6. Shape(m) /\ State(L, m, rows, "committed", u, {})
  BY <1>1, <1>3, <1>4
<1>7. n = [frontier |-> m.frontier, leaves |-> m.leaves, feed |-> m.feed,
           registry |-> m.registry, batches |-> m.batches, accepted |-> m.accepted,
           bytes |-> m.bytes, seen |-> m.seen, dirty |-> NoDirt, lastBlock |-> u]
  BY ONLY <1>5, <1>6 DEF Shape
<1>8. State(L, n, rows, "idle", u, {})
  BY ONLY <1>6, <1>7, CommitIs
<1>9. State(chain, mem', db, "idle", upTo, {})
  BY ONLY <1>4, <1>8
<1>. QED BY <1>1, <1>9 DEF IndexerInv, commitFlush

LEMMA FaultsKeep ==
    ASSUME IndexerInv, RollBack \/ CommitUnheard \/ Crash
    PROVE  IndexerInv'
<1>1. CASE RollBack
  <2>1. State(chain, mem, db, "idle", upTo, todo)
    BY <1>1, EndIs DEF IndexerInv, RollBack
  <2>. QED BY <1>1, <2>1 DEF IndexerInv, RollBack
<1>2. CASE CommitUnheard
  <2>1. State(chain, mem, db, "idle", upTo, todo)
    BY <1>2, EndIs DEF IndexerInv, CommitUnheard
  <2>. QED BY <1>2, <2>1 DEF IndexerInv, CommitUnheard
<1>3. CASE Crash
  <2>1. State(chain, NoMem, db, "down", upTo, todo)
    BY <1>3, DownIs DEF IndexerInv, Crash
  <2>. QED BY <1>3, <2>1 DEF IndexerInv, Crash
<1>. QED BY <1>1, <1>2, <1>3

-----------------------------------------------------------------------------
(* The handlers, in a poll.                                                *)

\* Applying the range: p logs are in memory, and the places of T are to come.
Applying(L, m, p, rows, u, T) ==
    /\ ChainOK(L) /\ u \in Nat /\ u <= HeadBlock(L) /\ rows.cursor \in Nat /\ rows.cursor <= u
    /\ \E q \in 0..Len(L) : Upto(L, rows.cursor, q) /\ RowsAre(rows, L, q)
    /\ Ahead(m, L, p, rows, u) /\ Polled(m, L, p, u, T)

\* Whose turn it is.
Turn(L, T, i) ==
    /\ i \in T
    /\ \A j \in T : IF IsTree(L[i]) = IsTree(L[j]) THEN i <= j ELSE IsTree(L[i])

LEMMA ApplyingFacts ==
    ASSUME NEW L, NEW m, NEW p, NEW rows, NEW u, NEW T, Applying(L, m, p, rows, u, T), NEW i \in T
    PROVE  /\ i \in 1..Len(L) /\ i \in UntilIn(L, u) /\ L[i].block > m.lastBlock
           /\ p \in 0..Len(L) /\ Len(L) \in Nat /\ p \in Nat /\ i \in Nat
           /\ ChainOK(L) /\ Fits(L, i) /\ LogOK(L[i])
           /\ Good(m, L, p, rows) /\ Shape(m) /\ MemIs(m, L, p)
<1>1. ChainOK(L) /\ Ahead(m, L, p, rows, u) /\ Polled(m, L, p, u, T)
  BY DEF Applying
<1>2. i \in UntilIn(L, u) /\ L[i].block > m.lastBlock
  BY <1>1 DEF Polled
<1>3. i \in 1..Len(L)
  BY <1>2 DEF UntilIn
<1>4. p \in 0..Len(L) /\ Good(m, L, p, rows)
  BY <1>1 DEF Ahead
<1>5. Len(L) \in Nat /\ Fits(L, i) /\ LogOK(L[i])
  BY <1>1, <1>3, ChainFacts DEF ChainOK
<1>6. Shape(m) /\ MemIs(m, L, p)
  BY <1>4 DEF Good
<1>. QED BY <1>1, <1>2, <1>3, <1>4, <1>5, <1>6

\* What is behind memory and before a log whose turn it is are tree events.
LEMMA TurnIs ==
    ASSUME NEW L, NEW m, NEW p, NEW rows, NEW u, NEW T, Applying(L, m, p, rows, u, T),
           NEW i, Turn(L, T, i), ~IsTree(L[i]), ~(i <= p)
    PROVE  /\ i - 1 \in 0..Len(L) /\ (i - 1) + 1 = i /\ p <= i - 1
           /\ Good(m, L, i - 1, rows)
<1>1. /\ i \in T /\ \A j \in T : ~IsTree(L[j]) /\ i <= j
  BY DEF Turn, IsTree
<1>2. /\ i \in 1..Len(L) /\ i \in UntilIn(L, u) /\ L[i].block > m.lastBlock
      /\ p \in 0..Len(L) /\ Len(L) \in Nat /\ p \in Nat /\ i \in Nat
      /\ ChainOK(L) /\ Good(m, L, p, rows)
  BY <1>1, ApplyingFacts
<1>3. i - 1 \in 0..Len(L) /\ (i - 1) + 1 = i /\ p <= i - 1
  BY <1>2
<1>4. ASSUME NEW j \in (p + 1)..(i - 1) PROVE IsTree(L[j])
  <2>1. j \in 1..Len(L) /\ j <= i /\ ~(i <= j) /\ ~(j <= p)
    BY <1>2
  <2>2. /\ L[j].block <= L[i].block /\ L[i].block \in Nat /\ L[j].block \in Nat
    BY <1>2, <2>1, ChainFacts
  <2>3. L[j].block <= u
    <3>1. L[i].block <= u /\ u \in Nat
      BY <1>2 DEF UntilIn, Applying
    <3>. QED BY <2>2, <3>1
  <2>4. j \in UntilIn(L, u) /\ j \notin T
    BY <1>1, <2>1, <2>3 DEF UntilIn
  <2>5. L[j].block > m.lastBlock
    <3>1. /\ m.lastBlock \in Nat /\ m.lastBlock <= rows.cursor /\ rows.cursor \in Nat
          /\ \A k \in UntilIn(L, rows.cursor) : k <= p
      BY <1>2 DEF Applying, Ahead, Good, Shape
    <3>2. ~(L[j].block <= rows.cursor)
      BY <2>1, <3>1 DEF UntilIn
    <3>. QED BY <2>2, <3>1, <3>2
  <2>. QED BY <2>1, <2>4, <2>5 DEF Applying, Polled
<1>5. Good(m, L, i - 1, rows)
  BY <1>2, <1>3, <1>4, Slides
<1>. QED BY <1>3, <1>5

\* Memory after a handler.
LEMMA AheadStep ==
    ASSUME NEW L, NEW m, NEW p, NEW rows, NEW u, NEW T, Applying(L, m, p, rows, u, T),
           NEW i \in T, NEW r, NEW s \in {p, i}, p <= s, Good(r, L, s, rows),
           r.lastBlock = m.lastBlock,
           r.leaves \subseteq m.leaves \cup {L[i].leaf},
           r.leaves = m.leaves \/ L[i].name \in {"Op", "SubtreeAppended"},
           r.seen \subseteq m.seen \cup {L[i]}
    PROVE  Ahead(r, L, s, rows, u)
<1>1. /\ i \in 1..Len(L) /\ i \in UntilIn(L, u)
      /\ p \in 0..Len(L) /\ Len(L) \in Nat /\ p \in Nat /\ i \in Nat
      /\ ChainOK(L) /\ Fits(L, i) /\ LogOK(L[i])
  BY ApplyingFacts
<1>2. /\ m.lastBlock <= rows.cursor
      /\ \A j \in UntilIn(L, rows.cursor) : j <= p
      /\ \A j \in 1..p : L[j].block <= u
      /\ m.leaves \subseteq LeavesIn(L, UntilIn(L, u))
      /\ \A l \in m.seen : l.block \in 0..u
      /\ u \in Nat
  BY DEF Applying, Ahead
<1>3. s \in 0..Len(L) /\ s \in Nat
  BY <1>1
<1>4. L[i].block <= u /\ L[i].block \in Nat
  BY <1>1 DEF UntilIn, LogOK
<1>5. \A j \in UntilIn(L, rows.cursor) : j <= s
  <2>1. ASSUME NEW j \in UntilIn(L, rows.cursor) PROVE j <= s
    <3>1. j <= p /\ j \in Nat
      BY <1>1, <1>2 DEF UntilIn
    <3>. QED BY <1>1, <1>3, <3>1
  <2>. QED BY <2>1
<1>6. ASSUME NEW j \in 1..s PROVE L[j].block <= u
  <2>1. CASE s = p
    BY <1>2, <2>1
  <2>2. CASE s = i
    <3>1. j \in 1..Len(L) /\ j <= i
      BY <1>1, <2>2
    <3>2. L[j].block <= L[i].block /\ L[j].block \in Nat
      BY <1>1, <3>1, ChainFacts
    <3>. QED BY <1>2, <1>4, <3>2
  <2>. QED BY <2>1, <2>2
<1>7. L[i].name \in {"Op", "SubtreeAppended"} => L[i].leaf \in LeavesIn(L, UntilIn(L, u))
  <2>1. CASE L[i].name = "SubtreeAppended"
    <3>1. IsTree(L[i])
      BY <2>1 DEF IsTree
    <3>. QED BY <1>1, <3>1 DEF LeavesIn
  <2>2. CASE L[i].name = "Op"
    <3>1. /\ i # 1 /\ IsTree(L[i - 1])
          /\ L[i - 1].leaf = L[i].leaf /\ L[i - 1].block = L[i].block
      BY <1>1, <2>2 DEF Fits, Follows, IsFamily
    <3>2. i - 1 \in 1..Len(L)
      BY <1>1, <3>1
    <3>3. i - 1 \in UntilIn(L, u)
      BY <1>4, <3>1, <3>2 DEF UntilIn
    <3>. QED BY <3>1, <3>3 DEF LeavesIn
  <2>. QED BY <2>1, <2>2
<1>8. r.leaves \subseteq LeavesIn(L, UntilIn(L, u))
  BY <1>2, <1>7
<1>9. \A l \in r.seen : l.block \in 0..u
  <2>1. L[i].block \in 0..u
    BY <1>2, <1>4
  <2>. QED BY <1>2, <2>1
<1>. QED BY <1>2, <1>3, <1>5, <1>6, <1>8, <1>9 DEF Ahead

\* A handler that returns.
LEMMA GoIs ==
    ASSUME NEW L, NEW m, NEW p, NEW rows, NEW u, NEW T, Applying(L, m, p, rows, u, T),
           NEW i \in T, NEW r, NEW s \in {p, i}, p <= s, Ahead(r, L, s, rows, u),
           r.lastBlock = m.lastBlock, m.leaves \subseteq r.leaves,
           IsTree(L[i]) \/ i <= s,
           L[i].name = "SubtreeAppended" => L[i].leaf \in r.leaves,
           NEW ph, ph = IF T \ {i} = {} THEN "applied" ELSE "applying"
    PROVE  State(L, r, rows, ph, u, T \ {i})
<1>1. /\ p \in Nat /\ i \in Nat /\ s \in 0..Len(L) /\ Polled(m, L, p, u, T)
  BY ApplyingFacts DEF Ahead, Applying
<1>2. Polled(r, L, s, u, T \ {i})
  <2>1. ASSUME NEW j \in T \ {i} PROVE j \in UntilIn(L, u) /\ L[j].block > r.lastBlock
    BY <1>1 DEF Polled
  <2>2. ASSUME NEW j \in UntilIn(L, u), L[j].block > r.lastBlock, j \notin T \ {i}
        PROVE  /\ IsTree(L[j]) \/ j <= s
               /\ L[j].name = "SubtreeAppended" => L[j].leaf \in r.leaves
    <3>1. CASE j = i
      BY <3>1
    <3>2. CASE j # i
      <4>1. /\ IsTree(L[j]) \/ j <= p
            /\ L[j].name = "SubtreeAppended" => L[j].leaf \in m.leaves
        BY <1>1, <2>2, <3>2 DEF Polled
      <4>2. j \in Nat /\ s \in Nat
        BY <1>1 DEF UntilIn
      <4>. QED BY <1>1, <4>1, <4>2
    <3>. QED BY <3>1, <3>2
  <2>. QED BY <2>1, <2>2 DEF Polled
<1>3. Running(L, r, rows, ph, u, T \ {i})
  BY <1>1, <1>2 DEF Running
<1>4. ph \in {"applied", "applying"} /\ (ph # "applying" => T \ {i} = {})
  OBVIOUS
<1>. QED BY <1>3, <1>4 DEF State, Applying

\* A handler that throws.
LEMMA ThrowIs ==
    ASSUME NEW L, NEW m, NEW p, NEW rows, NEW u, NEW T, Applying(L, m, p, rows, u, T),
           NEW r, NEW s, Ahead(r, L, s, rows, u)
    PROVE  State(L, r, rows, "idle", u, {})
<1>1. s \in 0..Len(L)
  BY DEF Ahead
<1>2. Running(L, r, rows, "idle", u, {})
  BY <1>1 DEF Running
<1>. QED BY <1>2 DEF State, Applying

Onwards(T, i) == IF T \ {i} = {} THEN "applied" ELSE "applying"

LEMMA MirrorGo ==
    ASSUME NEW L, NEW m, NEW p, NEW rows, NEW u, NEW T, Applying(L, m, p, rows, u, T),
           NEW i \in T, IsTree(L[i]), NEW frontier
    PROVE  State(L, MirrorNext(m, frontier, rowOf(L[i])), rows, Onwards(T, i), u, T \ {i})
<1>1. Good(m, L, p, rows) /\ p \in Nat
  BY ApplyingFacts
<1>2. PICK r : r = MirrorNext(m, frontier, rowOf(L[i]))
  OBVIOUS
<1>3. Good(r, L, p, rows)
  BY <1>1, <1>2, MirrorNextIs
<1>4. /\ r.leaves = m.leaves \cup rowOf(L[i]) /\ r.seen = m.seen /\ r.lastBlock = m.lastBlock
  BY <1>2 DEF MirrorNext
<1>5. rowOf(L[i]) = IF L[i].name = "SubtreeAppended" THEN {L[i].leaf} ELSE {}
  BY DEF rowOf
<1>6. PICK s, ph : s = p /\ ph = Onwards(T, i)
  OBVIOUS
<1>7. s \in {p, i} /\ p <= s
  BY <1>1, <1>6
<1>8. Ahead(r, L, s, rows, u)
  <2>1. /\ r.leaves \subseteq m.leaves \cup {L[i].leaf}
        /\ r.leaves = m.leaves \/ L[i].name \in {"Op", "SubtreeAppended"}
        /\ r.seen \subseteq m.seen \cup {L[i]}
    BY <1>4, <1>5
  <2>. QED BY <1>3, <1>4, <1>6, <1>7, <2>1, AheadStep
<1>9. ph = IF T \ {i} = {} THEN "applied" ELSE "applying"
  BY <1>6 DEF Onwards
<1>10. m.leaves \subseteq r.leaves /\ (L[i].name = "SubtreeAppended" => L[i].leaf \in r.leaves)
  BY <1>4, <1>5
<1>11. State(L, r, rows, ph, u, T \ {i})
  <2>1. /\ Applying(L, m, p, rows, u, T) /\ i \in T
        /\ IsTree(L[i]) \/ i <= s
        /\ r.lastBlock = m.lastBlock
    BY <1>4
  <2>. QED BY ONLY <1>7, <1>8, <1>9, <1>10, <2>1, GoIs, SMTT(60)
<1>. QED BY <1>2, <1>6, <1>11

\* The mirror refuses a leaf ahead of it, and memory keeps what it has.
LEMMA MirrorThrow ==
    ASSUME NEW L, NEW m, NEW p, NEW rows, NEW u, NEW T, Applying(L, m, p, rows, u, T),
           NEW i \in T, NEW r, NEW frontier, r = [m EXCEPT !.frontier = frontier]
    PROVE  State(L, r, rows, "idle", u, {})
<1>1. Good(m, L, p, rows) /\ Shape(m) /\ p \in Nat
  BY ApplyingFacts
<1>2. r = [frontier |-> frontier, leaves |-> m.leaves, feed |-> m.feed,
           registry |-> m.registry, batches |-> m.batches, accepted |-> m.accepted,
           bytes |-> m.bytes, seen |-> m.seen, dirty |-> m.dirty, lastBlock |-> m.lastBlock]
  BY ONLY <1>1, r = [m EXCEPT !.frontier = frontier] DEF Shape
<1>3. /\ r.leaves = m.leaves /\ r.feed = m.feed /\ r.registry = m.registry
      /\ r.batches = m.batches /\ r.accepted = m.accepted /\ r.seen = m.seen
      /\ r.dirty = m.dirty /\ r.lastBlock = m.lastBlock
  BY ONLY <1>2
<1>4. Good(r, L, p, rows)
  <2>1. /\ MemIs(m, L, p) /\ SeenIs(m, L, p) /\ Covers(m, rows) /\ Len(rows.feed) \in Nat
    BY <1>1 DEF Good
  <2>2. Shape(r)
    BY ONLY <1>1, <1>2 DEF Shape
  <2>3. MemIs(r, L, p)
    BY ONLY <1>3, <2>1 DEF MemIs
  <2>4. SeenIs(r, L, p)
    BY ONLY <1>3, <2>1 DEF SeenIs
  <2>5. Covers(r, rows)
    BY ONLY <1>3, <2>1 DEF Covers
  <2>. QED BY <2>1, <2>2, <2>3, <2>4, <2>5 DEF Good
<1>5. PICK s : s = p
  OBVIOUS
<1>6. Ahead(r, L, s, rows, u)
  <2>1. s \in {p, i} /\ p <= s
    BY <1>1, <1>5
  <2>2. /\ r.leaves \subseteq m.leaves \cup {L[i].leaf} /\ r.leaves = m.leaves
        /\ r.seen \subseteq m.seen \cup {L[i]}
    BY <1>3
  <2>3. Applying(L, m, p, rows, u, T) /\ i \in T
    OBVIOUS
  <2>. QED BY ONLY <1>3, <1>4, <1>5, <2>1, <2>2, <2>3, AheadStep
<1>7. Applying(L, m, p, rows, u, T)
  OBVIOUS
<1>. QED BY ONLY <1>6, <1>7, ThrowIs

LEMMA StayGo ==
    ASSUME NEW L, NEW m, NEW p, NEW rows, NEW u, NEW T, Applying(L, m, p, rows, u, T),
           NEW i \in T, ~IsTree(L[i]), i <= p
    PROVE  State(L, m, rows, Onwards(T, i), u, T \ {i})
<1>1. Good(m, L, p, rows) /\ p \in Nat
  BY ApplyingFacts
<1>2. PICK s, ph : s = p /\ ph = Onwards(T, i)
  OBVIOUS
<1>3. s \in {p, i} /\ p <= s /\ i <= s
  BY <1>1, <1>2
<1>4. Ahead(m, L, s, rows, u)
  BY <1>2 DEF Applying
<1>5. ph = IF T \ {i} = {} THEN "applied" ELSE "applying"
  BY <1>2 DEF Onwards
<1>6. L[i].name # "SubtreeAppended"
  BY DEF IsTree
<1>7. State(L, m, rows, ph, u, T \ {i})
  BY <1>3, <1>4, <1>5, <1>6, GoIs
<1>. QED BY <1>2, <1>7

\* A log of the feed, the registry or the chunks that memory did not have.
LEMMA NewAhead ==
    ASSUME NEW L, NEW m, NEW p, NEW rows, NEW u, NEW T, Applying(L, m, p, rows, u, T),
           NEW i \in T, ~(i <= p), NEW r, Good(r, L, i, rows),
           r.lastBlock = m.lastBlock,
           r.leaves \subseteq m.leaves \cup {L[i].leaf},
           r.leaves = m.leaves \/ L[i].name = "Op",
           r.seen \subseteq m.seen \cup {L[i]}
    PROVE  Ahead(r, L, i, rows, u)
<1>1. p \in Nat /\ i \in Nat
  BY ApplyingFacts
<1>2. i \in {p, i} /\ p <= i
  BY <1>1
<1>3. r.leaves = m.leaves \/ L[i].name \in {"Op", "SubtreeAppended"}
  OBVIOUS
<1>. QED BY <1>2, <1>3, AheadStep

LEMMA NewGo ==
    ASSUME NEW L, NEW m, NEW p, NEW rows, NEW u, NEW T, Applying(L, m, p, rows, u, T),
           NEW i \in T, ~IsTree(L[i]), ~(i <= p), NEW r, Ahead(r, L, i, rows, u),
           r.lastBlock = m.lastBlock, m.leaves \subseteq r.leaves
    PROVE  State(L, r, rows, Onwards(T, i), u, T \ {i})
<1>1. p \in Nat /\ i \in Nat
  BY ApplyingFacts
<1>2. i \in {p, i} /\ p <= i /\ i <= i
  BY <1>1
<1>3. PICK ph : ph = Onwards(T, i)
  OBVIOUS
<1>4. ph = IF T \ {i} = {} THEN "applied" ELSE "applying"
  BY <1>3 DEF Onwards
<1>5. L[i].name # "SubtreeAppended"
  BY DEF IsTree
<1>6. State(L, r, rows, ph, u, T \ {i})
  BY <1>2, <1>4, <1>5, GoIs
<1>. QED BY <1>3, <1>6

LEMMA FamilyGo ==
    ASSUME NEW L, NEW m, NEW p, NEW rows, NEW u, NEW T, Applying(L, m, p, rows, u, T),
           NEW i, Turn(L, T, i), IsFamily(L[i])
    PROVE  State(L, FamilyAdds(m, L[i]), rows, Onwards(T, i), u, T \ {i})
<1>1. i \in T /\ ~IsTree(L[i])
  BY DEF Turn, IsFamily, IsTree
<1>2. /\ i \in 1..Len(L) /\ ChainOK(L) /\ p \in 0..Len(L) /\ Good(m, L, p, rows)
  BY <1>1, ApplyingFacts
<1>3. CASE i <= p
  <2>1. FamilyAdds(m, L[i]) = m
    BY <1>2, <1>3, FamilyAgain
  <2>. QED BY <1>1, <1>3, <2>1, StayGo
<1>4. CASE ~(i <= p)
  <2>1. PICK n : n = i - 1
    OBVIOUS
  <2>2. n \in 0..Len(L) /\ n + 1 = i /\ Good(m, L, n, rows)
    BY <1>1, <1>4, <2>1, TurnIs
  <2>3. n + 1 \in 1..Len(L) /\ IsFamily(L[n + 1])
    BY <1>2, <2>2
  <2>4. /\ FamilyAdds(m, L[n + 1]) = FamilyNext(m, L[n + 1])
        /\ Good(FamilyNext(m, L[n + 1]), L, n + 1, rows)
    BY ONLY <1>2, <2>2, <2>3, FamilyNextIs
  <2>5. PICK r : r = FamilyNext(m, L[i])
    OBVIOUS
  <2>6. FamilyAdds(m, L[i]) = r /\ Good(r, L, i, rows)
    BY ONLY <2>2, <2>4, <2>5
  <2>7. /\ r.leaves = m.leaves \cup (IF L[i].name = "Op" THEN {L[i].leaf} ELSE {})
        /\ r.seen = m.seen /\ r.lastBlock = m.lastBlock
    BY <2>5 DEF FamilyNext
  <2>8. /\ r.leaves \subseteq m.leaves \cup {L[i].leaf}
        /\ r.leaves = m.leaves \/ L[i].name = "Op"
        /\ r.seen \subseteq m.seen \cup {L[i]}
        /\ m.leaves \subseteq r.leaves
    BY <2>7
  <2>9. Ahead(r, L, i, rows, u)
    BY <1>1, <1>4, <2>6, <2>7, <2>8, NewAhead
  <2>10. State(L, r, rows, Onwards(T, i), u, T \ {i})
    BY <1>1, <1>4, <2>7, <2>8, <2>9, NewGo
  <2>. QED BY <2>6, <2>10
<1>. QED BY <1>3, <1>4

\* A log of the registry or of the chunks: seen, or the next to apply.
LEMMA GatedTurn ==
    ASSUME NEW L, NEW m, NEW p, NEW rows, NEW u, NEW T, Applying(L, m, p, rows, u, T),
           NEW i, Turn(L, T, i), IsGated(L[i])
    PROVE  /\ i \in T /\ ~IsTree(L[i]) /\ Shape(m)
           /\ L[i] \in m.seen <=> i <= p
           /\ ~(i <= p) => \E n \in 0..Len(L) : /\ n + 1 = i /\ i \in 1..Len(L) /\ ChainOK(L)
                                               /\ Good(m, L, n, rows)
<1>1. i \in T /\ ~IsTree(L[i])
  BY DEF Turn, IsGated, IsTree
<1>2. /\ i \in 1..Len(L) /\ ChainOK(L) /\ p \in 0..Len(L) /\ Good(m, L, p, rows)
      /\ L[i].block > m.lastBlock /\ Shape(m)
  BY <1>1, ApplyingFacts
<1>3. L[i] \in m.seen <=> i <= p
  BY <1>2, SeenNow
<1>4. ASSUME ~(i <= p)
      PROVE  \E n \in 0..Len(L) : /\ n + 1 = i /\ i \in 1..Len(L) /\ ChainOK(L)
                                  /\ Good(m, L, n, rows)
  <2>1. i - 1 \in 0..Len(L) /\ (i - 1) + 1 = i /\ Good(m, L, i - 1, rows)
    BY <1>1, <1>4, TurnIs
  <2>. QED BY <1>2, <2>1
<1>. QED BY <1>1, <1>2, <1>3, <1>4

LEMMA RegistryGo ==
    ASSUME NEW L, NEW m, NEW p, NEW rows, NEW u, NEW T, Applying(L, m, p, rows, u, T),
           NEW i, Turn(L, T, i), IsOnRegistry(L[i]), L[i] \notin m.seen
    PROVE  /\ m.registry[L[i].module] = "registered" <=> L[i].name # "ModuleRegistered"
           /\ State(L, RegistryNext(m, L[i]), rows, Onwards(T, i), u, T \ {i})
<1>1. IsGated(L[i])
  BY DEF IsGated, IsOnRegistry
<1>2. i \in T /\ ~IsTree(L[i]) /\ ~(i <= p)
  BY <1>1, GatedTurn
<1>3. PICK n \in 0..Len(L) : /\ n + 1 = i /\ i \in 1..Len(L) /\ ChainOK(L) /\ Good(m, L, n, rows)
  BY <1>1, <1>2, GatedTurn
<1>4. n + 1 \in 1..Len(L) /\ IsOnRegistry(L[n + 1])
  BY <1>3
<1>5. /\ m.registry[L[n + 1].module] = "registered" <=> L[n + 1].name # "ModuleRegistered"
      /\ Good(RegistryNext(m, L[n + 1]), L, n + 1, rows)
  BY ONLY <1>3, <1>4, RegistryNextIs
<1>6. PICK r : r = RegistryNext(m, L[i])
  OBVIOUS
<1>7. /\ m.registry[L[i].module] = "registered" <=> L[i].name # "ModuleRegistered"
      /\ Good(r, L, i, rows)
  BY ONLY <1>3, <1>5, <1>6
<1>8. r.leaves = m.leaves /\ r.seen = m.seen \cup {L[i]} /\ r.lastBlock = m.lastBlock
  BY <1>6 DEF RegistryNext
<1>9. /\ r.leaves \subseteq m.leaves \cup {L[i].leaf} /\ m.leaves \subseteq r.leaves
      /\ r.seen \subseteq m.seen \cup {L[i]}
  BY <1>8
<1>10. Ahead(r, L, i, rows, u)
  BY <1>2, <1>7, <1>8, <1>9, NewAhead
<1>11. State(L, r, rows, Onwards(T, i), u, T \ {i})
  BY <1>2, <1>8, <1>9, <1>10, NewGo
<1>. QED BY <1>6, <1>7, <1>11

LEMMA AcceptGo ==
    ASSUME NEW L, NEW m, NEW p, NEW rows, NEW u, NEW T, Applying(L, m, p, rows, u, T),
           NEW i, Turn(L, T, i), L[i].name = "Accepted", L[i] \notin m.seen
    PROVE  /\ \E b \in m.batches : b.leaf = L[i].leaf
           /\ <<L[i].leaf, L[i].chunk>> \notin m.accepted
           /\ \A got : State(L, AcceptNext(m, L[i], got), rows, Onwards(T, i), u, T \ {i})
           /\ ~Honest => State(L, MarkedNext(m, L[i]), rows, "idle", u, {})
<1>1. IsGated(L[i])
  BY DEF IsGated
<1>2. i \in T /\ ~IsTree(L[i]) /\ ~(i <= p)
  BY <1>1, GatedTurn
<1>3. PICK n \in 0..Len(L) : /\ n + 1 = i /\ i \in 1..Len(L) /\ ChainOK(L) /\ Good(m, L, n, rows)
  BY <1>1, <1>2, GatedTurn
<1>4. n + 1 \in 1..Len(L) /\ L[n + 1].name = "Accepted"
  BY <1>3
<1>5. MemIs(m, L, n)
  BY <1>3 DEF Good
<1>6. /\ \E b \in m.batches : b.leaf = L[n + 1].leaf
      /\ <<L[n + 1].leaf, L[n + 1].chunk>> \notin m.accepted
  BY ONLY <1>3, <1>4, <1>5, AcceptIsNew
<1>7. /\ \E b \in m.batches : b.leaf = L[i].leaf
      /\ <<L[i].leaf, L[i].chunk>> \notin m.accepted
  BY ONLY <1>3, <1>6
\* Whatever it becomes, it takes no leaf.
<1>8. ASSUME NEW r, Good(r, L, i, rows), r.leaves = m.leaves, r.seen = m.seen \cup {L[i]},
             r.lastBlock = m.lastBlock
      PROVE  /\ Ahead(r, L, i, rows, u)
             /\ State(L, r, rows, Onwards(T, i), u, T \ {i})
             /\ State(L, r, rows, "idle", u, {})
  <2>1. /\ r.leaves \subseteq m.leaves \cup {L[i].leaf} /\ m.leaves \subseteq r.leaves
        /\ r.seen \subseteq m.seen \cup {L[i]}
    BY <1>8
  <2>2. Ahead(r, L, i, rows, u)
    BY <1>2, <1>8, <2>1, NewAhead
  <2>3. State(L, r, rows, Onwards(T, i), u, T \ {i})
    BY <1>2, <1>8, <2>1, <2>2, NewGo
  <2>4. State(L, r, rows, "idle", u, {})
    BY <2>2, ThrowIs
  <2>. QED BY <2>2, <2>3, <2>4
<1>9. ASSUME NEW got PROVE State(L, AcceptNext(m, L[i], got), rows, Onwards(T, i), u, T \ {i})
  <2>1. Good(AcceptNext(m, L[n + 1], got), L, n + 1, rows)
    BY ONLY <1>3, <1>4, AcceptNextIs
  <2>2. PICK r : r = AcceptNext(m, L[i], got)
    OBVIOUS
  <2>3. Good(r, L, i, rows)
    BY ONLY <1>3, <2>1, <2>2
  <2>4. r.leaves = m.leaves /\ r.seen = m.seen \cup {L[i]} /\ r.lastBlock = m.lastBlock
    BY <2>2 DEF AcceptNext
  <2>. QED BY <1>8, <2>2, <2>3, <2>4
<1>10. ASSUME ~Honest PROVE State(L, MarkedNext(m, L[i]), rows, "idle", u, {})
  <2>1. Good(MarkedNext(m, L[n + 1]), L, n + 1, rows)
    BY ONLY <1>3, <1>4, <1>10, MarkedNextIs
  <2>2. PICK r : r = MarkedNext(m, L[i])
    OBVIOUS
  <2>3. Good(r, L, i, rows)
    BY ONLY <1>3, <2>1, <2>2
  <2>4. r.leaves = m.leaves /\ r.seen = m.seen \cup {L[i]} /\ r.lastBlock = m.lastBlock
    BY <2>2 DEF MarkedNext
  <2>. QED BY <1>8, <2>2, <2>3, <2>4
<1>. QED BY <1>7, <1>9, <1>10

\* The EXCEPTs of the last two handlers.
Toggled(registry, mod) ==
    [registry EXCEPT ![mod] = IF registry[mod] = "registered" THEN "removed" ELSE "registered"]

LEMMA RegistryIsNext ==
    ASSUME NEW m, Shape(m), NEW l, NEW registry, NEW dirty, NEW n,
           registry = Toggled(m.registry, l.module),
           dirty = [m.dirty EXCEPT !.modules = @ \cup {l.module}],
           n = [m EXCEPT !.seen = @ \cup {l}],
           NEW r, r = [n EXCEPT !.registry = registry, !.dirty = dirty]
    PROVE  r = RegistryNext(m, l)
<1>0. /\ n = [frontier |-> n.frontier, leaves |-> n.leaves, feed |-> n.feed, registry |-> n.registry,
              batches |-> n.batches, accepted |-> n.accepted,
              bytes |-> n.bytes, seen |-> n.seen, dirty |-> n.dirty, lastBlock |-> n.lastBlock]
      /\ n.frontier = m.frontier /\ n.leaves = m.leaves /\ n.feed = m.feed
      /\ n.registry = m.registry /\ n.batches = m.batches /\ n.accepted = m.accepted
      /\ n.bytes = m.bytes /\ n.seen = m.seen \cup {l} /\ n.lastBlock = m.lastBlock
  <2>1. n = MarkedNext(m, l)
    BY MarkedIs
  <2>. QED BY ONLY <2>1 DEF MarkedNext
<1>2. dirty = [leaves |-> m.dirty.leaves, feed |-> m.dirty.feed,
               modules |-> m.dirty.modules \cup {l.module}, batches |-> m.dirty.batches,
               accepted |-> m.dirty.accepted, bytes |-> m.dirty.bytes]
  BY DEF Shape
<1>3. r =
        [frontier |-> m.frontier, leaves |-> m.leaves, feed |-> m.feed, registry |-> registry,
         batches |-> m.batches, accepted |-> m.accepted,
         bytes |-> m.bytes, seen |-> m.seen \cup {l}, dirty |-> dirty, lastBlock |-> m.lastBlock]
  <2>1. r =
          [frontier |-> n.frontier, leaves |-> n.leaves, feed |-> n.feed, registry |-> registry,
           batches |-> n.batches, accepted |-> n.accepted,
           bytes |-> n.bytes, seen |-> n.seen, dirty |-> dirty, lastBlock |-> n.lastBlock]
    <3>1. r = [n EXCEPT !.registry = registry, !.dirty = dirty]
      OBVIOUS
    <3>. QED BY ONLY <1>0, <3>1
  <2>. QED BY ONLY <1>0, <2>1
<1>4. registry = [m.registry EXCEPT ![l.module] =
                      IF m.registry[l.module] = "registered" THEN "removed" ELSE "registered"]
  BY DEF Toggled
<1>. QED BY ONLY <1>2, <1>3, <1>4 DEF RegistryNext

LEMMA AcceptIsNext ==
    ASSUME NEW m, Shape(m), NEW l, NEW got, NEW dirty, NEW n, NEW chunk, chunk = <<l.leaf, l.chunk>>,
           dirty = [m.dirty EXCEPT !.accepted = @ \cup {chunk}, !.bytes = @ \cup got],
           n = [m EXCEPT !.seen = @ \cup {l}],
           NEW r, r = [n EXCEPT !.accepted = @ \cup {chunk}, !.bytes = @ \cup got, !.dirty = dirty]
    PROVE  r = AcceptNext(m, l, got)
<1>0. /\ n = [frontier |-> n.frontier, leaves |-> n.leaves, feed |-> n.feed, registry |-> n.registry,
              batches |-> n.batches, accepted |-> n.accepted,
              bytes |-> n.bytes, seen |-> n.seen, dirty |-> n.dirty, lastBlock |-> n.lastBlock]
      /\ n.frontier = m.frontier /\ n.leaves = m.leaves /\ n.feed = m.feed
      /\ n.registry = m.registry /\ n.batches = m.batches /\ n.accepted = m.accepted
      /\ n.bytes = m.bytes /\ n.seen = m.seen \cup {l} /\ n.lastBlock = m.lastBlock
  <2>1. n = MarkedNext(m, l)
    BY MarkedIs
  <2>. QED BY ONLY <2>1 DEF MarkedNext
<1>2. dirty = [leaves |-> m.dirty.leaves, feed |-> m.dirty.feed,
               modules |-> m.dirty.modules, batches |-> m.dirty.batches,
               accepted |-> m.dirty.accepted \cup {chunk}, bytes |-> m.dirty.bytes \cup got]
  BY DEF Shape
<1>3. r =
        [frontier |-> m.frontier, leaves |-> m.leaves, feed |-> m.feed, registry |-> m.registry,
         batches |-> m.batches, accepted |-> m.accepted \cup {chunk},
         bytes |-> m.bytes \cup got, seen |-> m.seen \cup {l}, dirty |-> dirty,
         lastBlock |-> m.lastBlock]
  <2>1. r =
          [frontier |-> n.frontier, leaves |-> n.leaves, feed |-> n.feed, registry |-> n.registry,
           batches |-> n.batches, accepted |-> n.accepted \cup {chunk},
           bytes |-> n.bytes \cup got, seen |-> n.seen, dirty |-> dirty, lastBlock |-> n.lastBlock]
    <3>1. r = [n EXCEPT !.accepted = @ \cup {chunk}, !.bytes = @ \cup got, !.dirty = dirty]
      OBVIOUS
    <3>. QED BY ONLY <1>0, <3>1
  <2>. QED BY ONLY <1>0, <2>1
<1>4. chunk = <<l.leaf, l.chunk>>
  OBVIOUS
<1>. QED BY ONLY <1>2, <1>3, <1>4 DEF AcceptNext

LEMMA InPoll ==
    ASSUME IndexerInv, phase = "applying"
    PROVE  \E p : Applying(chain, mem, p, db, upTo, todo)
<1>1. State(chain, mem, db, "applying", upTo, todo)
  BY DEF IndexerInv
<1>2. PICK p \in 0..Len(chain) : /\ Ahead(mem, chain, p, db, upTo)
                                 /\ Polled(mem, chain, p, upTo, todo)
  BY <1>1 DEF State, Running
<1>3. Applying(chain, mem, p, db, upTo, todo)
  BY <1>1, <1>2 DEF State, Applying
<1>. QED BY <1>3

LEMMA GoKeeps ==
    ASSUME IndexerInv, NEW i, NEW r, NEW left, Go(i, r, left),
           State(chain, r, db, Onwards(todo, i), upTo, todo \ {i})
    PROVE  IndexerInv'
<1>1. mem' = r /\ todo' = todo \ {i} /\ phase' = Onwards(todo, i)
  BY DEF Go, Onwards
<1>2. State(chain, mem', db, phase', upTo, todo')
  BY ONLY <1>1, State(chain, r, db, Onwards(todo, i), upTo, todo \ {i})
<1>. QED BY <1>2 DEF IndexerInv, Go

LEMMA ThrowKeeps ==
    ASSUME IndexerInv, NEW r, Throw(r), State(chain, r, db, "idle", upTo, {})
    PROVE  IndexerInv'
<1>1. mem' = r /\ todo' = {} /\ phase' = "idle"
  BY DEF Throw
<1>2. State(chain, mem', db, phase', upTo, todo')
  BY ONLY <1>1, State(chain, r, db, "idle", upTo, {})
<1>. QED BY <1>2 DEF IndexerInv, Throw

LEMMA NextIsTurn ==
    ASSUME NEW i \in todo, NEW names, NextIs(i, names)
    PROVE  phase = "applying" /\ chain[i].name \in names /\ Turn(chain, todo, i)
BY DEF NextIs, Turn

LEMMA applyAppendKeeps ==
    ASSUME IndexerInv, applyAppend
    PROVE  IndexerInv'
<1>1. PICK i \in todo :
        LET l == chain[i]
            inserted == [mem EXCEPT !.frontier = IF l.leaf = @ THEN @ + 1 ELSE @]
        IN  /\ NextIs(i, {"Appended", "SubtreeAppended"})
            /\ IF l.leaf > mem.frontier
               THEN Throw([mem EXCEPT !.frontier = @ + 1])
               ELSE Go(i, recordLeaf(inserted, rowOf(l)), tree \cup {l})
  BY DEF applyAppend
<1>2. phase = "applying" /\ IsTree(chain[i])
  BY <1>1, NextIsTurn DEF IsTree
<1>3. PICK p : Applying(chain, mem, p, db, upTo, todo)
  BY <1>2, InPoll
<1>4. PICK L, m, rows, u, T : L = chain /\ m = mem /\ rows = db /\ u = upTo /\ T = todo
  OBVIOUS
<1>5. Applying(L, m, p, rows, u, T) /\ i \in T /\ IsTree(L[i])
  BY <1>2, <1>3, <1>4
<1>6. Shape(m)
  BY <1>5, ApplyingFacts
<1>7. CASE chain[i].leaf > mem.frontier
  <2>1. PICK r : r = [m EXCEPT !.frontier = m.frontier + 1]
    OBVIOUS
  <2>2. Throw(r)
    BY <1>1, <1>4, <1>7, <2>1
  <2>3. PICK frontier : frontier = m.frontier + 1
    OBVIOUS
  <2>4. r = [m EXCEPT !.frontier = frontier]
    BY ONLY <2>1, <2>3
  <2>5. State(L, r, rows, "idle", u, {})
    BY ONLY <1>5, <2>4, MirrorThrow
  <2>6. State(chain, r, db, "idle", upTo, {})
    BY ONLY <1>4, <2>5
  <2>. QED BY <2>2, <2>6, ThrowKeeps
<1>8. CASE ~(chain[i].leaf > mem.frontier)
  <2>1. PICK frontier : frontier = IF chain[i].leaf = mem.frontier THEN mem.frontier + 1 ELSE mem.frontier
    OBVIOUS
  <2>2. PICK r : r = recordLeaf([m EXCEPT !.frontier = frontier], rowOf(L[i]))
    OBVIOUS
  <2>3. Go(i, r, tree \cup {chain[i]})
    BY <1>1, <1>4, <1>8, <2>1, <2>2
  <2>4. PICK row : row = rowOf(L[i])
    OBVIOUS
  <2>5. r = MirrorNext(m, frontier, row)
    BY ONLY <1>6, <2>2, <2>4, MirrorIs
  <2>6. State(L, r, rows, Onwards(T, i), u, T \ {i})
    <3>1. State(L, MirrorNext(m, frontier, rowOf(L[i])), rows, Onwards(T, i), u, T \ {i})
      BY ONLY <1>5, MirrorGo
    <3>. QED BY ONLY <2>4, <2>5, <3>1
  <2>7. State(chain, r, db, Onwards(todo, i), upTo, todo \ {i})
    BY ONLY <1>4, <2>6
  <2>. QED BY <2>3, <2>7, GoKeeps
<1>. QED BY <1>7, <1>8

LEMMA familyEventKeeps ==
    ASSUME IndexerInv, familyEvent
    PROVE  IndexerInv'
<1>1. PICK i \in todo :
        LET l == chain[i]
            next == CHOOSE t \in Untaken(l) : \A v \in Untaken(l) : t.leaf <= v.leaf
        IN  /\ NextIs(i, {"Op", "Disbursed"})
            /\ IF Untaken(l) = {} \/ next.leaf # l.leaf
               THEN Throw(mem)
               ELSE Go(i, FamilyAdds(mem, l), tree \ {next})
  BY DEF familyEvent
<1>2. phase = "applying" /\ IsFamily(chain[i]) /\ Turn(chain, todo, i)
  BY <1>1, NextIsTurn DEF IsFamily
<1>3. PICK p : Applying(chain, mem, p, db, upTo, todo)
  BY <1>2, InPoll
<1>4. Throw(mem) \/ \E left : Go(i, FamilyAdds(mem, chain[i]), left)
  BY <1>1
<1>5. CASE Throw(mem)
  <2>1. Ahead(mem, chain, p, db, upTo)
    BY <1>3 DEF Applying
  <2>2. State(chain, mem, db, "idle", upTo, {})
    BY <1>3, <2>1, ThrowIs
  <2>. QED BY <1>5, <2>2, ThrowKeeps
<1>6. CASE \E left : Go(i, FamilyAdds(mem, chain[i]), left)
  <2>1. State(chain, FamilyAdds(mem, chain[i]), db, Onwards(todo, i), upTo, todo \ {i})
    BY <1>2, <1>3, FamilyGo
  <2>. QED BY <1>6, <2>1, GoKeeps
<1>. QED BY <1>4, <1>5, <1>6

\* A handler that met the log before.
LEMMA SeenKeeps ==
    ASSUME IndexerInv, NEW i, Turn(chain, todo, i), IsGated(chain[i]), phase = "applying",
           chain[i] \in mem.seen, NEW left, Go(i, mem, left)
    PROVE  IndexerInv'
<1>1. PICK p : Applying(chain, mem, p, db, upTo, todo)
  BY InPoll
<1>2. i \in todo /\ ~IsTree(chain[i]) /\ i <= p
  BY <1>1, GatedTurn
<1>3. State(chain, mem, db, Onwards(todo, i), upTo, todo \ {i})
  BY <1>1, <1>2, StayGo
<1>. QED BY <1>3, GoKeeps

LEMMA registryEventKeeps ==
    ASSUME IndexerInv, registryEvent
    PROVE  IndexerInv'
<1>1. PICK i \in todo :
        LET l == chain[i]
            live == mem.registry[l.module] = "registered"
            registry == [mem.registry EXCEPT ![l.module] = IF live THEN "removed" ELSE "registered"]
            dirty == [mem.dirty EXCEPT !.modules = @ \cup {l.module}]
        IN  /\ NextIs(i, {"ModuleRegistered", "ModuleRemoved"})
            /\ IF l \in mem.seen THEN Go(i, mem, tree)
               ELSE IF live = (l.name = "ModuleRegistered") THEN Throw(Marked(l))
               ELSE Go(i, [Marked(l) EXCEPT !.registry = registry, !.dirty = dirty], tree)
  BY DEF registryEvent
<1>2. phase = "applying" /\ IsOnRegistry(chain[i]) /\ Turn(chain, todo, i) /\ IsGated(chain[i])
  BY <1>1, NextIsTurn DEF IsOnRegistry, IsGated
<1>3. PICK p : Applying(chain, mem, p, db, upTo, todo)
  BY <1>2, InPoll
<1>4. CASE chain[i] \in mem.seen
  <2>1. Go(i, mem, tree)
    BY <1>1, <1>4
  <2>. QED BY <1>2, <1>4, <2>1, SeenKeeps
<1>5. CASE chain[i] \notin mem.seen
  <2>1. PICK L, m, rows, u, T, l :
          L = chain /\ m = mem /\ rows = db /\ u = upTo /\ T = todo /\ l = chain[i]
    OBVIOUS
  <2>2. /\ Applying(L, m, p, rows, u, T) /\ Turn(L, T, i) /\ IsOnRegistry(L[i])
        /\ L[i] \notin m.seen /\ i \in T
    BY <1>2, <1>3, <1>5, <2>1
  <2>3. /\ m.registry[L[i].module] = "registered" <=> L[i].name # "ModuleRegistered"
        /\ State(L, RegistryNext(m, L[i]), rows, Onwards(T, i), u, T \ {i})
    BY ONLY <2>2, RegistryGo
  <2>4. Shape(m)
    BY <2>2, ApplyingFacts
  <2>5. PICK registry, dirty, n :
          /\ registry = [m.registry EXCEPT ![l.module] =
                            IF m.registry[l.module] = "registered" THEN "removed" ELSE "registered"]
          /\ dirty = [m.dirty EXCEPT !.modules = @ \cup {l.module}]
          /\ n = [m EXCEPT !.seen = @ \cup {l}]
    OBVIOUS
  <2>6. PICK r : r = [n EXCEPT !.registry = registry, !.dirty = dirty]
    OBVIOUS
  <2>7. n = Marked(l)
    BY <2>1, <2>5 DEF Marked
  <2>8. Go(i, r, tree)
    <3>1. ~((mem.registry[chain[i].module] = "registered") = (chain[i].name = "ModuleRegistered"))
      BY <2>1, <2>3
    <3>2. registry = [mem.registry EXCEPT ![chain[i].module] =
                         IF mem.registry[chain[i].module] = "registered"
                         THEN "removed" ELSE "registered"]
      BY ONLY <2>1, <2>5
    <3>3. dirty = [mem.dirty EXCEPT !.modules = @ \cup {chain[i].module}]
      BY ONLY <2>1, <2>5
    <3>4. Go(i, [Marked(chain[i]) EXCEPT !.registry = registry, !.dirty = dirty], tree)
      BY ONLY <1>1, <1>5, <3>1, <3>2, <3>3
    <3>5. r = [Marked(chain[i]) EXCEPT !.registry = registry, !.dirty = dirty]
      BY ONLY <2>1, <2>6, <2>7
    <3>. QED BY ONLY <3>4, <3>5
  <2>9. r = RegistryNext(m, l)
    <3>1. registry = Toggled(m.registry, l.module)
      BY ONLY <2>5 DEF Toggled
    <3>2. dirty = [m.dirty EXCEPT !.modules = @ \cup {l.module}]
      BY ONLY <2>5
    <3>3. n = [m EXCEPT !.seen = @ \cup {l}]
      BY ONLY <2>5
    <3>. QED BY ONLY <2>4, <2>6, <3>1, <3>2, <3>3, RegistryIsNext
  <2>10. State(chain, r, db, Onwards(todo, i), upTo, todo \ {i})
    BY ONLY <2>1, <2>3, <2>9
  <2>. QED BY <2>8, <2>10, GoKeeps
<1>. QED BY <1>4, <1>5

LEMMA acceptChunkKeeps ==
    ASSUME IndexerInv, acceptChunk
    PROVE  IndexerInv'
<1>1. PICK i \in todo, got \in Calldata :
        LET l == chain[i]
            chunk == <<l.leaf, l.chunk>>
            bytes == IF got = "bytes" THEN {chunk} ELSE {}
            known == \E b \in mem.batches : b.leaf = l.leaf
            dirty == [mem.dirty EXCEPT !.accepted = @ \cup {chunk}, !.bytes = @ \cup bytes]
        IN  /\ NextIs(i, {"Accepted"})
            /\ IF l \in mem.seen THEN Go(i, mem, tree)
               ELSE IF ~known \/ chunk \in mem.accepted THEN Go(i, Marked(l), tree)
               ELSE IF got = "corrupt" THEN Throw(Marked(l))
               ELSE Go(i, [Marked(l) EXCEPT !.accepted = @ \cup {chunk},
                                            !.bytes = @ \cup bytes, !.dirty = dirty], tree)
  BY DEF acceptChunk
<1>2. /\ phase = "applying" /\ Turn(chain, todo, i) /\ IsGated(chain[i])
      /\ chain[i].name = "Accepted"
  BY <1>1, NextIsTurn DEF IsGated
<1>3. PICK p : Applying(chain, mem, p, db, upTo, todo)
  BY <1>2, InPoll
<1>4. CASE chain[i] \in mem.seen
  <2>1. Go(i, mem, tree)
    BY <1>1, <1>4
  <2>. QED BY <1>2, <1>4, <2>1, SeenKeeps
<1>5. CASE chain[i] \notin mem.seen
  <2>1. PICK L, m, rows, u, T, l, chunk :
          /\ L = chain /\ m = mem /\ rows = db /\ u = upTo /\ T = todo /\ l = chain[i]
          /\ chunk = <<l.leaf, l.chunk>>
    OBVIOUS
  <2>2. /\ Applying(L, m, p, rows, u, T) /\ Turn(L, T, i) /\ L[i].name = "Accepted"
        /\ L[i] \notin m.seen /\ i \in T
    BY <1>2, <1>3, <1>5, <2>1
  <2>3. /\ \E b \in m.batches : b.leaf = L[i].leaf
        /\ <<L[i].leaf, L[i].chunk>> \notin m.accepted
        /\ \A c : State(L, AcceptNext(m, L[i], c), rows, Onwards(T, i), u, T \ {i})
        /\ ~Honest => State(L, MarkedNext(m, L[i]), rows, "idle", u, {})
    BY ONLY <2>2, AcceptGo
  <2>4. Shape(m)
    BY <2>2, ApplyingFacts
  <2>5. PICK bytes : bytes = IF got = "bytes" THEN {chunk} ELSE {}
    OBVIOUS
  <2>6. PICK dirty, n :
          /\ dirty = [m.dirty EXCEPT !.accepted = @ \cup {chunk}, !.bytes = @ \cup bytes]
          /\ n = [m EXCEPT !.seen = @ \cup {l}]
    OBVIOUS
  <2>7. n = Marked(l)
    BY <2>1, <2>6 DEF Marked
  <2>8. (\E b \in mem.batches : b.leaf = chain[i].leaf) /\ chunk \notin mem.accepted
    BY <2>1, <2>3
  <2>9. CASE got = "corrupt"
    <3>1. Throw(n)
      BY <1>1, <1>5, <2>1, <2>7, <2>8, <2>9
    <3>2. ~Honest
      BY <2>9 DEF Honest
    <3>3. n = MarkedNext(m, l)
      BY ONLY <2>4, <2>6, MarkedIs
    <3>4. State(chain, n, db, "idle", upTo, {})
      BY ONLY <2>1, <2>3, <3>2, <3>3
    <3>. QED BY <3>1, <3>4, ThrowKeeps
  <2>10. CASE got # "corrupt"
    <3>1. PICK r : r = [n EXCEPT !.accepted = @ \cup {chunk}, !.bytes = @ \cup bytes, !.dirty = dirty]
      OBVIOUS
    <3>2. Go(i, r, tree)
      <4>1. chunk = <<chain[i].leaf, chain[i].chunk>>
        BY ONLY <2>1
      <4>2. dirty = [mem.dirty EXCEPT !.accepted = @ \cup {chunk}, !.bytes = @ \cup bytes]
        BY ONLY <2>1, <2>6
      <4>3. r = [Marked(chain[i]) EXCEPT !.accepted = @ \cup {chunk},
                                         !.bytes = @ \cup bytes, !.dirty = dirty]
        BY ONLY <2>1, <2>7, <3>1
      <4>4. Go(i, [Marked(chain[i]) EXCEPT !.accepted = @ \cup {chunk},
                                           !.bytes = @ \cup bytes, !.dirty = dirty], tree)
        BY ONLY <1>1, <1>5, <2>5, <2>8, <2>10, <4>1, <4>2
      <4>. QED BY ONLY <4>3, <4>4
    <3>3. r = AcceptNext(m, l, bytes)
      <4>1. chunk = <<l.leaf, l.chunk>>
        BY ONLY <2>1
      <4>2. dirty = [m.dirty EXCEPT !.accepted = @ \cup {chunk}, !.bytes = @ \cup bytes]
        BY ONLY <2>6
      <4>3. n = [m EXCEPT !.seen = @ \cup {l}]
        BY ONLY <2>6
      <4>. QED BY ONLY <2>4, <3>1, <4>1, <4>2, <4>3, AcceptIsNext
    <3>4. State(chain, r, db, Onwards(todo, i), upTo, todo \ {i})
      BY ONLY <2>1, <2>3, <3>3
    <3>. QED BY <3>2, <3>4, GoKeeps
  <2>. QED BY <2>9, <2>10
<1>. QED BY <1>4, <1>5

\* Whatever fails, is retried or restarts, the rows are those of the chain up to the
\* cursor, memory goes no less far, and the buffers hold what the rows lack.
THEOREM IndexerInvariant ==
    ASSUME AllSpeak
    PROVE  Spec => []IndexerInv
<1>1. Init => IndexerInv
  BY InitIs
<1>2. ASSUME IndexerInv, [Next]_vars PROVE IndexerInv'
  <2>1. CASE Next
    <3>1. CASE Block
      BY <1>2, <3>1, BlockKeeps
    <3>2. CASE bootPostgres
      BY <1>2, <3>2, bootPostgresKeeps
    <3>3. CASE pollOnce
      BY <1>2, <3>3, pollOnceKeeps
    <3>4. CASE applyAppend
      BY <1>2, <3>4, applyAppendKeeps
    <3>5. CASE familyEvent
      BY <1>2, <3>5, familyEventKeeps
    <3>6. CASE registryEvent
      BY <1>2, <3>6, registryEventKeeps
    <3>7. CASE acceptChunk
      BY <1>2, <3>7, acceptChunkKeeps
    <3>8. CASE persistAtomically
      BY <1>2, <3>8, persistAtomicallyKeeps
    <3>9. CASE commitFlush
      BY <1>2, <3>9, commitFlushKeeps
    <3>10. CASE RollBack \/ CommitUnheard \/ Crash
      BY <1>2, <3>10, FaultsKeep
    <3>. QED BY <2>1, <3>1, <3>2, <3>3, <3>4, <3>5, <3>6, <3>7, <3>8, <3>9, <3>10 DEF Next
  <2>2. CASE UNCHANGED vars
    BY <1>2, <2>2 DEF vars, IndexerInv
  <2>. QED BY <1>2, <2>1, <2>2
<1>. QED BY <1>1, <1>2, PTL DEF Spec

\* What the invariant says of the rows.
LEMMA RowsAreTheChains ==
    ASSUME IndexerInv
    PROVE  /\ RestartRebuildsTheTree
           /\ db.feed = FeedAt(db.cursor) /\ db.registry = RegistryAt(db.cursor)
           /\ db.accepted \subseteq AcceptsAt(db.cursor)
           /\ Honest => db.accepted = AcceptsAt(db.cursor)
<1>1. ChainOK(chain)
  BY DEF IndexerInv, State
<1>2. PICK q : Upto(chain, db.cursor, q) /\ RowsAre(db, chain, q)
  BY DEF IndexerInv, State
<1>. QED BY <1>1, <1>2, AtIs DEF RowsAre, RestartRebuildsTheTree, Rebuilds

\* And of what is served before it is durable.
LEMMA ServedIsAPrefix ==
    ASSUME IndexerInv
    PROVE  IsPrefix(mem.feed, FeedAt(headBlock))
<1>1. ChainOK(chain) /\ FeedAt(headBlock) = FeedIn(chain, 1..Len(chain))
  BY AtHead DEF IndexerInv, State
<1>2. PICK L, f, g : L = chain /\ f = mem.feed /\ g = FeedIn(chain, 1..Len(chain))
  OBVIOUS
<1>3. Len(L) \in Nat /\ ChainOK(L) /\ g = FeedIn(L, 1..Len(L))
  BY <1>1, <1>2, ChainFacts
<1>4. \E p \in Nat : p <= Len(L) /\ f = FeedIn(L, 1..p)
  <2>1. CASE phase = "down"
    <3>1. mem = NoMem
      BY <2>1 DEF IndexerInv, State
    <3>2. f = <<>>
      BY <1>2, <3>1 DEF NoMem
    <3>3. f = FeedIn(L, 1..0)
      <4>1. 1..0 = {}
        OBVIOUS
      <4>. QED BY <3>2, <4>1, NothingYet
    <3>. QED BY <1>3, <3>3
  <2>2. CASE phase # "down"
    <3>1. PICK p \in 0..Len(chain) : Ahead(mem, chain, p, db, upTo)
      BY <2>2 DEF IndexerInv, State, Running
    <3>2. mem.feed = FeedIn(chain, 1..p)
      BY <3>1 DEF Ahead, Good, MemIs
    <3>. QED BY <1>2, <1>3, <3>2
  <2>. QED BY <2>1, <2>2
<1>5. PICK p \in Nat : p <= Len(L) /\ f = FeedIn(L, 1..p)
  BY <1>4
<1>6. /\ Len(f) \in Nat /\ Len(g) \in Nat /\ Len(f) <= Len(g)
      /\ \A k \in 1..Len(f) : f[k] = g[k]
  BY <1>3, <1>5, FeedPrefix
<1>7. IsSeq(f) /\ IsSeq(g)
  BY <1>3, <1>5, FeedInIs
<1>8. IsPrefix(f, g)
  <2>1. f = SubSeq(g, 1, Len(f))
    <3>1. PICK S : g \in Seq(S)
      BY <1>7 DEF IsSeq
    <3>2. SubSeq(g, 1, Len(f)) = [k \in 1..Len(f) |-> g[k]]
      BY <1>6, <3>1
    <3>3. f = [k \in 1..Len(f) |-> f[k]]
      BY <1>7 DEF IsSeq
    <3>. QED BY ONLY <1>6, <3>2, <3>3
  <2>. QED BY <1>6, <2>1 DEF IsPrefix
<1>. QED BY <1>1, <1>2, <1>8

\* While registered modules tell what they do to the tree, a restart is never refused:
\* the leaf rows are the chain's leaves at the cursor (rebuildFromLeaves).
THEOREM IndexerRebuildsTheTree ==
    ASSUME AllSpeak
    PROVE  Spec => []RestartRebuildsTheTree
<1>1. IndexerInv => RestartRebuildsTheTree
  BY RowsAreTheChains
<1>. QED BY <1>1, IndexerInvariant, PTL

\* The rows are the chain's at the cursor, each event once and in order, and what is
\* served is a prefix of the chain's feed, if no node makes up a chunk's bytes.
THEOREM IndexerRowsTellTheChain ==
    ASSUME AllSpeak, Honest
    PROVE  Spec => []RowsTellTheChain
<1>1. IndexerInv => RowsTellTheChain
  BY RowsAreTheChains, ServedIsAPrefix DEF RowsTellTheChain
<1>. QED BY <1>1, IndexerInvariant, PTL
=============================================================================
