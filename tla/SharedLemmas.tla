---------------------------- MODULE SharedLemmas ----------------------------
(***************************************************************************)
(* What the proofs of several modules need of numbers in order, of rows    *)
(* and of sums over slots and over sets of notes.  The library's induction *)
(* theorems cannot be used: a smallest counterexample is shown not to      *)
(* exist, by its number or by its number of elements.                      *)
(***************************************************************************)
EXTENDS Notes, Ordered, SequencesExt, FiniteSetTheorems, WellFoundedInduction, TLAPS

Below == {p \in Nat \X Nat : p[1] < p[2]}

LEMMA LeastNatural ==
    ASSUME NEW S, S \subseteq Nat, S # {}
    PROVE  \E k \in S : \A j \in S : k <= j
<1>1. Below \subseteq OpToRel(<, Nat)
  BY DEF Below, OpToRel
<1>2. IsWellFoundedOn(Below, Nat)
  BY <1>1, NatLessThanWellFounded, IsWellFoundedOnSubrelation
<1>3. PICK k \in S : \A j \in S : <<j, k>> \notin Below
  BY <1>2, WFMin
<1>4. ASSUME NEW j \in S PROVE k <= j
  <2>1. <<j, k>> \in Nat \X Nat
    OBVIOUS
  <2>2. ~(<<j, k>>[1] < <<j, k>>[2])
    BY <1>3, <2>1 DEF Below
  <2>3. ~(j < k)
    BY <2>2
  <2>4. j \in Nat /\ k \in Nat
    OBVIOUS
  <2>. QED BY <2>3, <2>4
<1>. QED BY <1>4

LEMMA SmallestSet ==
    ASSUME NEW S, IsFiniteSet(S), NEW Bad, Bad \subseteq SUBSET S, Bad # {}
    PROVE  \E T \in Bad : \A U \in Bad : Cardinality(T) <= Cardinality(U)
<1> DEFINE sizes == {Cardinality(T) : T \in Bad}
<1>1. sizes \subseteq Nat /\ sizes # {}
  <2>1. ASSUME NEW T \in Bad PROVE Cardinality(T) \in Nat
    <3>1. IsFiniteSet(T)
      BY FS_Subset
    <3>. QED BY <3>1, FS_CardinalityType
  <2>. QED BY <2>1
<1>2. PICK k \in sizes : \A j \in sizes : k <= j
  <2>. HIDE DEF sizes
  <2>. QED BY <1>1, LeastNatural
<1>. QED BY <1>2

-----------------------------------------------------------------------------
(***************************************************************************)
(* Numbers in order, and the items at places.                              *)
(***************************************************************************)
Lower(S, i) == {j \in S : j < i}

LEMMA LowerFacts ==
    ASSUME NEW S, S \subseteq Nat, IsFiniteSet(S), NEW i \in S
    PROVE  /\ IsFiniteSet(Lower(S, i)) /\ Cardinality(Lower(S, i)) \in Nat
           /\ Cardinality(S) \in Nat /\ Cardinality(Lower(S, i)) < Cardinality(S)
           /\ \A j \in Lower(S, i) : /\ Cardinality(Lower(S, j)) \in Nat
                                     /\ Cardinality(Lower(S, j)) < Cardinality(Lower(S, i))
<1>1. ASSUME NEW T, IsFiniteSet(T), NEW U \in SUBSET T, NEW x \in T, x \notin U
      PROVE  /\ IsFiniteSet(U) /\ Cardinality(U) \in Nat /\ Cardinality(T) \in Nat
             /\ Cardinality(U) < Cardinality(T)
  <2>1. IsFiniteSet(U) /\ Cardinality(U) <= Cardinality(T) /\ Cardinality(U) # Cardinality(T)
    BY <1>1, FS_Subset
  <2>2. Cardinality(U) \in Nat /\ Cardinality(T) \in Nat
    BY <1>1, <2>1, FS_CardinalityType
  <2>. QED BY <2>1, <2>2
<1>2. Lower(S, i) \in SUBSET S /\ i \notin Lower(S, i)
  BY DEF Lower
<1>3. /\ IsFiniteSet(Lower(S, i)) /\ Cardinality(Lower(S, i)) \in Nat
      /\ Cardinality(S) \in Nat /\ Cardinality(Lower(S, i)) < Cardinality(S)
  BY <1>1, <1>2
<1>4. ASSUME NEW j \in Lower(S, i)
      PROVE  /\ Cardinality(Lower(S, j)) \in Nat
             /\ Cardinality(Lower(S, j)) < Cardinality(Lower(S, i))
  <2>1. Lower(S, j) \in SUBSET Lower(S, i) /\ j \notin Lower(S, j)
    <3>1. i \in Nat /\ j \in Nat /\ j < i
      BY <1>4 DEF Lower
    <3>2. ASSUME NEW x \in Lower(S, j) PROVE x \in Lower(S, i)
      <4>1. x \in S /\ x \in Nat /\ x < j
        BY DEF Lower
      <4>. QED BY <3>1, <4>1 DEF Lower
    <3>3. j \notin Lower(S, j)
      BY <3>1 DEF Lower
    <3>4. Lower(S, j) \subseteq Lower(S, i)
      BY <3>2
    <3>. QED BY <3>3, <3>4
  <2>. QED BY <1>1, <1>3, <1>4, <2>1
<1>. QED BY <1>3, <1>4

LEMMA NthIs ==
    ASSUME NEW S, S \subseteq Nat, IsFiniteSet(S), NEW i \in S
    PROVE  /\ Cardinality(Lower(S, i)) + 1 \in 1..Cardinality(S)
           /\ InOrder(S)[Cardinality(Lower(S, i)) + 1] = i
<1> DEFINE c == Cardinality(Lower(S, i))
<1>1. c \in Nat /\ Cardinality(S) \in Nat /\ c < Cardinality(S)
  BY LowerFacts
<1>2. ASSUME NEW j \in S, Cardinality(Lower(S, j)) = c PROVE j = i
  <2>1. ~(j < i)
    <3>1. SUFFICES ASSUME j < i PROVE FALSE
      OBVIOUS
    <3>2. j \in Lower(S, i)
      BY <3>1 DEF Lower
    <3>3. Cardinality(Lower(S, j)) < Cardinality(Lower(S, i))
      BY <3>2, LowerFacts
    <3>. QED BY <1>1, <1>2, <3>3
  <2>2. ~(i < j)
    <3>1. SUFFICES ASSUME i < j PROVE FALSE
      OBVIOUS
    <3>2. i \in Lower(S, j)
      BY <3>1 DEF Lower
    <3>3. /\ Cardinality(Lower(S, i)) \in Nat
          /\ Cardinality(Lower(S, i)) < Cardinality(Lower(S, j))
      BY <1>2, <3>2, LowerFacts
    <3>. QED BY <1>1, <1>2, <3>3
  <2>. QED BY <2>1, <2>2
<1>3. c + 1 \in 1..Cardinality(S) /\ (c + 1) - 1 = c
  BY <1>1
<1>4. InOrder(S)[c + 1] = CHOOSE j \in S : Cardinality(Lower(S, j)) = c
  BY <1>3 DEF InOrder, Lower
<1>. HIDE DEF c
<1>5. (CHOOSE j \in S : Cardinality(Lower(S, j)) = c) = i
  BY <1>2 DEF c
<1>. QED BY <1>3, <1>4, <1>5 DEF c

LEMMA InOrderMembers ==
    ASSUME NEW S, S \subseteq Nat, IsFiniteSet(S), NEW k \in 1..Cardinality(S)
    PROVE  InOrder(S)[k] \in S
<1> DEFINE n == Cardinality(S)
           f == [i \in S |-> Cardinality(Lower(S, i)) + 1]
<1>1. n \in Nat /\ IsFiniteSet(1..n) /\ Cardinality(1..n) = n
  <2>1. n \in Nat
    BY FS_CardinalityType
  <2>2. IsFiniteSet(1..n) /\ Cardinality(1..n) = IF 1 > n THEN 0 ELSE n - 1 + 1
    BY <2>1, FS_Interval
  <2>. QED BY <2>1, <2>2
<1>2. f \in [S -> 1..n]
  BY NthIs
<1>3. ASSUME NEW i \in S, NEW j \in S, f[i] = f[j] PROVE i = j
  <2>1. InOrder(S)[f[i]] = i /\ InOrder(S)[f[j]] = j
    BY NthIs
  <2>. QED BY <1>3, <2>1
<1>. HIDE DEF f
<1>4. f \in Injection(S, 1..n)
  BY <1>2, <1>3 DEF Injection, IsInjective
<1>5. f \in Surjection(S, 1..n)
  <2>. HIDE DEF n
  <2>1. Cardinality(S) = Cardinality(1..n)
    BY <1>1 DEF n
  <2>. QED BY <1>1, <1>4, <2>1, FS_Injection
<1>6. PICK i \in S : f[i] = k
  BY <1>5 DEF Surjection
<1>7. InOrder(S)[f[i]] = i
  BY NthIs DEF f
<1>. QED BY <1>6, <1>7

LEMMA InOrderInterval ==
    ASSUME NEW lo \in Nat, NEW hi \in Nat, lo <= hi
    PROVE  InOrder((lo + 1)..hi) = [k \in 1..(hi - lo) |-> lo + k]
<1> DEFINE S == (lo + 1)..hi
<1>1. S \subseteq Nat /\ IsFiniteSet(S) /\ Cardinality(S) = hi - lo
  <2>1. lo + 1 \in Int /\ hi \in Int
    OBVIOUS
  <2>2. IsFiniteSet(S) /\ Cardinality(S) = IF lo + 1 > hi THEN 0 ELSE hi - (lo + 1) + 1
    BY <2>1, FS_Interval
  <2>. QED BY <2>2
<1>2. ASSUME NEW k \in 1..(hi - lo) PROVE InOrder(S)[k] = lo + k
  <2>1. lo + k \in S
    OBVIOUS
  <2>2. Lower(S, lo + k) = (lo + 1)..(lo + k - 1)
    BY DEF Lower
  <2>3. Cardinality((lo + 1)..(lo + k - 1)) = k - 1
    <3>1. lo + 1 \in Int /\ lo + k - 1 \in Int
      OBVIOUS
    <3>2. Cardinality((lo + 1)..(lo + k - 1)) =
            IF lo + 1 > lo + k - 1 THEN 0 ELSE (lo + k - 1) - (lo + 1) + 1
      BY <3>1, FS_Interval
    <3>. QED BY <3>2
  <2>. HIDE DEF S
  <2>4. InOrder(S)[Cardinality(Lower(S, lo + k)) + 1] = lo + k
    BY <1>1, <2>1, NthIs
  <2>. QED BY <2>2, <2>3, <2>4
<1>. HIDE DEF S
<1>3. InOrder(S) = [k \in 1..(hi - lo) |-> InOrder(S)[k]]
  BY <1>1 DEF InOrder
<1>. QED BY <1>2, <1>3 DEF S

\* A sequence, of whatever it may be.
IsSeq(s) == \E T : s \in Seq(T)

LEMMA SeqFacts ==
    ASSUME NEW s, IsSeq(s)
    PROVE  Len(s) \in Nat /\ DOMAIN s = 1..Len(s)
BY DEF IsSeq

LEMMA FunIsSeq ==
    ASSUME NEW n \in Nat, NEW s, s = [k \in 1..n |-> s[k]]
    PROVE  IsSeq(s) /\ Len(s) = n
<1>1. s \in Seq({s[k] : k \in 1..n}) /\ Len(s) = n
  OBVIOUS
<1>. QED BY <1>1 DEF IsSeq

LEMMA ConcatFacts ==
    ASSUME NEW s, NEW t, IsSeq(s), IsSeq(t)
    PROVE  /\ IsSeq(s \o t) /\ Len(s \o t) = Len(s) + Len(t)
           /\ \A k \in 1..Len(s) : (s \o t)[k] = s[k]
           /\ \A k \in 1..Len(t) : (s \o t)[Len(s) + k] = t[k]
           /\ ToSet(s \o t) = ToSet(s) \cup ToSet(t)
<1>1. PICK T, U : s \in Seq(T) /\ t \in Seq(U)
  BY DEF IsSeq
<1>2. s \in Seq(T \cup U) /\ t \in Seq(T \cup U)
  BY <1>1
<1>3. PICK r : r = s \o t
  OBVIOUS
<1>4. /\ r \in Seq(T \cup U) /\ Len(r) = Len(s) + Len(t)
      /\ \A k \in 1..Len(s) : r[k] = s[k]
      /\ \A k \in 1..Len(t) : r[Len(s) + k] = t[k]
  BY <1>2, <1>3
<1>5. Len(s) \in Nat /\ Len(t) \in Nat /\ DOMAIN s = 1..Len(s) /\ DOMAIN t = 1..Len(t)
      /\ DOMAIN r = 1..Len(r)
  BY <1>2, <1>4
<1>6. ToSet(r) = ToSet(s) \cup ToSet(t)
  <2>1. ASSUME NEW k \in DOMAIN r PROVE r[k] \in ToSet(s) \cup ToSet(t)
    <3>1. CASE k \in 1..Len(s)
      BY <1>4, <1>5, <3>1 DEF ToSet
    <3>2. CASE k \notin 1..Len(s)
      <4>1. k - Len(s) \in 1..Len(t) /\ Len(s) + (k - Len(s)) = k
        BY <1>4, <1>5, <3>2
      <4>2. r[k] = t[k - Len(s)]
        BY <1>4, <4>1
      <4>. QED BY <1>5, <4>1, <4>2 DEF ToSet
    <3>. QED BY <3>1, <3>2
  <2>2. ASSUME NEW k \in DOMAIN s PROVE s[k] \in ToSet(r)
    <3>1. k \in DOMAIN r /\ r[k] = s[k]
      BY <1>4, <1>5
    <3>. QED BY <3>1 DEF ToSet
  <2>3. ASSUME NEW k \in DOMAIN t PROVE t[k] \in ToSet(r)
    <3>1. Len(s) + k \in DOMAIN r /\ r[Len(s) + k] = t[k]
      BY <1>4, <1>5
    <3>. QED BY <3>1 DEF ToSet
  <2>. QED BY <2>1, <2>2, <2>3 DEF ToSet
<1>7. IsSeq(r)
  BY <1>4 DEF IsSeq
<1>. QED BY <1>3, <1>4, <1>6, <1>7

LEMMA KeptFacts ==
    ASSUME NEW s, NEW S, S \subseteq Nat, IsFiniteSet(S)
    PROVE  /\ IsSeq(Kept(s, S)) /\ Len(Kept(s, S)) = Cardinality(S)
           /\ DOMAIN Kept(s, S) = 1..Cardinality(S) /\ Cardinality(S) \in Nat
           /\ ToSet(Kept(s, S)) = {s[i] : i \in S}
<1>1. PICK r, n : r = Kept(s, S) /\ n = Cardinality(S)
  OBVIOUS
<1>2. n \in Nat
  BY <1>1, FS_CardinalityType
<1>3. r = [k \in 1..n |-> s[InOrder(S)[k]]]
  BY <1>1 DEF Kept
<1>4. IsSeq(r) /\ Len(r) = n
  <2>1. r = [k \in 1..n |-> r[k]]
    BY <1>3
  <2>. QED BY ONLY <1>2, <2>1, FunIsSeq
<1>5. DOMAIN r = 1..n
  BY <1>3
<1>6. ToSet(r) = {s[i] : i \in S}
  <2>1. ASSUME NEW k \in 1..n PROVE r[k] \in {s[i] : i \in S}
    <3>1. InOrder(S)[k] \in S
      BY <1>1, InOrderMembers
    <3>. QED BY <1>3, <3>1
  <2>2. ASSUME NEW i \in S PROVE s[i] \in ToSet(r)
    <3>1. PICK k : k = Cardinality(Lower(S, i)) + 1
      OBVIOUS
    <3>2. k \in 1..n /\ InOrder(S)[k] = i
      BY <1>1, <3>1, NthIs
    <3>3. r[k] = s[i]
      BY <1>3, <3>2
    <3>. QED BY <1>5, <3>2, <3>3 DEF ToSet
  <2>. QED BY <1>5, <2>1, <2>2 DEF ToSet
<1>. QED BY <1>1, <1>2, <1>4, <1>5, <1>6

\* What a longer row of places has first.

\* The place of each rank.
LEMMA NthRank ==
    ASSUME NEW S, S \subseteq Nat, IsFiniteSet(S), NEW k \in 1..Cardinality(S)
    PROVE  /\ InOrder(S)[k] \in S
           /\ Cardinality(Lower(S, InOrder(S)[k])) = k - 1
<1>1. PICK i : i = InOrder(S)[k]
  OBVIOUS
<1>2. i \in S
  BY <1>1, InOrderMembers
<1>3. Cardinality(S) \in Nat
  BY FS_CardinalityType
<1>4. PICK j \in S : Cardinality(Lower(S, j)) = k - 1
  <2> DEFINE f == [x \in S |-> Cardinality(Lower(S, x)) + 1]
             n == Cardinality(S)
  <2>1. IsFiniteSet(1..n) /\ Cardinality(1..n) = n
    <3>1. IsFiniteSet(1..n) /\ Cardinality(1..n) = IF 1 > n THEN 0 ELSE n - 1 + 1
      BY <1>3, FS_Interval
    <3>. QED BY <1>3, <3>1
  <2>2. f \in [S -> 1..n]
    BY NthIs
  <2>3. ASSUME NEW x \in S, NEW y \in S, f[x] = f[y] PROVE x = y
    <3>1. InOrder(S)[f[x]] = x /\ InOrder(S)[f[y]] = y
      BY NthIs
    <3>. QED BY <2>3, <3>1
  <2>. HIDE DEF f
  <2>4. f \in Injection(S, 1..n)
    BY <2>2, <2>3 DEF Injection, IsInjective
  <2>5. f \in Surjection(S, 1..n)
    <3>. HIDE DEF n
    <3>1. Cardinality(S) = Cardinality(1..n)
      BY <2>1 DEF n
    <3>. QED BY <2>1, <2>4, <3>1, FS_Injection
  <2>6. PICK x \in S : f[x] = k
    BY <2>5 DEF Surjection
  <2>7. Cardinality(Lower(S, x)) \in Nat
    BY LowerFacts
  <2>. QED BY <2>6, <2>7 DEF f
<1>5. InOrder(S)[Cardinality(Lower(S, j)) + 1] = j
  BY NthIs
<1>6. (k - 1) + 1 = k
  BY <1>3
<1>7. i = j
  BY <1>1, <1>4, <1>5, <1>6
<1>. QED BY <1>1, <1>2, <1>4, <1>7

\* The lower part of a set of places comes first, in the same order.
LEMMA InOrderLower ==
    ASSUME NEW R, R \subseteq Nat, IsFiniteSet(R), NEW S, S \subseteq R,
           \A i \in S, j \in R : j < i => j \in S
    PROVE  /\ IsFiniteSet(S) /\ Cardinality(S) \in Nat /\ Cardinality(S) <= Cardinality(R)
           /\ \A k \in 1..Cardinality(S) : InOrder(R)[k] = InOrder(S)[k]
<1>1. IsFiniteSet(S) /\ Cardinality(S) <= Cardinality(R) /\ Cardinality(S) \in Nat
  BY FS_Subset, FS_CardinalityType
<1>2. ASSUME NEW k \in 1..Cardinality(S) PROVE InOrder(R)[k] = InOrder(S)[k]
  <2>1. PICK i : i = InOrder(S)[k]
    OBVIOUS
  <2>2. i \in S /\ Cardinality(Lower(S, i)) = k - 1
    BY <1>1, <2>1, NthRank
  <2>3. Lower(R, i) = Lower(S, i)
    BY <2>2 DEF Lower
  <2>4. InOrder(R)[Cardinality(Lower(R, i)) + 1] = i
    BY <2>2, NthIs
  <2>5. (k - 1) + 1 = k
    BY <1>1
  <2>. QED BY <2>1, <2>2, <2>3, <2>4, <2>5
<1>. QED BY <1>1, <1>2

\* A place above all others comes last.
LEMMA InOrderAdd ==
    ASSUME NEW S, S \subseteq Nat, IsFiniteSet(S), NEW i \in Nat, \A j \in S : j < i
    PROVE  /\ Cardinality(S) \in Nat /\ Cardinality(S \cup {i}) = Cardinality(S) + 1
           /\ IsFiniteSet(S \cup {i}) /\ S \cup {i} \subseteq Nat
           /\ \A k \in 1..Cardinality(S) : InOrder(S \cup {i})[k] = InOrder(S)[k]
           /\ InOrder(S \cup {i})[Cardinality(S) + 1] = i
<1>1. PICK R : R = S \cup {i}
  OBVIOUS
<1>2. i \notin S
  OBVIOUS
<1>3. /\ Cardinality(S) \in Nat /\ Cardinality(R) = Cardinality(S) + 1
      /\ IsFiniteSet(R) /\ R \subseteq Nat
  BY <1>1, <1>2, FS_AddElement, FS_CardinalityType
<1>4. \A k \in 1..Cardinality(S) : InOrder(R)[k] = InOrder(S)[k]
  <2>1. S \subseteq R /\ \A x \in S, j \in R : j < x => j \in S
    BY <1>1
  <2>. QED BY <1>3, <2>1, InOrderLower
<1>5. InOrder(R)[Cardinality(S) + 1] = i
  <2>1. Lower(R, i) = S
    <3>1. \A j \in S : j \in Nat /\ j < i
      OBVIOUS
    <3>2. ~(i < i)
      OBVIOUS
    <3>. QED BY <1>1, <3>1, <3>2 DEF Lower
  <2>2. i \in R
    BY <1>1
  <2>. QED BY <1>3, <2>1, <2>2, NthIs
<1>. QED BY <1>1, <1>3, <1>4, <1>5

-----------------------------------------------------------------------------
(***************************************************************************)
(* The sum of a function of naturals over a finite part of its domain.     *)
(***************************************************************************)
Parts(D) == {S \in SUBSET D : IsFiniteSet(S)}

Pick(T) == CHOOSE x \in T : TRUE

\* The sum over every part of S, as the library computes it.
IsSumOver(f, w, S) ==
    f = [T \in SUBSET S |-> IF T = {} THEN 0 ELSE w[Pick(T)] + f[T \ {Pick(T)}]]

LEMMA SumOnChosen ==
    ASSUME NEW w, NEW S
    PROVE  SumFunctionOnSet(w, S) = (CHOOSE f : IsSumOver(f, w, S))[S]
BY DEF IsSumOver, Pick, SumFunctionOnSet, FoldFunctionOnSet, MapThenFoldSet

LEMMA SmallerPart ==
    ASSUME NEW D, NEW T \in Parts(D), NEW x \in T
    PROVE  /\ T \ {x} \in Parts(D) /\ x \in D
           /\ Cardinality(T) \in Nat /\ Cardinality(T \ {x}) \in Nat
           /\ Cardinality(T \ {x}) + 1 = Cardinality(T)
<1>1. IsFiniteSet(T)
  BY DEF Parts
<1>2. /\ IsFiniteSet(T \ {x}) /\ Cardinality(T \ {x}) = Cardinality(T) - 1
      /\ Cardinality(T) \in Nat
  BY <1>1, FS_RemoveElement, FS_CardinalityType
<1>3. Cardinality(T \ {x}) \in Nat
  BY <1>2, FS_CardinalityType
<1>. QED BY <1>2, <1>3 DEF Parts

LEMMA PartOfPart ==
    ASSUME NEW D, NEW S \in Parts(D), NEW T, T \subseteq S
    PROVE  T \in Parts(D)
BY FS_Subset DEF Parts

LEMMA UnionOfParts ==
    ASSUME NEW D, NEW S \in Parts(D), NEW T \in Parts(D)
    PROVE  S \cup T \in Parts(D)
BY FS_Union DEF Parts

LEMMA PickIn ==
    ASSUME NEW T, T # {}
    PROVE  Pick(T) \in T
BY DEF Pick

LEMMA SumOnExists ==
    ASSUME NEW D, NEW w \in [D -> Nat], NEW S \in Parts(D)
    PROVE  \E f : IsSumOver(f, w, S)
<1> DEFINE Upto(k) == {T \in SUBSET S : Cardinality(T) <= k}
           Is(f, k) == f = [T \in Upto(k) |->
                              IF T = {} THEN 0 ELSE w[Pick(T)] + f[T \ {Pick(T)}]]
           Bad == {k \in Nat : ~ \E f : Is(f, k)}
<1>1. \A T \in SUBSET S : T \in Parts(D) /\ Cardinality(T) \in Nat
                          /\ Cardinality(T) <= Cardinality(S)
  BY FS_Subset, FS_CardinalityType DEF Parts
<1>2. Upto(Cardinality(S)) = SUBSET S /\ Cardinality(S) \in Nat
  BY <1>1
<1>3. SUFFICES Bad = {}
  <2>1. CASE Bad = {}
    <3>1. \E f : Is(f, Cardinality(S))
      BY <1>2, <2>1
    <3>. QED BY <1>2, <3>1 DEF IsSumOver
  <2>. QED BY <2>1
<1>4. SUFFICES ASSUME Bad # {} PROVE FALSE
  OBVIOUS
<1>5. PICK k \in Bad : \A j \in Bad : k <= j
  BY <1>4, LeastNatural
<1>6. k # 0
  <2>1. ASSUME NEW T \in Upto(0) PROVE T = {}
    BY <1>1, FS_EmptySet DEF Parts
  <2>2. Is([T \in Upto(0) |-> 0], 0)
    BY <2>1
  <2>. QED BY <2>2
<1>7. PICK f : Is(f, k - 1)
  <2>1. k - 1 \in Nat /\ ~(k <= k - 1)
    BY <1>6
  <2>. QED BY <1>5, <2>1
<1> DEFINE sum(T) == IF T = {} THEN 0 ELSE w[Pick(T)] + f[T \ {Pick(T)}]
           g == [T \in Upto(k) |-> sum(T)]
<1>8. ASSUME NEW T \in Upto(k), T # {}
      PROVE  g[T \ {Pick(T)}] = f[T \ {Pick(T)}]
  <2> DEFINE R == T \ {Pick(T)}
  <2>1. R \in Upto(k - 1) /\ R \in Upto(k)
    <3>1. T \in Parts(D) /\ Pick(T) \in T
      BY <1>1, <1>8, PickIn
    <3>2. Cardinality(R) \in Nat /\ Cardinality(R) + 1 = Cardinality(T)
      BY <3>1, SmallerPart
    <3>. QED BY <3>2
  <2>. HIDE DEF R
  <2>2. f[R] = sum(R)
    BY <1>7, <2>1
  <2>3. g[R] = sum(R)
    BY <2>1
  <2>. QED BY <2>2, <2>3 DEF R
<1>9. Is(g, k)
  <2>1. ASSUME NEW T \in Upto(k)
        PROVE  g[T] = IF T = {} THEN 0 ELSE w[Pick(T)] + g[T \ {Pick(T)}]
    BY <1>8
  <2>2. g = [T \in Upto(k) |-> g[T]]
    OBVIOUS
  <2>. HIDE DEF g
  <2>. QED BY <2>1, <2>2
<1>. QED BY <1>9, <1>5

\* What every such function says of the parts of a set.
LEMMA SumOnFacts ==
    ASSUME NEW D, NEW w \in [D -> Nat], NEW S \in Parts(D), NEW f, IsSumOver(f, w, S)
    PROVE  \A T \in SUBSET S :
              /\ f[T] \in Nat
              /\ T = {} => f[T] = 0
              /\ \A x \in T : f[T] = w[x] + f[T \ {x}]
<1> DEFINE Good(T) == /\ f[T] \in Nat
                      /\ \A x \in T : f[T] = w[x] + f[T \ {x}]
           Bad == {T \in SUBSET S : ~Good(T)}
<1>1. \A T \in SUBSET S : f[T] = IF T = {} THEN 0
                                 ELSE w[Pick(T)] + f[T \ {Pick(T)}]
  BY DEF IsSumOver
<1>2. SUFFICES ASSUME Bad # {} PROVE FALSE
  BY <1>1
<1>3. PICK T \in Bad : \A U \in Bad : Cardinality(T) <= Cardinality(U)
  BY <1>2, SmallestSet DEF Parts
<1>4. T \in Parts(D) /\ T \subseteq S
  BY PartOfPart
<1>5. ASSUME NEW U \in SUBSET S, NEW x \in T, U \subseteq T \ {x} PROVE Good(U)
  <2>1. Cardinality(T \ {x}) + 1 = Cardinality(T) /\ Cardinality(T \ {x}) \in Nat
        /\ T \ {x} \in Parts(D)
    BY <1>4, SmallerPart
  <2>2. Cardinality(U) \in Nat /\ Cardinality(U) <= Cardinality(T \ {x})
    BY <1>5, <2>1, FS_Subset, FS_CardinalityType DEF Parts
  <2>3. ~(Cardinality(T) <= Cardinality(U))
    BY <2>1, <2>2
  <2>. QED BY <1>3, <2>3
<1>6. T # {}
  <2>1. f[{}] = 0
    BY <1>1
  <2>2. Good({})
    BY <2>1
  <2>. HIDE DEF Good
  <2>. QED BY <1>3, <2>2
<1> DEFINE y == Pick(T)
<1>7. y \in T /\ y \in D /\ f[T] = w[y] + f[T \ {y}]
  BY <1>1, <1>4, <1>6, PickIn DEF Parts
<1>. HIDE DEF y
<1>8. f[T] \in Nat
  <2>1. f[T \ {y}] \in Nat
    BY <1>4, <1>5, <1>7
  <2>. QED BY <1>7, <2>1
<1>9. ASSUME NEW x \in T PROVE f[T] = w[x] + f[T \ {x}]
  <2>1. CASE x = y
    BY <1>7, <2>1
  <2>2. CASE x # y
    <3>1. Good(T \ {y}) /\ Good(T \ {x}) /\ Good(T \ {x, y})
      BY <1>4, <1>5, <1>7
    <3>2. x \in T \ {y} /\ y \in T \ {x}
      BY <1>7, <2>2
    <3>3. (T \ {y}) \ {x} = T \ {x, y} /\ (T \ {x}) \ {y} = T \ {x, y}
      OBVIOUS
    <3>4. f[T \ {y}] = w[x] + f[T \ {x, y}] /\ f[T \ {x}] = w[y] + f[T \ {x, y}]
      BY <3>1, <3>2, <3>3
    <3>5. f[T \ {x, y}] \in Nat /\ w[x] \in Nat /\ w[y] \in Nat
      BY <1>4, <1>7, <3>1 DEF Parts
    <3>. QED BY <1>7, <3>4, <3>5
  <2>. QED BY <2>1, <2>2
<1>. QED BY <1>3, <1>8, <1>9

LEMMA SumOnIsOne ==
    ASSUME NEW D, NEW w \in [D -> Nat], NEW S \in Parts(D), NEW R \in SUBSET S,
           NEW f, IsSumOver(f, w, S), NEW g, IsSumOver(g, w, R)
    PROVE  f[R] = g[R]
<1> DEFINE Bad == {T \in SUBSET R : f[T] # g[T]}
<1>1. R \in Parts(D)
  BY PartOfPart
<1>2. SUFFICES ASSUME Bad # {} PROVE FALSE
  OBVIOUS
<1>3. PICK T \in Bad : \A U \in Bad : Cardinality(T) <= Cardinality(U)
  BY <1>1, <1>2, SmallestSet DEF Parts
<1>4. T \in Parts(D) /\ T \in SUBSET R /\ T \in SUBSET S
  BY <1>1, PartOfPart
<1>5. T # {}
  BY <1>1, <1>3, <1>4, SumOnFacts
<1>6. PICK x \in T : TRUE
  BY <1>5
<1>7. T \ {x} \notin Bad
  <2>1. Cardinality(T \ {x}) + 1 = Cardinality(T) /\ Cardinality(T \ {x}) \in Nat
    BY <1>4, SmallerPart
  <2>2. ~(Cardinality(T) <= Cardinality(T \ {x}))
    BY <2>1
  <2>. QED BY <1>3, <2>2
<1>8. f[T \ {x}] = g[T \ {x}]
  BY <1>4, <1>7
<1>9. f[T] = w[x] + f[T \ {x}]
  BY <1>4, SumOnFacts
<1>10. g[T] = w[x] + g[T \ {x}]
  BY <1>1, <1>4, SumOnFacts
<1>. QED BY <1>3, <1>8, <1>9, <1>10

LEMMA SumOnNat ==
    ASSUME NEW D, NEW w \in [D -> Nat]
    PROVE  /\ \A S \in Parts(D) : SumFunctionOnSet(w, S) \in Nat
           /\ {} \in Parts(D) /\ SumFunctionOnSet(w, {}) = 0
<1>1. ASSUME NEW S \in Parts(D)
      PROVE  SumFunctionOnSet(w, S) \in Nat /\ (S = {} => SumFunctionOnSet(w, S) = 0)
  <2> DEFINE f == CHOOSE g : IsSumOver(g, w, S)
  <2>1. IsSumOver(f, w, S)
    BY SumOnExists
  <2>2. SumFunctionOnSet(w, S) = f[S]
    BY SumOnChosen
  <2>. HIDE DEF f
  <2>. QED BY <2>1, <2>2, SumOnFacts
<1>2. {} \in Parts(D)
  BY FS_EmptySet DEF Parts
<1>. QED BY <1>1, <1>2

LEMMA SumOnRemove ==
    ASSUME NEW D, NEW w \in [D -> Nat], NEW S \in Parts(D), NEW x \in S
    PROVE  SumFunctionOnSet(w, S) = w[x] + SumFunctionOnSet(w, S \ {x})
<1> DEFINE R == S \ {x}
           f == CHOOSE h : IsSumOver(h, w, S)
           g == CHOOSE h : IsSumOver(h, w, R)
<1>1. R \in Parts(D) /\ R \in SUBSET S
  BY SmallerPart
<1>. HIDE DEF R
<1>2. IsSumOver(f, w, S) /\ IsSumOver(g, w, R)
  BY <1>1, SumOnExists
<1>3. SumFunctionOnSet(w, S) = f[S] /\ SumFunctionOnSet(w, R) = g[R]
  BY SumOnChosen
<1>. HIDE DEF f, g
<1>4. f[R] = g[R]
  BY <1>1, <1>2, SumOnIsOne
<1>5. f[S] = w[x] + f[S \ {x}]
  BY <1>2, SumOnFacts
<1>. QED BY <1>3, <1>4, <1>5 DEF R

LEMMA SumOnAdd ==
    ASSUME NEW D, NEW w \in [D -> Nat], NEW S \in Parts(D), NEW x \in D
    PROVE  /\ S \cup {x} \in Parts(D)
           /\ SumFunctionOnSet(w, S \cup {x}) = IF x \in S THEN SumFunctionOnSet(w, S) ELSE w[x] + SumFunctionOnSet(w, S)
<1>1. S \cup {x} \in Parts(D)
  BY FS_AddElement DEF Parts
<1>2. CASE x \in S
  <2>1. S \cup {x} = S
    BY <1>2
  <2>. QED BY <1>1, <1>2, <2>1
<1>3. CASE x \notin S
  <2>1. (S \cup {x}) \ {x} = S /\ x \in S \cup {x}
    BY <1>3
  <2>. QED BY <1>1, <1>3, <2>1, SumOnRemove
<1>. QED BY <1>2, <1>3

LEMMA SumOnOfOne ==
    ASSUME NEW D, NEW w \in [D -> Nat], NEW x \in D
    PROVE  SumFunctionOnSet(w, {x}) = w[x]
<1>1. {} \in Parts(D) /\ SumFunctionOnSet(w, {}) = 0 /\ w[x] \in Nat
  BY SumOnNat
<1>2. SumFunctionOnSet(w, {} \cup {x}) = w[x] + 0
  BY <1>1, SumOnAdd
<1>3. {} \cup {x} = {x}
  OBVIOUS
<1>. QED BY <1>1, <1>2, <1>3

LEMMA SumOnSplit ==
    ASSUME NEW D, NEW w \in [D -> Nat], NEW S \in Parts(D), NEW T \in SUBSET S
    PROVE  SumFunctionOnSet(w, S) = SumFunctionOnSet(w, T) + SumFunctionOnSet(w, S \ T)
<1> DEFINE Bad == {U \in SUBSET S : SumFunctionOnSet(w, S) # SumFunctionOnSet(w, U) + SumFunctionOnSet(w, S \ U)}
<1>1. SUFFICES ASSUME Bad # {} PROVE FALSE
  OBVIOUS
<1>2. PICK U \in Bad : \A V \in Bad : Cardinality(U) <= Cardinality(V)
  BY <1>1, SmallestSet DEF Parts
<1>3. U \in Parts(D) /\ S \ U \in Parts(D) /\ U \in SUBSET S
  BY PartOfPart
<1>4. U # {}
  <2>1. S \ {} = S /\ SumFunctionOnSet(w, S) \in Nat /\ SumFunctionOnSet(w, {}) = 0
    BY SumOnNat
  <2>2. CASE U = {}
    <3>1. SumFunctionOnSet(w, S) # SumFunctionOnSet(w, {}) + SumFunctionOnSet(w, S \ {})
      BY <1>2, <2>2
    <3>. QED BY <2>1, <3>1
  <2>. QED BY <2>2
<1>5. PICK x \in U : TRUE
  BY <1>4
<1>6. U \ {x} \notin Bad
  <2>1. Cardinality(U \ {x}) + 1 = Cardinality(U) /\ Cardinality(U \ {x}) \in Nat
    BY <1>3, SmallerPart
  <2>2. ~(Cardinality(U) <= Cardinality(U \ {x}))
    BY <2>1
  <2>. QED BY <1>2, <2>2
<1>7. SumFunctionOnSet(w, S) = SumFunctionOnSet(w, U \ {x}) + SumFunctionOnSet(w, S \ (U \ {x}))
  BY <1>3, <1>6
<1>8. S \ (U \ {x}) = (S \ U) \cup {x} /\ x \notin S \ U /\ x \in D
  BY <1>3, <1>5 DEF Parts
<1>9. SumFunctionOnSet(w, (S \ U) \cup {x}) = w[x] + SumFunctionOnSet(w, S \ U)
  BY <1>3, <1>8, SumOnAdd
<1>10. SumFunctionOnSet(w, U) = w[x] + SumFunctionOnSet(w, U \ {x})
  BY <1>3, SumOnRemove
<1>11. SumFunctionOnSet(w, U \ {x}) \in Nat /\ SumFunctionOnSet(w, S \ U) \in Nat /\ w[x] \in Nat
  <2>1. U \ {x} \in Parts(D)
    BY <1>3, SmallerPart
  <2>2. SumFunctionOnSet(w, U \ {x}) \in Nat
    BY <2>1, SumOnNat
  <2>3. SumFunctionOnSet(w, S \ U) \in Nat
    BY <1>3, SumOnNat
  <2>. QED BY <1>8, <2>2, <2>3
<1>12. SumFunctionOnSet(w, S) = SumFunctionOnSet(w, U \ {x}) + (w[x] + SumFunctionOnSet(w, S \ U))
  BY <1>7, <1>8, <1>9
<1>13. SumFunctionOnSet(w, S) = SumFunctionOnSet(w, U) + SumFunctionOnSet(w, S \ U)
  <2>. HIDE DEF Bad
  <2>. QED BY <1>10, <1>11, <1>12
<1>. QED BY <1>2, <1>13

LEMMA SumOnMono ==
    ASSUME NEW D, NEW w \in [D -> Nat], NEW S \in Parts(D), NEW T \in SUBSET S
    PROVE  SumFunctionOnSet(w, T) <= SumFunctionOnSet(w, S)
<1>1. T \in Parts(D) /\ S \ T \in Parts(D)
  BY PartOfPart
<1>2. SumFunctionOnSet(w, S) = SumFunctionOnSet(w, T) + SumFunctionOnSet(w, S \ T)
  BY SumOnSplit
<1>3. SumFunctionOnSet(w, T) \in Nat /\ SumFunctionOnSet(w, S \ T) \in Nat
  BY <1>1, SumOnNat
<1>. QED BY <1>2, <1>3

\* A sum is the same over whatever the summands are indexed by.
Matches(h, w, S, v, T) ==
    /\ h \in [S -> T] /\ \A x \in S : v[h[x]] = w[x]
    /\ \A y \in T : \E x \in S : h[x] = y
    /\ \A x, y \in S : h[x] = h[y] => x = y

LEMMA SumOnImage ==
    ASSUME NEW D, NEW w \in [D -> Nat], NEW S \in Parts(D),
           NEW E, NEW v \in [E -> Nat], NEW T \in Parts(E),
           NEW h, Matches(h, w, S, v, T)
    PROVE  SumFunctionOnSet(w, S) = SumFunctionOnSet(v, T)
<1>. USE DEF Matches
<1> DEFINE Image(U) == {h[x] : x \in U}
           Good(U) == /\ Image(U) \in Parts(E)
                      /\ SumFunctionOnSet(w, U) = SumFunctionOnSet(v, Image(U))
           Bad == {U \in SUBSET S : ~Good(U)}
<1>1. ASSUME NEW U \in SUBSET S PROVE U \in Parts(D) /\ Image(U) \in Parts(E)
  <2>1. Image(U) \subseteq T
    OBVIOUS
  <2>. HIDE DEF Image
  <2>. QED BY <2>1, PartOfPart
<1>2. Image(S) = T
  OBVIOUS
<1>3. SUFFICES Bad = {}
  <2>1. CASE Bad = {}
    <3>1. Good(S)
      BY <2>1
    <3>. QED BY <1>2, <3>1
  <2>. QED BY <2>1
<1>4. SUFFICES ASSUME Bad # {} PROVE FALSE
  OBVIOUS
<1>5. PICK U \in Bad : \A V \in Bad : Cardinality(U) <= Cardinality(V)
  <2>1. IsFiniteSet(S) /\ Bad \subseteq SUBSET S
    BY DEF Parts
  <2>. HIDE DEF Bad
  <2>. QED BY <1>4, <2>1, SmallestSet
<1>6. U # {}
  <2>1. Image({}) = {}
    OBVIOUS
  <2>2. SumFunctionOnSet(w, {}) = 0 /\ SumFunctionOnSet(v, {}) = 0
    BY SumOnNat
  <2>3. Good({})
    BY <1>1, <2>1, <2>2
  <2>. HIDE DEF Good
  <2>. QED BY <1>5, <2>3
<1>7. PICK x \in U : TRUE
  BY <1>6
<1>8. U \in Parts(D) /\ Image(U) \in Parts(E) /\ U \in SUBSET S
  BY <1>1
<1> DEFINE R == U \ {x}
<1>9. R \in SUBSET S /\ R \notin Bad
  <2>1. Cardinality(R) + 1 = Cardinality(U) /\ Cardinality(R) \in Nat
    BY <1>8, SmallerPart
  <2>2. ~(Cardinality(U) <= Cardinality(R))
    BY <2>1
  <2>. QED BY <1>5, <2>2
<1>10. SumFunctionOnSet(w, R) = SumFunctionOnSet(v, Image(R))
  BY <1>9
<1>11. h[x] \in Image(U) /\ Image(R) = Image(U) \ {h[x]}
  BY <1>8
<1>12. SumFunctionOnSet(w, U) = w[x] + SumFunctionOnSet(w, R)
  BY <1>8, SumOnRemove
<1>. HIDE DEF Image, R
<1>13. SumFunctionOnSet(v, Image(U)) = v[h[x]] + SumFunctionOnSet(v, Image(U) \ {h[x]})
  BY <1>8, <1>11, SumOnRemove
<1>14. SumFunctionOnSet(w, U) = SumFunctionOnSet(v, Image(U))
  <2>1. v[h[x]] = w[x]
    BY <1>8
  <2>. QED BY <1>10, <1>11, <1>12, <1>13, <2>1
<1>. QED BY <1>5, <1>8, <1>14

LEMMA SumOnUnion ==
    ASSUME NEW D, NEW w \in [D -> Nat], NEW S \in Parts(D), NEW T \in Parts(D)
    PROVE  SumFunctionOnSet(w, S \cup T) <= SumFunctionOnSet(w, S) + SumFunctionOnSet(w, T)
<1>1. S \cup T \in Parts(D) /\ T \ S \in Parts(D) /\ T \ S \in SUBSET T
  BY UnionOfParts, PartOfPart
<1>2. (S \cup T) \ S = T \ S
  OBVIOUS
<1>3. SumFunctionOnSet(w, S \cup T) = SumFunctionOnSet(w, S) + SumFunctionOnSet(w, T \ S)
  BY <1>1, <1>2, SumOnSplit
<1>4. SumFunctionOnSet(w, T \ S) <= SumFunctionOnSet(w, T)
  BY <1>1, SumOnMono
<1>. QED BY <1>1, <1>3, <1>4, SumOnNat

(***************************************************************************)
(* The worth of a finite set of notes.                                     *)
(***************************************************************************)
FiniteNotes == {S \in SUBSET Note : IsFiniteSet(S)}

LEMMA NotesAreParts ==
    /\ FiniteNotes = Parts(Note)
    /\ Value \in [Note -> Nat]
    /\ \A S : Worth(S) = SumFunctionOnSet(Value, S)
BY NoteAssumption DEF FiniteNotes, Parts, Worth

LEMMA PartIsFinite ==
    ASSUME NEW S \in FiniteNotes, NEW T, T \subseteq S
    PROVE  T \in FiniteNotes
BY NotesAreParts, PartOfPart

LEMMA UnionIsFinite ==
    ASSUME NEW S \in FiniteNotes, NEW T \in FiniteNotes
    PROVE  S \cup T \in FiniteNotes
BY NotesAreParts, UnionOfParts

LEMMA WorthNat ==
    /\ \A S \in FiniteNotes : Worth(S) \in Nat
    /\ {} \in FiniteNotes /\ Worth({}) = 0
BY NotesAreParts, SumOnNat

LEMMA WorthAdd ==
    ASSUME NEW S \in FiniteNotes, NEW x \in Note
    PROVE  /\ S \cup {x} \in FiniteNotes
           /\ Worth(S \cup {x}) = IF x \in S THEN Worth(S) ELSE Value[x] + Worth(S)
BY NotesAreParts, SumOnAdd

LEMMA WorthOfOne ==
    ASSUME NEW x \in Note
    PROVE  Worth({x}) = Value[x]
BY NotesAreParts, SumOnOfOne

LEMMA WorthSplit ==
    ASSUME NEW S \in FiniteNotes, NEW T \in SUBSET S
    PROVE  Worth(S) = Worth(T) + Worth(S \ T)
BY NotesAreParts, SumOnSplit

LEMMA WorthMono ==
    ASSUME NEW S \in FiniteNotes, NEW T \in SUBSET S
    PROVE  Worth(T) <= Worth(S)
BY NotesAreParts, SumOnMono

LEMMA WorthUnion ==
    ASSUME NEW S \in FiniteNotes, NEW T \in FiniteNotes
    PROVE  Worth(S \cup T) <= Worth(S) + Worth(T)
BY NotesAreParts, SumOnUnion

\* What an exchange of coins leaves, whatever of it was spent before.
LEMMA ExchangeWorth ==
    ASSUME NEW coins \in FiniteNotes, NEW used \in SUBSET coins,
           NEW made \in FiniteNotes, NEW left, left \subseteq (coins \ used) \cup made
    PROVE  /\ left \in FiniteNotes
           /\ Worth(left) + Worth(used) <= Worth(coins) + Worth(made)
<1>1. used \in FiniteNotes /\ coins \ used \in FiniteNotes
  BY PartIsFinite
<1>2. (coins \ used) \cup made \in FiniteNotes
  BY <1>1, UnionIsFinite
<1>3. left \in FiniteNotes
  BY <1>2, PartIsFinite
<1>4. Worth(left) <= Worth((coins \ used) \cup made)
  BY <1>2, WorthMono
<1>5. Worth((coins \ used) \cup made) <= Worth(coins \ used) + Worth(made)
  BY <1>1, WorthUnion
<1>6. Worth(coins) = Worth(used) + Worth(coins \ used)
  BY WorthSplit
<1>. QED BY <1>1, <1>2, <1>3, <1>4, <1>5, <1>6, WorthNat

-----------------------------------------------------------------------------
(***************************************************************************)
(* The sum of the slots.                                                   *)
(***************************************************************************)
AnySlot == [cm : Commitment, nf : Commitment, value : Nat]
            \cup [cm : Commitment, value : Nat]

\* The running sums of v up to n, as SlotSum computes them.
IsSum(f, v, n) == f = [i \in 0..n |-> IF i = 0 THEN 0 ELSE f[i - 1] + v[i].value]

LEMMA SumExists ==
    ASSUME NEW n \in Nat, NEW v, \A i \in 1..n : v[i].value \in Nat
    PROVE  \E f \in [0..n -> Nat] : IsSum(f, v, n)
<1> DEFINE Bad == {k \in 0..n : ~ \E f \in [0..k -> Nat] : IsSum(f, v, k)}
<1>1. SUFFICES ASSUME Bad # {} PROVE FALSE
  <2>1. n \in 0..n
    OBVIOUS
  <2>2. (n \notin Bad) => \E f \in [0..n -> Nat] : IsSum(f, v, n)
    BY <2>1
  <2>. QED BY <2>2
<1>2. PICK k \in Bad : \A j \in Bad : k <= j
  <2>1. Bad \subseteq Nat
    OBVIOUS
  <2>. QED BY <1>1, <2>1, LeastNatural
<1>3. k # 0
  <2>1. IsSum([i \in 0..0 |-> 0], v, 0)
    BY DEF IsSum
  <2>. QED BY <2>1
<1>4. PICK f \in [0..(k - 1) -> Nat] : IsSum(f, v, k - 1)
  <2>1. k \in 0..n /\ k - 1 \in 0..n /\ ~(k <= k - 1)
    BY <1>3
  <2>2. k - 1 \notin Bad
    BY <1>2, <2>1
  <2>. QED BY <2>1, <2>2
<1> DEFINE g == [i \in 0..k |-> IF i = k THEN f[k - 1] + v[k].value ELSE f[i]]
<1>5. g \in [0..k -> Nat]
  BY <1>3
<1>6. ASSUME NEW i \in 0..k
      PROVE  g[i] = IF i = 0 THEN 0 ELSE g[i - 1] + v[i].value
  <2>1. CASE i = k
    BY <2>1, <1>3
  <2>2. CASE i # k
    BY <2>2, <1>3, <1>4 DEF IsSum
  <2>. QED BY <2>1, <2>2
<1>7. IsSum(g, v, k)
  BY <1>6 DEF IsSum
<1>. QED BY <1>5, <1>7

LEMMA SumIsNat ==
    ASSUME NEW n \in Nat, NEW v, \A i \in 1..n : v[i].value \in Nat,
           NEW f, IsSum(f, v, n)
    PROVE  \A i \in 0..n : f[i] \in Nat
<1> DEFINE Bad == {i \in 0..n : f[i] \notin Nat}
<1>1. SUFFICES ASSUME Bad # {} PROVE FALSE
  OBVIOUS
<1>2. PICK k \in Bad : \A j \in Bad : k <= j
  <2>1. Bad \subseteq Nat
    OBVIOUS
  <2>. QED BY <1>1, <2>1, LeastNatural
<1>3. f[k] = IF k = 0 THEN 0 ELSE f[k - 1] + v[k].value
  BY DEF IsSum
<1>4. k # 0
  BY <1>3
<1>5. k \in 1..n /\ k - 1 \in 0..n /\ ~(k <= k - 1)
  BY <1>4
<1>6. f[k - 1] \in Nat
  BY <1>2, <1>5
<1>. QED BY <1>3, <1>5, <1>6

LEMMA SlotSumFacts ==
    ASSUME NEW k \in Nat, NEW slots \in [1..k -> AnySlot]
    PROVE  \E f \in [0..k -> Nat] :
              /\ f[0] = 0
              /\ \A i \in 1..k : f[i] = f[i - 1] + slots[i].value
              /\ SlotSum(slots) = f[k]
<1> DEFINE sum == CHOOSE f : IsSum(f, slots, Len(slots))
<1>1. Len(slots) = k
  OBVIOUS
<1>2. \A i \in 1..k : slots[i].value \in Nat
  BY DEF AnySlot
<1>3. PICK f \in [0..k -> Nat] : IsSum(f, slots, k)
  BY <1>2, SumExists
<1>4. IsSum(sum, slots, k)
  BY <1>1, <1>3
<1>5. SlotSum(slots) = sum[k]
  BY <1>1 DEF SlotSum, IsSum
<1>. HIDE DEF sum
<1>6. \A i \in 0..k : sum[i] \in Nat
  BY <1>2, <1>4, SumIsNat
<1>7. DOMAIN sum = 0..k /\ sum = [i \in 0..k |-> sum[i]]
  BY <1>4 DEF IsSum
<1>8. sum \in [0..k -> Nat]
  BY <1>6, <1>7
<1>9. sum[0] = 0 /\ \A i \in 1..k : sum[i] = sum[i - 1] + slots[i].value
  BY <1>4 DEF IsSum
<1>. QED BY <1>5, <1>8, <1>9

LEMMA SlotSumNat ==
    ASSUME NEW k \in Nat, NEW slots \in [1..k -> AnySlot]
    PROVE  SlotSum(slots) \in Nat
<1>1. k \in 0..k
  OBVIOUS
<1>. QED BY <1>1, SlotSumFacts

-----------------------------------------------------------------------------
(***************************************************************************)
(* Slots.                                                                  *)
(***************************************************************************)
LEMMA InputSlotFacts ==
    ASSUME NEW slot \in InputSlot
    PROVE  /\ slot \in AnySlot
           /\ slot.nf \in Commitment
           /\ (slot.nf # Zero /\ slot.cm # Zero) => slot.nf = slot.cm
<1>1. CASE slot = [cm |-> Zero, nf |-> Zero, value |-> 0]
  BY <1>1 DEF AnySlot, Commitment
<1>2. ASSUME NEW n \in Note,
             slot \in [cm : {n, Zero}, nf : {n, Zero}, value : {Value[n]}]
      PROVE  /\ slot \in AnySlot
             /\ slot.nf \in Commitment
             /\ (slot.nf # Zero /\ slot.cm # Zero) => slot.nf = slot.cm
  BY <1>2, NoteAssumption DEF AnySlot, Commitment
<1>. QED BY <1>1, <1>2 DEF InputSlot

LEMMA OutputSlotFacts ==
    ASSUME NEW slot \in OutputSlot
    PROVE  slot \in AnySlot /\ slot.cm \in Commitment
BY NoteAssumption DEF OutputSlot, AnySlot, Commitment

LEMMA OutputFacts ==
    ASSUME NEW k \in Nat, NEW outs \in Outputs(k)
    PROVE  /\ SlotSum(outs) \in Nat
           /\ Commitments(outs) \in [1..k -> Commitment]
           /\ Commitments(outs) \in Seq(Commitment)
<1>1. outs \in [1..k -> AnySlot]
  BY OutputSlotFacts DEF Outputs
<1>2. Commitments(outs) \in [1..k -> Commitment]
  BY OutputSlotFacts DEF Outputs, Commitments
<1>3. Commitments(outs) \in Seq(Commitment)
  BY <1>2
<1>. QED BY <1>1, <1>2, <1>3, SlotSumNat

LEMMA InputFacts ==
    ASSUME NEW k \in Nat, NEW root, NEW ins \in ProvedInputs(k, root)
    PROVE  /\ SlotSum(ins) \in Nat
           /\ DOMAIN Nullifiers(ins) = 1..k
           /\ \A i \in 1..k : /\ Nullifiers(ins)[i] \in Commitment
                              /\ Nullifiers(ins)[i] # Zero
                                    => Nullifiers(ins)[i] \in Members(root)
<1>1. ins \in [1..k -> AnySlot]
  BY InputSlotFacts DEF ProvedInputs
<1>2. ASSUME NEW i \in 1..k
      PROVE  /\ ins[i].nf \in Commitment
             /\ ins[i].nf # Zero => ins[i].nf \in Members(root)
  <2>1. ins[i] \in InputSlot /\ InputProved(ins[i], root)
    BY DEF ProvedInputs
  <2>. QED BY <2>1, InputSlotFacts DEF InputProved, Enabled
<1>3. DOMAIN ins = 1..k
  BY <1>1
<1>. QED BY <1>1, <1>2, <1>3, SlotSumNat DEF Nullifiers

LEMMA RootOfPrefix ==
    ASSUME NEW s \in Seq(Commitment), NEW t \in Seq(Commitment),
           Len(s) <= Len(t), \A j \in 1..Len(s) : s[j] = t[j]
    PROVE  RootOf(s) \subseteq RootOf(t) /\ RootOf(s) \in Root
<1>1. ASSUME NEW j \in DOMAIN s, s[j] # Zero
      PROVE  /\ <<j - 1, s[j]>> \in RootOf(t)
             /\ <<j - 1, s[j]>> \in Nat \X Note
  <2>1. j \in 1..Len(s) /\ j \in DOMAIN t /\ t[j] = s[j]
    OBVIOUS
  <2>2. s[j] \in Note
    BY <1>1 DEF Commitment
  <2>. QED BY <1>1, <2>1, <2>2 DEF RootOf
<1>. QED BY <1>1 DEF RootOf, Root

-----------------------------------------------------------------------------
(***************************************************************************)
(* What an operation makes is worth no more than the sum its proof         *)
(* computes of it, a note made twice being one; and what it uses is worth  *)
(* that sum or more, if no note is used twice.                             *)
(***************************************************************************)
Nonzeros(v) == {v[i] : i \in DOMAIN v} \ {Zero}

LEMMA MadeWorth ==
    ASSUME NEW k \in Nat, NEW outs \in Outputs(k)
    PROVE  /\ Nonzeros(Commitments(outs)) \in FiniteNotes
           /\ Worth(Nonzeros(Commitments(outs))) <= SlotSum(outs)
<1>1. outs \in [1..k -> AnySlot]
  BY OutputSlotFacts DEF Outputs
<1>2. PICK f \in [0..k -> Nat] :
         /\ f[0] = 0
         /\ \A i \in 1..k : f[i] = f[i - 1] + outs[i].value
         /\ SlotSum(outs) = f[k]
  BY <1>1, SlotSumFacts
<1> DEFINE Part(i) == {outs[j].cm : j \in 1..i} \ {Zero}
           Good(i) == Part(i) \in FiniteNotes /\ Worth(Part(i)) <= f[i]
           Bad == {i \in 0..k : ~Good(i)}
<1>3. Bad = {}
  <2>1. SUFFICES ASSUME Bad # {} PROVE FALSE
    OBVIOUS
  <2>2. PICK i \in Bad : \A j \in Bad : i <= j
    <3>1. Bad \subseteq Nat
      OBVIOUS
    <3>. QED BY <2>1, <3>1, LeastNatural
  <2>3. i # 0
    <3>1. Part(0) = {}
      OBVIOUS
    <3>2. Part(0) \in FiniteNotes /\ Worth(Part(0)) = 0
      <4>. HIDE DEF Part
      <4>. QED BY <3>1, WorthNat
    <3>3. Good(0)
      <4>. HIDE DEF Part
      <4>. QED BY <1>2, <3>2
    <3>. HIDE DEF Good
    <3>. QED BY <2>2, <3>3
  <2>4. i \in 1..k /\ i - 1 \in 0..k /\ ~(i <= i - 1)
    BY <2>3
  <2>5. Good(i - 1)
    BY <2>2, <2>4
  <2>6. /\ outs[i].cm # Zero => outs[i].cm \in Note /\ outs[i].value = Value[outs[i].cm]
        /\ outs[i].value \in Nat
    <3>1. outs[i] \in OutputSlot
      BY <2>4 DEF Outputs
    <3>. QED BY <3>1, NoteAssumption DEF OutputSlot
  <2>7. Part(i) = Part(i - 1) \cup ({outs[i].cm} \ {Zero})
    <3>1. 1..i = (1..(i - 1)) \cup {i}
      BY <2>4
    <3>. QED BY <3>1
  <2>8. f[i] = f[i - 1] + outs[i].value /\ f[i - 1] \in Nat
    BY <1>2, <2>4
  <2>9. Good(i)
    <3>. HIDE DEF Part
    <3>1. CASE outs[i].cm = Zero
      <4>1. Part(i) = Part(i - 1)
        BY <2>7, <3>1
      <4>. QED BY <2>5, <2>6, <2>8, <4>1, WorthNat
    <3>2. CASE outs[i].cm # Zero
      <4>1. Part(i) = Part(i - 1) \cup {outs[i].cm}
        BY <2>7, <3>2
      <4>2. /\ Part(i) \in FiniteNotes
            /\ \/ Worth(Part(i)) = Worth(Part(i - 1))
               \/ Worth(Part(i)) = outs[i].value + Worth(Part(i - 1))
        BY <2>5, <2>6, <3>2, <4>1, WorthAdd
      <4>. QED BY <2>5, <2>6, <2>8, <4>2, WorthNat
    <3>. QED BY <3>1, <3>2
  <2>. HIDE DEF Good
  <2>. QED BY <2>2, <2>9
<1>4. Good(k)
  <2>1. k \in 0..k
    OBVIOUS
  <2>2. k \notin Bad
    BY <1>3
  <2>. HIDE DEF Good
  <2>. QED BY <2>1, <2>2
<1>5. Nonzeros(Commitments(outs)) = Part(k)
  BY <1>1 DEF Nonzeros, Commitments
<1>. QED BY <1>2, <1>4, <1>5

LEMMA UsedWorth ==
    ASSUME NEW k \in Nat, NEW root, NEW ins \in ProvedInputs(k, root),
           \A i, j \in 1..k : ins[i].nf = ins[j].nf => i = j \/ ins[i].nf = Zero
    PROVE  /\ Nonzeros(Nullifiers(ins)) \in FiniteNotes
           /\ Worth(Nonzeros(Nullifiers(ins))) = SlotSum(ins)
<1>1. ins \in [1..k -> AnySlot]
  BY InputSlotFacts DEF ProvedInputs
<1>2. PICK f \in [0..k -> Nat] :
         /\ f[0] = 0
         /\ \A i \in 1..k : f[i] = f[i - 1] + ins[i].value
         /\ SlotSum(ins) = f[k]
  BY <1>1, SlotSumFacts
<1> DEFINE Part(i) == {ins[j].nf : j \in 1..i} \ {Zero}
           Good(i) == Part(i) \in FiniteNotes /\ Worth(Part(i)) = f[i]
           Bad == {i \in 0..k : ~Good(i)}
<1>3. Bad = {}
  <2>1. SUFFICES ASSUME Bad # {} PROVE FALSE
    OBVIOUS
  <2>2. PICK i \in Bad : \A j \in Bad : i <= j
    <3>1. Bad \subseteq Nat
      OBVIOUS
    <3>. QED BY <2>1, <3>1, LeastNatural
  <2>3. i # 0
    <3>1. Part(0) = {}
      OBVIOUS
    <3>2. Part(0) \in FiniteNotes /\ Worth(Part(0)) = 0
      <4>. HIDE DEF Part
      <4>. QED BY <3>1, WorthNat
    <3>3. Good(0)
      <4>. HIDE DEF Part
      <4>. QED BY <1>2, <3>2
    <3>. HIDE DEF Good
    <3>. QED BY <2>2, <3>3
  <2>4. i \in 1..k /\ i - 1 \in 0..k /\ ~(i <= i - 1)
    BY <2>3
  <2>5. Good(i - 1)
    BY <2>2, <2>4
  <2>6. /\ ins[i].nf = Zero => ins[i].value = 0
        /\ ins[i].nf # Zero => ins[i].nf \in Note /\ ins[i].value = Value[ins[i].nf]
        /\ ins[i].value \in Nat
    <3>1. ins[i] \in InputSlot /\ InputProved(ins[i], root)
      BY <2>4 DEF ProvedInputs
    <3>. QED BY <3>1, NoteAssumption DEF InputSlot, InputProved, Enabled
  <2>7. Part(i) = Part(i - 1) \cup ({ins[i].nf} \ {Zero})
    <3>1. 1..i = (1..(i - 1)) \cup {i}
      BY <2>4
    <3>. QED BY <3>1
  <2>8. f[i] = f[i - 1] + ins[i].value /\ f[i - 1] \in Nat
    BY <1>2, <2>4
  <2>9. ins[i].nf \notin Part(i - 1)
    <3>1. ASSUME NEW j \in 1..(i - 1), ins[j].nf = ins[i].nf
          PROVE  ins[i].nf = Zero
      <4>1. j \in 1..k /\ j # i
        BY <2>4
      <4>. QED BY <2>4, <3>1, <4>1
    <3>. QED BY <3>1
  <2>10. Good(i)
    <3>. HIDE DEF Part
    <3>1. CASE ins[i].nf = Zero
      <4>1. Part(i) = Part(i - 1)
        BY <2>7, <3>1
      <4>. QED BY <2>5, <2>6, <2>8, <3>1, <4>1
    <3>2. CASE ins[i].nf # Zero
      <4>1. Part(i) = Part(i - 1) \cup {ins[i].nf}
        BY <2>7, <3>2
      <4>2. Part(i - 1) \in FiniteNotes /\ Worth(Part(i - 1)) = f[i - 1]
        BY <2>5
      <4>3. ins[i].nf \in Note /\ Value[ins[i].nf] = ins[i].value
        BY <2>6, <3>2
      <4>4. /\ Part(i - 1) \cup {ins[i].nf} \in FiniteNotes
            /\ Worth(Part(i - 1) \cup {ins[i].nf}) = ins[i].value + Worth(Part(i - 1))
        BY <2>9, <4>2, <4>3, WorthAdd
      <4>5. /\ Part(i) \in FiniteNotes
            /\ Worth(Part(i)) = ins[i].value + Worth(Part(i - 1))
        BY <4>1, <4>4
      <4>6. Worth(Part(i)) = f[i]
        BY <2>6, <2>8, <4>2, <4>5
      <4>. QED BY <4>5, <4>6
    <3>. QED BY <3>1, <3>2
  <2>. HIDE DEF Good
  <2>. QED BY <2>2, <2>10
<1>4. Good(k)
  <2>1. k \in 0..k
    OBVIOUS
  <2>2. k \notin Bad
    BY <1>3
  <2>. HIDE DEF Good
  <2>. QED BY <2>1, <2>2
<1>5. Nonzeros(Nullifiers(ins)) = Part(k)
  BY <1>1 DEF Nonzeros, Nullifiers
<1>. QED BY <1>2, <1>4, <1>5

-----------------------------------------------------------------------------
(***************************************************************************)
(* The notes a sequence of leaves holds.                                   *)
(***************************************************************************)
LEMMA NonzerosFinite ==
    ASSUME NEW s \in Seq(Commitment)
    PROVE  Nonzeros(s) \in FiniteNotes
<1> DEFINE image == {s[i] : i \in 1..Len(s)}
           f == [i \in 1..Len(s) |-> s[i]]
<1>1. f \in Surjection(1..Len(s), image)
  BY DEF Surjection
<1>2. IsFiniteSet(1..Len(s))
  BY FS_Interval
<1>3. IsFiniteSet(image)
  <2>. HIDE DEF f, image
  <2>. QED BY <1>1, <1>2, FS_Surjection
<1>4. Nonzeros(s) \in SUBSET image /\ Nonzeros(s) \subseteq Note
  BY DEF Nonzeros, Commitment
<1>. HIDE DEF image
<1>. QED BY <1>3, <1>4, FS_Subset DEF FiniteNotes

LEMMA NonzerosConcat ==
    ASSUME NEW s \in Seq(Commitment), NEW t \in Seq(Commitment)
    PROVE  Nonzeros(s \o t) = Nonzeros(s) \cup Nonzeros(t)
<1>1. /\ s \o t \in Seq(Commitment)
      /\ Len(s \o t) = Len(s) + Len(t)
      /\ \A i \in 1..Len(s) : (s \o t)[i] = s[i]
      /\ \A i \in 1..Len(t) : (s \o t)[Len(s) + i] = t[i]
  OBVIOUS
<1>2. ASSUME NEW i \in 1..Len(s \o t)
      PROVE  \/ i \in 1..Len(s) /\ (s \o t)[i] = s[i]
             \/ \E j \in 1..Len(t) : (s \o t)[i] = t[j]
  <2>1. CASE i > Len(s)
    <3>1. i - Len(s) \in 1..Len(t) /\ Len(s) + (i - Len(s)) = i
      BY <1>1, <2>1
    <3>. QED BY <1>1, <3>1
  <2>. QED BY <1>1, <2>1
<1>3. \A i \in 1..Len(s) : i \in 1..Len(s \o t)
  BY <1>1
<1>4. \A i \in 1..Len(t) : Len(s) + i \in 1..Len(s \o t)
  BY <1>1
<1> DEFINE u == s \o t
<1>5. DOMAIN u = 1..Len(u) /\ DOMAIN s = 1..Len(s) /\ DOMAIN t = 1..Len(t)
  BY <1>1
<1>. HIDE DEF u
<1>6. Nonzeros(u) \subseteq Nonzeros(s) \cup Nonzeros(t)
  BY <1>2, <1>5 DEF Nonzeros, u
<1>7. Nonzeros(s) \subseteq Nonzeros(u)
  BY <1>1, <1>3, <1>5 DEF Nonzeros, u
<1>8. Nonzeros(t) \subseteq Nonzeros(u)
  BY <1>1, <1>4, <1>5 DEF Nonzeros, u
<1>. QED BY <1>6, <1>7, <1>8 DEF u

LEMMA PaddedNonzeros ==
    ASSUME NEW s \in Seq(Commitment), NEW n \in Nat, NEW t \in Seq(Commitment)
    PROVE  Nonzeros(s \o [i \in 1..n |-> Zero] \o t) = Nonzeros(s) \cup Nonzeros(t)
<1> DEFINE zeros == [i \in 1..n |-> Zero]
<1>1. zeros \in Seq(Commitment)
  BY DEF Commitment
<1>2. Nonzeros(zeros) = {}
  BY DEF Nonzeros
<1>. HIDE DEF zeros
<1>3. s \o zeros \in Seq(Commitment)
  BY <1>1
<1>. QED BY <1>1, <1>2, <1>3, NonzerosConcat DEF zeros

LEMMA RootOfConcat ==
    ASSUME NEW s \in Seq(Commitment), NEW t \in Seq(Commitment)
    PROVE  /\ s \o t \in Seq(Commitment)
           /\ RootOf(s) \subseteq RootOf(s \o t)
<1>1. /\ s \o t \in Seq(Commitment)
      /\ Len(s) <= Len(s \o t)
      /\ \A j \in 1..Len(s) : s[j] = (s \o t)[j]
  OBVIOUS
<1> DEFINE u == s \o t
<1>. HIDE DEF u
<1>2. RootOf(s) \subseteq RootOf(u)
  BY <1>1, RootOfPrefix DEF u
<1>. QED BY <1>1, <1>2 DEF u

LEMMA MembersOfRoots ==
    ASSUME NEW s \in Seq(Commitment)
    PROVE  /\ \A r \in SUBSET RootOf(s) : Members(r) \subseteq Nonzeros(s)
           /\ Nonzeros(s) \subseteq Members(RootOf(s))
<1>1. ASSUME NEW r \in SUBSET RootOf(s), NEW p \in r
      PROVE  p[2] \in Nonzeros(s)
  <2>1. PICK i \in DOMAIN s : s[i] # Zero /\ p = <<i - 1, s[i]>>
    BY DEF RootOf
  <2>. QED BY <2>1 DEF Nonzeros
<1>2. ASSUME NEW i \in DOMAIN s, s[i] # Zero
      PROVE  s[i] \in Members(RootOf(s))
  <2>1. <<i - 1, s[i]>> \in RootOf(s)
    BY <1>2 DEF RootOf
  <2>2. <<i - 1, s[i]>>[2] = s[i]
    OBVIOUS
  <2>. QED BY <2>1, <2>2 DEF Members
<1>. QED BY <1>1, <1>2 DEF Members, Nonzeros

-----------------------------------------------------------------------------
(***************************************************************************)
(* Pieces of a sequence that grows.                                        *)
(***************************************************************************)
LEMMA SubSeqStays ==
    ASSUME NEW T, NEW s \in Seq(T), NEW t \in Seq(T),
           NEW a \in Nat, NEW n \in Nat, a + n <= Len(s)
    PROVE  SubSeq(s \o t, a + 1, a + n) = SubSeq(s, a + 1, a + n)
OBVIOUS

LEMMA SubSeqLast ==
    ASSUME NEW T, NEW s \in Seq(T), NEW t \in Seq(T)
    PROVE  SubSeq(s \o t, Len(s) + 1, Len(s) + Len(t)) = t
OBVIOUS

-----------------------------------------------------------------------------
(***************************************************************************)
(* A vault that covers the coins covers what an exchange leaves of them,   *)
(* if it moved by no less than the coins made are worth beyond those used. *)
(***************************************************************************)
LEMMA ExchangeIsCovered ==
    ASSUME NEW coins \in FiniteNotes, NEW used \in SUBSET coins,
           NEW made \in FiniteNotes, NEW left, left \subseteq (coins \ used) \cup made,
           NEW held \in Nat, NEW holds \in Nat, Worth(coins) <= held,
           Worth(made) + held <= Worth(used) + holds
    PROVE  left \in FiniteNotes /\ Worth(left) <= holds
<1>1. used \in FiniteNotes
  BY PartIsFinite
<1>2. left \in FiniteNotes /\ Worth(left) + Worth(used) <= Worth(coins) + Worth(made)
  BY ExchangeWorth
<1>3. /\ Worth(left) \in Nat /\ Worth(used) \in Nat
      /\ Worth(coins) \in Nat /\ Worth(made) \in Nat
  BY <1>1, <1>2, WorthNat
<1>. QED BY <1>2, <1>3
=============================================================================
