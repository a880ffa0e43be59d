------------------------ MODULE PortalDirectoryProofs ------------------------
(***************************************************************************)
(* Two services of the indexer: the registry of the portal's addresses,    *)
(* for every set of addresses and names and any number of issuances,       *)
(* payments, failures and losses of the store, and the name directory, for *)
(* every set of names, owners and keys and any number of registrations and *)
(* crashes.                                                                *)
(***************************************************************************)
EXTENDS Portal, NameDirectory, FiniteSetTheorems, SequenceTheorems, WellFoundedInduction, TLAPS

-----------------------------------------------------------------------------
(* The portal: the inductive invariant.                                    *)

Row == [seq : Nat, addr : Address, label : Label \cup {NoLabel}, by : Nat]

Tx == [addr : Address, label : Label, amount : Nat]

Registry == [records : Seq(Row), seq : Nat, pendingSwept : SUBSET Row,
             pendingInserts : SUBSET Row, lastBlock : Nat, upTo : Nat]

Typed ==
    /\ receive \in BOOLEAN
    /\ chain \in Seq(Tx) /\ mempool \in Seq(Tx)
    /\ balance \in [Address -> Nat]
    /\ asked \in Seq(Address)
    /\ requests \subseteq Row
    /\ shown \subseteq Address \X Label
    /\ mem \in Registry
    /\ db \in [rows : SUBSET Row, cursor : Nat]
    /\ IsFiniteSet(db.rows)
    /\ phase \in {"down", "idle", "applied", "committed"}
    /\ bot \in [phase : {"idle", "scan", "proving", "sending"}, list : Seq(Row), amount : Nat]
    /\ bot.phase /= "idle" => bot.list /= <<>>
    /\ wipes \in Nat /\ (~receive => wipes = 0)

IsShown(a) == \E l \in Label : <<a, l>> \in shown

\* Who holds tokens was shown to a payer.
MoneyOK ==
    /\ \A a \in Address : balance[a] /= 0 => IsShown(a)
    /\ NotesGoToTheAnnounced

\* The rows: one of an address, flipped as the chain says.
RowsOK ==
    /\ \A r, s \in db.rows : r.seq = s.seq \/ r.addr = s.addr => r = s
    /\ \A r \in db.rows : r.label = NoLabel => r.by /= 0
    /\ db.cursor <= Len(chain)
    /\ RowsTellTheFirstSweep
    /\ SweptAreRecovered

\* Where what arrives at its address is to go.
Route(r) == <<r.addr, r.label>>

\* What the bot has in hand or has sent.
Sent == {bot.list[k] : k \in DOMAIN bot.list} \cup {mempool[k] : k \in DOMAIN mempool}

\* Until the store is lost, an address that was shown or is swept has a row.
AnnouncedOK ==
    /\ \A r \in Sent : r.label \in Label
    /\ wipes = 0 => \A p \in shown \cup {Route(r) : r \in Sent} : \E q \in db.rows : p = Route(q)

\* Where an address goes with a name.
Told == shown \cup {Route(r) : r \in Sent}
              \cup {Route(r) : r \in {q \in requests \cup db.rows : q.label /= NoLabel}}

\* The receive page derives an address for one request, whatever the store lost.
ToldOK == receive =>
    \A p \in Told :
        /\ \E i \in DOMAIN asked : asked[i] = p[1]
        /\ \A q \in Told : p[1] = q[1] => p = q

Has(m, a) == \E i \in DOMAIN m.records : m.records[i].addr = a

\* The records of m tell the first p sweeps.
RecordsOK(m, p) ==
    /\ \A i, j \in DOMAIN m.records :
          m.records[i].addr = m.records[j].addr \/ m.records[i].seq = m.records[j].seq => i = j
    /\ \A i \in DOMAIN m.records :
          LET r == m.records[i]
          IN  /\ r.seq < m.seq
              /\ r.by = FirstSweep(r.addr, p)
              /\ r.label = NoLabel => r.by /= 0

Stored(r, q) == q.seq = r.seq /\ q.addr = r.addr /\ q.label = r.label

\* A record is stored, with its flip, or is buffered.
StoredOK(m) ==
    \A i \in DOMAIN m.records :
        LET r == m.records[i]
        IN  \/ r \in m.pendingInserts
            \/ \E q \in db.rows : Stored(r, q) /\ (r.by /= 0 => q.by /= 0 \/ r \in m.pendingSwept)

\* A backfill is stored as it is, or nothing stands in its way.
BuffersOK(m) ==
    /\ \A r \in m.pendingInserts : /\ \E i \in DOMAIN m.records : m.records[i] = r
                                   /\ r.label = NoLabel
                                   /\ Conflicts(r) => r \in db.rows
    /\ \A r \in m.pendingSwept : /\ \E i \in DOMAIN m.records : m.records[i] = r
                                 /\ r.label /= NoLabel /\ r.by /= 0

\* An address that was shown, or that the factory announced, is served.
ServedOK(m, p) ==
    /\ \A q \in db.rows : q.seq < m.seq /\ (IsShown(q.addr) => Has(m, q.addr))
    /\ receive => \A k \in 1..p : Has(m, chain[k].addr)

\* A request for an address that was shown is refused.
RequestsOK(m) ==
    /\ \A r \in requests :
          /\ r.seq < m.seq /\ r.by = 0 /\ r.label /= NoLabel
          /\ \A i \in DOMAIN m.records : m.records[i].seq /= r.seq
          /\ IsShown(r.addr) => r \notin db.rows /\ Conflicts(r)
    /\ \A r, s \in requests : r.seq = s.seq => r = s

MemOK(m, p) ==
    /\ db.cursor <= p /\ m.lastBlock <= p /\ p <= Len(chain)
    /\ RecordsOK(m, p) /\ StoredOK(m) /\ BuffersOK(m) /\ ServedOK(m, p) /\ RequestsOK(m)

\* The sweeps that memory has applied.
Seen == IF mem.upTo > mem.lastBlock THEN mem.upTo ELSE mem.lastBlock

\* The transaction committed: nothing is lost with the buffers.
Covered ==
    \A i \in DOMAIN mem.records : \E q \in db.rows :
        Stored(mem.records[i], q) /\ (mem.records[i].by /= 0 => q.by /= 0)

PhaseOK ==
    /\ phase = "down" => requests = {}
    /\ Serving => MemOK(mem, Seen)
    /\ phase \in {"applied", "committed"} => mem.lastBlock <= mem.upTo
    /\ phase = "committed" => Covered

Inv == Typed /\ MoneyOK /\ RowsOK /\ AnnouncedOK /\ ToldOK /\ PhaseOK

-----------------------------------------------------------------------------
(* Lemmas.                                                                 *)

Below == {p \in Nat \X Nat : p[1] < p[2]}

\* The place a smallest counterexample would have.
LEMMA Least ==
    ASSUME NEW S, S \subseteq Nat, S /= {}
    PROVE  \E k \in S : \A j \in S : k <= j
<1>1. IsWellFoundedOn(Below, Nat)
  <2>1. Below \subseteq OpToRel(<, Nat)
    BY DEF Below, OpToRel
  <2>. QED BY <2>1, NatLessThanWellFounded, IsWellFoundedOnSubrelation
<1>2. PICK k \in S : \A j \in S : <<j, k>> \notin Below
  BY <1>1, WFMin
<1>3. ASSUME NEW j \in S, j < k PROVE FALSE
  <2>1. <<j, k>> \in Nat \X Nat /\ <<j, k>>[1] < <<j, k>>[2]
    BY <1>3
  <2>. QED BY <1>2, <2>1 DEF Below
<1>. QED BY <1>3

LEMMA UpToIsFinite == ASSUME NEW k \in Nat PROVE IsFiniteSet(1..k)
<1>1. 1 \in Int /\ k \in Int
  OBVIOUS
<1>. QED BY <1>1, FS_Interval

SweepsOf(a, c) == {i \in 1..c : chain[i].addr = a}

LEMMA FirstSweepIsFirst ==
    ASSUME NEW a, NEW c \in Nat
    PROVE  /\ SweepsOf(a, c) = {} => FirstSweep(a, c) = 0
           /\ SweepsOf(a, c) /= {} =>
                  /\ FirstSweep(a, c) \in SweepsOf(a, c)
                  /\ \A j \in SweepsOf(a, c) : FirstSweep(a, c) <= j
<1>1. CASE SweepsOf(a, c) = {}
  BY <1>1 DEF FirstSweep, SweepsOf
<1>2. CASE SweepsOf(a, c) /= {}
  <2>1. SweepsOf(a, c) \subseteq Nat
    BY DEF SweepsOf
  <2>2. \E i \in SweepsOf(a, c) : \A j \in SweepsOf(a, c) : i <= j
    BY <1>2, <2>1, Least
  <2>3. FirstSweep(a, c) = CHOOSE i \in SweepsOf(a, c) : \A j \in SweepsOf(a, c) : i <= j
    BY <1>2 DEF FirstSweep, SweepsOf
  <2>. QED BY <1>2, <2>2, <2>3
<1>. QED BY <1>1, <1>2

\* What is needed of it.
LEMMA FirstSweepFacts ==
    ASSUME NEW a, NEW c \in Nat
    PROVE  /\ FirstSweep(a, c) \in 0..c
           /\ FirstSweep(a, c) = 0 <=> \A k \in 1..c : chain[k].addr /= a
           /\ \A k \in 1..c : chain[k].addr = a /\ (\A j \in 1..(k - 1) : chain[j].addr /= a)
                                  => FirstSweep(a, c) = k
           /\ \A p \in Nat : c <= p /\ FirstSweep(a, c) /= 0 => FirstSweep(a, p) = FirstSweep(a, c)
<1>1. FirstSweep(a, c) \in 0..c /\ (FirstSweep(a, c) = 0 <=> SweepsOf(a, c) = {})
  BY FirstSweepIsFirst DEF SweepsOf
<1>2. FirstSweep(a, c) = 0 <=> \A k \in 1..c : chain[k].addr /= a
  BY <1>1 DEF SweepsOf
<1>3. ASSUME NEW k \in 1..c, chain[k].addr = a, \A j \in 1..(k - 1) : chain[j].addr /= a
      PROVE  FirstSweep(a, c) = k
  <2>1. k \in SweepsOf(a, c)
    BY <1>3 DEF SweepsOf
  <2>2. FirstSweep(a, c) <= k /\ FirstSweep(a, c) \in 1..c /\ chain[FirstSweep(a, c)].addr = a
    BY <2>1, FirstSweepIsFirst DEF SweepsOf
  <2>. QED BY <1>3, <2>2
<1>4. ASSUME NEW p \in Nat, c <= p, FirstSweep(a, c) /= 0
      PROVE  FirstSweep(a, p) = FirstSweep(a, c)
  <2> DEFINE k == FirstSweep(a, c)
             l == FirstSweep(a, p)
  <2>1. k \in SweepsOf(a, c) /\ (\A j \in SweepsOf(a, c) : k <= j)
    BY <1>1, <1>4, FirstSweepIsFirst
  <2>2. k \in SweepsOf(a, p)
    BY <1>4, <2>1 DEF SweepsOf
  <2>3. l \in SweepsOf(a, p) /\ (\A j \in SweepsOf(a, p) : l <= j)
    BY <1>4, <2>2, FirstSweepIsFirst
  <2>. HIDE DEF k, l
  <2>4. k \in 1..c /\ l \in 1..p /\ l <= k
    BY <2>1, <2>2, <2>3 DEF SweepsOf
  <2>5. l \in SweepsOf(a, c)
    BY <2>3, <2>4 DEF SweepsOf
  <2>6. k = l
    BY <2>1, <2>4, <2>5
  <2>. QED BY <2>6 DEF k, l
<1>. QED BY <1>1, <1>2, <1>3, <1>4

-----------------------------------------------------------------------------
(* Numbers in order.                                                       *)

Under(S, x) == {m \in S : m < x}

Rank(S, x) == Cardinality(Under(S, x))

LEMMA RankFacts ==
    ASSUME NEW S, S \subseteq Nat, IsFiniteSet(S)
    PROVE  /\ \A x \in S : Rank(S, x) \in Nat /\ Rank(S, x) + 1 <= Cardinality(S)
           /\ \A x, y \in S : x < y => Rank(S, x) < Rank(S, y)
           /\ Cardinality(S) \in Nat
<1>1. ASSUME NEW x \in S PROVE Rank(S, x) \in Nat /\ Rank(S, x) + 1 <= Cardinality(S)
  <2>1. Under(S, x) \in SUBSET (S \ {x})
    BY DEF Under
  <2>2. IsFiniteSet(S \ {x}) /\ Cardinality(S \ {x}) = Cardinality(S) - 1
    BY FS_RemoveElement
  <2>3. IsFiniteSet(Under(S, x)) /\ Cardinality(Under(S, x)) <= Cardinality(S \ {x})
    BY <2>1, <2>2, FS_Subset
  <2>4. Cardinality(S) \in Nat /\ Cardinality(Under(S, x)) \in Nat
    BY <2>3, FS_CardinalityType
  <2>. QED BY <2>2, <2>3, <2>4 DEF Rank
<1>2. ASSUME NEW x \in S, NEW y \in S, x < y PROVE Rank(S, x) < Rank(S, y)
  <2>1. Under(S, x) \in SUBSET S /\ Under(S, y) \in SUBSET S
    BY DEF Under
  <2>2. IsFiniteSet(Under(S, x)) /\ IsFiniteSet(Under(S, y))
    BY <2>1, FS_Subset
  <2>3. x \notin Under(S, x) /\ Under(S, x) \cup {x} \in SUBSET Under(S, y)
    <3>1. \A m \in S : m \in Nat
      OBVIOUS
    <3>2. \A m \in S : m < x => m < y
      BY <1>2, <3>1
    <3>3. ~(x < x)
      BY <3>1
    <3>. QED BY <1>2, <3>2, <3>3, Zenon DEF Under
  <2>4. Cardinality(Under(S, x) \cup {x}) = Cardinality(Under(S, x)) + 1
    BY <2>2, <2>3, FS_AddElement
  <2>5. Cardinality(Under(S, x) \cup {x}) <= Cardinality(Under(S, y))
    BY <2>2, <2>3, FS_Subset
  <2>6. Cardinality(Under(S, x)) \in Nat /\ Cardinality(Under(S, y)) \in Nat
    BY <2>2, FS_CardinalityType
  <2>. QED BY <2>4, <2>5, <2>6 DEF Rank
<1>. QED BY <1>1, <1>2, FS_CardinalityType

LEMMA RankIsOnto ==
    ASSUME NEW S, S \subseteq Nat, IsFiniteSet(S), NEW k \in 1..Cardinality(S)
    PROVE  \E x \in S : Rank(S, x) = k - 1
<1> DEFINE n == Cardinality(S)
           f == [x \in S |-> Rank(S, x) + 1]
<1>0. /\ \A x \in S : Rank(S, x) \in Nat /\ Rank(S, x) + 1 <= n
      /\ \A x, y \in S : x < y => Rank(S, x) < Rank(S, y)
      /\ n \in Nat
  BY RankFacts
<1>1. n \in Nat /\ IsFiniteSet(1..n) /\ Cardinality(1..n) = n
  BY FS_CardinalityType, FS_Interval
<1>2. f \in [S -> 1..n]
  BY <1>0
<1>3. \A x, y \in S : f[x] = f[y] => x = y
  <2>1. ASSUME NEW x \in S, NEW y \in S, x /= y PROVE Rank(S, x) /= Rank(S, y)
    <3>1. x < y \/ y < x
      BY <2>1
    <3>. QED BY <1>0, <3>1
  <2>. QED BY <1>0, <2>1
<1>4. f \in Injection(S, 1..n)
  <2>. HIDE DEF f, n
  <2>. QED BY <1>2, <1>3 DEF Injection, IsInjective
<1>5. f \in Surjection(S, 1..n)
  <2>. HIDE DEF f
  <2>1. Cardinality(S) = Cardinality(1..n)
    BY <1>1
  <2>. QED BY <1>1, <1>4, <2>1, FS_Injection
<1>6. \E x \in S : f[x] = k
  <2>. HIDE DEF f
  <2>. QED BY <1>5 DEF Surjection
<1>. QED BY <1>0, <1>6

LEMMA InOrderFacts ==
    ASSUME NEW S, S \subseteq Nat, IsFiniteSet(S)
    PROVE  /\ Cardinality(S) \in Nat
           /\ InOrder(S) \in [1..Cardinality(S) -> S]
           /\ \A i, j \in 1..Cardinality(S) : i < j => InOrder(S)[i] < InOrder(S)[j]
           /\ \A x \in S : \E k \in 1..Cardinality(S) : InOrder(S)[k] = x
<1> DEFINE n == Cardinality(S)
<1>0. /\ \A x \in S : Rank(S, x) \in Nat /\ Rank(S, x) + 1 <= n
      /\ \A x, y \in S : x < y => Rank(S, x) < Rank(S, y)
      /\ n \in Nat
  BY RankFacts
<1>1. \A k \in 1..n : InOrder(S)[k] = CHOOSE x \in S : Rank(S, x) = k - 1
  BY DEF InOrder, Rank, Under
<1>2. ASSUME NEW k \in 1..n PROVE InOrder(S)[k] \in S /\ Rank(S, InOrder(S)[k]) = k - 1
  BY <1>1, RankIsOnto
<1>3. InOrder(S) \in [1..n -> S]
  BY <1>2 DEF InOrder
<1>4. ASSUME NEW i \in 1..n, NEW j \in 1..n, i < j PROVE InOrder(S)[i] < InOrder(S)[j]
  <2> DEFINE x == InOrder(S)[i]
             y == InOrder(S)[j]
  <2>1. x \in S /\ y \in S /\ Rank(S, x) = i - 1 /\ Rank(S, y) = j - 1
    BY <1>2
  <2>. HIDE DEF x, y
  <2>2. ~ y < x /\ x /= y
    <3>2. ~(Rank(S, y) < Rank(S, x)) /\ Rank(S, x) /= Rank(S, y)
      BY <1>0, <1>4, <2>1
    <3>. QED BY <2>1, <1>0, <3>2
  <2>3. x \in Nat /\ y \in Nat
    BY <2>1
  <2>. QED BY <2>2, <2>3 DEF x, y
<1>5. ASSUME NEW x \in S PROVE \E k \in 1..n : InOrder(S)[k] = x
  <2> DEFINE k == Rank(S, x) + 1
  <2>1. k \in 1..n /\ n \in Nat /\ Rank(S, x) = k - 1
    BY <1>0
  <2> DEFINE y == InOrder(S)[k]
  <2>2. y \in S /\ Rank(S, y) = Rank(S, x)
    BY <1>2, <2>1
  <2>. HIDE DEF y
  <2>3. ~ x < y /\ ~ y < x
    BY <2>1, <1>0, <2>2
  <2>4. x \in Nat /\ y \in Nat
    BY <2>2
  <2>5. x = y
    BY <2>3, <2>4
  <2>. QED BY <2>1, <2>5 DEF y
<1>. QED BY <1>3, <1>4, <1>5, <1>0

-----------------------------------------------------------------------------
(* A sweep is applied to the registry in memory.                           *)

LEMMA OneMoreSweep ==
    ASSUME NEW p \in Nat, NEW b \in Nat \ {0}, b <= p + 1,
           NEW q, q = IF b <= p THEN p ELSE b
    PROVE  /\ q \in Nat /\ p <= q
           /\ \A x : x /= chain[b].addr => FirstSweep(x, q) = FirstSweep(x, p)
           /\ FirstSweep(chain[b].addr, p) /= 0 =>
                  FirstSweep(chain[b].addr, q) = FirstSweep(chain[b].addr, p)
           /\ FirstSweep(chain[b].addr, p) = 0 => FirstSweep(chain[b].addr, q) = b /\ q = b /\ b = p + 1
<1>1. q \in Nat /\ p <= q /\ (q = p \/ (q = p + 1 /\ q = b))
  OBVIOUS
<1>2. ASSUME NEW x, x /= chain[b].addr PROVE FirstSweep(x, q) = FirstSweep(x, p)
  <2>1. CASE FirstSweep(x, p) /= 0
    BY <1>1, <2>1, FirstSweepFacts
  <2>2. CASE FirstSweep(x, p) = 0
    <3>1. \A k \in 1..p : chain[k].addr /= x
      BY <2>2, FirstSweepFacts
    <3>2. \A k \in 1..q : chain[k].addr /= x
      BY <1>1, <1>2, <3>1
    <3>3. FirstSweep(x, q) = 0
      BY <1>1, <3>2, FirstSweepFacts
    <3>. QED BY <2>2, <3>3
  <2>. QED BY <2>1, <2>2
<1>3. ASSUME FirstSweep(chain[b].addr, p) /= 0
      PROVE  FirstSweep(chain[b].addr, q) = FirstSweep(chain[b].addr, p)
  BY <1>1, <1>3, FirstSweepFacts
<1>4. ASSUME FirstSweep(chain[b].addr, p) = 0
      PROVE  FirstSweep(chain[b].addr, q) = b /\ q = b /\ b = p + 1
  <2>1. \A k \in 1..p : chain[k].addr /= chain[b].addr
    BY <1>4, FirstSweepFacts
  <2>2. b = p + 1 /\ q = b
    BY <2>1
  <2>3. b \in 1..q /\ \A j \in 1..(b - 1) : chain[j].addr /= chain[b].addr
    BY <2>1, <2>2
  <2>. QED BY <1>1, <2>2, <2>3, FirstSweepFacts
<1>. QED BY <1>1, <1>2, <1>3, <1>4

LEMMA BySaltFacts ==
    ASSUME NEW m \in Registry, NEW a,
           \A i, j \in DOMAIN m.records : m.records[i].addr = m.records[j].addr => i = j
    PROVE  /\ hasStealth(m, a) <=> Has(m, a)
           /\ \A i \in DOMAIN m.records : m.records[i].addr = a => bySalt(m, a) = {i}
           /\ ~Has(m, a) => bySalt(m, a) = {}
<1>1. DOMAIN m.records \subseteq Nat
  BY DEF Registry
<1>2. ASSUME NEW i \in DOMAIN m.records, m.records[i].addr = a PROVE bySalt(m, a) = {i}
  <2>1. \A j \in DOMAIN m.records : m.records[j].addr = a => j = i
    BY <1>2
  <2>2. i <= i
    BY <1>1, <1>2
  <2>. QED BY <1>2, <2>1, <2>2 DEF bySalt
<1>3. ~Has(m, a) => bySalt(m, a) = {}
  BY DEF Has, bySalt
<1>4. hasStealth(m, a) <=> Has(m, a)
  BY <1>2, <1>3 DEF hasStealth, Has
<1>. QED BY <1>2, <1>3, <1>4

\* The record of an address is flipped.
Flipped(m, i, b) ==
    LET r == [m.records[i] EXCEPT !.by = b]
    IN  [m EXCEPT !.records[i] = r, !.pendingSwept = @ \cup {r}]

LEMMA MarkFacts ==
    ASSUME NEW m \in Registry, NEW b,
           \A i, j \in DOMAIN m.records : m.records[i].addr = m.records[j].addr => i = j
    PROVE  /\ \A i \in DOMAIN m.records : m.records[i].addr = chain[b].addr =>
                  markSwept(m, b) = IF m.records[i].by = 0 THEN Flipped(m, i, b) ELSE m
           /\ ~Has(m, chain[b].addr) => markSwept(m, b) = m
<1>1. ASSUME NEW i \in DOMAIN m.records, m.records[i].addr = chain[b].addr
      PROVE  markSwept(m, b) = IF m.records[i].by = 0 THEN Flipped(m, i, b) ELSE m
  <2>1. bySalt(m, chain[b].addr) = {i}
    BY <1>1, BySaltFacts
  <2> DEFINE of == {j \in bySalt(m, chain[b].addr) : m.records[j].by = 0}
  <2>2. of = IF m.records[i].by = 0 THEN {i} ELSE {}
    BY <2>1
  <2>3. m.records[i].by = 0 => (CHOOSE j \in of : TRUE) = i
    BY <2>2
  <2>4. markSwept(m, b) =
            IF of = {} THEN m
            ELSE LET r == [m.records[CHOOSE j \in of : TRUE] EXCEPT !.by = b]
                 IN  [m EXCEPT !.records[CHOOSE j \in of : TRUE] = r, !.pendingSwept = @ \cup {r}]
    BY DEF markSwept
  <2>. HIDE DEF of
  <2>5. CASE m.records[i].by = 0
    <3>1. of /= {} /\ (CHOOSE j \in of : TRUE) = i
      BY <2>2, <2>3, <2>5
    <3>. QED BY <2>4, <2>5, <3>1 DEF Flipped
  <2>6. CASE m.records[i].by /= 0
    BY <2>2, <2>4, <2>6
  <2>. QED BY <2>5, <2>6
<1>2. ~Has(m, chain[b].addr) => markSwept(m, b) = m
  <2>1. ASSUME ~Has(m, chain[b].addr) PROVE bySalt(m, chain[b].addr) = {}
    BY <2>1, BySaltFacts
  <2>. QED BY <2>1 DEF markSwept
<1>. QED BY <1>1, <1>2

\* The first p sweeps are told, and the next to be applied is b.
Applying(m, p, b) ==
    /\ Inv /\ m \in Registry /\ p \in Nat /\ MemOK(m, p)
    /\ b \in 1..Len(chain) /\ b <= p + 1

After(p, b) == IF b <= p THEN p ELSE b

LEMMA ApplyingFacts ==
    ASSUME NEW m, NEW p, NEW b, Applying(m, p, b)
    PROVE  /\ chain \in Seq(Tx) /\ chain[b] \in Tx /\ IsShown(chain[b].addr)
           /\ b \in Nat \ {0}
           /\ After(p, b) \in Nat /\ p <= After(p, b) /\ After(p, b) <= Len(chain)
           /\ m.records \in Seq(Row)
<1>1. /\ chain \in Seq(Tx) /\ b \in 1..Len(chain) /\ p \in Nat /\ m \in Registry
      /\ p <= Len(chain)
  BY DEF Applying, Inv, Typed, MemOK
<1>2. IsShown(chain[b].addr)
  <2>1. chain[b] \in Tx /\ b \in DOMAIN chain
    BY <1>1
  <2>2. <<chain[b].addr, chain[b].label>> \in shown
    BY <2>1 DEF Applying, Inv, MoneyOK, NotesGoToTheAnnounced
  <2>3. chain[b].label \in Label
    BY <2>1 DEF Tx
  <2>. QED BY <2>2, <2>3 DEF IsShown
<1>. QED BY <1>1, <1>2 DEF After, Registry

LEMMA StillKeeps ==
    ASSUME NEW m, NEW p, NEW b, Applying(m, p, b),
           \/ ~receive /\ ~Has(m, chain[b].addr)
           \/ \E i \in DOMAIN m.records : m.records[i].addr = chain[b].addr /\ m.records[i].by /= 0
    PROVE  MemOK(m, After(p, b))
<1> DEFINE a == chain[b].addr
           q == After(p, b)
<1>1. /\ b \in Nat \ {0} /\ p \in Nat /\ b <= p + 1 /\ q = After(p, b)
      /\ q \in Nat /\ p <= q /\ q <= Len(chain)
  BY ApplyingFacts DEF Applying
<1>2. /\ \A x : x /= a => FirstSweep(x, q) = FirstSweep(x, p)
      /\ FirstSweep(a, p) /= 0 => FirstSweep(a, q) = FirstSweep(a, p)
  BY <1>1, OneMoreSweep DEF After
<1>3. MemOK(m, p)
  BY DEF Applying
<1>. HIDE DEF a
<1>4. ASSUME NEW i \in DOMAIN m.records
      PROVE  FirstSweep(m.records[i].addr, q) = FirstSweep(m.records[i].addr, p)
  <2>1. CASE m.records[i].addr /= a
    BY <1>2, <2>1
  <2>2. CASE m.records[i].addr = a
    <3>1. Has(m, a)
      BY <2>2 DEF Has
    <3>2. PICK j \in DOMAIN m.records : m.records[j].addr = a /\ m.records[j].by /= 0
      BY <3>1 DEF a
    <3>3. FirstSweep(a, p) /= 0
      BY <1>3, <3>2 DEF MemOK, RecordsOK
    <3>. QED BY <1>2, <2>2, <3>3
  <2>. QED BY <2>1, <2>2
<1>5. RecordsOK(m, q)
  BY <1>3, <1>4 DEF MemOK, RecordsOK
<1>6. ServedOK(m, q)
  <2>1. ASSUME receive, NEW k \in 1..q PROVE Has(m, chain[k].addr)
    <3>1. CASE k <= p
      BY <1>1, <1>3, <2>1, <3>1 DEF MemOK, ServedOK
    <3>2. CASE ~ k <= p
      <4>1. k = b
        BY <1>1, <2>1, <3>2 DEF After
      <4>. QED BY <2>1, <4>1 DEF Has, a
    <3>. QED BY <3>1, <3>2
  <2>. QED BY <1>3, <2>1 DEF MemOK, ServedOK
<1>. QED BY <1>1, <1>3, <1>5, <1>6 DEF MemOK, Applying, Inv, RowsOK, Typed, Registry

LEMMA FlippedFacts ==
    ASSUME NEW m \in Registry, NEW b \in Nat, NEW i \in DOMAIN m.records
    PROVE  /\ Flipped(m, i, b) \in Registry
           /\ Flipped(m, i, b).seq = m.seq
           /\ Flipped(m, i, b).lastBlock = m.lastBlock
           /\ Flipped(m, i, b).upTo = m.upTo
           /\ Flipped(m, i, b).pendingInserts = m.pendingInserts
           /\ Flipped(m, i, b).pendingSwept = m.pendingSwept \cup {Flipped(m, i, b).records[i]}
           /\ DOMAIN Flipped(m, i, b).records = DOMAIN m.records
           /\ Flipped(m, i, b).records[i].seq = m.records[i].seq
           /\ Flipped(m, i, b).records[i].addr = m.records[i].addr
           /\ Flipped(m, i, b).records[i].label = m.records[i].label
           /\ Flipped(m, i, b).records[i].by = b
           /\ \A j \in DOMAIN m.records : j /= i => Flipped(m, i, b).records[j] = m.records[j]
<1> DEFINE r == [m.records[i] EXCEPT !.by = b]
           s == [m.records EXCEPT ![i] = r]
<1>1. m.records \in Seq(Row) /\ m.records[i] \in Row /\ m.pendingSwept \subseteq Row
  BY DEF Registry
<1>2. /\ r \in Row /\ r.seq = m.records[i].seq /\ r.addr = m.records[i].addr
      /\ r.label = m.records[i].label /\ r.by = b
  BY <1>1 DEF Row
<1>. HIDE DEF r
<1>3. /\ s \in Seq(Row) /\ DOMAIN s = DOMAIN m.records /\ s[i] = r
      /\ \A j \in DOMAIN m.records : j /= i => s[j] = m.records[j]
  <2>1. i \in 1..Len(m.records)
    BY <1>1
  <2>. QED BY <1>1, <1>2, <2>1, ExceptSeq
<1>4. Flipped(m, i, b) = [m EXCEPT !.records = s, !.pendingSwept = @ \cup {r}]
  BY DEF Flipped, r, Registry
<1>. HIDE DEF s
<1>5. m.pendingSwept \cup {r} \subseteq Row
  BY <1>1, <1>2
<1>6. /\ Flipped(m, i, b) \in Registry
      /\ Flipped(m, i, b).records = s
      /\ Flipped(m, i, b).pendingSwept = m.pendingSwept \cup {r}
      /\ Flipped(m, i, b).pendingInserts = m.pendingInserts
      /\ Flipped(m, i, b).seq = m.seq
      /\ Flipped(m, i, b).lastBlock = m.lastBlock
      /\ Flipped(m, i, b).upTo = m.upTo
  BY <1>3, <1>4, <1>5 DEF Registry
<1>. QED BY <1>2, <1>3, <1>6

LEMMA FlipKeeps ==
    ASSUME NEW m, NEW p, NEW b, Applying(m, p, b),
           NEW i \in DOMAIN m.records, m.records[i].addr = chain[b].addr, m.records[i].by = 0
    PROVE  Flipped(m, i, b) \in Registry /\ MemOK(Flipped(m, i, b), After(p, b))
<1> DEFINE a == chain[b].addr
           q == After(p, b)
           n == Flipped(m, i, b)
<1>1. /\ b \in Nat \ {0} /\ p \in Nat /\ b <= p + 1 /\ q = After(p, b)
      /\ q \in Nat /\ p <= q /\ q <= Len(chain) /\ m \in Registry
  BY ApplyingFacts DEF Applying
<1>2. /\ n \in Registry /\ n.seq = m.seq /\ n.lastBlock = m.lastBlock /\ n.upTo = m.upTo
      /\ n.pendingInserts = m.pendingInserts
      /\ n.pendingSwept = m.pendingSwept \cup {n.records[i]}
      /\ DOMAIN n.records = DOMAIN m.records
      /\ n.records[i].seq = m.records[i].seq /\ n.records[i].addr = m.records[i].addr
      /\ n.records[i].label = m.records[i].label /\ n.records[i].by = b
      /\ \A j \in DOMAIN m.records : j /= i => n.records[j] = m.records[j]
  BY <1>1, FlippedFacts
<1>3. MemOK(m, p)
  BY DEF Applying
<1>4. FirstSweep(a, p) = 0
  BY <1>3 DEF MemOK, RecordsOK
<1>5. /\ \A x : x /= a => FirstSweep(x, q) = FirstSweep(x, p)
      /\ FirstSweep(a, q) = b /\ q = b
  BY <1>1, <1>4, OneMoreSweep DEF After
<1>6. m.records[i].label /= NoLabel
  BY <1>3 DEF MemOK, RecordsOK
<1>7. m.records[i].addr = a
  BY DEF a
<1>8. \A j \in DOMAIN m.records : /\ n.records[j].seq = m.records[j].seq
                                  /\ n.records[j].addr = m.records[j].addr
                                  /\ n.records[j].label = m.records[j].label
  BY <1>2
<1>. HIDE DEF a, q, n
<1>9. RecordsOK(n, q)
  <2>1. \A j, k \in DOMAIN m.records :
           m.records[j].addr = m.records[k].addr \/ m.records[j].seq = m.records[k].seq => j = k
    BY <1>3 DEF MemOK, RecordsOK
  <2>2. ASSUME NEW j \in DOMAIN m.records
        PROVE  /\ n.records[j].seq < n.seq
               /\ n.records[j].by = FirstSweep(n.records[j].addr, q)
               /\ n.records[j].label = NoLabel => n.records[j].by /= 0
    <3>1. /\ m.records[j].seq < m.seq
          /\ m.records[j].by = FirstSweep(m.records[j].addr, p)
          /\ m.records[j].label = NoLabel => m.records[j].by /= 0
      BY <1>3 DEF MemOK, RecordsOK
    <3>2. CASE j = i
      BY <1>1, <1>2, <1>5, <1>7, <3>1, <3>2
    <3>3. CASE j /= i
      <4>1. m.records[j].addr /= a
        BY <1>7, <2>1, <3>3
      <4>. QED BY <1>2, <1>5, <3>1, <3>3, <4>1
    <3>. QED BY <3>2, <3>3
  <2>. QED BY <1>2, <1>8, <2>1, <2>2 DEF RecordsOK
<1>10. m.records[i] \notin m.pendingInserts
  BY <1>3, <1>6 DEF MemOK, BuffersOK
<1>11. StoredOK(n)
  <2>1. ASSUME NEW j \in DOMAIN m.records
        PROVE  \/ n.records[j] \in n.pendingInserts
               \/ \E s \in db.rows : /\ Stored(n.records[j], s)
                                     /\ n.records[j].by /= 0 => s.by /= 0 \/ n.records[j] \in n.pendingSwept
    <3>1. \/ m.records[j] \in m.pendingInserts
          \/ \E s \in db.rows : /\ Stored(m.records[j], s)
                                /\ m.records[j].by /= 0 => s.by /= 0 \/ m.records[j] \in m.pendingSwept
      BY <1>3 DEF MemOK, StoredOK
    <3>2. CASE j = i
      <4>1. PICK s \in db.rows : Stored(m.records[i], s)
        BY <1>10, <3>1, <3>2
      <4>2. Stored(n.records[i], s)
        BY <1>8, <4>1 DEF Stored
      <4>3. n.records[i] \in n.pendingSwept
        BY <1>2
      <4>. QED BY <3>2, <4>2, <4>3
    <3>3. CASE j /= i
      <4>1. n.records[j] = m.records[j]
        BY <1>2, <3>3
      <4>2. m.pendingSwept \subseteq n.pendingSwept /\ m.pendingInserts = n.pendingInserts
        BY <1>2
      <4>. QED BY <3>1, <4>1, <4>2
    <3>. QED BY <3>2, <3>3
  <2>. QED BY <1>2, <2>1 DEF StoredOK
<1>12. BuffersOK(n)
  <2>1. ASSUME NEW r \in n.pendingInserts
        PROVE  /\ \E j \in DOMAIN n.records : n.records[j] = r
               /\ r.label = NoLabel
               /\ Conflicts(r) => r \in db.rows
    <3>1. r \in m.pendingInserts
      BY <1>2
    <3>2. PICK j \in DOMAIN m.records : m.records[j] = r
      BY <1>3, <3>1 DEF MemOK, BuffersOK
    <3>3. r.label = NoLabel /\ (Conflicts(r) => r \in db.rows)
      BY <1>3, <3>1 DEF MemOK, BuffersOK
    <3>4. j /= i
      BY <1>6, <3>2, <3>3
    <3>. QED BY <1>2, <3>2, <3>3, <3>4
  <2>2. ASSUME NEW r \in n.pendingSwept
        PROVE  /\ \E j \in DOMAIN n.records : n.records[j] = r
               /\ r.label /= NoLabel /\ r.by /= 0
    <3>1. CASE r = n.records[i]
      BY <1>1, <1>2, <1>6, <3>1
    <3>2. CASE r \in m.pendingSwept
      <4>1. PICK j \in DOMAIN m.records : m.records[j] = r
        BY <1>3, <3>2 DEF MemOK, BuffersOK
      <4>2. r.label /= NoLabel /\ r.by /= 0
        BY <1>3, <3>2 DEF MemOK, BuffersOK
      <4>3. j /= i
        BY <4>1, <4>2
      <4>. QED BY <1>2, <4>1, <4>2, <4>3
    <3>. QED BY <1>2, <3>1, <3>2
  <2>. QED BY <2>1, <2>2 DEF BuffersOK
<1>13. \A x : Has(m, x) => Has(n, x)
  BY <1>2, <1>8 DEF Has
<1>14. ServedOK(n, q)
  <2>1. ServedOK(m, p)
    BY <1>3 DEF MemOK
  <2>2. ASSUME receive, NEW k \in 1..q PROVE Has(n, chain[k].addr)
    <3>1. CASE k <= p
      BY <1>1, <1>13, <2>1, <2>2, <3>1 DEF ServedOK
    <3>2. CASE ~ k <= p
      <4>1. k = b
        BY <1>1, <1>5, <2>2, <3>2 DEF After
      <4>2. n.records[i].addr = chain[k].addr
        BY <1>2, <4>1
      <4>. QED BY <1>2, <4>2 DEF Has
    <3>. QED BY <3>1, <3>2
  <2>. QED BY <1>2, <1>13, <2>1, <2>2 DEF ServedOK
<1>15. RequestsOK(n)
  BY <1>2, <1>3, <1>8 DEF MemOK, RequestsOK
<1>16. db.cursor <= q /\ n.lastBlock <= q
  <2>1. db.cursor <= p /\ m.lastBlock <= p
    BY <1>3 DEF MemOK
  <2>2. db.cursor \in Nat /\ m.lastBlock \in Nat
    BY <1>1 DEF Applying, Inv, Typed, Registry
  <2>. QED BY <1>1, <1>2, <2>1, <2>2
<1>17. MemOK(n, q)
  BY <1>1, <1>9, <1>11, <1>12, <1>14, <1>15, <1>16 DEF MemOK
<1>. QED BY <1>2, <1>17 DEF n, q

\* A sweep of an address that is not recorded.
Announced(m, b) == [seq |-> m.seq, addr |-> chain[b].addr, label |-> NoLabel, by |-> b]

Indexed(m, b) ==
    [index(m, Announced(m, b)) EXCEPT !.seq = @ + 1, !.pendingInserts = @ \cup {Announced(m, b)}]

LEMMA IndexedFacts ==
    ASSUME NEW m \in Registry, NEW b \in Nat, chain[b] \in Tx
    PROVE  /\ Announced(m, b) \in Row
           /\ Indexed(m, b) \in Registry
           /\ Indexed(m, b).seq = m.seq + 1
           /\ Indexed(m, b).lastBlock = m.lastBlock
           /\ Indexed(m, b).upTo = m.upTo
           /\ Indexed(m, b).pendingInserts = m.pendingInserts \cup {Announced(m, b)}
           /\ Indexed(m, b).pendingSwept = m.pendingSwept
           /\ DOMAIN m.records = 1..Len(m.records) /\ Len(m.records) \in Nat
           /\ DOMAIN Indexed(m, b).records = 1..(Len(m.records) + 1)
           /\ Indexed(m, b).records[Len(m.records) + 1] = Announced(m, b)
           /\ \A j \in DOMAIN m.records : Indexed(m, b).records[j] = m.records[j]
<1> DEFINE r == Announced(m, b)
           s == Append(m.records, r)
<1>1. m.records \in Seq(Row) /\ m.seq \in Nat /\ m.pendingInserts \subseteq Row
  BY DEF Registry
<1>2. r \in Row
  BY <1>1 DEF Row, Tx, Announced
<1>. HIDE DEF r
<1>3. /\ s \in Seq(Row) /\ DOMAIN s = 1..(Len(m.records) + 1)
      /\ DOMAIN m.records = 1..Len(m.records) /\ Len(m.records) \in Nat
      /\ s[Len(m.records) + 1] = r
      /\ \A j \in DOMAIN m.records : s[j] = m.records[j]
  BY <1>1, <1>2
<1>. HIDE DEF s
<1> DEFINE k == index(m, r)
<1>4. /\ k \in Registry /\ k.records = s /\ k.seq = m.seq
      /\ k.pendingInserts = m.pendingInserts /\ k.pendingSwept = m.pendingSwept
      /\ k.lastBlock = m.lastBlock /\ k.upTo = m.upTo
  <2>1. k = [m EXCEPT !.records = s]
    BY DEF index, s
  <2>. QED BY <1>3, <2>1 DEF Registry
<1>5. Indexed(m, b) = [k EXCEPT !.seq = @ + 1, !.pendingInserts = @ \cup {r}]
  BY DEF Indexed, r
<1>. HIDE DEF k
<1>6. m.pendingInserts \cup {r} \in SUBSET Row /\ m.seq + 1 \in Nat
  BY <1>1, <1>2
<1>7. /\ Indexed(m, b) \in Registry
      /\ Indexed(m, b).records = s
      /\ Indexed(m, b).pendingInserts = m.pendingInserts \cup {r}
      /\ Indexed(m, b).pendingSwept = m.pendingSwept
      /\ Indexed(m, b).seq = m.seq + 1
      /\ Indexed(m, b).lastBlock = m.lastBlock
      /\ Indexed(m, b).upTo = m.upTo
  BY <1>4, <1>5, <1>6 DEF Registry
<1>. QED BY <1>2, <1>3, <1>7 DEF r

LEMMA IndexKeeps ==
    ASSUME NEW m, NEW p, NEW b, Applying(m, p, b), receive, ~Has(m, chain[b].addr)
    PROVE  Indexed(m, b) \in Registry /\ MemOK(Indexed(m, b), After(p, b))
<1> DEFINE a == chain[b].addr
           q == After(p, b)
           n == Indexed(m, b)
           r == Announced(m, b)
           last == Len(m.records) + 1
<1>1. /\ b \in Nat \ {0} /\ p \in Nat /\ b <= p + 1 /\ q = After(p, b)
      /\ q \in Nat /\ p <= q /\ q <= Len(chain) /\ m \in Registry /\ chain[b] \in Tx
      /\ IsShown(a)
  BY ApplyingFacts DEF Applying
<1>2. /\ n \in Registry /\ n.seq = m.seq + 1 /\ n.lastBlock = m.lastBlock /\ n.upTo = m.upTo
      /\ n.pendingInserts = m.pendingInserts \cup {r}
      /\ n.pendingSwept = m.pendingSwept
      /\ DOMAIN m.records = 1..Len(m.records) /\ Len(m.records) \in Nat
      /\ DOMAIN n.records = 1..last
      /\ n.records[last] = r
      /\ \A j \in DOMAIN m.records : n.records[j] = m.records[j]
  BY <1>1, IndexedFacts
<1>3. r.seq = m.seq /\ r.addr = a /\ r.label = NoLabel /\ r.by = b /\ m.seq \in Nat
  BY <1>1 DEF Announced, Registry
<1>4. MemOK(m, p) /\ Typed
  BY DEF Applying, Inv
<1>5. FirstSweep(a, p) = 0
  <2>1. \A k \in 1..p : chain[k].addr /= a
    BY <1>4 DEF MemOK, ServedOK
  <2>. QED BY <1>1, <2>1, FirstSweepFacts
<1>6. /\ \A x : x /= a => FirstSweep(x, q) = FirstSweep(x, p)
      /\ FirstSweep(a, q) = b /\ q = b
  BY <1>1, <1>5, OneMoreSweep DEF After
<1>7. last \notin DOMAIN m.records /\ DOMAIN n.records = DOMAIN m.records \cup {last}
  BY <1>2
<1>8. \A j \in DOMAIN m.records : /\ m.records[j].addr /= a /\ m.records[j] \in Row
                                  /\ m.records[j].seq < m.seq
  BY <1>1, <1>4 DEF Has, MemOK, RecordsOK, Registry
<1>9. ~Conflicts(r)
  <2>1. ASSUME NEW s \in db.rows PROVE s.seq /= r.seq /\ s.addr /= r.addr
    <3>1. s.seq < m.seq /\ (IsShown(s.addr) => Has(m, s.addr))
      BY <1>4 DEF MemOK, ServedOK
    <3>2. s.seq \in Nat
      BY <1>4 DEF Typed, Row
    <3>3. s.addr /= a
      BY <1>1, <3>1
    <3>. QED BY <1>3, <3>1, <3>2, <3>3
  <2>. QED BY <2>1 DEF Conflicts
<1>. HIDE DEF a, q, n, r, last
<1>10. RecordsOK(n, q)
  <2>1. ASSUME NEW j \in DOMAIN n.records, NEW k \in DOMAIN n.records,
               n.records[j].addr = n.records[k].addr \/ n.records[j].seq = n.records[k].seq
        PROVE  j = k
    <3>1. CASE j = last /\ k \in DOMAIN m.records
      <4>1. m.records[k].addr /= a /\ m.records[k].seq < m.seq /\ m.records[k].seq \in Nat
        BY <1>8, <3>1 DEF Row
      <4>. QED BY <1>2, <1>3, <2>1, <3>1, <4>1
    <3>2. CASE k = last /\ j \in DOMAIN m.records
      <4>1. m.records[j].addr /= a /\ m.records[j].seq < m.seq /\ m.records[j].seq \in Nat
        BY <1>8, <3>2 DEF Row
      <4>. QED BY <1>2, <1>3, <2>1, <3>2, <4>1
    <3>3. CASE j \in DOMAIN m.records /\ k \in DOMAIN m.records
      BY <1>2, <1>4, <2>1, <3>3 DEF MemOK, RecordsOK
    <3>. QED BY <1>7, <3>1, <3>2, <3>3
  <2>2. ASSUME NEW j \in DOMAIN n.records
        PROVE  /\ n.records[j].seq < n.seq
               /\ n.records[j].by = FirstSweep(n.records[j].addr, q)
               /\ n.records[j].label = NoLabel => n.records[j].by /= 0
    <3>1. CASE j = last
      BY <1>1, <1>2, <1>3, <1>6, <3>1
    <3>2. CASE j \in DOMAIN m.records
      <4>1. /\ m.records[j].seq < m.seq /\ m.records[j].seq \in Nat
            /\ m.records[j].by = FirstSweep(m.records[j].addr, p)
            /\ m.records[j].label = NoLabel => m.records[j].by /= 0
        BY <1>4, <1>8, <3>2 DEF MemOK, RecordsOK, Row
      <4>. QED BY <1>2, <1>3, <1>6, <1>8, <3>2, <4>1
    <3>. QED BY <1>7, <3>1, <3>2
  <2>. QED BY <2>1, <2>2 DEF RecordsOK
<1>11. StoredOK(n)
  BY <1>2, <1>4, <1>7 DEF MemOK, StoredOK
<1>12. BuffersOK(n)
  <2>1. BuffersOK(m)
    BY <1>4 DEF MemOK
  <2>2. \A x : (\E j \in DOMAIN m.records : m.records[j] = x) => \E j \in DOMAIN n.records : n.records[j] = x
    BY <1>2, <1>7
  <2>3. \E j \in DOMAIN n.records : n.records[j] = r
    BY <1>2, <1>7
  <2>. QED BY <1>2, <1>3, <1>9, <2>1, <2>2, <2>3 DEF BuffersOK
<1>13. \A x : Has(m, x) => Has(n, x)
  BY <1>2, <1>7 DEF Has
<1>14. ServedOK(n, q)
  <2>1. ServedOK(m, p)
    BY <1>4 DEF MemOK
  <2>2. ASSUME receive, NEW k \in 1..q PROVE Has(n, chain[k].addr)
    <3>1. CASE k <= p
      BY <1>1, <1>13, <2>1, <2>2, <3>1 DEF ServedOK
    <3>2. CASE ~ k <= p
      <4>1. k = b
        BY <1>1, <1>6, <2>2, <3>2 DEF After
      <4>2. n.records[last].addr = chain[k].addr
        BY <1>2, <1>3, <4>1 DEF a
      <4>. QED BY <1>7, <4>2 DEF Has
    <3>. QED BY <3>1, <3>2
  <2>3. ASSUME NEW s \in db.rows PROVE s.seq < n.seq /\ (IsShown(s.addr) => Has(n, s.addr))
    <3>1. s.seq < m.seq /\ (IsShown(s.addr) => Has(m, s.addr)) /\ s.seq \in Nat
      BY <1>4, <2>1 DEF ServedOK, Typed, Row
    <3>. QED BY <1>2, <1>3, <1>13, <3>1
  <2>. QED BY <2>2, <2>3 DEF ServedOK
<1>15. RequestsOK(n)
  <2>1. RequestsOK(m)
    BY <1>4 DEF MemOK
  <2>2. ASSUME NEW s \in requests
        PROVE  s.seq < n.seq /\ \A j \in DOMAIN n.records : n.records[j].seq /= s.seq
    <3>1. s.seq < m.seq /\ s.seq \in Nat /\ \A j \in DOMAIN m.records : m.records[j].seq /= s.seq
      BY <1>4, <2>1 DEF RequestsOK, Typed, Row
    <3>2. s.seq < m.seq + 1
      BY <1>3, <3>1
    <3>3. ASSUME NEW j \in DOMAIN n.records PROVE n.records[j].seq /= s.seq
      <4>1. CASE j = last
        BY <1>2, <1>3, <3>1, <4>1
      <4>2. CASE j \in DOMAIN m.records
        BY <1>2, <3>1, <4>2
      <4>. QED BY <1>7, <4>1, <4>2
    <3>. QED BY <1>2, <3>2, <3>3
  <2>. QED BY <2>1, <2>2 DEF RequestsOK
<1>16. db.cursor <= q /\ n.lastBlock <= q
  <2>1. db.cursor <= p /\ m.lastBlock <= p
    BY <1>4 DEF MemOK
  <2>2. db.cursor \in Nat /\ m.lastBlock \in Nat
    BY <1>1, <1>4 DEF Typed, Registry
  <2>. QED BY <1>1, <1>2, <2>1, <2>2
<1>17. MemOK(n, q)
  BY <1>1, <1>10, <1>11, <1>12, <1>14, <1>15, <1>16 DEF MemOK
<1>. QED BY <1>2, <1>17 DEF n, q

LEMMA ApplyLogKeeps ==
    ASSUME NEW m, NEW p, NEW b, Applying(m, p, b)
    PROVE  /\ applyLog(m, b) \in Registry
           /\ MemOK(applyLog(m, b), After(p, b))
           /\ applyLog(m, b).lastBlock = m.lastBlock
           /\ applyLog(m, b).upTo = m.upTo
<1> DEFINE a == chain[b].addr
<1>1. m \in Registry /\ MemOK(m, p) /\ b \in Nat /\ chain[b] \in Tx
  BY ApplyingFacts DEF Applying
<1>2. \A i, j \in DOMAIN m.records : m.records[i].addr = m.records[j].addr => i = j
  BY <1>1 DEF MemOK, RecordsOK
<1>3. ASSUME NEW i \in DOMAIN m.records, m.records[i].addr = a, m.records[i].by = 0
      PROVE  applyLog(m, b) = Flipped(m, i, b)
  <2> DEFINE n == Flipped(m, i, b)
  <2>1. markSwept(m, b) = n
    BY <1>1, <1>2, <1>3, MarkFacts
  <2>2. /\ n \in Registry /\ DOMAIN n.records = DOMAIN m.records
        /\ \A j \in DOMAIN m.records : n.records[j].addr = m.records[j].addr
    BY <1>1, FlippedFacts
  <2>. HIDE DEF n
  <2>3. hasStealth(n, a)
    <3>1. Has(n, a)
      BY <1>3, <2>2 DEF Has
    <3>. QED BY <1>2, <2>2, <3>1, BySaltFacts
  <2>4. applyLog(m, b) = recordChainAnnouncement(n, b)
    BY <2>1 DEF applyLog
  <2>. QED BY <2>3, <2>4 DEF recordChainAnnouncement, n
<1>4. ASSUME NEW i \in DOMAIN m.records, m.records[i].addr = a, m.records[i].by /= 0
      PROVE  applyLog(m, b) = m
  <2>1. markSwept(m, b) = m
    BY <1>1, <1>2, <1>4, MarkFacts
  <2>2. hasStealth(m, a)
    <3>1. Has(m, a)
      BY <1>4 DEF Has
    <3>. QED BY <1>1, <1>2, <3>1, BySaltFacts
  <2>. QED BY <2>1, <2>2 DEF applyLog, recordChainAnnouncement
<1>5. ASSUME ~Has(m, a)
      PROVE  applyLog(m, b) = IF receive THEN Indexed(m, b) ELSE m
  <2>1. markSwept(m, b) = m
    BY <1>1, <1>2, <1>5, MarkFacts
  <2>2. ~hasStealth(m, a)
    BY <1>1, <1>2, <1>5, BySaltFacts
  <2>. QED BY <2>1, <2>2 DEF applyLog, recordChainAnnouncement, Indexed, Announced
<1>6. CASE Has(m, a)
  <2>1. PICK i \in DOMAIN m.records : m.records[i].addr = a
    BY <1>6 DEF Has
  <2>2. CASE m.records[i].by = 0
    <3>1. applyLog(m, b) = Flipped(m, i, b)
      BY <1>3, <2>1, <2>2
    <3>2. Flipped(m, i, b) \in Registry /\ MemOK(Flipped(m, i, b), After(p, b))
      BY <2>1, <2>2, FlipKeeps
    <3>3. Flipped(m, i, b).lastBlock = m.lastBlock /\ Flipped(m, i, b).upTo = m.upTo
      BY <1>1, FlippedFacts
    <3>. QED BY <3>1, <3>2, <3>3
  <2>3. CASE m.records[i].by /= 0
    BY <1>1, <1>4, <2>1, <2>3, StillKeeps
  <2>. QED BY <2>2, <2>3
<1>7. CASE ~Has(m, a) /\ receive
  <2>1. Indexed(m, b).lastBlock = m.lastBlock /\ Indexed(m, b).upTo = m.upTo
    BY <1>1, IndexedFacts
  <2>. QED BY <1>5, <1>7, <2>1, IndexKeeps
<1>8. CASE ~Has(m, a) /\ ~receive
  BY <1>1, <1>5, <1>8, StillKeeps
<1>. QED BY <1>6, <1>7, <1>8

-----------------------------------------------------------------------------
(* The logs of a range are applied.                                        *)

Largest(S) == CHOOSE x \in S : \A y \in S : x >= y

\* What a fold leaves of every part of the places of a range.
IsFold(g, m, range) ==
    g = [S \in SUBSET DOMAIN range |->
            IF S = {} THEN m ELSE applyLog(g[S \ {Largest(S)}], range[Largest(S)])]

LEMMA FoldChosen ==
    ASSUME NEW m, NEW range
    PROVE  FoldLeft(applyLog, m, range) = (CHOOSE g : IsFold(g, m, range))[DOMAIN range]
BY DEF FoldLeft, MapThenFoldSet, IsFold, Largest, Max

LEMMA LargestFacts ==
    /\ \A k \in Nat \ {0} : Largest(1..k) = k /\ (1..k) \ {k} = 1..(k - 1)
    /\ \A k \in Nat \ {0} : \A S \in SUBSET (1..k) : k \in S => Largest(S) = k
<1>1. ASSUME NEW k \in Nat \ {0}, NEW S \in SUBSET (1..k), k \in S PROVE Largest(S) = k
  <2>1. \A y \in S : k >= y
    BY <1>1
  <2>2. \A x \in S : (\A y \in S : x >= y) => x = k
    BY <1>1
  <2>. QED BY <1>1, <2>1, <2>2 DEF Largest
<1>2. ASSUME NEW k \in Nat \ {0} PROVE Largest(1..k) = k /\ (1..k) \ {k} = 1..(k - 1)
  <2>1. k \in 1..k
    OBVIOUS
  <2>. QED BY <1>1, <2>1
<1>. QED BY <1>1, <1>2

LEMMA FoldExists ==
    ASSUME NEW m, NEW n \in Nat, NEW range, DOMAIN range = 1..n
    PROVE  \E g : IsFold(g, m, range)
<1> DEFINE Is(g, k) ==
             g = [S \in SUBSET (1..k) |->
                     IF S = {} THEN m ELSE applyLog(g[S \ {Largest(S)}], range[Largest(S)])]
           Bad == {k \in Nat : ~ \E g : Is(g, k)}
<1>1. SUFFICES Bad = {}
  <2>1. CASE Bad = {}
    <3>1. \E g : Is(g, n)
      BY <2>1
    <3>. QED BY <3>1 DEF IsFold
  <2>. QED BY <2>1
<1>2. SUFFICES ASSUME Bad /= {} PROVE FALSE
  OBVIOUS
<1>3. PICK k \in Bad : \A j \in Bad : k <= j
  <2>1. Bad \subseteq Nat
    OBVIOUS
  <2>. HIDE DEF Bad
  <2>. QED BY <1>2, <2>1, Least
<1>4. k /= 0
  <2>1. SUBSET (1..0) = {{}}
    OBVIOUS
  <2>2. Is([S \in SUBSET (1..0) |-> m], 0)
    BY <2>1
  <2>. QED BY <2>2
<1>5. PICK f : Is(f, k - 1)
  <2>1. k - 1 \in Nat /\ ~(k <= k - 1)
    BY <1>4
  <2>. QED BY <1>3, <2>1
<1> DEFINE top(S) == applyLog(f[S \ {k}], range[k])
           g == [S \in SUBSET (1..k) |-> IF k \in S THEN top(S) ELSE f[S]]
<1>6. k \in Nat \ {0}
  BY <1>4
<1>7. ASSUME NEW S \in SUBSET (1..k)
      PROVE  g[S] = IF S = {} THEN m ELSE applyLog(g[S \ {Largest(S)}], range[Largest(S)])
  <2>1. CASE k \in S
    <3>1. Largest(S) = k
      BY <1>6, <2>1, LargestFacts
    <3>2. S \ {k} \in SUBSET (1..k) /\ k \notin S \ {k}
      OBVIOUS
    <3>3. g[S \ {k}] = f[S \ {k}]
      BY <3>2
    <3>4. g[S] = top(S)
      BY <2>1
    <3>. HIDE DEF g
    <3>. QED BY <2>1, <3>1, <3>3, <3>4
  <2>2. CASE k \notin S
    <3>1. S \in SUBSET (1..(k - 1))
      BY <1>6, <2>2
    <3>2. f[S] = IF S = {} THEN m ELSE applyLog(f[S \ {Largest(S)}], range[Largest(S)])
      BY <1>5, <3>1
    <3>3. S \ {Largest(S)} \in SUBSET (1..k) /\ k \notin S \ {Largest(S)}
      BY <2>2
    <3>4. g[S \ {Largest(S)}] = f[S \ {Largest(S)}] /\ g[S] = f[S]
      BY <2>2, <3>3
    <3>. HIDE DEF g
    <3>. QED BY <3>2, <3>4
  <2>. QED BY <2>1, <2>2
<1>8. Is(g, k)
  <2>1. g = [S \in SUBSET (1..k) |-> g[S]]
    OBVIOUS
  <2>. HIDE DEF g
  <2>. QED BY <1>7, <2>1
<1>. QED BY <1>3, <1>8

\* The range from the block after f to the head.
Range0(f) == [k \in 1..(Len(chain) - f) |-> f + k]

LEMMA ReplayKeeps ==
    ASSUME Inv, NEW m \in Registry, NEW p \in Nat, MemOK(m, p),
           NEW f \in Nat, f < Len(chain), f <= p
    PROVE  /\ FoldLeft(applyLog, m, Range0(f)) \in Registry
           /\ MemOK(FoldLeft(applyLog, m, Range0(f)), Len(chain))
           /\ FoldLeft(applyLog, m, Range0(f)).lastBlock = m.lastBlock
           /\ FoldLeft(applyLog, m, Range0(f)).upTo = m.upTo
<1> DEFINE n == Len(chain) - f
           range == Range0(f)
           g == CHOOSE h : IsFold(h, m, range)
           at(k) == IF f + k <= p THEN p ELSE f + k
           Good(k) == /\ g[1..k] \in Registry /\ MemOK(g[1..k], at(k))
                      /\ g[1..k].lastBlock = m.lastBlock
                      /\ g[1..k].upTo = m.upTo
           Bad == {k \in 0..n : ~Good(k)}
<1>1. chain \in Seq(Tx) /\ Len(chain) \in Nat /\ n \in Nat \ {0} /\ p <= Len(chain)
  BY DEF Inv, Typed, MemOK
<1>2. DOMAIN range = 1..n /\ \A k \in 1..n : range[k] = f + k
  BY DEF Range0
<1>. HIDE DEF n
<1>3. IsFold(g, m, range)
  <2>1. \E h : IsFold(h, m, range)
    <3>. HIDE DEF range
    <3>. QED BY <1>1, <1>2, FoldExists
  <2>. QED BY <2>1
<1>4. FoldLeft(applyLog, m, range) = g[1..n]
  <2>1. FoldLeft(applyLog, m, range) = g[DOMAIN range]
    BY FoldChosen
  <2>. QED BY <1>2, <2>1
<1>. HIDE DEF g
<1>5. g[1..0] = m
  <2>1. 1..0 = {} /\ {} \in SUBSET DOMAIN range
    OBVIOUS
  <2>2. g[{}] = m
    BY <1>3, <2>1 DEF IsFold
  <2>. QED BY <2>1, <2>2
<1>6. ASSUME NEW k \in 1..n PROVE g[1..k] = applyLog(g[1..(k - 1)], f + k)
  <2>1. 1..k \in SUBSET DOMAIN range /\ 1..k /= {} /\ k \in Nat \ {0}
    <3>1. k \in Nat \ {0} /\ n \in Nat /\ k <= n
      BY <1>1
    <3>2. \A j \in 1..k : j \in 1..n
      BY <3>1
    <3>3. k \in 1..k
      BY <3>1
    <3>. HIDE DEF range
    <3>. QED BY <1>2, <3>1, <3>2, <3>3
  <2>2. Largest(1..k) = k /\ (1..k) \ {k} = 1..(k - 1)
    BY <2>1, LargestFacts
  <2>3. g[1..k] = applyLog(g[(1..k) \ {Largest(1..k)}], range[Largest(1..k)])
    BY <1>3, <2>1 DEF IsFold
  <2>. QED BY <1>2, <2>2, <2>3
<1>7. Bad = {}
  <2>1. SUFFICES ASSUME Bad /= {} PROVE FALSE
    OBVIOUS
  <2>2. PICK k \in Bad : \A j \in Bad : k <= j
    <3>1. Bad \subseteq Nat
      BY <1>1
    <3>. HIDE DEF Bad
    <3>. QED BY <2>1, <3>1, Least
  <2>3. k \in 0..n /\ ~Good(k)
    OBVIOUS
  <2>4. k /= 0
    <3>1. at(0) = p
      OBVIOUS
    <3>2. Good(0)
      BY <1>5, <3>1
    <3>. QED BY <2>3, <3>2
  <2>5. Good(k - 1)
    <3>1. k - 1 \in 0..n /\ ~(k <= k - 1)
      BY <1>1, <2>3, <2>4
    <3>. QED BY <2>2, <3>1
  <2> DEFINE l == g[1..(k - 1)]
             b == f + k
  <2>6. Applying(l, at(k - 1), b)
    <3>1. b \in 1..Len(chain) /\ at(k - 1) \in Nat /\ b <= at(k - 1) + 1
      BY <1>1, <2>3, <2>4 DEF n
    <3>. QED BY <2>5, <3>1 DEF Applying
  <2>7. After(at(k - 1), b) = at(k)
    BY <1>1, <2>3, <2>4 DEF After
  <2>8. g[1..k] = applyLog(l, b)
    BY <1>6, <2>3, <2>4
  <2>9. l.lastBlock = m.lastBlock /\ l.upTo = m.upTo
    BY <2>5
  <2> DEFINE q == at(k - 1)
  <2>. HIDE DEF l, b, q
  <2>10. /\ applyLog(l, b) \in Registry
         /\ MemOK(applyLog(l, b), After(q, b))
         /\ applyLog(l, b).lastBlock = l.lastBlock
         /\ applyLog(l, b).upTo = l.upTo
    <3>1. Applying(l, q, b)
      BY <2>6 DEF q
    <3>. QED BY <3>1, ApplyLogKeeps
  <2>11. Good(k)
    <3>1. MemOK(applyLog(l, b), at(k))
      BY <2>7, <2>10 DEF q
    <3>. QED BY <2>8, <2>9, <2>10, <3>1
  <2>. QED BY <2>3, <2>11
<1>8. Good(n)
  <2>1. n \in 0..n
    BY <1>1
  <2>. QED BY <1>7, <2>1
<1>9. at(n) = Len(chain)
  BY <1>1 DEF n
<1>. QED BY <1>4, <1>8, <1>9

-----------------------------------------------------------------------------
(* The steps.                                                              *)

LEMMA InitInv == Init => Inv
<1>. SUFFICES ASSUME Init PROVE Inv
  OBVIOUS
<1>1. Typed
  <2>1. /\ receive \in BOOLEAN /\ NoMem \in Registry /\ IsFiniteSet({})
    BY PortalAssumption, FS_EmptySet DEF Init, NoMem, Registry
  <2>. QED BY <2>1 DEF Init, Typed, NoRound, Tx
<1>2. MoneyOK
  BY DEF Init, MoneyOK, NotesGoToTheAnnounced
<1>3. RowsOK
  BY DEF Init, RowsOK, RowsTellTheFirstSweep, SweptAreRecovered
<1>4. AnnouncedOK /\ ToldOK
  BY DEF Init, AnnouncedOK, ToldOK, Sent, Told, NoRound
<1>5. PhaseOK
  BY DEF Init, PhaseOK, Serving
<1>. QED BY <1>1, <1>2, <1>3, <1>4, <1>5 DEF Inv

LEMMA SameSweeps == UNCHANGED chain => \A a, c : FirstSweep(a, c)' = FirstSweep(a, c)
BY DEF FirstSweep

LEMMA SameRows ==
    ASSUME RowsOK, UNCHANGED <<db, chain, receive>>
    PROVE  RowsOK'
<1>1. \A a, c : FirstSweep(a, c)' = FirstSweep(a, c)
  BY SameSweeps
<1>2. RowsTellTheFirstSweep'
  BY <1>1 DEF RowsOK, RowsTellTheFirstSweep
<1>. QED BY <1>2 DEF RowsOK, SweptAreRecovered

LEMMA SameMem ==
    ASSUME NEW m, NEW p, MemOK(m, p), UNCHANGED <<db, chain, receive, shown, requests>>
    PROVE  MemOK(m, p)'
<1>1. \A a, c : FirstSweep(a, c)' = FirstSweep(a, c)
  BY SameSweeps
<1>2. RecordsOK(m, p)'
  BY <1>1 DEF MemOK, RecordsOK
<1>3. StoredOK(m)' /\ BuffersOK(m)'
  BY DEF MemOK, StoredOK, BuffersOK, Conflicts, Stored
<1>4. ServedOK(m, p)'
  BY DEF MemOK, ServedOK, IsShown, Has
<1>5. RequestsOK(m)'
  BY DEF MemOK, RequestsOK, IsShown, Conflicts
<1>. QED BY <1>2, <1>3, <1>4, <1>5 DEF MemOK

LEMMA SamePhase ==
    ASSUME PhaseOK, UNCHANGED <<phase, mem, db, chain, receive, shown, requests>>
    PROVE  PhaseOK'
<1>1. PICK m, p : m = mem /\ p = Seen
  OBVIOUS
<1>2. mem' = m /\ Seen' = p
  BY <1>1 DEF Seen
<1>3. Serving' => MemOK(mem, Seen)'
  <2>1. Serving => MemOK(m, p)'
    BY <1>1, SameMem DEF PhaseOK
  <2>. QED BY <1>2, <2>1 DEF Serving
<1>4. (phase = "committed" => Covered)'
  BY DEF PhaseOK, Covered, Stored
<1>. QED BY <1>3, <1>4 DEF PhaseOK

\* What the bot takes in hand is in its hand already, or is a row.
LEMMA BotKeeps ==
    ASSUME Inv, BotUnchanged, Typed',
           \A r \in Sent' : r.label \in Label /\ \E s \in Sent \cup db.rows : Route(s) = Route(r)
    PROVE  Inv'
<1>1. UNCHANGED <<chain, balance, asked, requests, shown, mem, db, phase, receive, wipes>>
  BY DEF BotUnchanged, apiVars
<1>2. MoneyOK'
  BY <1>1 DEF Inv, MoneyOK, IsShown, NotesGoToTheAnnounced
<1>3. RowsOK' /\ PhaseOK'
  BY <1>1, SameRows, SamePhase DEF Inv
<1>4. AnnouncedOK'
  <2>1. ASSUME wipes = 0, NEW r \in Sent' PROVE \E q \in db.rows : Route(r) = Route(q)
    <3>1. PICK s \in Sent \cup db.rows : Route(s) = Route(r)
      OBVIOUS
    <3>2. CASE s \in Sent
      BY <2>1, <3>1, <3>2 DEF Inv, AnnouncedOK
    <3>3. CASE s \in db.rows
      BY <3>1, <3>3
    <3>. QED BY <3>2, <3>3
  <2>2. ASSUME wipes = 0, NEW p \in shown PROVE \E q \in db.rows : p = Route(q)
    BY <2>2 DEF Inv, AnnouncedOK
  <2>. QED BY <1>1, <2>1, <2>2 DEF AnnouncedOK, Route
<1>5. ToldOK'
  <2>1. Told' \subseteq Told
    <3>1. ASSUME NEW r \in Sent' PROVE Route(r) \in Told
      <4>1. PICK s \in Sent \cup db.rows : Route(s) = Route(r)
        OBVIOUS
      <4>2. s.label /= NoLabel
        BY <4>1, PortalAssumption DEF Route
      <4>. QED BY <4>1, <4>2 DEF Told
    <3>2. Told' = shown \cup {Route(r) : r \in Sent'}
                        \cup {Route(r) : r \in {q \in requests \cup db.rows : q.label /= NoLabel}}
      BY <1>1 DEF Told, Route
    <3>. QED BY <3>1, <3>2 DEF Told
  <2>. QED BY <1>1, <2>1 DEF Inv, ToldOK
<1>. QED BY <1>2, <1>3, <1>4, <1>5 DEF Inv

LEMMA NextRecordFacts ==
    ASSUME Inv, bot.phase /= "idle"
    PROVE  /\ Head(bot.list) \in Row /\ Head(bot.list) = bot.list[1] /\ 1 \in DOMAIN bot.list
           /\ NextRecord \in [phase : {"idle", "scan", "proving", "sending"}, list : Seq(Row), amount : Nat]
           /\ NextRecord.phase /= "idle" => NextRecord.list /= <<>>
           /\ \A k \in DOMAIN NextRecord.list : \E j \in DOMAIN bot.list : NextRecord.list[k] = bot.list[j]
<1>1. bot.list \in Seq(Row) /\ bot.list /= <<>>
  BY DEF Inv, Typed
<1>2. /\ Tail(bot.list) \in Seq(Row) /\ Len(Tail(bot.list)) = Len(bot.list) - 1
      /\ \A k \in 1..Len(Tail(bot.list)) : Tail(bot.list)[k] = bot.list[k + 1]
      /\ Len(bot.list) \in Nat \ {0} /\ DOMAIN bot.list = 1..Len(bot.list)
      /\ DOMAIN Tail(bot.list) = 1..Len(Tail(bot.list))
      /\ Head(bot.list) \in Row /\ Head(bot.list) = bot.list[1]
  BY <1>1, HeadTailProperties, EmptySeq
<1>3. Len(bot.list) /= 1 => Tail(bot.list) /= <<>>
  <2>1. Len(bot.list) /= 1 => Len(Tail(bot.list)) /= 0
    BY <1>2
  <2>. QED BY <2>1, <1>2, EmptySeq
<1> DEFINE t == Tail(bot.list)
<1>. HIDE DEF t
<1>4. /\ NextRecord.list = t /\ NextRecord.amount = 0
      /\ NextRecord.phase = IF Len(bot.list) = 1 THEN "idle" ELSE "scan"
      /\ NextRecord = [phase |-> NextRecord.phase, list |-> t, amount |-> 0]
  BY DEF NextRecord, t
<1>5. NextRecord \in [phase : {"idle", "scan", "proving", "sending"}, list : Seq(Row), amount : Nat]
  <2>1. t \in Seq(Row) /\ NextRecord.phase \in {"idle", "scan", "proving", "sending"} /\ 0 \in Nat
    BY <1>2, <1>4 DEF t
  <2> DEFINE phs == {"idle", "scan", "proving", "sending"}
             ph == NextRecord.phase
             lists == Seq(Row)
             zero == 0
  <2>2. ph \in phs /\ t \in lists /\ zero \in Nat /\ NextRecord = [phase |-> ph, list |-> t, amount |-> zero]
    BY <1>4, <2>1
  <2>3. NextRecord \in [phase : phs, list : lists, amount : Nat]
    <3>. HIDE DEF phs, ph, lists, zero
    <3>. QED BY <2>2
  <2>. QED BY <2>3
<1>6. \A k \in DOMAIN t : \E j \in DOMAIN bot.list : t[k] = bot.list[j]
  <2>1. ASSUME NEW k \in DOMAIN t PROVE k + 1 \in DOMAIN bot.list /\ t[k] = bot.list[k + 1]
    BY <1>2 DEF t
  <2>. QED BY <2>1
<1>. QED BY <1>2, <1>3, <1>4, <1>5, <1>6 DEF t

LEMMA BotMovesOn ==
    ASSUME Inv, BotUnchanged, UNCHANGED mempool, bot.phase /= "idle", bot' = NextRecord
    PROVE  Inv'
<1>1. Typed'
  BY NextRecordFacts DEF Inv, Typed, BotUnchanged, apiVars
<1>2. ASSUME NEW r \in Sent' PROVE r \in Sent
  BY NextRecordFacts DEF Sent
<1>3. \A r \in Sent : r.label \in Label
  BY DEF Inv, AnnouncedOK
<1>. QED BY <1>1, <1>2, <1>3, BotKeeps

LEMMA ReadBalanceInv == Inv /\ readBalance => Inv'
<1>. SUFFICES ASSUME Inv, readBalance PROVE Inv'
  OBVIOUS
<1>1. bot.phase = "scan" /\ BotUnchanged /\ UNCHANGED mempool
  BY DEF readBalance
<1>2. CASE bot' = NextRecord
  BY <1>1, <1>2, BotMovesOn
<1>3. CASE bot' = [bot EXCEPT !.phase = "proving", !.amount = balance[Head(bot.list).addr]]
  <2>1. balance[Head(bot.list).addr] \in Nat
    BY <1>1, NextRecordFacts DEF Inv, Typed, Row
  <2>2. /\ bot' \in [phase : {"idle", "scan", "proving", "sending"}, list : Seq(Row), amount : Nat]
        /\ bot'.list = bot.list
    BY <1>3, <2>1 DEF Inv, Typed
  <2>3. Typed'
    BY <1>1, <2>2 DEF Inv, Typed, BotUnchanged, apiVars
  <2>4. Sent' = Sent
    BY <1>1, <2>2 DEF Sent
  <2>. QED BY <1>1, <2>3, <2>4, BotKeeps DEF Inv, AnnouncedOK
<1>. QED BY <1>2, <1>3 DEF readBalance

LEMMA SubmitInv == Inv /\ submit => Inv'
<1>. SUFFICES ASSUME Inv, submit PROVE Inv'
  OBVIOUS
<1> DEFINE r == Head(bot.list)
           tx == [addr |-> r.addr, label |-> r.label, amount |-> bot.amount]
<1>1. bot.phase = "proving" /\ BotUnchanged
  BY DEF submit
<1>2. r \in Row /\ r \in Sent
  BY <1>1, NextRecordFacts DEF Sent
<1>. HIDE DEF r
<1>3. CASE bot' = NextRecord /\ mempool' = mempool
  BY <1>1, <1>3, BotMovesOn
<1>4. CASE mempool' = Append(mempool, tx) /\ bot' = [bot EXCEPT !.phase = "sending"]
  <2>1. r.label \in Label
    BY <1>2 DEF Inv, AnnouncedOK
  <2>2. tx \in Tx /\ Route(tx) = Route(r)
    BY <1>2, <2>1 DEF Tx, Row, Inv, Typed, Route
  <2>3. /\ bot' \in [phase : {"idle", "scan", "proving", "sending"}, list : Seq(Row), amount : Nat]
        /\ bot'.list = bot.list
    BY <1>4 DEF Inv, Typed
  <2>. HIDE DEF tx
  <2>4. /\ mempool' \in Seq(Tx)
        /\ \A k \in DOMAIN mempool' : mempool'[k] = tx \/ \E j \in DOMAIN mempool : mempool'[k] = mempool[j]
    <3>1. mempool \in Seq(Tx)
      BY DEF Inv, Typed
    <3>. QED BY <1>4, <2>2, <3>1
  <2>5. Typed'
    BY <1>1, <2>3, <2>4 DEF Inv, Typed, BotUnchanged, apiVars
  <2>6. ASSUME NEW s \in Sent' PROVE s.label \in Label /\ \E q \in Sent \cup db.rows : Route(q) = Route(s)
    <3>1. s \in Sent \/ s = tx
      BY <2>3, <2>4, <2>6 DEF Sent
    <3>2. CASE s \in Sent
      BY <3>2 DEF Inv, AnnouncedOK
    <3>3. CASE s = tx
      BY <1>2, <2>1, <2>2, <3>3 DEF tx
    <3>. QED BY <3>1, <3>2, <3>3
  <2>. QED BY <1>1, <2>5, <2>6, BotKeeps
<1>. QED BY <1>3, <1>4 DEF submit, r

LEMMA FetchUnsweptInv == Inv /\ fetchUnswept => Inv'
<1>. SUFFICES ASSUME Inv, fetchUnswept PROVE Inv'
  OBVIOUS
<1> DEFINE S == {i \in DOMAIN mem.records : mem.records[i].by = 0 /\ mem.records[i].label /= NoLabel}
           unswept == InOrder(S)
           n == Cardinality(S)
           l == [k \in DOMAIN unswept |-> mem.records[unswept[k]]]
<1>1. /\ BotUnchanged /\ UNCHANGED mempool /\ Serving
      /\ unswept /= <<>>
      /\ bot' = [NoRound EXCEPT !.phase = "scan", !.list = l]
  BY DEF fetchUnswept
<1>2. /\ mem.records \in Seq(Row) /\ DOMAIN mem.records = 1..Len(mem.records)
      /\ Len(mem.records) \in Nat
  BY DEF Inv, Typed, Registry
<1>3. S \in SUBSET (1..Len(mem.records))
  BY <1>2
<1>4. IsFiniteSet(S) /\ S \subseteq Nat
  <2>. HIDE DEF S
  <2>1. IsFiniteSet(1..Len(mem.records))
    <3>1. PICK k \in Nat : k = Len(mem.records)
      BY <1>2
    <3>. QED BY <3>1, UpToIsFinite
  <2>2. S \subseteq Nat
    BY <1>3
  <2>. QED BY <1>3, <2>1, <2>2, FS_Subset
<1>5. n \in Nat /\ unswept \in [1..n -> S]
  <2>. HIDE DEF S
  <2>. QED BY <1>4, InOrderFacts
<1>6. n /= 0
  <2>. HIDE DEF S, n, unswept
  <2>1. unswept \in Seq(S) /\ Len(unswept) = n
    BY <1>5
  <2>. QED BY <1>1, <2>1, EmptySeq
<1>7. \A k \in 1..n : /\ l[k] \in Row /\ l[k].label /= NoLabel
                      /\ \E i \in DOMAIN mem.records : l[k] = mem.records[i]
  <2>1. ASSUME NEW k \in 1..n PROVE unswept[k] \in S /\ l[k] = mem.records[unswept[k]]
    <3>. HIDE DEF S, n, unswept
    <3>. QED BY <1>5
  <2>. HIDE DEF l, unswept, n
  <2>2. \A i \in S : mem.records[i] \in Row /\ mem.records[i].label /= NoLabel /\ i \in DOMAIN mem.records
    BY <1>2
  <2>. HIDE DEF S
  <2>. QED BY <2>1, <2>2
<1>8. DOMAIN l = 1..n
  <2>. HIDE DEF S, n, unswept
  <2>. QED BY <1>5
<1>. HIDE DEF l, S, n, unswept
<1>9. l \in Seq(Row) /\ l /= <<>>
  <2>1. l \in [1..n -> Row]
    <3>1. l = [k \in 1..n |-> l[k]]
      BY <1>8 DEF l
    <3>. QED BY <1>7, <3>1
  <2>2. l \in Seq(Row) /\ Len(l) = n
    BY <1>5, <2>1
  <2>. QED BY <1>6, <2>2, EmptySeq
<1>10. /\ bot' \in [phase : {"idle", "scan", "proving", "sending"}, list : Seq(Row), amount : Nat]
       /\ bot'.list = l
  BY <1>1, <1>9 DEF NoRound
<1>11. Typed'
  BY <1>1, <1>9, <1>10 DEF Inv, Typed, BotUnchanged, apiVars
<1>12. ASSUME NEW r \in Sent'
       PROVE  r.label \in Label /\ \E s \in Sent \cup db.rows : Route(s) = Route(r)
  <2>1. CASE r \in Sent
    BY <2>1 DEF Inv, AnnouncedOK
  <2>2. CASE \E k \in 1..n : r = l[k]
    <3>1. PICK i \in DOMAIN mem.records : r = mem.records[i]
      BY <1>7, <2>2
    <3>2. r \in Row /\ r.label /= NoLabel
      BY <1>7, <2>2
    <3>3. r \notin mem.pendingInserts
      BY <1>1, <3>2 DEF Inv, PhaseOK, MemOK, BuffersOK
    <3>4. PICK s \in db.rows : Stored(r, s)
      BY <1>1, <3>1, <3>3 DEF Inv, PhaseOK, MemOK, StoredOK
    <3>. QED BY <3>2, <3>4 DEF Stored, Route, Row
  <2>. QED BY <1>1, <1>8, <1>10, <2>1, <2>2 DEF Sent
<1>. QED BY <1>1, <1>11, <1>12, BotKeeps

LEMMA BotEndsInv ==
    Inv /\ (waitForTransactionReceipt \/ RecordFails \/ BotCrash) => Inv'
<1>. SUFFICES ASSUME Inv, waitForTransactionReceipt \/ RecordFails \/ BotCrash PROVE Inv'
  OBVIOUS
<1>1. CASE waitForTransactionReceipt
  BY <1>1, BotMovesOn DEF waitForTransactionReceipt
<1>2. CASE RecordFails
  BY <1>2, BotMovesOn DEF RecordFails
<1>3. CASE BotCrash
  <2>1. BotUnchanged /\ UNCHANGED mempool /\ bot' = NoRound
    BY <1>3 DEF BotCrash
  <2>2. /\ bot' \in [phase : {"idle", "scan", "proving", "sending"}, list : Seq(Row), amount : Nat]
        /\ bot'.list = <<>> /\ bot'.phase = "idle"
    BY <2>1, EmptySeq DEF NoRound
  <2>3. Typed'
    BY <2>1, <2>2 DEF Inv, Typed, BotUnchanged, apiVars
  <2>4. Sent' \subseteq Sent
    BY <2>1, <2>2 DEF Sent
  <2>. QED BY <2>1, <2>3, <2>4, BotKeeps DEF Inv, AnnouncedOK
<1>. QED BY <1>1, <1>2, <1>3

LEMMA PayInv == ASSUME Inv, NEW a \in Address, Pay(a) PROVE Inv'
<1>1. /\ UNCHANGED <<chain, mempool, asked, requests, shown, mem, db, phase, bot, receive, wipes>>
      /\ balance' = [balance EXCEPT ![a] = @ + 1] /\ IsShown(a)
  BY DEF Pay, apiVars, limits, IsShown
<1>2. Typed'
  BY <1>1 DEF Inv, Typed
<1>3. MoneyOK'
  BY <1>1 DEF Inv, Typed, MoneyOK, NotesGoToTheAnnounced, IsShown
<1>4. RowsOK' /\ PhaseOK'
  BY <1>1, SameRows, SamePhase DEF Inv
<1>5. AnnouncedOK' /\ ToldOK'
  BY <1>1 DEF Inv, AnnouncedOK, ToldOK, Sent, Told, Route
<1>. QED BY <1>2, <1>3, <1>4, <1>5 DEF Inv

First(S) == IF S = {} THEN 0 ELSE CHOOSE i \in S : \A j \in S : i <= j

LEMMA ChainGrows ==
    ASSUME chain \in Seq(Tx), NEW tx \in Tx, chain' = Append(chain, tx)
    PROVE  /\ Len(chain') = Len(chain) + 1 /\ chain' \in Seq(Tx)
           /\ \A i \in 1..Len(chain) : chain'[i] = chain[i]
           /\ chain'[Len(chain) + 1] = tx
           /\ \A a : \A c \in 0..Len(chain) : FirstSweep(a, c)' = FirstSweep(a, c)
<1>1. /\ Len(chain') = Len(chain) + 1 /\ chain' \in Seq(Tx) /\ Len(chain) \in Nat
      /\ \A i \in 1..Len(chain) : chain'[i] = chain[i]
      /\ chain'[Len(chain) + 1] = tx
  BY AppendProperties
<1>2. ASSUME NEW a, NEW c \in 0..Len(chain) PROVE FirstSweep(a, c)' = FirstSweep(a, c)
  <2>1. SweepsOf(a, c)' = SweepsOf(a, c)
    BY <1>1 DEF SweepsOf
  <2>2. FirstSweep(a, c) = First(SweepsOf(a, c)) /\ FirstSweep(a, c)' = First(SweepsOf(a, c)')
    BY DEF FirstSweep, First, SweepsOf
  <2>. QED BY <2>1, <2>2
<1>. QED BY <1>1, <1>2

LEMMA SweptIsAnnounced ==
    ASSUME Inv, NEW tx \in Sent, IsShown(tx.addr)
    PROVE  <<tx.addr, tx.label>> \in shown
<1>1. PICK l \in Label : <<tx.addr, l>> \in shown
  BY DEF IsShown
<1>2. CASE wipes = 0
  <2>1. PICK q \in db.rows : Route(tx) = Route(q)
    BY <1>2 DEF Inv, AnnouncedOK
  <2>2. PICK s \in db.rows : <<tx.addr, l>> = Route(s)
    BY <1>1, <1>2 DEF Inv, AnnouncedOK
  <2>3. q.addr = s.addr /\ q.label = tx.label /\ s.label = l
    BY <2>1, <2>2 DEF Route
  <2>4. q = s
    BY <2>3 DEF Inv, RowsOK
  <2>. QED BY <1>1, <2>3, <2>4
<1>3. CASE receive
  <2>1. Route(tx) \in Told /\ <<tx.addr, l>> \in Told
    BY <1>1 DEF Told
  <2>2. Route(tx)[1] = <<tx.addr, l>>[1]
    BY DEF Route
  <2>3. Route(tx) = <<tx.addr, l>>
    BY <1>3, <2>1, <2>2 DEF Inv, ToldOK
  <2>. QED BY <1>1, <2>3 DEF Route
<1>. QED BY <1>2, <1>3 DEF Inv, Typed

LEMMA SweepInv == Inv /\ sweep => Inv'
<1>. SUFFICES ASSUME Inv, sweep PROVE Inv'
  OBVIOUS
<1> DEFINE tx == Head(mempool)
<1>1. /\ mempool /= <<>> /\ mempool' = Tail(mempool)
      /\ UNCHANGED <<asked, requests, shown, mem, db, phase, bot, receive, wipes, paid>>
      /\ IF _guardAndApprove(tx)
         THEN /\ balance' = [balance EXCEPT ![tx.addr] = @ - tx.amount]
              /\ chain' = Append(chain, tx)
         ELSE UNCHANGED <<balance, chain>>
  BY DEF sweep, apiVars, limits
<1>2. /\ tx \in Tx /\ tx = mempool[1] /\ 1 \in DOMAIN mempool /\ mempool' \in Seq(Tx)
      /\ \A k \in DOMAIN mempool' : \E j \in DOMAIN mempool : mempool'[k] = mempool[j]
  <2>1. mempool \in Seq(Tx)
    BY DEF Inv, Typed
  <2>2. /\ Len(mempool') = Len(mempool) - 1 /\ mempool' \in Seq(Tx)
        /\ \A k \in 1..Len(mempool') : mempool'[k] = mempool[k + 1]
        /\ Len(mempool) \in Nat \ {0}
    BY <1>1, <2>1, HeadTailProperties, EmptySeq
  <2>3. ASSUME NEW k \in DOMAIN mempool' PROVE k + 1 \in DOMAIN mempool /\ mempool'[k] = mempool[k + 1]
    BY <2>1, <2>2
  <2>4. tx \in Tx /\ tx = mempool[1] /\ 1 \in DOMAIN mempool
    BY <1>1, <2>1, <2>2, HeadTailProperties
  <2>. QED BY <2>2, <2>3, <2>4
<1>3. Sent' \subseteq Sent /\ tx \in Sent
  BY <1>1, <1>2 DEF Sent
<1>. HIDE DEF tx
<1>4. CASE UNCHANGED <<balance, chain>>
  <2>1. Typed'
    BY <1>1, <1>2, <1>4 DEF Inv, Typed
  <2>2. BotUnchanged
    BY <1>1, <1>4 DEF BotUnchanged, apiVars
  <2>. QED BY <1>3, <2>1, <2>2, BotKeeps DEF Inv, AnnouncedOK
<1>5. CASE /\ _guardAndApprove(tx)
           /\ balance' = [balance EXCEPT ![tx.addr] = @ - tx.amount]
           /\ chain' = Append(chain, tx)
  <2>1. balance \in [Address -> Nat] /\ chain \in Seq(Tx) /\ tx.addr \in Address
    BY <1>2 DEF Inv, Typed, Tx
  <2>2. balance[tx.addr] /= 0 /\ tx.amount <= balance[tx.addr] /\ tx.amount \in Nat
    BY <1>2, <1>5 DEF _guardAndApprove, Tx
  <2>3. /\ balance' \in [Address -> Nat]
        /\ \A a \in Address : balance'[a] /= 0 => balance[a] /= 0
    BY <1>5, <2>1, <2>2
  <2>4. /\ Len(chain') = Len(chain) + 1 /\ chain' \in Seq(Tx) /\ Len(chain) \in Nat
        /\ \A i \in 1..Len(chain) : chain'[i] = chain[i]
        /\ chain'[Len(chain) + 1] = tx
        /\ \A a : \A c \in 0..Len(chain) : FirstSweep(a, c)' = FirstSweep(a, c)
    BY <1>2, <1>5, <2>1, ChainGrows
  <2>5. Typed'
    BY <1>1, <1>2, <2>3, <2>4 DEF Inv, Typed
  <2>6. MoneyOK'
    <3>1. <<tx.addr, tx.label>> \in shown
      BY <1>3, <2>1, <2>2, SweptIsAnnounced DEF Inv, MoneyOK
    <3>2. \A i \in DOMAIN chain' : <<chain'[i].addr, chain'[i].label>> \in shown
      <4>1. \A i \in DOMAIN chain' : i \in 1..Len(chain) \/ i = Len(chain) + 1
        BY <2>4
      <4>2. \A i \in 1..Len(chain) : <<chain[i].addr, chain[i].label>> \in shown
        BY <2>1 DEF Inv, MoneyOK, NotesGoToTheAnnounced
      <4>. QED BY <2>4, <3>1, <4>1, <4>2
    <3>. QED BY <1>1, <2>3, <3>2 DEF Inv, MoneyOK, NotesGoToTheAnnounced, IsShown
  <2>7. RowsOK'
    <3>1. db.cursor \in 0..Len(chain)
      BY <2>4 DEF Inv, Typed, RowsOK
    <3>2. RowsTellTheFirstSweep'
      BY <1>1, <2>4, <3>1 DEF Inv, RowsOK, RowsTellTheFirstSweep
    <3>3. SweptAreRecovered'
      BY <1>1, <2>4, <3>1 DEF Inv, RowsOK, SweptAreRecovered
    <3>4. db.cursor <= Len(chain')
      BY <2>4, <3>1
    <3>. QED BY <1>1, <3>2, <3>3, <3>4 DEF Inv, RowsOK
  <2>8. PhaseOK'
    <3>1. PICK m, p : m = mem /\ p = Seen
      OBVIOUS
    <3>2. mem' = m /\ Seen' = p /\ UNCHANGED <<phase, requests, db, shown, receive>>
      BY <1>1, <3>1 DEF Seen
    <3>3. Serving => MemOK(m, p)'
      <4>1. SUFFICES ASSUME Serving PROVE MemOK(m, p)'
        OBVIOUS
      <4>2. MemOK(m, p) /\ p \in 0..Len(chain)
        BY <2>4, <3>1, <4>1 DEF Inv, PhaseOK, MemOK, Typed, Registry, Seen
      <4>3. \A a : FirstSweep(a, p)' = FirstSweep(a, p)
        BY <2>4, <4>2
      <4>4. RecordsOK(m, p)'
        BY <4>2, <4>3 DEF MemOK, RecordsOK
      <4>5. StoredOK(m)' /\ BuffersOK(m)'
        BY <3>2, <4>2 DEF MemOK, StoredOK, BuffersOK, Conflicts, Stored
      <4>6. ServedOK(m, p)'
        <5>1. \A k \in 1..p : chain'[k] = chain[k]
          BY <2>4, <4>2
        <5>. QED BY <3>2, <4>2, <5>1 DEF MemOK, ServedOK, IsShown, Has
      <4>7. RequestsOK(m)'
        BY <3>2, <4>2 DEF MemOK, RequestsOK, IsShown, Conflicts
      <4>. QED BY <2>4, <3>2, <4>2, <4>4, <4>5, <4>6, <4>7 DEF MemOK
    <3>4. Serving' => MemOK(mem, Seen)'
      BY <3>2, <3>3 DEF Serving
    <3>5. (phase = "committed" => Covered)'
      BY <1>1 DEF Inv, PhaseOK, Covered, Stored
    <3>. QED BY <1>1, <3>4, <3>5 DEF Inv, PhaseOK
  <2>9. AnnouncedOK'
    BY <1>1, <1>3 DEF Inv, AnnouncedOK, Route
  <2>10. ToldOK'
    <3>1. Told' \subseteq Told
      BY <1>1, <1>3 DEF Told, Route
    <3>. QED BY <1>1, <3>1 DEF Inv, ToldOK
  <2>. QED BY <2>5, <2>6, <2>7, <2>8, <2>9, <2>10 DEF Inv
<1>. QED BY <1>1, <1>4, <1>5

LEMMA FewerRequests ==
    ASSUME Inv, requests' \subseteq requests,
           UNCHANGED <<chain, balance, mempool, asked, shown, mem, db, phase, bot, receive, wipes>>
    PROVE  Inv'
<1>1. Typed'
  BY DEF Inv, Typed
<1>2. MoneyOK'
  BY DEF Inv, MoneyOK, NotesGoToTheAnnounced, IsShown
<1>3. RowsOK'
  BY SameRows DEF Inv
<1>4. AnnouncedOK'
  BY DEF Inv, AnnouncedOK, Sent, Route
<1>5. ToldOK'
  <2>1. Told' \subseteq Told
    BY DEF Told, Sent, Route
  <2>. QED BY <2>1 DEF Inv, ToldOK
<1>6. PhaseOK'
  <2>1. PICK m, p : m = mem /\ p = Seen
    OBVIOUS
  <2>2. mem' = m /\ Seen' = p
    BY <2>1 DEF Seen
  <2>3. Serving => MemOK(m, p)'
    <3>1. \A a, c : FirstSweep(a, c)' = FirstSweep(a, c)
      BY SameSweeps
    <3>2. SUFFICES ASSUME MemOK(m, p) PROVE MemOK(m, p)'
      BY <2>1 DEF Inv, PhaseOK
    <3>3. RecordsOK(m, p)'
      BY <3>1, <3>2 DEF MemOK, RecordsOK
    <3>4. StoredOK(m)' /\ BuffersOK(m)'
      BY <3>2 DEF MemOK, StoredOK, BuffersOK, Conflicts, Stored
    <3>5. ServedOK(m, p)'
      BY <3>2 DEF MemOK, ServedOK, IsShown, Has
    <3>6. RequestsOK(m)'
      BY <3>2 DEF MemOK, RequestsOK, IsShown, Conflicts
    <3>. QED BY <3>2, <3>3, <3>4, <3>5, <3>6 DEF MemOK
  <2>4. Serving' => MemOK(mem, Seen)'
    BY <2>2, <2>3 DEF Serving
  <2>5. (phase = "committed" => Covered)'
    BY DEF Inv, PhaseOK, Covered, Stored
  <2>. QED BY <2>4, <2>5 DEF Inv, PhaseOK
<1>. QED BY <1>1, <1>2, <1>3, <1>4, <1>5, <1>6 DEF Inv

LEMMA RequestEndsInv ==
    ASSUME Inv, NEW r \in requests, refused(r) \/ InsertFails(r)
    PROVE  Inv'
BY FewerRequests DEF refused, InsertFails, Fault, chainVars, limits

\* No two rows, and no sweep, stand in the way of a request that is inserted.
LEMMA InsertInv ==
    ASSUME Inv, NEW r \in requests, insert(r)
    PROVE  Inv'
<1>1. /\ Serving /\ ~Conflicts(r) /\ db' = [db EXCEPT !.rows = @ \cup {r}]
      /\ UNCHANGED <<chain, balance, mempool, asked, requests, shown, mem, phase, bot, receive, wipes>>
  BY DEF insert, chainVars, apiVars, limits
<1>2. /\ db'.rows = db.rows \cup {r} /\ db'.cursor = db.cursor
      /\ db' \in [rows : SUBSET Row, cursor : Nat]
      /\ r \in Row /\ db.rows \subseteq Row /\ db.cursor \in Nat
  BY <1>1 DEF Inv, Typed
<1>3. PICK m, p : m = mem /\ p = Seen
  OBVIOUS
<1>4. mem' = m /\ Seen' = p /\ m \in Registry /\ p \in Nat
  BY <1>1, <1>3 DEF Seen, Inv, Typed, Registry
<1>5. MemOK(m, p)
  BY <1>1, <1>3 DEF Inv, PhaseOK
<1>6. /\ r.seq < m.seq /\ r.by = 0 /\ r.label /= NoLabel
      /\ \A i \in DOMAIN m.records : m.records[i].seq /= r.seq
      /\ ~IsShown(r.addr)
  BY <1>1, <1>5 DEF MemOK, RequestsOK
<1>7. \A k \in DOMAIN chain : chain[k].addr /= r.addr
  <2>1. ASSUME NEW k \in DOMAIN chain PROVE IsShown(chain[k].addr)
    <3>1. <<chain[k].addr, chain[k].label>> \in shown /\ chain[k] \in Tx
      BY DEF Inv, Typed, MoneyOK, NotesGoToTheAnnounced
    <3>. QED BY <3>1 DEF IsShown, Tx
  <2>. QED BY <1>6, <2>1
<1>8. \A a, c : FirstSweep(a, c)' = FirstSweep(a, c)
  BY <1>1, SameSweeps
<1>9. Typed'
  <2>1. IsFiniteSet(db'.rows)
    <3>1. IsFiniteSet(db.rows)
      BY DEF Inv, Typed
    <3>2. PICK all : all = db.rows
      OBVIOUS
    <3>3. IsFiniteSet(all \cup {r})
      BY <3>1, <3>2, FS_AddElement
    <3>. QED BY <1>2, <3>2, <3>3
  <2>. QED BY <1>1, <1>2, <2>1 DEF Inv, Typed
<1>10. MoneyOK'
  BY <1>1 DEF Inv, MoneyOK, NotesGoToTheAnnounced, IsShown
<1>11. RowsOK'
  <2>1. \A q, s \in db'.rows : q.seq = s.seq \/ q.addr = s.addr => q = s
    BY <1>1, <1>2 DEF Inv, RowsOK, Conflicts
  <2>2. FirstSweep(r.addr, db.cursor) = 0
    <3>1. \A k \in 1..db.cursor : chain[k].addr /= r.addr
      BY <1>2, <1>7 DEF Inv, RowsOK, Typed
    <3>. QED BY <1>2, <3>1, FirstSweepFacts
  <2>3. RowsTellTheFirstSweep'
    BY <1>2, <1>6, <1>8, <2>2 DEF Inv, RowsOK, RowsTellTheFirstSweep
  <2>4. SweptAreRecovered'
    BY <1>1, <1>2 DEF Inv, RowsOK, SweptAreRecovered
  <2>. QED BY <1>1, <1>2, <1>6, <2>1, <2>3, <2>4 DEF Inv, RowsOK
<1>12. AnnouncedOK'
  BY <1>1, <1>2 DEF Inv, AnnouncedOK, Sent, Route
<1>13. ToldOK'
  <2>1. Told' = Told
    BY <1>1, <1>2 DEF Told, Sent, Route
  <2>. QED BY <1>1, <2>1 DEF Inv, ToldOK
<1>14. MemOK(m, p)'
  <2>1. RecordsOK(m, p)'
    BY <1>5, <1>8 DEF MemOK, RecordsOK
  <2>2. StoredOK(m)'
    BY <1>2, <1>5 DEF MemOK, StoredOK, Stored
  <2>3. ASSUME NEW x \in m.pendingInserts, Conflicts(x)' PROVE x \in db'.rows
    <3>1. PICK i \in DOMAIN m.records : m.records[i] = x
      BY <1>5 DEF MemOK, BuffersOK
    <3>2. x.by /= 0 /\ x.by = FirstSweep(x.addr, p)
      BY <1>5, <3>1 DEF MemOK, BuffersOK, RecordsOK
    <3>3. x.addr /= r.addr
      <4>1. ~ \A k \in 1..p : chain[k].addr /= x.addr
        BY <1>4, <3>2, FirstSweepFacts
      <4>2. p <= Len(chain) /\ chain \in Seq(Tx)
        BY <1>5 DEF MemOK, Inv, Typed
      <4>. QED BY <1>4, <1>7, <4>1, <4>2
    <3>4. x.seq /= r.seq
      BY <1>6, <3>1
    <3>5. Conflicts(x)
      BY <1>2, <2>3, <3>3, <3>4 DEF Conflicts
    <3>. QED BY <1>2, <1>5, <3>5 DEF MemOK, BuffersOK
  <2>4. BuffersOK(m)'
    BY <1>5, <2>3 DEF MemOK, BuffersOK
  <2>5. ServedOK(m, p)'
    BY <1>1, <1>2, <1>5, <1>6 DEF MemOK, ServedOK, Has, IsShown
  <2>6. ASSUME NEW x \in requests
        PROVE  IsShown(x.addr) => x \notin db'.rows /\ Conflicts(x)'
    <3>1. IsShown(x.addr) => x \notin db.rows /\ Conflicts(x)
      BY <1>5 DEF MemOK, RequestsOK
    <3>2. Conflicts(x) => Conflicts(x)'
      BY <1>2 DEF Conflicts
    <3>. QED BY <1>2, <1>6, <3>1, <3>2
  <2>7. RequestsOK(m)'
    BY <1>1, <1>5, <2>6 DEF MemOK, RequestsOK, IsShown
  <2>. QED BY <1>1, <1>2, <1>5, <2>1, <2>2, <2>4, <2>5, <2>7 DEF MemOK
<1>15. PhaseOK'
  <2>1. MemOK(mem, Seen)'
    BY <1>4, <1>14
  <2>2. (phase = "committed" => Covered)'
    BY <1>1, <1>2 DEF Inv, PhaseOK, Covered, Stored
  <2>. QED BY <1>1, <2>1, <2>2 DEF Inv, PhaseOK, Serving
<1>. QED BY <1>9, <1>10, <1>11, <1>12, <1>13, <1>15 DEF Inv

\* The records have their types.
LEMMA RecordsAreRows ==
    ASSUME NEW m \in Registry
    PROVE  /\ m.records \in Seq(Row) /\ DOMAIN m.records = 1..Len(m.records) /\ Len(m.records) \in Nat
           /\ \A i \in DOMAIN m.records :
                 /\ m.records[i] \in Row
                 /\ m.records[i].seq \in Nat /\ m.records[i].addr \in Address /\ m.records[i].by \in Nat
<1>1. m.records \in Seq(Row)
  BY DEF Registry
<1>2. ASSUME NEW i \in DOMAIN m.records PROVE m.records[i] \in Row
  BY <1>1
<1>3. \A r \in Row : r.seq \in Nat /\ r.addr \in Address /\ r.by \in Nat
  BY DEF Row
<1>. QED BY <1>1, <1>2, <1>3

\* A request takes its seq, and is refused there and then if its address is recorded.
LEMMA IssueInv ==
    ASSUME Inv, NEW a \in Address, NEW l \in Label, issue(a, l)
    PROVE  Inv'
<1> DEFINE r == Asked(a, l)
<1>1. /\ Serving
      /\ receive => \A i \in DOMAIN asked : asked[i] /= a
      /\ asked' = Append(asked, a) /\ mem' = [mem EXCEPT !.seq = @ + 1]
      /\ requests' = IF hasStealth(mem, a) THEN requests ELSE requests \cup {r}
      /\ UNCHANGED <<chain, balance, mempool, shown, db, phase, bot, receive, wipes>>
  BY DEF issue, MayAsk, chainVars, limits
<1>2. mem \in Registry /\ asked \in Seq(Address) /\ requests \subseteq Row /\ NoLabel \notin Label
  BY PortalAssumption DEF Inv, Typed
<1>3. /\ mem' \in Registry /\ mem'.seq = mem.seq + 1 /\ mem.seq \in Nat
      /\ mem'.records = mem.records
      /\ mem'.lastBlock = mem.lastBlock /\ mem'.upTo = mem.upTo
      /\ mem'.pendingInserts = mem.pendingInserts /\ mem'.pendingSwept = mem.pendingSwept
  <2>1. mem.seq \in Nat /\ mem.seq + 1 \in Nat
    BY <1>2 DEF Registry
  <2>. HIDE DEF r
  <2>. QED BY <1>1, <1>2, <2>1 DEF Registry
<1>4. r \in Row /\ r.seq = mem.seq /\ r.addr = a /\ r.label = l /\ r.by = 0
  BY <1>3 DEF Asked, Row
<1>. HIDE DEF r
<1>5. MemOK(mem, Seen)
  BY <1>1 DEF Inv, PhaseOK
<1>6. hasStealth(mem, a) <=> Has(mem, a)
  BY <1>2, <1>5, BySaltFacts DEF MemOK, RecordsOK
<1>7. requests' \subseteq requests \cup {r} /\ (r \in requests' /\ r \notin requests => ~Has(mem, a))
  BY <1>1, <1>6
<1>8. /\ DOMAIN asked' = 1..(Len(asked) + 1) /\ DOMAIN asked = 1..Len(asked) /\ Len(asked) \in Nat
      /\ asked' \in Seq(Address) /\ asked'[Len(asked) + 1] = a
      /\ \A i \in DOMAIN asked : asked'[i] = asked[i]
  BY <1>1, <1>2
<1>9. Typed'
  BY <1>1, <1>2, <1>3, <1>4, <1>7, <1>8 DEF Inv, Typed
<1>10. MoneyOK'
  BY <1>1 DEF Inv, MoneyOK, NotesGoToTheAnnounced, IsShown
<1>11. RowsOK'
  BY <1>1, SameRows DEF Inv
<1>12. AnnouncedOK'
  BY <1>1 DEF Inv, AnnouncedOK, Sent, Route
<1>13. ToldOK'
  <2>1. SUFFICES ASSUME receive PROVE ToldOK'
    BY <1>1 DEF ToldOK
  <2>2. Told' \subseteq Told \cup {<<a, l>>}
    BY <1>1, <1>4, <1>7 DEF Told, Sent, Route
  <2>3. ASSUME NEW p \in Told PROVE p[1] /= a /\ \E i \in DOMAIN asked' : asked'[i] = p[1]
    <3>1. PICK i \in DOMAIN asked : asked[i] = p[1]
      BY <2>1 DEF Inv, ToldOK
    <3>2. i \in DOMAIN asked' /\ asked'[i] = p[1]
      BY <1>8, <3>1
    <3>. QED BY <1>1, <2>1, <3>1, <3>2
  <2>4. Len(asked) + 1 \in DOMAIN asked'
    BY <1>8
  <2>5. ASSUME NEW p \in Told'
        PROVE  /\ \E i \in DOMAIN asked' : asked'[i] = p[1]
               /\ \A q \in Told' : p[1] = q[1] => p = q
    <3>1. \A x, y \in Told : x[1] = y[1] => x = y
      BY <2>1 DEF Inv, ToldOK
    <3>2. \E i \in DOMAIN asked' : asked'[i] = p[1]
      BY <1>8, <2>2, <2>3, <2>4
    <3>. QED BY <2>2, <2>3, <3>1, <3>2
  <2>. QED BY <2>5 DEF ToldOK
<1>14. PICK m, n, p : m = mem /\ n = mem' /\ p = Seen
  OBVIOUS
<1>15. Seen' = p
  BY <1>3, <1>14 DEF Seen
<1>16. MemOK(n, p)'
  <2>1. \A x, c : FirstSweep(x, c)' = FirstSweep(x, c)
    BY <1>1, SameSweeps
  <2>2. /\ m \in Registry /\ n \in Registry /\ n.seq = m.seq + 1 /\ m.seq \in Nat
        /\ n.records = m.records /\ n.lastBlock = m.lastBlock
        /\ n.pendingInserts = m.pendingInserts /\ n.pendingSwept = m.pendingSwept
        /\ MemOK(m, p)
    BY <1>2, <1>3, <1>5, <1>14
  <2>3. RecordsOK(n, p)'
    <3>1. \A i \in DOMAIN m.records : m.records[i].seq \in Nat
      BY <2>2, RecordsAreRows
    <3>2. \A i \in DOMAIN n.records :
            LET s == n.records[i]
            IN  /\ s.seq < n.seq
                /\ s.by = FirstSweep(s.addr, p)'
                /\ s.label = NoLabel => s.by /= 0
      BY <2>1, <2>2, <3>1 DEF MemOK, RecordsOK
    <3>. QED BY <2>2, <3>2 DEF MemOK, RecordsOK
  <2>4. StoredOK(n)' /\ BuffersOK(n)'
    BY <1>1, <2>2 DEF MemOK, StoredOK, BuffersOK, Conflicts, Stored
  <2>5. ServedOK(n, p)'
    <3>1. \A q \in db.rows : q.seq < n.seq
      BY <2>2 DEF MemOK, ServedOK, Inv, Typed, Row
    <3>. QED BY <1>1, <2>2, <3>1 DEF MemOK, ServedOK, Has, IsShown
  <2>6. RequestsOK(n)'
    <3>1. r.seq < n.seq /\ (\A i \in DOMAIN n.records : n.records[i].seq < r.seq)
      BY <1>4, <1>14, <2>2 DEF MemOK, RecordsOK
    <3>2. \A x \in requests : x.seq < r.seq /\ x.seq < n.seq
      BY <1>2, <1>4, <1>14, <2>2 DEF MemOK, RequestsOK, Row
    <3>3. ASSUME r \in requests', r \notin requests PROVE ~IsShown(a)
      <4>1. SUFFICES ASSUME IsShown(a) PROVE FALSE
        OBVIOUS
      <4>2. PICK k \in Label : <<a, k>> \in shown
        BY <4>1 DEF IsShown
      <4>3. CASE receive
        <5>1. <<a, k>> \in Told
          BY <4>2 DEF Told
        <5>2. \E i \in DOMAIN asked : asked[i] = <<a, k>>[1]
          BY <4>3, <5>1 DEF Inv, ToldOK
        <5>. QED BY <1>1, <4>3, <5>2
      <4>4. CASE wipes = 0
        <5>1. PICK q \in db.rows : <<a, k>> = Route(q)
          BY <4>2, <4>4 DEF Inv, AnnouncedOK
        <5>2. q.addr = a
          BY <5>1 DEF Route
        <5>3. Has(mem, a)
          BY <1>5, <4>1, <5>2 DEF MemOK, ServedOK
        <5>. QED BY <1>7, <3>3, <5>3
      <4>. QED BY <4>3, <4>4 DEF Inv, Typed
    <3>4. ASSUME NEW x \in requests'
          PROVE  /\ x.seq < n.seq /\ x.by = 0 /\ x.label /= NoLabel
                 /\ \A i \in DOMAIN n.records : n.records[i].seq /= x.seq
                 /\ IsShown(x.addr) => x \notin db.rows /\ Conflicts(x)
      <4>1. CASE x \in requests
        BY <2>2, <3>2, <4>1 DEF MemOK, RequestsOK
      <4>2. CASE x = r /\ r \notin requests
        <5>1. \A i \in DOMAIN n.records : n.records[i].seq \in Nat
          BY <2>2, RecordsAreRows
        <5>. QED BY <1>2, <1>3, <1>4, <3>1, <3>3, <3>4, <4>2, <5>1
      <4>. QED BY <1>7, <4>1, <4>2
    <3>5. \A x, y \in requests' : x.seq = y.seq => x = y
      <4>1. \A x, y \in requests : x.seq = y.seq => x = y
        BY <2>2 DEF MemOK, RequestsOK
      <4>2. \A x \in requests : x.seq \in Nat /\ r.seq \in Nat /\ x.seq /= r.seq
        BY <1>2, <1>4, <3>2 DEF Row
      <4>. QED BY <1>7, <4>1, <4>2
    <3>6. \A x : IsShown(x)' = IsShown(x)
      BY <1>1 DEF IsShown
    <3>7. \A x : Conflicts(x)' = Conflicts(x)
      BY <1>1 DEF Conflicts
    <3>. QED BY <1>1, <3>4, <3>5, <3>6, <3>7 DEF RequestsOK
  <2>. QED BY <1>1, <2>2, <2>3, <2>4, <2>5, <2>6 DEF MemOK
<1>17. PhaseOK'
  <2>1. MemOK(mem, Seen)'
    BY <1>14, <1>15, <1>16
  <2>2. (phase = "committed" => Covered)'
    BY <1>1, <1>3 DEF Inv, PhaseOK, Covered, Stored
  <2>3. phase' /= "down"
    BY <1>1 DEF Serving
  <2>. QED BY <1>1, <1>3, <2>1, <2>2, <2>3 DEF Inv, PhaseOK
<1>. QED BY <1>9, <1>10, <1>11, <1>12, <1>13, <1>17 DEF Inv

\* The row of a request that is pending belongs to no record, and was not shown.
LEMMA IssuedInv ==
    ASSUME Inv, NEW r \in requests, issued(r)
    PROVE  Inv'
<1>1. /\ Serving /\ r \in db.rows /\ mem' = index(mem, r)
      /\ requests' = requests \ {r} /\ shown' = shown \cup {Route(r)}
      /\ UNCHANGED <<chain, balance, mempool, asked, db, phase, bot, receive, wipes>>
  BY DEF issued, chainVars, limits, Route
<1>2. PICK m, n, p : m = mem /\ n = mem' /\ p = Seen
  OBVIOUS
<1>3. m \in Registry /\ MemOK(m, p) /\ r \in Row
  BY <1>1, <1>2 DEF Inv, PhaseOK, Typed
<1>4. r.seq < m.seq /\ r.by = 0 /\ r.label \in Label /\ ~IsShown(r.addr)
      /\ \A i \in DOMAIN m.records : m.records[i].seq /= r.seq
  BY <1>1, <1>3 DEF MemOK, RequestsOK, Row
<1> DEFINE k == Len(m.records) + 1
<1>5. /\ n = [m EXCEPT !.records = Append(m.records, r)]
      /\ m.records \in Seq(Row)
  BY <1>1, <1>2, <1>3 DEF index, Registry
<1>6. /\ n \in Registry /\ n.seq = m.seq /\ n.lastBlock = m.lastBlock /\ n.upTo = m.upTo
      /\ n.pendingInserts = m.pendingInserts /\ n.pendingSwept = m.pendingSwept
      /\ n.records = Append(m.records, r)
  <2>1. Append(m.records, r) \in Seq(Row)
    BY <1>3, <1>5
  <2>. QED BY <1>3, <1>5, <2>1 DEF Registry
<1>7. /\ DOMAIN m.records = 1..Len(m.records) /\ DOMAIN n.records = 1..k /\ k \in Nat
      /\ Len(m.records) \in Nat
      /\ n.records[k] = r /\ \A j \in DOMAIN m.records : n.records[j] = m.records[j]
  BY <1>3, <1>5, <1>6
<1>8. DOMAIN n.records = DOMAIN m.records \cup {k}
  BY <1>7
<1>. HIDE DEF k
<1>9. Seen' = p
  BY <1>2, <1>6 DEF Seen
<1>10. Typed'
  <2>1. Route(r) \in Address \X Label
    BY <1>3, <1>4 DEF Route, Row
  <2>. QED BY <1>1, <1>2, <1>6, <2>1 DEF Inv, Typed
<1>11. \A x : IsShown(x)' <=> IsShown(x) \/ x = r.addr
  BY <1>1, <1>4 DEF IsShown, Route
<1>12. MoneyOK'
  BY <1>1, <1>11 DEF Inv, MoneyOK, NotesGoToTheAnnounced
<1>13. RowsOK'
  BY <1>1, SameRows DEF Inv
<1>14. AnnouncedOK'
  BY <1>1 DEF Inv, AnnouncedOK, Sent, Route
<1>15. ToldOK'
  <2>1. Route(r) \in Told
    BY <1>1, <1>4, PortalAssumption DEF Told
  <2>2. Told' \subseteq Told
    BY <1>1, <2>1 DEF Told, Sent, Route
  <2>. QED BY <1>1, <2>2 DEF Inv, ToldOK
<1>16. \A x, c : FirstSweep(x, c)' = FirstSweep(x, c)
  BY <1>1, SameSweeps
<1>17. \A j \in 1..Len(chain) : chain[j].addr /= r.addr
  <2>1. ASSUME NEW j \in 1..Len(chain) PROVE IsShown(chain[j].addr)
    <3>1. <<chain[j].addr, chain[j].label>> \in shown /\ chain[j] \in Tx
      BY DEF Inv, Typed, MoneyOK, NotesGoToTheAnnounced
    <3>. QED BY <3>1 DEF IsShown, Tx
  <2>. QED BY <1>4, <2>1
<1>18. p \in Nat /\ p <= Len(chain) /\ Len(chain) \in Nat
  BY <1>2, <1>3 DEF MemOK, Seen, Registry, Inv, Typed
<1>19. FirstSweep(r.addr, p) = 0
  <2>1. \A j \in 1..p : chain[j].addr /= r.addr
    BY <1>17, <1>18
  <2>. QED BY <1>18, <2>1, FirstSweepFacts
<1>20. \A i \in DOMAIN m.records : m.records[i].addr /= r.addr
  <2>1. ASSUME NEW i \in DOMAIN m.records, m.records[i].addr = r.addr PROVE FALSE
    <3>1. m.records[i].by = 0 /\ m.records[i].label /= NoLabel
      BY <1>3, <1>19, <2>1 DEF MemOK, RecordsOK
    <3>2. m.records[i] \notin m.pendingInserts
      BY <1>3, <3>1 DEF MemOK, BuffersOK
    <3>3. PICK q \in db.rows : Stored(m.records[i], q)
      BY <1>3, <3>2 DEF MemOK, StoredOK
    <3>4. q = r
      BY <1>1, <2>1, <3>3 DEF Stored, Inv, RowsOK
    <3>. QED BY <1>4, <3>3, <3>4 DEF Stored
  <2>. QED BY <2>1
<1>21. MemOK(n, p)'
  <2>1. RecordsOK(n, p)'
    <3>1. \A i, j \in DOMAIN n.records :
            n.records[i].addr = n.records[j].addr \/ n.records[i].seq = n.records[j].seq => i = j
      BY <1>3, <1>4, <1>7, <1>8, <1>20 DEF MemOK, RecordsOK
    <3>2. ASSUME NEW i \in DOMAIN n.records
          PROVE  /\ n.records[i].seq < n.seq
                 /\ n.records[i].by = FirstSweep(n.records[i].addr, p)
                 /\ n.records[i].label = NoLabel => n.records[i].by /= 0
      <4>1. CASE i \in DOMAIN m.records
        BY <1>3, <1>6, <1>7, <4>1 DEF MemOK, RecordsOK
      <4>2. CASE i = k
        BY <1>4, <1>6, <1>7, <1>19, <4>2, PortalAssumption
      <4>. QED BY <1>8, <4>1, <4>2
    <3>. QED BY <1>16, <3>1, <3>2 DEF RecordsOK
  <2>2. StoredOK(n)'
    <3>1. ASSUME NEW i \in DOMAIN n.records
          PROVE  LET x == n.records[i]
                 IN  \/ x \in n.pendingInserts
                     \/ \E q \in db.rows : Stored(x, q) /\ (x.by /= 0 => q.by /= 0 \/ x \in n.pendingSwept)
      <4>1. CASE i \in DOMAIN m.records
        BY <1>3, <1>6, <1>7, <4>1 DEF MemOK, StoredOK
      <4>2. CASE i = k
        BY <1>1, <1>4, <1>7, <4>2 DEF Stored
      <4>. QED BY <1>8, <4>1, <4>2
    <3>. QED BY <1>1, <3>1 DEF StoredOK, Stored
  <2>3. BuffersOK(n)'
    <3>1. \A x : (\E i \in DOMAIN m.records : m.records[i] = x) => \E i \in DOMAIN n.records : n.records[i] = x
      BY <1>7, <1>8
    <3>2. \A x : Conflicts(x)' = Conflicts(x)
      BY <1>1 DEF Conflicts
    <3>. QED BY <1>1, <1>3, <1>6, <3>1, <3>2 DEF MemOK, BuffersOK
  <2>4. ServedOK(n, p)'
    <3>1. \A x : Has(m, x) \/ x = r.addr => Has(n, x)
      <4>1. k \in DOMAIN n.records /\ DOMAIN m.records \subseteq DOMAIN n.records
        BY <1>8
      <4>. QED BY <1>7, <4>1 DEF Has
    <3>2. ASSUME NEW q \in db.rows PROVE q.seq < n.seq /\ (IsShown(q.addr)' => Has(n, q.addr))
      BY <1>3, <1>6, <1>11, <3>1 DEF MemOK, ServedOK
    <3>. QED BY <1>1, <1>3, <3>1, <3>2 DEF MemOK, ServedOK, Has
  <2>5. RequestsOK(n)'
    <3>1. \A x : Conflicts(x)' = Conflicts(x)
      BY <1>1 DEF Conflicts
    <3>2. ASSUME NEW x \in requests'
          PROVE  /\ x.seq < n.seq /\ x.by = 0 /\ x.label /= NoLabel
                 /\ \A i \in DOMAIN n.records : n.records[i].seq /= x.seq
                 /\ IsShown(x.addr)' => x \notin db.rows /\ Conflicts(x)
      <4>1. x \in requests /\ x /= r
        BY <1>1
      <4>2. x.seq /= r.seq
        BY <1>3, <4>1 DEF MemOK, RequestsOK
      <4>3. \A i \in DOMAIN n.records : n.records[i].seq /= x.seq
        BY <1>3, <1>7, <1>8, <4>1, <4>2 DEF MemOK, RequestsOK
      <4>4. CASE x.addr = r.addr
        <5>1. Conflicts(x) /\ x \notin db.rows
          BY <1>1, <4>1, <4>4 DEF Conflicts, Inv, RowsOK
        <5>. QED BY <1>3, <1>6, <4>1, <4>3, <5>1 DEF MemOK, RequestsOK
      <4>5. CASE x.addr /= r.addr
        BY <1>3, <1>6, <1>11, <4>1, <4>3, <4>5 DEF MemOK, RequestsOK
      <4>. QED BY <4>4, <4>5
    <3>3. \A x, y \in requests' : x.seq = y.seq => x = y
      BY <1>1, <1>3 DEF MemOK, RequestsOK
    <3>. QED BY <1>1, <3>1, <3>2, <3>3 DEF RequestsOK
  <2>. QED BY <1>1, <1>3, <1>6, <2>1, <2>2, <2>3, <2>4, <2>5 DEF MemOK
<1>22. PhaseOK'
  <2>1. MemOK(mem, Seen)'
    BY <1>2, <1>9, <1>21
  <2>2. (phase = "committed" => Covered)'
    <3>1. SUFFICES ASSUME phase = "committed" PROVE Covered'
      BY <1>1
    <3>2. ASSUME NEW i \in DOMAIN n.records
          PROVE  \E q \in db.rows : Stored(n.records[i], q) /\ (n.records[i].by /= 0 => q.by /= 0)
      <4>1. CASE i \in DOMAIN m.records
        BY <1>2, <1>7, <3>1, <4>1 DEF Inv, PhaseOK, Covered
      <4>2. CASE i = k
        BY <1>1, <1>4, <1>7, <4>2 DEF Stored
      <4>. QED BY <1>8, <4>1, <4>2
    <3>. QED BY <1>1, <1>2, <3>2 DEF Covered, Stored
  <2>3. phase' /= "down"
    BY <1>1 DEF Serving
  <2>4. (phase \in {"applied", "committed"} => mem.lastBlock <= mem.upTo)'
    BY <1>1, <1>2, <1>6 DEF Inv, PhaseOK
  <2>. QED BY <2>1, <2>2, <2>3, <2>4 DEF PhaseOK
<1>. QED BY <1>10, <1>12, <1>13, <1>14, <1>15, <1>22 DEF Inv

\* The rows in the order of their seqs.
LEMMA BySeqFacts ==
    ASSUME NEW kept, kept \subseteq Row, IsFiniteSet(kept), \A r, s \in kept : r.seq = s.seq => r = s
    PROVE  /\ BySeq(kept) \in Seq(Row) /\ DOMAIN BySeq(kept) = 1..Len(BySeq(kept))
           /\ \A i \in DOMAIN BySeq(kept) : BySeq(kept)[i] \in kept
           /\ \A i, j \in DOMAIN BySeq(kept) : i < j => BySeq(kept)[i].seq < BySeq(kept)[j].seq
           /\ \A r \in kept : \E i \in DOMAIN BySeq(kept) : BySeq(kept)[i] = r
<1> DEFINE S == {r.seq : r \in kept}
           n == Cardinality(S)
           seqs == InOrder(S)
           Of(k) == CHOOSE r \in kept : r.seq = k
<1>1. S \subseteq Nat
  BY DEF Row
<1>2. IsFiniteSet(S)
  <2> DEFINE seqOf == [r \in kept |-> r.seq]
  <2>1. seqOf \in Surjection(kept, S)
    BY DEF Surjection
  <2>. HIDE DEF seqOf, S
  <2>. QED BY <2>1, FS_Surjection
<1>3. /\ n \in Nat /\ seqs \in [1..n -> S]
      /\ \A i, j \in 1..n : i < j => seqs[i] < seqs[j]
      /\ \A x \in S : \E k \in 1..n : seqs[k] = x
  <2>. HIDE DEF S
  <2>. QED BY <1>1, <1>2, InOrderFacts
<1>4. ASSUME NEW k \in S PROVE Of(k) \in kept /\ Of(k).seq = k
  <2>1. \E r \in kept : r.seq = k
    OBVIOUS
  <2>. QED BY <2>1
<1>5. BySeq(kept) = [k \in DOMAIN seqs |-> Of(seqs[k])]
  BY DEF BySeq
<1> DEFINE b == BySeq(kept)
<1>6. \A r \in kept : r.seq \in S
  OBVIOUS
<1>. HIDE DEF seqs, n, S
<1>7. DOMAIN seqs = 1..n
  BY <1>3
<1>8. DOMAIN b = 1..n /\ \A k \in 1..n : b[k] = Of(seqs[k])
  BY <1>5, <1>7
<1>. HIDE DEF Of
<1>9. ASSUME NEW k \in 1..n PROVE seqs[k] \in S /\ b[k] \in kept /\ b[k].seq = seqs[k]
  <2>1. seqs[k] \in S
    BY <1>3
  <2>. QED BY <1>4, <1>8, <2>1
<1>10. b \in [1..n -> Row]
  <2>1. b = [k \in 1..n |-> b[k]]
    BY <1>5, <1>7
  <2>. HIDE DEF b
  <2>. QED BY <1>9, <2>1
<1>. HIDE DEF b
<1>11. b \in Seq(Row) /\ Len(b) = n
  BY <1>3, <1>10
<1>12. \A i, j \in DOMAIN b : i < j => b[i].seq < b[j].seq
  BY <1>3, <1>8, <1>9
<1>13. ASSUME NEW r \in kept PROVE \E i \in DOMAIN b : b[i] = r
  <2>1. PICK k \in 1..n : seqs[k] = r.seq
    BY <1>3, <1>6
  <2>2. b[k] = r
    BY <1>9, <2>1
  <2>. QED BY <1>8, <2>2
<1>. QED BY <1>8, <1>9, <1>11, <1>12, <1>13 DEF b

LEMMA BootInv == Inv /\ boot => Inv'
<1>. SUFFICES ASSUME Inv, boot PROVE Inv'
  OBVIOUS
<1> DEFINE feed == BySeq(db.rows)
           next == IF feed = <<>> THEN 0 ELSE feed[Len(feed)].seq + 1
<1>1. /\ phase = "down" /\ phase' = "idle"
      /\ mem' = [NoMem EXCEPT !.records = feed, !.seq = next, !.lastBlock = db.cursor]
      /\ UNCHANGED <<chain, balance, mempool, asked, requests, shown, db, bot, receive, wipes>>
  BY DEF boot, chainVars, apiVars, limits
<1>2. requests = {}
  BY <1>1 DEF Inv, PhaseOK
<1>3. /\ db.rows \subseteq Row /\ IsFiniteSet(db.rows)
      /\ \A r, s \in db.rows : r.seq = s.seq \/ r.addr = s.addr => r = s
      /\ db.cursor \in Nat /\ db.cursor <= Len(chain)
  BY DEF Inv, Typed, RowsOK
<1>4. /\ feed \in Seq(Row) /\ DOMAIN feed = 1..Len(feed) /\ Len(feed) \in Nat
      /\ \A i \in DOMAIN feed : feed[i] \in db.rows
      /\ \A i, j \in DOMAIN feed : i < j => feed[i].seq < feed[j].seq
      /\ \A r \in db.rows : \E i \in DOMAIN feed : feed[i] = r
  <2>1. PICK R : R = db.rows
    OBVIOUS
  <2>2. /\ BySeq(R) \in Seq(Row) /\ DOMAIN BySeq(R) = 1..Len(BySeq(R))
        /\ \A i \in DOMAIN BySeq(R) : BySeq(R)[i] \in R
        /\ \A i, j \in DOMAIN BySeq(R) : i < j => BySeq(R)[i].seq < BySeq(R)[j].seq
        /\ \A r \in R : \E i \in DOMAIN BySeq(R) : BySeq(R)[i] = r
    BY <1>3, <2>1, BySeqFacts
  <2>. QED BY <2>1, <2>2
<1>. HIDE DEF feed
<1>5. next \in Nat /\ \A i \in DOMAIN feed : feed[i].seq \in Nat /\ feed[i].seq < next
  <2>1. \A i \in DOMAIN feed : feed[i].seq \in Nat
    <3>1. \A i \in DOMAIN feed : feed[i] \in Row
      BY <1>3, <1>4
    <3>2. \A r \in Row : r.seq \in Nat
      BY DEF Row
    <3>. QED BY <3>1, <3>2
  <2>2. CASE feed = <<>>
    BY <1>4, <2>2, EmptySeq
  <2>3. CASE feed /= <<>>
    <3>1. Len(feed) /= 0
      BY <1>4, <2>3, EmptySeq
    <3>2. Len(feed) \in DOMAIN feed
      BY <1>4, <3>1
    <3>3. ASSUME NEW i \in DOMAIN feed PROVE feed[i].seq <= feed[Len(feed)].seq
      <4>1. i = Len(feed) \/ i < Len(feed)
        BY <1>4
      <4>. QED BY <1>4, <2>1, <3>2, <4>1
    <3>. QED BY <2>1, <2>3, <3>2, <3>3
  <2>. QED BY <2>2, <2>3
<1>. HIDE DEF next
<1>6. /\ mem' \in Registry /\ mem'.records = feed /\ mem'.seq = next /\ mem'.lastBlock = db.cursor
      /\ mem'.upTo = 0 /\ mem'.pendingInserts = {} /\ mem'.pendingSwept = {}
  <2>1. mem' = [records |-> feed, seq |-> next, pendingSwept |-> {}, pendingInserts |-> {},
                lastBlock |-> db.cursor, upTo |-> 0]
    BY <1>1 DEF NoMem
  <2>. QED BY <1>3, <1>4, <1>5, <2>1 DEF Registry
<1>7. PICK n, p : n = mem' /\ p = db.cursor
  OBVIOUS
<1>8. Seen' = p
  BY <1>3, <1>6, <1>7 DEF Seen
<1>9. Typed'
  BY <1>1, <1>6 DEF Inv, Typed
<1>10. MoneyOK' /\ AnnouncedOK' /\ ToldOK'
  BY <1>1 DEF Inv, MoneyOK, NotesGoToTheAnnounced, IsShown, AnnouncedOK, Sent, Route, ToldOK, Told
<1>11. RowsOK'
  BY <1>1, SameRows DEF Inv
<1>12. \A x, c : FirstSweep(x, c)' = FirstSweep(x, c)
  BY <1>1, SameSweeps
<1>13. \A i, j \in DOMAIN feed : feed[i].addr = feed[j].addr \/ feed[i].seq = feed[j].seq => i = j
  <2>1. ASSUME NEW i \in DOMAIN feed, NEW j \in DOMAIN feed,
               feed[i].addr = feed[j].addr \/ feed[i].seq = feed[j].seq
        PROVE  i = j
    <3>1. feed[i].seq = feed[j].seq /\ feed[i].seq \in Nat
      BY <1>3, <1>4, <1>5, <2>1
    <3>2. ~(i < j) /\ ~(j < i)
      BY <1>4, <1>5, <3>1
    <3>. QED BY <1>4, <3>2
  <2>. QED BY <2>1
<1>14. MemOK(n, p)'
  <2>1. RecordsOK(n, p)'
    <3>1. \A i \in DOMAIN feed : /\ feed[i].by = FirstSweep(feed[i].addr, p)
                                 /\ feed[i].label = NoLabel => feed[i].by /= 0
      BY <1>4, <1>7 DEF Inv, RowsOK, RowsTellTheFirstSweep
    <3>. QED BY <1>5, <1>6, <1>7, <1>12, <1>13, <3>1 DEF RecordsOK
  <2>2. StoredOK(n)' /\ BuffersOK(n)' /\ RequestsOK(n)'
    BY <1>1, <1>2, <1>4, <1>6, <1>7 DEF StoredOK, Stored, BuffersOK, RequestsOK
  <2>3. ServedOK(n, p)'
    <3>1. ASSUME NEW q \in db.rows PROVE q.seq < next /\ Has(n, q.addr)
      <4>1. PICK i \in DOMAIN feed : feed[i] = q
        BY <1>4
      <4>. QED BY <1>5, <1>6, <1>7, <4>1 DEF Has
    <3>2. ASSUME receive, NEW k \in 1..p PROVE Has(n, chain[k].addr)
      <4>1. \E q \in db.rows : q.addr = chain[k].addr
        BY <1>7, <3>2 DEF Inv, RowsOK, SweptAreRecovered
      <4>. QED BY <3>1, <4>1
    <3>. QED BY <1>1, <1>6, <1>7, <3>1, <3>2 DEF ServedOK, Has
  <2>. QED BY <1>1, <1>3, <1>6, <1>7, <2>1, <2>2, <2>3 DEF MemOK
<1>15. PhaseOK'
  <2>1. MemOK(mem, Seen)'
    BY <1>7, <1>8, <1>14
  <2>. QED BY <1>1, <2>1 DEF PhaseOK
<1>. QED BY <1>9, <1>10, <1>11, <1>15 DEF Inv

LEMMA ApplyLogsInv == Inv /\ applyLogs => Inv'
<1>. SUFFICES ASSUME Inv, applyLogs PROVE Inv'
  OBVIOUS
<1>1. /\ phase = "idle" /\ phase' = "applied" /\ mem.lastBlock < Len(chain)
      /\ mem' = FoldLeft(applyLog, [mem EXCEPT !.upTo = Len(chain)], Range0(mem.lastBlock))
      /\ UNCHANGED <<chain, balance, mempool, asked, requests, shown, db, bot, receive, wipes>>
  BY DEF applyLogs, chainVars, apiVars, limits, Range0
<1>2. PICK m0, p, f : m0 = mem /\ p = Seen /\ f = mem.lastBlock
  OBVIOUS
<1>3. /\ m0 \in Registry /\ MemOK(m0, p) /\ f \in Nat /\ p \in Nat /\ f <= p /\ f = m0.lastBlock
      /\ f < Len(chain) /\ Len(chain) \in Nat
  BY <1>1, <1>2 DEF Inv, PhaseOK, Serving, Typed, Registry, Seen, MemOK
<1>4. PICK m : m = [m0 EXCEPT !.upTo = Len(chain)]
  OBVIOUS
<1>5. /\ m \in Registry /\ m.records = m0.records /\ m.seq = m0.seq /\ m.lastBlock = m0.lastBlock
      /\ m.pendingInserts = m0.pendingInserts /\ m.pendingSwept = m0.pendingSwept /\ m.upTo = Len(chain)
  BY <1>3, <1>4 DEF Registry
<1>6. MemOK(m, p)
  BY <1>3, <1>5 DEF MemOK, RecordsOK, StoredOK, BuffersOK, ServedOK, RequestsOK, Has
<1>7. PICK n, c : n = mem' /\ c = Len(chain)
  OBVIOUS
<1>8. n \in Registry /\ MemOK(n, c) /\ n.lastBlock = f /\ n.upTo = c
  <2>1. mem' = FoldLeft(applyLog, m, Range0(f))
    BY <1>1, <1>2, <1>4
  <2>. QED BY <1>3, <1>5, <1>6, <1>7, <2>1, ReplayKeeps
<1>9. Typed'
  BY <1>1, <1>7, <1>8 DEF Inv, Typed
<1>10. MoneyOK' /\ AnnouncedOK' /\ ToldOK'
  BY <1>1 DEF Inv, MoneyOK, NotesGoToTheAnnounced, IsShown, AnnouncedOK, Sent, Route, ToldOK, Told
<1>11. RowsOK'
  BY <1>1, SameRows DEF Inv
<1>12. PhaseOK'
  <2>1. Seen' = c
    BY <1>3, <1>7, <1>8 DEF Seen
  <2>2. MemOK(n, c)'
    BY <1>1, <1>8, SameMem
  <2>3. MemOK(mem, Seen)'
    BY <1>7, <2>1, <2>2
  <2>. QED BY <1>1, <1>3, <1>7, <1>8, <2>3 DEF PhaseOK
<1>. QED BY <1>9, <1>10, <1>11, <1>12 DEF Inv

Kept == {r \in mem.pendingInserts : ~Conflicts(r)}

FlipOf(r) == {s \in mem.pendingSwept : s.seq = r.seq}

Settled(r) == IF FlipOf(r) = {} THEN r ELSE [r EXCEPT !.by = (CHOOSE s \in FlipOf(r) : TRUE).by]

\* The rows the transaction leaves tell every sweep that memory has applied.
LEMMA FlushFacts ==
    ASSUME Inv, phase = "applied"
    PROVE  /\ Flushed = [rows |-> {Settled(r) : r \in db.rows \cup Kept}, cursor |-> mem.upTo]
           /\ Seen = mem.upTo /\ mem.upTo \in Nat /\ MemOK(mem, mem.upTo)
           /\ IsFiniteSet({Settled(r) : r \in db.rows \cup Kept})
           /\ \A r, s \in db.rows \cup Kept : r.seq = s.seq \/ r.addr = s.addr => r = s
           /\ \A r \in db.rows \cup Kept :
                 /\ r \in Row /\ Settled(r) \in Row
                 /\ Settled(r).seq = r.seq /\ Settled(r).addr = r.addr /\ Settled(r).label = r.label
                 /\ Settled(r).by = FirstSweep(r.addr, mem.upTo)
                 /\ Settled(r).by = 0 => Settled(r) = r
                 /\ r.label = NoLabel => Settled(r).by /= 0
           /\ \A r \in Kept : r.label = NoLabel /\ \E i \in DOMAIN mem.records : mem.records[i] = r
           /\ \A i \in DOMAIN mem.records : \E r \in db.rows \cup Kept : Stored(mem.records[i], r)
<1> DEFINE m == mem
           p == mem.upTo
           base == db.rows \cup Kept
<1>1. Flushed = [rows |-> {Settled(r) : r \in base}, cursor |-> p]
  BY DEF Flushed, Settled, FlipOf, Kept
<1>2. /\ m \in Registry /\ p \in Nat /\ m.lastBlock \in Nat /\ m.lastBlock <= p
      /\ db.rows \subseteq Row /\ IsFiniteSet(db.rows) /\ db.cursor \in Nat
  BY DEF Inv, Typed, Registry, PhaseOK
<1>3. Seen = p
  BY <1>2 DEF Seen
<1>4. MemOK(m, p)
  BY <1>3 DEF Inv, PhaseOK, Serving
<1>. HIDE DEF m, p
<1>5. /\ DOMAIN m.records = 1..Len(m.records) /\ Len(m.records) \in Nat
      /\ \A i \in DOMAIN m.records :
            /\ m.records[i] \in Row
            /\ m.records[i].seq \in Nat /\ m.records[i].addr \in Address /\ m.records[i].by \in Nat
  BY <1>2, RecordsAreRows
<1>6. /\ \A r \in m.pendingInserts : /\ \E i \in DOMAIN m.records : m.records[i] = r
                                     /\ r.label = NoLabel
                                     /\ Conflicts(r) => r \in db.rows
      /\ \A r \in m.pendingSwept : /\ \E i \in DOMAIN m.records : m.records[i] = r
                                   /\ r.label /= NoLabel /\ r.by /= 0
  BY <1>4 DEF MemOK, BuffersOK
<1>7. /\ \A i, j \in DOMAIN m.records :
            m.records[i].addr = m.records[j].addr \/ m.records[i].seq = m.records[j].seq => i = j
      /\ \A i \in DOMAIN m.records : /\ m.records[i].by = FirstSweep(m.records[i].addr, p)
                                     /\ m.records[i].label = NoLabel => m.records[i].by /= 0
  BY <1>4 DEF MemOK, RecordsOK
<1>8. \A r \in Kept : r \in m.pendingInserts /\ ~Conflicts(r)
  BY DEF Kept, m
<1>9. \A r, s \in base : r.seq = s.seq \/ r.addr = s.addr => r = s
  <2>1. \A r, s \in db.rows : r.seq = s.seq \/ r.addr = s.addr => r = s
    BY DEF Inv, RowsOK
  <2>2. \A r, s \in Kept : r.seq = s.seq \/ r.addr = s.addr => r = s
    BY <1>6, <1>7, <1>8
  <2>3. \A r \in Kept : \A s \in db.rows : r.seq /= s.seq /\ r.addr /= s.addr
    BY <1>8 DEF Conflicts
  <2>. QED BY <2>1, <2>2, <2>3
<1>10. \A r : FlipOf(r) = {s \in m.pendingSwept : s.seq = r.seq}
  BY DEF FlipOf, m
<1>11. ASSUME NEW r \in Kept
       PROVE  /\ r \in Row /\ Settled(r) = r /\ r.by = FirstSweep(r.addr, p) /\ r.by /= 0
              /\ r.label = NoLabel /\ \E i \in DOMAIN m.records : m.records[i] = r
  <2>1. PICK i \in DOMAIN m.records : m.records[i] = r /\ r.label = NoLabel
    BY <1>6, <1>8
  <2>2. FlipOf(r) = {}
    <3>1. ASSUME NEW s \in m.pendingSwept, s.seq = r.seq PROVE FALSE
      <4>1. PICK j \in DOMAIN m.records : m.records[j] = s /\ s.label /= NoLabel
        BY <1>6
      <4>. QED BY <1>7, <2>1, <3>1, <4>1
    <3>. QED BY <1>10, <3>1
  <2>. QED BY <1>5, <1>7, <2>1, <2>2 DEF Settled
<1>12. ASSUME NEW r \in db.rows, FlipOf(r) /= {}
       PROVE  \E s \in m.pendingSwept : /\ Settled(r) = [r EXCEPT !.by = s.by]
                                        /\ s.by /= 0 /\ s.by = FirstSweep(r.addr, p)
                                        /\ s.by \in Nat
  <2>1. PICK s \in FlipOf(r) : s = CHOOSE t \in FlipOf(r) : TRUE
    BY <1>12
  <2>2. s \in m.pendingSwept /\ s.seq = r.seq /\ Settled(r) = [r EXCEPT !.by = s.by]
    BY <1>10, <1>12, <2>1 DEF Settled
  <2>3. PICK i \in DOMAIN m.records : m.records[i] = s /\ s.label /= NoLabel /\ s.by /= 0
    BY <1>6, <2>2
  <2>4. PICK q \in db.rows : Stored(s, q)
    BY <1>4, <1>6, <2>3 DEF MemOK, StoredOK
  <2>5. q = r
    BY <1>9, <2>2, <2>4 DEF Stored
  <2>6. s.addr = r.addr /\ s.by = FirstSweep(s.addr, p) /\ s.by \in Nat
    BY <1>5, <1>7, <2>3, <2>4, <2>5 DEF Stored
  <2>. QED BY <2>2, <2>3, <2>6
<1>13. ASSUME NEW r \in db.rows, FlipOf(r) = {}
       PROVE  Settled(r) = r /\ r.by = FirstSweep(r.addr, p)
  <2>1. Settled(r) = r
    BY <1>13 DEF Settled
  <2>2. r.by = FirstSweep(r.addr, db.cursor) /\ db.cursor <= p /\ p <= Len(chain) /\ chain \in Seq(Tx)
    BY <1>4 DEF MemOK, Inv, RowsOK, RowsTellTheFirstSweep, Typed
  <2>3. CASE r.by /= 0
    BY <1>2, <2>1, <2>2, <2>3, FirstSweepFacts
  <2>4. CASE r.by = 0
    <3>1. SUFFICES ASSUME FirstSweep(r.addr, p) /= 0 PROVE FALSE
      BY <2>1, <2>4
    <3>2. PICK k \in 1..p : chain[k].addr = r.addr
      BY <1>2, <3>1, FirstSweepFacts
    <3>3. IsShown(r.addr)
      <4>1. k \in DOMAIN chain /\ chain[k] \in Tx
        BY <1>2, <2>2
      <4>2. <<chain[k].addr, chain[k].label>> \in shown
        BY <4>1 DEF Inv, MoneyOK, NotesGoToTheAnnounced
      <4>. QED BY <3>2, <4>1, <4>2 DEF IsShown, Tx
    <3>4. PICK i \in DOMAIN m.records : m.records[i].addr = r.addr
      BY <1>4, <3>3 DEF MemOK, ServedOK, Has
    <3>5. m.records[i].by /= 0
      BY <1>7, <3>1, <3>4
    <3>6. CASE m.records[i] \in m.pendingInserts
      <4>1. Conflicts(m.records[i])
        BY <3>4 DEF Conflicts
      <4>2. m.records[i] = r
        BY <1>6, <1>9, <3>4, <3>6, <4>1
      <4>. QED BY <2>4, <3>5, <4>2
    <3>7. CASE m.records[i] \notin m.pendingInserts
      <4>1. PICK q \in db.rows : Stored(m.records[i], q) /\ (q.by /= 0 \/ m.records[i] \in m.pendingSwept)
        BY <1>4, <3>5, <3>7 DEF MemOK, StoredOK
      <4>2. q = r
        BY <1>9, <3>4, <4>1 DEF Stored
      <4>3. m.records[i] \in FlipOf(r)
        BY <1>10, <2>4, <4>1, <4>2 DEF Stored
      <4>. QED BY <1>13, <4>3
    <3>. QED BY <3>6, <3>7
  <2>. QED BY <2>3, <2>4
<1>14. ASSUME NEW r \in base
       PROVE  /\ r \in Row /\ Settled(r) \in Row
              /\ Settled(r).seq = r.seq /\ Settled(r).addr = r.addr /\ Settled(r).label = r.label
              /\ Settled(r).by = FirstSweep(r.addr, p)
              /\ Settled(r).by = 0 => Settled(r) = r
              /\ r.label = NoLabel => Settled(r).by /= 0
  <2>1. CASE r \in Kept
    BY <1>11, <2>1
  <2>2. CASE r \in db.rows /\ FlipOf(r) /= {}
    <3>1. PICK s \in m.pendingSwept : /\ Settled(r) = [r EXCEPT !.by = s.by]
                                      /\ s.by /= 0 /\ s.by = FirstSweep(r.addr, p)
                                      /\ s.by \in Nat
      BY <1>12, <2>2
    <3>2. r \in Row
      BY <1>2, <2>2
    <3>3. /\ Settled(r) \in Row /\ Settled(r).by = s.by
          /\ Settled(r).seq = r.seq /\ Settled(r).addr = r.addr /\ Settled(r).label = r.label
      BY <3>1, <3>2 DEF Row
    <3>. QED BY <3>1, <3>2, <3>3
  <2>3. CASE r \in db.rows /\ FlipOf(r) = {}
    <3>1. r \in Row /\ (r.label = NoLabel => r.by /= 0)
      BY <1>2, <2>3 DEF Inv, RowsOK
    <3>. QED BY <1>13, <2>3, <3>1
  <2>. QED BY <2>1, <2>2, <2>3
<1>15. ASSUME NEW i \in DOMAIN m.records PROVE \E r \in base : Stored(m.records[i], r)
  <2>1. CASE m.records[i] \in m.pendingInserts
    <3>1. m.records[i] \in base
      BY <1>6, <2>1 DEF Kept, m
    <3>. QED BY <3>1 DEF Stored
  <2>2. CASE m.records[i] \notin m.pendingInserts
    BY <1>4, <2>2 DEF MemOK, StoredOK
  <2>. QED BY <2>1, <2>2
<1>16. IsFiniteSet({Settled(r) : r \in base})
  <2>1. IsFiniteSet(Kept)
    <3> DEFINE D == DOMAIN m.records
               R == {m.records[i] : i \in D}
               at == [i \in D |-> m.records[i]]
    <3>1. IsFiniteSet(D)
      <4>1. PICK k \in Nat : k = Len(m.records) /\ D = 1..k
        BY <1>5
      <4>. QED BY <4>1, UpToIsFinite
    <3>2. at \in Surjection(D, R)
      BY DEF Surjection
    <3>3. Kept \subseteq R
      BY <1>11
    <3>. HIDE DEF D, R, at
    <3>4. IsFiniteSet(R)
      BY <3>1, <3>2, FS_Surjection
    <3>. QED BY <3>3, <3>4, FS_Subset
  <2>2. IsFiniteSet(base)
    <3>1. PICK R, K : R = db.rows /\ K = Kept
      OBVIOUS
    <3>2. IsFiniteSet(R \cup K)
      BY <1>2, <2>1, <3>1, FS_Union
    <3>. QED BY <3>1, <3>2
  <2> DEFINE T == {Settled(r) : r \in base}
             set == [r \in base |-> Settled(r)]
  <2>3. set \in Surjection(base, T)
    BY DEF Surjection
  <2>. HIDE DEF T, set, base
  <2>4. IsFiniteSet(T)
    BY <2>2, <2>3, FS_Surjection
  <2>. QED BY <2>4 DEF T
<1>. QED BY <1>1, <1>2, <1>3, <1>4, <1>9, <1>11, <1>14, <1>15, <1>16 DEF m, p

LEMMA PersistInv == Inv /\ persistAtomically => Inv'
<1>. SUFFICES ASSUME Inv, persistAtomically PROVE Inv'
  OBVIOUS
<1> DEFINE base == db.rows \cup Kept
<1>1. /\ phase = "applied" /\ phase' = "committed" /\ db' = Flushed
      /\ UNCHANGED <<chain, balance, mempool, asked, requests, shown, mem, bot, receive, wipes>>
  BY DEF persistAtomically, chainVars, apiVars, limits
<1>2. PICK m, p : m = mem /\ p = mem.upTo
  OBVIOUS
<1>3. /\ db' = [rows |-> {Settled(r) : r \in base}, cursor |-> p]
      /\ Seen = p /\ p \in Nat /\ MemOK(m, p) /\ m \in Registry
      /\ IsFiniteSet({Settled(r) : r \in base})
      /\ \A r, s \in base : r.seq = s.seq \/ r.addr = s.addr => r = s
      /\ \A r \in Kept : r.label = NoLabel /\ \E i \in DOMAIN m.records : m.records[i] = r
      /\ \A i \in DOMAIN m.records : \E r \in base : Stored(m.records[i], r)
  BY <1>1, <1>2, FlushFacts DEF Inv, Typed
<1>4. ASSUME NEW r \in base
      PROVE  /\ r \in Row /\ Settled(r) \in Row
             /\ Settled(r).seq = r.seq /\ Settled(r).addr = r.addr /\ Settled(r).label = r.label
             /\ Settled(r).by = FirstSweep(r.addr, p)
             /\ Settled(r).by = 0 => Settled(r) = r
             /\ r.label = NoLabel => Settled(r).by /= 0
  BY <1>1, <1>2, FlushFacts
<1>5. \A r \in db.rows : r \in base
  OBVIOUS
<1>6. \A q : q \in db'.rows <=> \E r \in base : q = Settled(r)
  BY <1>3
<1>7. db'.cursor = p /\ db' \in [rows : SUBSET Row, cursor : Nat] /\ IsFiniteSet(db'.rows)
  <2>1. {Settled(r) : r \in base} \subseteq Row
    BY <1>4
  <2>. QED BY <1>3, <2>1
<1>8. Seen' = p
  BY <1>1, <1>3 DEF Seen
<1>9. \A x, c : FirstSweep(x, c)' = FirstSweep(x, c)
  BY <1>1, SameSweeps
<1>10. /\ \A i, j \in DOMAIN m.records :
            m.records[i].addr = m.records[j].addr \/ m.records[i].seq = m.records[j].seq => i = j
       /\ \A i \in DOMAIN m.records : /\ m.records[i].by = FirstSweep(m.records[i].addr, p)
                                      /\ m.records[i].label = NoLabel => m.records[i].by /= 0
                                      /\ m.records[i].seq < m.seq
  BY <1>3 DEF MemOK, RecordsOK
<1>11. p <= Len(chain) /\ chain \in Seq(Tx)
  BY <1>3 DEF MemOK, Inv, Typed
<1>. HIDE DEF base
<1>12. Typed'
  BY <1>1, <1>7 DEF Inv, Typed
<1>13. MoneyOK'
  BY <1>1 DEF Inv, MoneyOK, NotesGoToTheAnnounced, IsShown
<1>14. ASSUME NEW i \in DOMAIN m.records
       PROVE  \E q \in db'.rows : Stored(m.records[i], q) /\ q.by = m.records[i].by
  <2>1. PICK r \in base : Stored(m.records[i], r)
    BY <1>3
  <2>2. /\ Settled(r) \in db'.rows /\ Settled(r).seq = r.seq /\ Settled(r).addr = r.addr
        /\ Settled(r).label = r.label /\ Settled(r).by = FirstSweep(r.addr, p)
    BY <1>4, <1>6
  <2>3. r.addr = m.records[i].addr
    BY <2>1 DEF Stored
  <2>. QED BY <1>10, <2>1, <2>2, <2>3 DEF Stored
<1>15. RowsOK'
  <2>1. \A q, s \in db'.rows : q.seq = s.seq \/ q.addr = s.addr => q = s
    BY <1>3, <1>4, <1>6
  <2>2. \A q \in db'.rows : q.label = NoLabel => q.by /= 0
    BY <1>4, <1>6
  <2>3. RowsTellTheFirstSweep'
    <3>1. \A q \in db'.rows : q.by = FirstSweep(q.addr, p)
      BY <1>4, <1>6
    <3>. QED BY <1>7, <1>9, <3>1 DEF RowsTellTheFirstSweep
  <2>4. SweptAreRecovered'
    <3>1. ASSUME receive, NEW k \in 1..p PROVE \E q \in db'.rows : q.addr = chain[k].addr /\ q.by /= 0
      <4>1. PICK i \in DOMAIN m.records : m.records[i].addr = chain[k].addr
        BY <1>3, <3>1 DEF MemOK, ServedOK, Has
      <4>2. m.records[i].by /= 0
        BY <1>3, <1>10, <4>1, FirstSweepFacts
      <4>. QED BY <1>14, <4>1, <4>2 DEF Stored
    <3>. QED BY <1>1, <1>7, <3>1 DEF SweptAreRecovered
  <2>. QED BY <1>1, <1>7, <1>11, <2>1, <2>2, <2>3, <2>4 DEF RowsOK
<1>16. \A r \in db.rows : \E q \in db'.rows : Route(q) = Route(r)
  BY <1>4, <1>5, <1>6 DEF Route
<1>17. \A q \in db'.rows : q.label /= NoLabel =>
          \E r \in db.rows : r.label /= NoLabel /\ Route(q) = Route(r)
  <2>1. ASSUME NEW q \in db'.rows, q.label /= NoLabel
        PROVE  \E r \in db.rows : r.label /= NoLabel /\ Route(q) = Route(r)
    <3>1. PICK r \in base : q = Settled(r)
      BY <1>6
    <3>2. r.label = q.label /\ r.addr = q.addr
      BY <1>4, <3>1
    <3>3. r \in db.rows
      BY <1>3, <2>1, <3>2 DEF base
    <3>. QED BY <2>1, <3>2, <3>3 DEF Route
  <2>. QED BY <2>1
<1>18. AnnouncedOK'
  <2>1. Sent' = Sent /\ \A q : Route(q)' = Route(q)
    BY <1>1 DEF Sent, Route
  <2>2. ASSUME wipes = 0, NEW x \in shown \cup {Route(r) : r \in Sent}
        PROVE  \E q \in db'.rows : x = Route(q)
    <3>1. PICK r \in db.rows : x = Route(r)
      BY <2>2 DEF Inv, AnnouncedOK
    <3>. QED BY <1>16, <3>1
  <2>. QED BY <1>1, <2>1, <2>2 DEF Inv, AnnouncedOK
<1>19. ToldOK'
  <2>1. Told' \subseteq Told
    <3>1. Sent' = Sent
      BY <1>1 DEF Sent
    <3>. QED BY <1>1, <1>17, <3>1 DEF Told, Route
  <2>. QED BY <1>1, <2>1 DEF Inv, ToldOK
<1>20. MemOK(m, p)'
  <2>1. RecordsOK(m, p)'
    BY <1>3, <1>9 DEF MemOK, RecordsOK
  <2>2. StoredOK(m)'
    BY <1>14 DEF StoredOK, Stored
  <2>3. ASSUME NEW r \in m.pendingInserts PROVE r \in db'.rows
    <3>1. PICK i \in DOMAIN m.records : m.records[i] = r
      BY <1>3 DEF MemOK, BuffersOK
    <3>2. r \in base
      BY <1>2, <1>3 DEF MemOK, BuffersOK, base, Kept
    <3>3. Settled(r) \in Row /\ Settled(r) = r
      <4>1. /\ r \in Row /\ Settled(r) \in Row
            /\ Settled(r).seq = r.seq /\ Settled(r).addr = r.addr /\ Settled(r).label = r.label
            /\ Settled(r).by = FirstSweep(r.addr, p)
        BY <1>4, <3>2
      <4>2. Settled(r).by = r.by
        BY <1>10, <3>1, <4>1
      <4>3. \A x, y \in Row : x.seq = y.seq /\ x.addr = y.addr /\ x.label = y.label /\ x.by = y.by => x = y
        BY DEF Row
      <4>. QED BY <4>1, <4>2, <4>3
    <3>. QED BY <1>6, <3>2, <3>3
  <2>4. BuffersOK(m)'
    BY <1>3, <2>3 DEF MemOK, BuffersOK
  <2>5. ServedOK(m, p)'
    <3>1. ASSUME NEW q \in db'.rows PROVE q.seq < m.seq /\ (IsShown(q.addr) => Has(m, q.addr))
      <4>1. PICK r \in base : q = Settled(r) /\ q.seq = r.seq /\ q.addr = r.addr
        BY <1>4, <1>6
      <4>2. CASE r \in db.rows
        BY <1>3, <4>1, <4>2 DEF MemOK, ServedOK
      <4>3. CASE r \in Kept
        BY <1>3, <1>10, <4>1, <4>3 DEF Has
      <4>. QED BY <4>1, <4>2, <4>3 DEF base
    <3>. QED BY <1>1, <1>3, <3>1 DEF MemOK, ServedOK, IsShown, Has
  <2>6. RequestsOK(m)'
    <3>1. ASSUME NEW x \in requests, IsShown(x.addr) PROVE x \notin db'.rows /\ Conflicts(x)'
      <4>1. /\ x.by = 0 /\ x.label /= NoLabel
            /\ x \notin db.rows /\ Conflicts(x)
        BY <1>3, <3>1 DEF MemOK, RequestsOK
      <4>2. PICK s \in db.rows : s.seq = x.seq \/ s.addr = x.addr
        BY <4>1 DEF Conflicts
      <4>3. Conflicts(x)'
        <5>1. Settled(s) \in db'.rows /\ Settled(s).seq = s.seq /\ Settled(s).addr = s.addr
          BY <1>4, <1>5, <1>6
        <5>. QED BY <4>2, <5>1 DEF Conflicts
      <4>4. ASSUME x \in db'.rows PROVE FALSE
        <5>1. PICK r \in base : x = Settled(r)
          BY <1>6, <4>4
        <5>2. x = r
          BY <1>4, <4>1, <5>1
        <5>. QED BY <1>3, <4>1, <5>2 DEF base
      <4>. QED BY <4>3, <4>4
    <3>. QED BY <1>1, <1>3, <3>1 DEF MemOK, RequestsOK, IsShown
  <2>. QED BY <1>1, <1>3, <1>7, <2>1, <2>2, <2>4, <2>5, <2>6 DEF MemOK
<1>21. PhaseOK'
  <2>1. MemOK(mem, Seen)'
    BY <1>1, <1>2, <1>8, <1>20
  <2>2. Covered'
    BY <1>1, <1>2, <1>14 DEF Covered, Stored
  <2>. QED BY <1>1, <2>1, <2>2 DEF Inv, PhaseOK
<1>. QED BY <1>12, <1>13, <1>15, <1>18, <1>19, <1>21 DEF Inv

LEMMA CommitFlushInv == Inv /\ commitFlush => Inv'
<1>. SUFFICES ASSUME Inv, commitFlush PROVE Inv'
  OBVIOUS
<1>1. /\ phase = "committed" /\ phase' = "idle"
      /\ mem' = [mem EXCEPT !.pendingSwept = {}, !.pendingInserts = {}, !.lastBlock = mem.upTo]
      /\ UNCHANGED <<chain, balance, mempool, asked, requests, shown, db, bot, receive, wipes>>
  BY DEF commitFlush, chainVars, apiVars, limits
<1>2. PICK m, n, p : m = mem /\ n = mem' /\ p = Seen
  OBVIOUS
<1>3. /\ m \in Registry /\ MemOK(m, p) /\ m.upTo \in Nat /\ p = m.upTo
  BY <1>1, <1>2 DEF Inv, PhaseOK, Serving, Typed, Registry, Seen
<1>4. /\ n \in Registry /\ n.records = m.records /\ n.seq = m.seq /\ n.upTo = p /\ n.lastBlock = p
      /\ n.pendingInserts = {} /\ n.pendingSwept = {}
  BY <1>1, <1>2, <1>3 DEF Registry
<1>5. Seen' = p
  BY <1>2, <1>3, <1>4 DEF Seen
<1>6. Typed'
  BY <1>1, <1>2, <1>4 DEF Inv, Typed
<1>7. MoneyOK' /\ AnnouncedOK' /\ ToldOK'
  BY <1>1 DEF Inv, MoneyOK, NotesGoToTheAnnounced, IsShown, AnnouncedOK, Sent, Route, ToldOK, Told
<1>8. RowsOK'
  BY <1>1, SameRows DEF Inv
<1>9. MemOK(n, p)
  <2>1. StoredOK(n)
    BY <1>1, <1>2, <1>4 DEF Inv, PhaseOK, Covered, StoredOK
  <2>. QED BY <1>3, <1>4, <2>1 DEF MemOK, RecordsOK, BuffersOK, ServedOK, RequestsOK, Has
<1>10. MemOK(n, p)'
  BY <1>1, <1>9, SameMem
<1>11. MemOK(mem, Seen)'
  BY <1>2, <1>5, <1>10
<1>12. PhaseOK'
  BY <1>1, <1>11 DEF PhaseOK
<1>. QED BY <1>6, <1>7, <1>8, <1>12 DEF Inv

LEMMA RollBackInv == Inv /\ RollBack => Inv'
<1>. SUFFICES ASSUME Inv, RollBack PROVE Inv'
  OBVIOUS
<1>1. /\ phase \in {"applied", "committed"} /\ phase' = "idle"
      /\ UNCHANGED <<chain, balance, mempool, asked, requests, shown, mem, db, bot, receive, wipes>>
  BY DEF RollBack, Fault, chainVars, apiVars
<1>2. Typed'
  BY <1>1 DEF Inv, Typed
<1>3. MoneyOK' /\ AnnouncedOK' /\ ToldOK'
  BY <1>1 DEF Inv, MoneyOK, NotesGoToTheAnnounced, IsShown, AnnouncedOK, Sent, Route, ToldOK, Told
<1>4. RowsOK'
  BY <1>1, SameRows DEF Inv
<1>5. PICK m, p : m = mem /\ p = Seen
  OBVIOUS
<1>6. mem' = m /\ Seen' = p /\ MemOK(m, p)
  BY <1>1, <1>5 DEF Seen, Inv, PhaseOK, Serving
<1>7. MemOK(m, p)'
  BY <1>1, <1>6, SameMem
<1>8. MemOK(mem, Seen)'
  BY <1>6, <1>7
<1>9. PhaseOK'
  BY <1>1, <1>8 DEF PhaseOK
<1>. QED BY <1>2, <1>3, <1>4, <1>9 DEF Inv

LEMMA CrashInv == Inv /\ Crash => Inv'
<1>. SUFFICES ASSUME Inv, Crash PROVE Inv'
  OBVIOUS
<1>1. /\ phase' = "down" /\ mem' = NoMem /\ requests' = {}
      /\ UNCHANGED <<chain, balance, mempool, asked, shown, db, bot, receive, wipes>>
  BY DEF Crash, Stop, Fault, chainVars
<1>2. NoMem \in Registry
  BY DEF NoMem, Registry
<1>3. Typed'
  BY <1>1, <1>2 DEF Inv, Typed
<1>4. MoneyOK' /\ AnnouncedOK'
  BY <1>1 DEF Inv, MoneyOK, NotesGoToTheAnnounced, IsShown, AnnouncedOK, Sent, Route
<1>5. RowsOK'
  BY <1>1, SameRows DEF Inv
<1>6. ToldOK'
  <2>1. Told' \subseteq Told
    BY <1>1 DEF Told, Sent, Route
  <2>. QED BY <1>1, <2>1 DEF Inv, ToldOK
<1>7. PhaseOK'
  BY <1>1 DEF PhaseOK, Serving
<1>. QED BY <1>3, <1>4, <1>5, <1>6, <1>7 DEF Inv

LEMMA WipeInv == Inv /\ Wipe => Inv'
<1>. SUFFICES ASSUME Inv, Wipe PROVE Inv'
  OBVIOUS
<1>1. /\ phase' = "down" /\ mem' = NoMem /\ requests' = {}
      /\ db' = [rows |-> {}, cursor |-> 0] /\ wipes' = wipes + 1 /\ receive
      /\ UNCHANGED <<chain, balance, mempool, asked, shown, bot, receive>>
  BY DEF Wipe, Stop, chainVars
<1>2. NoMem \in Registry /\ db' \in [rows : SUBSET Row, cursor : Nat] /\ IsFiniteSet(db'.rows)
  <2>1. IsFiniteSet({})
    BY FS_EmptySet
  <2>. QED BY <1>1, <2>1 DEF NoMem, Registry
<1>3. Typed' /\ wipes' /= 0
  BY <1>1, <1>2 DEF Inv, Typed
<1>4. MoneyOK'
  BY <1>1 DEF Inv, MoneyOK, NotesGoToTheAnnounced, IsShown
<1>5. AnnouncedOK'
  BY <1>1, <1>3 DEF Inv, AnnouncedOK, Sent
<1>6. RowsOK'
  <2>1. 0 <= Len(chain')
    BY <1>1 DEF Inv, Typed
  <2>. QED BY <1>1, <2>1 DEF RowsOK, RowsTellTheFirstSweep, SweptAreRecovered
<1>7. ToldOK'
  <2>1. Told' \subseteq Told
    BY <1>1 DEF Told, Sent, Route
  <2>. QED BY <1>1, <2>1 DEF Inv, ToldOK
<1>8. PhaseOK'
  BY <1>1 DEF PhaseOK, Serving
<1>. QED BY <1>3, <1>4, <1>5, <1>6, <1>7, <1>8 DEF Inv

LEMMA NextInv == Inv /\ [Next]_vars => Inv'
<1>. SUFFICES ASSUME Inv, [Next]_vars PROVE Inv'
  OBVIOUS
<1>1. CASE boot \/ applyLogs \/ persistAtomically \/ commitFlush
  BY <1>1, BootInv, ApplyLogsInv, PersistInv, CommitFlushInv
<1>2. CASE \E a \in Address, l \in Label : issue(a, l)
  BY <1>2, IssueInv
<1>3. CASE \E r \in requests : insert(r)
  BY <1>3, InsertInv
<1>4. CASE \E r \in requests : issued(r)
  BY <1>4, IssuedInv
<1>5. CASE \E r \in requests : refused(r) \/ InsertFails(r)
  BY <1>5, RequestEndsInv
<1>6. CASE RollBack \/ Crash \/ Wipe
  BY <1>6, RollBackInv, CrashInv, WipeInv
<1>7. CASE \E a \in Address : Pay(a)
  BY <1>7, PayInv
<1>8. CASE sweep
  BY <1>8, SweepInv
<1>9. CASE fetchUnswept \/ readBalance \/ submit
  BY <1>9, FetchUnsweptInv, ReadBalanceInv, SubmitInv
<1>10. CASE waitForTransactionReceipt \/ RecordFails \/ BotCrash
  BY <1>10, BotEndsInv
<1>11. CASE UNCHANGED vars
  <2>1. UNCHANGED <<chain, balance, mempool, asked, requests, shown, mem, db, phase, bot, receive, wipes>>
    BY <1>11 DEF vars, chainVars, apiVars, limits
  <2>. QED BY <2>1, FewerRequests
<1>. QED BY <1>1, <1>2, <1>3, <1>4, <1>5, <1>6, <1>7, <1>8, <1>9, <1>10, <1>11 DEF Next

LEMMA AlwaysInv == Spec => []Inv
BY InitInv, NextInv, PTL DEF Spec

-----------------------------------------------------------------------------
\* First write wins (FirstWriteWins), whatever is asked for and whatever fails:
\* until the store is lost, an address that was shown has one row, with the
\* label it was shown for.
THEOREM FirstWriteAlwaysWins == Spec => []FirstWriteWins
<1>1. Inv => FirstWriteWins
  <2>. SUFFICES ASSUME Inv, wipes = 0, NEW p \in shown
                PROVE  \E r \in db.rows : p = <<r.addr, r.label>> /\ \A s \in db.rows : s.addr = r.addr => s = r
    BY DEF FirstWriteWins
  <2>1. PICK r \in db.rows : p = Route(r)
    BY DEF Inv, AnnouncedOK
  <2>2. \A s \in db.rows : s.addr = r.addr => s = r
    BY DEF Inv, RowsOK
  <2>. QED BY <2>1, <2>2 DEF Route
<1>. QED BY <1>1, AlwaysInv, PTL

\* Every sweep of the factory mints to the label its address was shown for
\* (NotesGoToTheAnnounced), however stale the bot's round is when it lands.
THEOREM NotesAlwaysGoToTheAnnounced == Spec => []NotesGoToTheAnnounced
<1>1. Inv => NotesGoToTheAnnounced
  BY DEF Inv, MoneyOK
<1>. QED BY <1>1, AlwaysInv, PTL

\* The flips of the rows are those of the first sweeps up to the cursor
\* (RowsTellTheFirstSweep), for any number of replays and re-sweeps.
THEOREM RowsAlwaysTellTheFirstSweep == Spec => []RowsTellTheFirstSweep
<1>1. Inv => RowsTellTheFirstSweep
  BY DEF Inv, RowsOK
<1>. QED BY <1>1, AlwaysInv, PTL

\* What the receive factory announced up to the cursor has its row
\* (SweptAreRecovered), however often the store was lost.
THEOREM SweptAreAlwaysRecovered == Spec => []SweptAreRecovered
<1>1. Inv => SweptAreRecovered
  BY DEF Inv, RowsOK
<1>. QED BY <1>1, AlwaysInv, PTL

-----------------------------------------------------------------------------
(* The name directory: the inductive invariant.                            *)

PC == {"taken", "insert", "committed", "unheard", "failed", "ok"}

Request == [name : Name, form : {"v1", "v2"}, signed : Pair \cup {None}, late : BOOLEAN,
            pc : PC, record : Record]

DirectoryTyped ==
    /\ byName \in [Name -> Record \cup {None}]
    /\ rows \in [Name -> Record \cup {None}]
    /\ registrations \in Seq(Request)
    /\ up \in BOOLEAN
    /\ claimed \subseteq Name

\* The record is its owner's own.
Own(r, n) ==
    /\ \E i \in SignedBy(r.owner, n) : registrations[i].record.meta = r.meta
    /\ r.pair /= None => \E i \in SignedBy(r.owner, n) : registrations[i].signed = r.pair

\* The owner asked for the name before it was ever served.
Early(owner, n) ==
    \E j \in DOMAIN registrations :
        /\ Passed(j) /\ ~registrations[j].late
        /\ registrations[j].name = n /\ registrations[j].record.owner = owner

RequestsAreOwn ==
    \A i \in DOMAIN registrations :
        Passed(i) => Own(registrations[i].record, registrations[i].name)

RecordsAreOwn == \A n \in Name : \A r \in {byName[n], rows[n]} \ {None} : Own(r, n)

RowsAreStored ==
    /\ \A n \in Name : rows[n] /= None => <<n, rows[n]>> \in stored
    /\ \A i \in DOMAIN registrations : At(i, "committed") =>
           /\ <<registrations[i].name, registrations[i].record>> \in stored
           /\ rows[registrations[i].name] /= None

ClaimedAreServed == up => \A n \in claimed : byName[n] /= None

RecordsAreEarly == \A n \in Name : \A r \in {byName[n], rows[n]} \ {None} : Early(r.owner, n)

DirectoryInv ==
    /\ DirectoryTyped
    /\ RequestsAreOwn /\ RecordsAreOwn
    /\ ServedWasStored /\ RowsAreStored
    /\ ClaimedAreServed
    /\ LatecomersAreRefused /\ RecordsAreEarly

-----------------------------------------------------------------------------
(***************************************************************************)
(* What no step changes of a request: all but how far it is, and that it   *)
(* was let through.                                                        *)
(***************************************************************************)
RegistrationsKept ==
    \A i \in DOMAIN registrations :
        /\ i \in DOMAIN registrations'
        /\ registrations'[i].name = registrations[i].name
        /\ registrations'[i].signed = registrations[i].signed
        /\ registrations'[i].late = registrations[i].late
        /\ registrations'[i].record = registrations[i].record
        /\ Passed(i) => Passed(i)'

\* No request is new.
Same ==
    /\ DOMAIN registrations' = DOMAIN registrations
    /\ \A i \in DOMAIN registrations : Passed(i)' => Passed(i)

LEMMA OwnIsKept ==
    ASSUME RegistrationsKept, NEW r, NEW n, Own(r, n)
    PROVE  Own(r, n)'
BY DEF RegistrationsKept, Own, SignedBy

LEMMA EarlyIsKept ==
    ASSUME RegistrationsKept, NEW o, NEW n, Early(o, n)
    PROVE  Early(o, n)'
BY DEF RegistrationsKept, Early

\* A request is let through one step further.
LEMMA GoesKeeps ==
    ASSUME DirectoryTyped, NEW i \in DOMAIN registrations, NEW pc \in PC \ {"taken"},
           ~At(i, "taken"), Goes(i, pc)
    PROVE  /\ registrations' \in Seq(Request)
           /\ RegistrationsKept /\ Same
           /\ registrations'[i].pc = pc
           /\ \A j \in DOMAIN registrations : j /= i => registrations'[j] = registrations[j]
<1>1. registrations \in [1..Len(registrations) -> Request] /\ Len(registrations) \in Nat
  BY DEF DirectoryTyped
<1>2. registrations' = [registrations EXCEPT ![i].pc = pc]
  BY DEF Goes
<1>3. [registrations[i] EXCEPT !.pc = pc] \in Request
  BY <1>1 DEF Request
<1>4. registrations' \in [1..Len(registrations) -> Request]
  BY <1>1, <1>2, <1>3
<1>5. registrations' \in Seq(Request)
  BY <1>1, <1>4
<1>6. /\ DOMAIN registrations' = DOMAIN registrations
      /\ registrations'[i] = [registrations[i] EXCEPT !.pc = pc]
      /\ \A j \in DOMAIN registrations : j /= i => registrations'[j] = registrations[j]
  BY <1>1, <1>2
<1>7. RegistrationsKept /\ Same /\ registrations'[i].pc = pc
  BY <1>1, <1>6 DEF RegistrationsKept, Same, Passed, At, PC, Request
<1>. QED BY <1>5, <1>6, <1>7

LEMMA StepKeeps ==
    ASSUME DirectoryInv, RegistrationsKept, Same, registrations' \in Seq(Request)
    PROVE  /\ RequestsAreOwn' /\ LatecomersAreRefused'
           /\ \A n \in Name : \A r \in {byName[n], rows[n]} \ {None} :
                  Own(r, n)' /\ Early(r.owner, n)'
<1>1. RequestsAreOwn'
  <2>1. \A r, n : Own(r, n) => Own(r, n)'
    BY OwnIsKept
  <2>2. ASSUME NEW r, NEW n, NEW i \in DOMAIN registrations,
               Passed(i), r = registrations[i].record, n = registrations[i].name
        PROVE  Own(r, n)' /\ registrations'[i].record = r /\ registrations'[i].name = n
    BY <2>1, <2>2 DEF DirectoryInv, RequestsAreOwn, RegistrationsKept
  <2>. QED BY <2>2 DEF RequestsAreOwn, Same, Own, SignedBy
<1>2. LatecomersAreRefused'
  <2>1. SUFFICES ASSUME NEW i \in DOMAIN registrations, Passed(i), registrations[i].late
                 PROVE  \E j \in 1..(i - 1) :
                            /\ Passed(j)' /\ ~registrations'[j].late
                            /\ registrations'[j].name = registrations[i].name
                            /\ registrations'[j].record.owner = registrations[i].record.owner
    BY DEF LatecomersAreRefused, Same, RegistrationsKept
  <2>2. PICK j \in 1..(i - 1) :
            /\ Passed(j) /\ ~registrations[j].late
            /\ registrations[j].name = registrations[i].name
            /\ registrations[j].record.owner = registrations[i].record.owner
    BY <2>1 DEF DirectoryInv, LatecomersAreRefused
  <2>3. j \in DOMAIN registrations
    BY <2>2 DEF DirectoryInv, DirectoryTyped
  <2>. QED BY <2>2, <2>3 DEF RegistrationsKept
<1>3. ASSUME NEW n \in Name, NEW r \in {byName[n], rows[n]} \ {None}
      PROVE  Own(r, n)' /\ Early(r.owner, n)'
  <2>1. Own(r, n) /\ Early(r.owner, n)
    BY DEF DirectoryInv, RecordsAreOwn, RecordsAreEarly
  <2>. QED BY <2>1, OwnIsKept, EarlyIsKept
<1>. QED BY <1>1, <1>2, <1>3

\* Whoever was let through may have the name.
LEMMA PassedAreEarly ==
    ASSUME DirectoryInv, NEW i \in DOMAIN registrations, Passed(i)
    PROVE  Early(registrations[i].record.owner, registrations[i].name)
<1>1. CASE ~registrations[i].late
  BY <1>1 DEF Early
<1>2. CASE registrations[i].late
  <2>1. PICK j \in 1..(i - 1) :
            /\ Passed(j) /\ ~registrations[j].late
            /\ registrations[j].name = registrations[i].name
            /\ registrations[j].record.owner = registrations[i].record.owner
    BY <1>2 DEF DirectoryInv, LatecomersAreRefused
  <2>2. j \in DOMAIN registrations
    BY <2>1 DEF DirectoryInv, DirectoryTyped
  <2>. QED BY <2>1, <2>2 DEF Early
<1>. QED BY <1>1, <1>2

-----------------------------------------------------------------------------
(***************************************************************************)
(* Each action keeps the invariant.                                        *)
(***************************************************************************)
LEMMA DirectoryInitInv == DirectoryInit => DirectoryInv
<1>. SUFFICES ASSUME DirectoryInit PROVE DirectoryInv
  OBVIOUS
<1>1. DirectoryTyped
  BY DEF DirectoryInit, DirectoryTyped, Empty
<1>2. /\ registrations = <<>> /\ DOMAIN registrations = {} /\ claimed = {} /\ stored = {}
      /\ \A n \in Name : byName[n] = None /\ rows[n] = None
  BY DEF DirectoryInit, Empty
<1>. QED BY <1>1, <1>2 DEF DirectoryInv, RequestsAreOwn, RecordsAreOwn, ServedWasStored, RowsAreStored,
                           ClaimedAreServed, LatecomersAreRefused, RecordsAreEarly

LEMMA InsertRowInv ==
    ASSUME DirectoryInv, NEW i \in DOMAIN registrations, insertRow(i)
    PROVE  DirectoryInv'
<1>1. registrations[i] \in Request /\ At(i, "insert")
  BY DEF DirectoryInv, DirectoryTyped, insertRow
<1>2. PICK n \in Name, r \in Record : n = registrations[i].name /\ r = registrations[i].record
  BY <1>1 DEF Request
<1>3. r /= None /\ Passed(i) /\ ~At(i, "taken")
  BY <1>1, DirectoryAssumption DEF At, Passed
<1>4. PICK pc \in {"committed", "unheard"} : Goes(i, pc)
  BY DEF insertRow, Goes
<1>5. /\ registrations' \in Seq(Request) /\ RegistrationsKept /\ Same
      /\ \A j \in DOMAIN registrations : j /= i => registrations'[j] = registrations[j]
  <2>1. pc \in PC \ {"taken"}
    BY DEF PC
  <2>. QED BY <1>3, <1>4, <2>1, GoesKeeps DEF DirectoryInv
<1>6. /\ byName' = byName /\ up' = up /\ claimed' = claimed
      /\ rows' = [rows EXCEPT ![n] = r]
      /\ stored' = stored \cup {<<n, r>>}
  BY <1>2 DEF insertRow
<1>7. rows'[n] = r /\ \A m \in Name : m /= n => rows'[m] = rows[m]
  BY <1>6 DEF DirectoryInv, DirectoryTyped
<1>8. DirectoryTyped'
  BY <1>5, <1>6 DEF DirectoryInv, DirectoryTyped
<1>9. /\ RequestsAreOwn' /\ LatecomersAreRefused'
      /\ \A m \in Name : \A q \in {byName[m], rows[m]} \ {None} :
             Own(q, m)' /\ Early(q.owner, m)'
  BY <1>5, StepKeeps
<1>10. Own(r, n)' /\ Early(r.owner, n)'
  <2>1. Own(r, n) /\ Early(r.owner, n)
    BY <1>2, <1>3, PassedAreEarly DEF DirectoryInv, RequestsAreOwn
  <2>. QED BY <1>5, <2>1, OwnIsKept, EarlyIsKept
<1>11. RecordsAreOwn' /\ RecordsAreEarly'
  <2>1. \A m \in Name :
            /\ m /= n => {byName'[m], rows'[m]} = {byName[m], rows[m]}
            /\ m = n => {byName'[m], rows'[m]} = {byName[m], r}
    BY <1>6, <1>7
  <2>. QED BY <1>9, <1>10, <2>1 DEF RecordsAreOwn, RecordsAreEarly
<1>12. RowsAreStored'
  <2>1. ASSUME NEW j \in DOMAIN registrations, registrations'[j].pc = "committed"
        PROVE  /\ <<registrations[j].name, registrations[j].record>> \in stored'
               /\ rows'[registrations[j].name] /= None
    <3>1. CASE j = i
      BY <1>2, <1>3, <1>6, <1>7, <3>1
    <3>2. CASE j /= i
      <4>1. registrations'[j] = registrations[j]
        BY <1>5, <3>2
      <4>2. registrations[j] \in Request
        BY DEF DirectoryInv, DirectoryTyped
      <4>3. registrations[j].name \in Name /\ At(j, "committed")
        BY <2>1, <4>1, <4>2 DEF At, Request
      <4>. QED BY <1>3, <1>6, <1>7, <4>3 DEF DirectoryInv, RowsAreStored
    <3>. QED BY <3>1, <3>2
  <2>2. ASSUME NEW m \in Name, rows'[m] /= None PROVE <<m, rows'[m]>> \in stored'
    BY <1>6, <1>7, <2>2 DEF DirectoryInv, RowsAreStored
  <2>. QED BY <1>5, <2>1, <2>2 DEF RowsAreStored, RegistrationsKept, Same, At
<1>13. ServedWasStored' /\ ClaimedAreServed'
  BY <1>3, <1>6, <1>7 DEF DirectoryInv, DirectoryTyped, ServedWasStored, ClaimedAreServed
<1>. QED BY <1>8, <1>9, <1>11, <1>12, <1>13 DEF DirectoryInv

LEMMA InsertFailsInv ==
    ASSUME DirectoryInv, NEW i \in DOMAIN registrations, insertFails(i)
    PROVE  DirectoryInv'
<1>1. PICK pc \in {"failed", "unheard"} : Goes(i, pc)
  BY DEF insertFails, Goes
<1>2. /\ registrations' \in Seq(Request) /\ RegistrationsKept /\ Same
      /\ registrations'[i].pc = pc
      /\ \A j \in DOMAIN registrations : j /= i => registrations'[j] = registrations[j]
  <2>1. ~At(i, "taken") /\ pc \in PC \ {"taken"}
    BY DEF insertFails, At, PC
  <2>. QED BY <1>1, <2>1, GoesKeeps DEF DirectoryInv
<1>3. UNCHANGED <<byName, rows, up, claimed, stored>>
  BY DEF insertFails
<1>4. DirectoryTyped'
  BY <1>2, <1>3 DEF DirectoryInv, DirectoryTyped
<1>5. /\ RequestsAreOwn' /\ LatecomersAreRefused'
      /\ \A m \in Name : \A q \in {byName[m], rows[m]} \ {None} :
             Own(q, m)' /\ Early(q.owner, m)'
  BY <1>2, StepKeeps
<1>6. RecordsAreOwn' /\ RecordsAreEarly'
  BY <1>3, <1>5 DEF RecordsAreOwn, RecordsAreEarly
<1>7. RowsAreStored'
  BY <1>2, <1>3 DEF DirectoryInv, RowsAreStored, At, Same
<1>8. ServedWasStored' /\ ClaimedAreServed'
  BY <1>3 DEF DirectoryInv, ServedWasStored, ClaimedAreServed
<1>. QED BY <1>4, <1>5, <1>6, <1>7, <1>8 DEF DirectoryInv

LEMMA ServeInv ==
    ASSUME DirectoryInv, NEW i \in DOMAIN registrations, serve(i)
    PROVE  DirectoryInv'
<1>1. registrations[i] \in Request /\ At(i, "committed")
  BY DEF DirectoryInv, DirectoryTyped, serve, Awaited
<1>2. PICK n \in Name, r \in Record : n = registrations[i].name /\ r = registrations[i].record
  BY <1>1 DEF Request
<1>3. r /= None /\ Passed(i) /\ <<n, r>> \in stored /\ rows[n] /= None
  BY <1>1, <1>2, DirectoryAssumption DEF At, Passed, DirectoryInv, RowsAreStored
<1>4. /\ registrations' \in Seq(Request) /\ RegistrationsKept /\ Same
      /\ registrations'[i].pc = "ok"
      /\ \A j \in DOMAIN registrations : j /= i => registrations'[j] = registrations[j]
  <2>1. ~At(i, "taken") /\ "ok" \in PC \ {"taken"} /\ Goes(i, "ok")
    BY <1>1 DEF serve, At, PC
  <2>. QED BY <2>1, GoesKeeps DEF DirectoryInv
<1>5. /\ rows' = rows /\ up' = up /\ stored' = stored
      /\ byName' = [byName EXCEPT ![n] = r]
      /\ claimed' = claimed \cup {n}
  BY <1>2 DEF serve
<1>6. byName'[n] = r /\ \A m \in Name : m /= n => byName'[m] = byName[m]
  BY <1>5 DEF DirectoryInv, DirectoryTyped
<1>7. DirectoryTyped'
  BY <1>4, <1>5 DEF DirectoryInv, DirectoryTyped
<1>8. /\ RequestsAreOwn' /\ LatecomersAreRefused'
      /\ \A m \in Name : \A q \in {byName[m], rows[m]} \ {None} :
             Own(q, m)' /\ Early(q.owner, m)'
  BY <1>4, StepKeeps
<1>9. Own(r, n)' /\ Early(r.owner, n)'
  <2>1. Own(r, n) /\ Early(r.owner, n)
    BY <1>2, <1>3, PassedAreEarly DEF DirectoryInv, RequestsAreOwn
  <2>. QED BY <1>4, <2>1, OwnIsKept, EarlyIsKept
<1>10. RecordsAreOwn' /\ RecordsAreEarly'
  <2>1. \A m \in Name :
            /\ m /= n => {byName'[m], rows'[m]} = {byName[m], rows[m]}
            /\ m = n => {byName'[m], rows'[m]} = {r, rows[m]}
    BY <1>5, <1>6
  <2>. QED BY <1>8, <1>9, <2>1 DEF RecordsAreOwn, RecordsAreEarly
<1>11. RowsAreStored'
  BY <1>4, <1>5 DEF DirectoryInv, RowsAreStored, At, Same
<1>12. ServedWasStored' /\ ClaimedAreServed'
  BY <1>3, <1>5, <1>6 DEF DirectoryInv, DirectoryTyped, ServedWasStored, ClaimedAreServed
<1>. QED BY <1>7, <1>8, <1>10, <1>11, <1>12 DEF DirectoryInv

LEMMA DirectoryCrashInv ==
    ASSUME DirectoryInv, DirectoryCrash
    PROVE  DirectoryInv'
<1>1. registrations \in [1..Len(registrations) -> Request] /\ Len(registrations) \in Nat
  BY DEF DirectoryInv, DirectoryTyped
<1>2. \A i \in 1..Len(registrations) :
          [registrations[i] EXCEPT !.pc = "unheard"] \in Request
  BY <1>1 DEF Request, PC
<1>3. /\ DOMAIN registrations' = DOMAIN registrations
      /\ \A i \in DOMAIN registrations :
             registrations'[i] = IF At(i, "committed") THEN [registrations[i] EXCEPT !.pc = "unheard"]
                                                  ELSE registrations[i]
  BY DEF DirectoryCrash
<1>4. registrations' \in [1..Len(registrations) -> Request]
  BY <1>1, <1>2 DEF DirectoryCrash
<1>5. registrations' \in Seq(Request)
  BY <1>1, <1>4
<1>6. RegistrationsKept /\ Same
  BY <1>1, <1>3 DEF RegistrationsKept, Same, Passed, At, Request
<1>7. /\ up' = FALSE /\ UNCHANGED <<rows, claimed, stored>>
      /\ byName' = [n \in Name |-> None]
  BY DEF DirectoryCrash, Empty
<1>8. DirectoryTyped'
  BY <1>5, <1>7 DEF DirectoryInv, DirectoryTyped
<1>9. /\ RequestsAreOwn' /\ LatecomersAreRefused'
      /\ \A m \in Name : \A q \in {byName[m], rows[m]} \ {None} :
             Own(q, m)' /\ Early(q.owner, m)'
  BY <1>5, <1>6, StepKeeps
<1>10. RecordsAreOwn' /\ RecordsAreEarly'
  BY <1>7, <1>9 DEF RecordsAreOwn, RecordsAreEarly
<1>11. RowsAreStored'
  BY <1>1, <1>3, <1>7 DEF DirectoryInv, RowsAreStored, At, Request
<1>12. ServedWasStored' /\ ClaimedAreServed'
  BY <1>7 DEF DirectoryInv, ServedWasStored, ClaimedAreServed
<1>. QED BY <1>8, <1>9, <1>10, <1>11, <1>12 DEF DirectoryInv

LEMMA BootDirectoryInv ==
    ASSUME DirectoryInv, bootDirectory
    PROVE  DirectoryInv'
<1>1. /\ byName' = rows /\ up' = TRUE /\ UNCHANGED <<rows, registrations, stored>>
      /\ claimed' = claimed \cup {n \in Name : rows[n] /= None}
  BY DEF bootDirectory, Loaded
<1>2. registrations' \in Seq(Request) /\ RegistrationsKept /\ Same
  BY <1>1 DEF DirectoryInv, DirectoryTyped, RegistrationsKept, Same, Passed, At
<1>3. DirectoryTyped'
  BY <1>1, <1>2 DEF DirectoryInv, DirectoryTyped
<1>4. /\ RequestsAreOwn' /\ LatecomersAreRefused'
      /\ \A m \in Name : \A q \in {byName[m], rows[m]} \ {None} :
             Own(q, m)' /\ Early(q.owner, m)'
  BY <1>2, StepKeeps
<1>5. RecordsAreOwn' /\ RecordsAreEarly'
  BY <1>1, <1>4 DEF RecordsAreOwn, RecordsAreEarly
<1>6. RowsAreStored'
  BY <1>1 DEF DirectoryInv, RowsAreStored, At
<1>7. ServedWasStored' /\ ClaimedAreServed'
  BY <1>1 DEF DirectoryInv, DirectoryTyped, ServedWasStored, RowsAreStored, ClaimedAreServed
<1>. QED BY <1>3, <1>4, <1>5, <1>6, <1>7 DEF DirectoryInv

\* A registration is appended to those before it.
LEMMA RegisterKeeps ==
    ASSUME DirectoryTyped, NEW q \in Request, registrations' = Append(registrations, q)
    PROVE  /\ registrations' \in Seq(Request) /\ RegistrationsKept
           /\ Len(registrations) \in Nat
           /\ DOMAIN registrations = 1..Len(registrations)
           /\ DOMAIN registrations' = 1..(Len(registrations) + 1)
           /\ registrations'[Len(registrations) + 1] = q
           /\ \A i \in DOMAIN registrations : registrations'[i] = registrations[i]
<1>1. /\ registrations' \in Seq(Request) /\ Len(registrations) \in Nat
      /\ DOMAIN registrations = 1..Len(registrations)
      /\ DOMAIN registrations' = 1..(Len(registrations) + 1)
      /\ registrations'[Len(registrations) + 1] = q
      /\ \A i \in DOMAIN registrations : registrations'[i] = registrations[i]
  BY DEF DirectoryTyped
<1>2. RegistrationsKept
  BY <1>1 DEF RegistrationsKept, Passed, At
<1>. QED BY <1>1, <1>2

LEMMA RegisterInv ==
    ASSUME DirectoryInv,
           NEW name \in Name, NEW owner \in Owner, NEW meta \in Meta,
           NEW form \in {"v1", "v2"}, NEW pair \in Pair \cup {None},
           register(name, owner, meta, form, pair)
    PROVE  DirectoryInv'
<1>1. PICK existing \in Record \cup {None} : existing = byName[name]
  BY DEF DirectoryInv, DirectoryTyped
<1>2. PICK r \in Record :
          r = [owner |-> owner, meta |-> meta, pair |-> pairOf(existing, form, pair)]
  <2>1. pairOf(existing, form, pair) \in Pair \cup {None}
    <3>1. existing /= None => existing.pair \in Pair \cup {None}
      BY <1>1 DEF Record
    <3>. QED BY <3>1 DEF pairOf
  <2>. QED BY <2>1 DEF Record
<1>3. PICK q \in Request :
          q = [name |-> name, form |-> form, signed |-> pair, late |-> name \in claimed,
               pc |-> IF Taken(existing, owner) THEN "taken" ELSE "insert", record |-> r]
  <2>1. [name |-> name, form |-> form, signed |-> pair, late |-> name \in claimed,
         pc |-> IF Taken(existing, owner) THEN "taken" ELSE "insert", record |-> r] \in Request
    BY DEF Request, PC
  <2>. QED BY <2>1
<1>4. up /\ registrations' = Append(registrations, q) /\ UNCHANGED <<byName, rows, up, claimed, stored>>
  BY <1>1, <1>2, <1>3 DEF register
<1>5. PICK k \in Nat \ {0} :
          /\ registrations' \in Seq(Request) /\ RegistrationsKept
          /\ DOMAIN registrations = 1..(k - 1) /\ DOMAIN registrations' = 1..k
          /\ registrations'[k] = q
          /\ \A i \in DOMAIN registrations : registrations'[i] = registrations[i]
  <2>1. Len(registrations) + 1 \in Nat \ {0} /\ (Len(registrations) + 1) - 1 = Len(registrations)
    BY <1>4, RegisterKeeps DEF DirectoryInv
  <2>. QED BY <1>4, <2>1, RegisterKeeps DEF DirectoryInv
<1>6. /\ q.name = name /\ q.record = r /\ q.signed = pair /\ q.late = (name \in claimed)
      /\ r.owner = owner /\ r.meta = meta /\ r.pair = pairOf(existing, form, pair)
      /\ q.pc /= "taken" => existing = None \/ existing.owner = owner
  BY <1>2, <1>3 DEF Taken
<1>7. DirectoryTyped'
  BY <1>4, <1>5 DEF DirectoryInv, DirectoryTyped
<1>8. ASSUME q.pc /= "taken" PROVE Own(r, name)'
  <2>1. k \in SignedBy(owner, name)' /\ registrations'[k] = q
    BY <1>5, <1>6 DEF SignedBy
  <2>2. \E i \in SignedBy(owner, name)' : registrations'[i].record.meta = r.meta
    BY <1>6, <2>1
  <2>3. ASSUME r.pair /= None
        PROVE  \E i \in SignedBy(owner, name)' : registrations'[i].signed = r.pair
    <3>1. CASE form = "v2"
      BY <1>6, <2>1, <3>1 DEF pairOf
    <3>2. CASE form /= "v2"
      <4>1. existing /= None /\ existing.owner = owner /\ existing.pair = r.pair
        BY <1>6, <1>8, <2>3, <3>2 DEF pairOf
      <4>2. Own(existing, name)
        BY <1>1, <4>1 DEF DirectoryInv, RecordsAreOwn
      <4>3. Own(existing, name)'
        BY <1>5, <4>2, OwnIsKept
      <4>. QED BY <2>3, <4>1, <4>3 DEF Own
    <3>. QED BY <3>1, <3>2
  <2>. QED BY <1>6, <2>2, <2>3 DEF Own
<1>9. RequestsAreOwn'
  <2>1. ASSUME NEW i \in DOMAIN registrations, Passed(i), NEW o, NEW n,
               o = registrations[i].record, n = registrations[i].name
        PROVE  Own(o, n)'
    BY <1>5, <2>1, OwnIsKept DEF DirectoryInv, RequestsAreOwn
  <2>2. ASSUME NEW i \in 1..k, Passed(i)', NEW o, NEW n,
               o = registrations'[i].record, n = registrations'[i].name
        PROVE  Own(o, n)'
    <3>1. CASE i = k
      BY <1>5, <1>6, <1>8, <2>2, <3>1 DEF Passed, At
    <3>2. CASE i /= k
      BY <1>5, <2>1, <2>2, <3>2 DEF Passed, At
    <3>. QED BY <3>1, <3>2
  <2>. QED BY <1>5, <2>2 DEF RequestsAreOwn, Own, SignedBy
<1>10. LatecomersAreRefused'
  <2>1. SUFFICES ASSUME NEW i \in 1..k, Passed(i)', registrations'[i].late
                 PROVE  \E j \in 1..(i - 1) :
                            /\ Passed(j)' /\ ~registrations'[j].late
                            /\ registrations'[j].name = registrations'[i].name
                            /\ registrations'[j].record.owner = registrations'[i].record.owner
    BY <1>5 DEF LatecomersAreRefused
  <2>2. CASE i = k
    <3>1. name \in claimed /\ existing = byName[name] /\ q.pc /= "taken"
      BY <1>1, <1>5, <1>6, <2>1, <2>2 DEF Passed, At
    <3>2. existing /= None /\ existing.owner = owner
      BY <1>4, <1>6, <3>1 DEF DirectoryInv, ClaimedAreServed
    <3>3. Early(owner, name)
      BY <3>1, <3>2 DEF DirectoryInv, RecordsAreEarly
    <3>4. PICK j \in DOMAIN registrations :
              /\ Passed(j) /\ ~registrations[j].late
              /\ registrations[j].name = name /\ registrations[j].record.owner = owner
      BY <3>3 DEF Early
    <3>. QED BY <1>5, <1>6, <2>2, <3>4 DEF Passed, At
  <2>3. CASE i /= k
    <3>1. i \in DOMAIN registrations /\ registrations'[i] = registrations[i] /\ Passed(i)
      BY <1>5, <2>1, <2>3 DEF Passed, At
    <3>2. PICK j \in 1..(i - 1) :
              /\ Passed(j) /\ ~registrations[j].late
              /\ registrations[j].name = registrations[i].name
              /\ registrations[j].record.owner = registrations[i].record.owner
      BY <2>1, <3>1 DEF DirectoryInv, LatecomersAreRefused
    <3>3. registrations'[j] = registrations[j]
      BY <1>5, <3>1, <3>2
    <3>. QED BY <3>1, <3>2, <3>3 DEF Passed, At
  <2>. QED BY <2>2, <2>3
<1>11. RecordsAreOwn' /\ RecordsAreEarly'
  <2>1. ASSUME NEW n \in Name, NEW o \in {byName[n], rows[n]} \ {None}
        PROVE  Own(o, n)' /\ Early(o.owner, n)'
    <3>1. Own(o, n) /\ Early(o.owner, n)
      BY DEF DirectoryInv, RecordsAreOwn, RecordsAreEarly
    <3>. QED BY <1>5, <3>1, OwnIsKept, EarlyIsKept
  <2>. QED BY <1>4, <2>1 DEF RecordsAreOwn, RecordsAreEarly
<1>12. RowsAreStored'
  BY <1>3, <1>4, <1>5 DEF DirectoryInv, RowsAreStored, At
<1>13. ServedWasStored' /\ ClaimedAreServed'
  BY <1>4 DEF DirectoryInv, ServedWasStored, ClaimedAreServed
<1>. QED BY <1>7, <1>9, <1>10, <1>11, <1>12, <1>13 DEF DirectoryInv

LEMMA DirectoryNextInv == DirectoryInv /\ [DirectoryNext]_directoryVars => DirectoryInv'
<1>. SUFFICES ASSUME DirectoryInv, [DirectoryNext]_directoryVars PROVE DirectoryInv'
  OBVIOUS
<1>1. ASSUME NEW name \in Name, NEW owner \in Owner, NEW meta \in Meta,
             \/ register(name, owner, meta, "v1", None)
             \/ \E pair \in Pair \cup {None} : register(name, owner, meta, "v2", pair)
      PROVE  DirectoryInv'
  BY <1>1, RegisterInv
<1>2. ASSUME NEW i \in DOMAIN registrations, insertRow(i) \/ insertFails(i) \/ serve(i)
      PROVE  DirectoryInv'
  BY <1>2, InsertRowInv, InsertFailsInv, ServeInv
<1>3. CASE DirectoryCrash \/ bootDirectory
  BY <1>3, DirectoryCrashInv, BootDirectoryInv
<1>4. CASE UNCHANGED directoryVars
  BY <1>4 DEF directoryVars, DirectoryInv, DirectoryTyped, RequestsAreOwn, RecordsAreOwn,
              ServedWasStored, RowsAreStored, ClaimedAreServed, LatecomersAreRefused, RecordsAreEarly, Own, SignedBy, Early,
              Passed, At
<1>. QED BY <1>1, <1>2, <1>3, <1>4 DEF DirectoryNext

-----------------------------------------------------------------------------
(***************************************************************************)
(* The theorems.                                                           *)
(***************************************************************************)
THEOREM DirectoryInvariant == DirectorySpec => []DirectoryInv
<1>1. DirectoryInv /\ [DirectoryNext]_directoryVars => DirectoryInv'
  BY DirectoryNextInv
<1>. QED BY DirectoryInitInv, <1>1, PTL DEF DirectorySpec

(***************************************************************************)
(* A record pays its owner with keys that owner signed for the name, though*)
(* a v1 write copies a pair that was read before others were applied.      *)
(***************************************************************************)
THEOREM DirectoryRecordsAreSigned == DirectorySpec => []RecordsAreSigned
<1>1. DirectoryInv => RecordsAreSigned
  BY DEF DirectoryInv, RecordsAreOwn, Own, RecordsAreSigned
<1>. QED BY DirectoryInvariant, <1>1, PTL

(***************************************************************************)
(* What a payer is shown was a row, and a name once shown keeps one, over  *)
(* any number of crashes and failed inserts.                               *)
(***************************************************************************)
THEOREM DirectoryServedWasStored == DirectorySpec => []ServedWasStored
<1>1. DirectoryInv => ServedWasStored
  BY DEF DirectoryInv
<1>. QED BY DirectoryInvariant, <1>1, PTL

(***************************************************************************)
(* Only those who asked before a name was ever served may write it after.  *)
(***************************************************************************)
THEOREM DirectoryLatecomersAreRefused == DirectorySpec => []LatecomersAreRefused
<1>1. DirectoryInv => LatecomersAreRefused
  BY DEF DirectoryInv
<1>. QED BY DirectoryInvariant, <1>1, PTL
=============================================================================
