---------------------------- MODULE LedgerProofs ----------------------------
(***************************************************************************)
(* What the arbiter's ledger keeps of the chain: for every chain, failure  *)
(* and restart, its rows and its memory each are one replay of the         *)
(* operations in order, and no operation that was seen is missing from it  *)
(* without an alarm.                                                       *)
(***************************************************************************)
EXTENDS ArbiterLedger, SharedLemmas

-----------------------------------------------------------------------------
(* Operations.                                                             *)

Kinds == {"deposit", "transfer", "withdraw", "disburse", "priv"}

OpOK(op) ==
    /\ op.kind \in Kinds
    /\ IsSeq(op.outs) /\ Len(op.outs) # 0
    /\ op.first \in Nat /\ op.tx \in Nat \ {0}

\* The activity of an operation is a sequence.
LEMMA HistoryIsSeq ==
    ASSUME NEW op, OpOK(op), op.kind # "priv"
    PROVE  IsSeq(deriveHistory(op))
<1> DEFINE nonzero == Kept(op.outs, {i \in DOMAIN op.outs : op.outs[i].value # 0})
           others == Kept(nonzero, {i \in DOMAIN nonzero : nonzero[i].owner # op.sender})
           one(owner, kind, amount) ==
               IF amount > 0 THEN <<Item(owner, kind, None, amount)>> ELSE <<>>
<1>1. ASSUME NEW s, IsSeq(s), NEW S \in SUBSET DOMAIN s
      PROVE  /\ IsSeq(Kept(s, S)) /\ Len(Kept(s, S)) \in Nat
             /\ DOMAIN Kept(s, S) = 1..Len(Kept(s, S))
  <2>1. Len(s) \in Nat /\ DOMAIN s = 1..Len(s)
    BY <1>1, SeqFacts
  <2>2. IsFiniteSet(1..Len(s))
    BY <2>1, FS_Interval
  <2>3. S \subseteq Nat /\ IsFiniteSet(S)
    BY <2>1, <2>2, FS_Subset
  <2>. QED BY <2>3, KeptFacts
<1>2. IsSeq(nonzero) /\ Len(nonzero) \in Nat /\ DOMAIN nonzero = 1..Len(nonzero)
  <2>1. IsSeq(op.outs)
    BY DEF OpOK
  <2>. QED BY <1>1, <2>1
<1>3. IsSeq(others) /\ Len(others) \in Nat /\ DOMAIN others = 1..Len(others)
  <2>. HIDE DEF nonzero
  <2>. QED BY <1>1, <1>2
<1>. HIDE DEF nonzero
<1>. HIDE DEF others
<1>4. ASSUME NEW x PROVE IsSeq(<<x>>)
  <2>1. <<x>> \in Seq({x})
    OBVIOUS
  <2>. QED BY <2>1 DEF IsSeq
<1>5. IsSeq(<<>>)
  <2>1. <<>> \in Seq({})
    OBVIOUS
  <2>. QED BY <2>1 DEF IsSeq
<1>6. \A o, k, a : IsSeq(one(o, k, a))
  BY <1>4, <1>5
<1>. HIDE DEF one
<1>7. CASE op.kind = "deposit"
  <2>1. PICK r : r = [i \in DOMAIN nonzero |-> Item(nonzero[i].owner, "deposit", None, nonzero[i].value)]
    OBVIOUS
  <2>2. r = [i \in 1..Len(nonzero) |-> r[i]]
    BY <1>2, <2>1
  <2>3. IsSeq(r)
    BY <1>2, <2>2, FunIsSeq
  <2>4. deriveHistory(op) = r
    BY <1>7, <2>1 DEF deriveHistory, nonzero
  <2>. QED BY <2>3, <2>4
<1>8. CASE op.kind = "transfer"
  <2>1. deriveHistory(op) = transferItems(op, nonzero, others)
    BY <1>8 DEF deriveHistory, nonzero, others
  <2>2. \A x, y : IsSeq(<<x, y>>)
    <3>1. ASSUME NEW x, NEW y PROVE IsSeq(<<x, y>>)
      <4>1. <<x, y>> \in Seq({x, y})
        OBVIOUS
      <4>. QED BY <4>1 DEF IsSeq
    <3>. QED BY <3>1
  <2>3. IsSeq(Payments(op, others))
    <3>1. PICK r, n : r = Payments(op, others) /\ n = 2 * Len(others)
      OBVIOUS
    <3>2. n \in Nat
      BY <1>3, <3>1
    <3>3. r = [k \in 1..n |-> r[k]]
      BY <3>1 DEF Payments
    <3>4. IsSeq(r)
      BY ONLY <3>2, <3>3, FunIsSeq
    <3>. QED BY <3>1, <3>4
  <2>. QED BY <2>1, <2>2, <2>3 DEF transferItems
<1>9. CASE op.kind = "disburse"
  <2>1. PICK r : r = [i \in DOMAIN others |->
                         Item(others[i].owner, "received", op.sender, others[i].value)]
    OBVIOUS
  <2>2. r = [i \in 1..Len(others) |-> r[i]]
    BY <1>3, <2>1
  <2>3. IsSeq(r)
    BY <1>3, <2>2, FunIsSeq
  <2>4. deriveHistory(op) = r \o one(op.sender, "sent", Total(others))
    BY <1>9, <2>1 DEF deriveHistory, nonzero, others, one
  <2>5. IsSeq(one(op.sender, "sent", Total(others)))
    BY <1>6
  <2>. QED BY <2>3, <2>4, <2>5, ConcatFacts
<1>10. CASE op.kind = "withdraw"
  <2>1. deriveHistory(op) = one(op.sender, "withdraw", op.worth - Total(op.outs))
    BY <1>10 DEF deriveHistory, one
  <2>. QED BY <1>6, <2>1
<1>. QED BY <1>7, <1>8, <1>9, <1>10 DEF OpOK, Kinds

\* What is derived of an operation.
LEMMA DerivedFacts ==
    ASSUME NEW op, OpOK(op), op.kind # "priv"
    PROVE  /\ IsSeq(deriveOp(op).history) /\ IsSeq(deriveOp(op).alarms)
           /\ \/ /\ deriveOp(op).notes = {} /\ deriveOp(op).spent = {} /\ deriveOp(op).fill = {}
                 /\ \E a \in ToSet(deriveOp(op).alarms) : a.tx = op.tx
              \/ /\ deriveOp(op).notes = MadeBy({op})
                 /\ deriveOp(op).fill = IF op.kind = "disburse" THEN {op.first} ELSE {}
<1>1. IsSeq(<<>>) /\ \A x : IsSeq(<<x>>) /\ x \in ToSet(<<x>>)
  <2>1. <<>> \in Seq({}) /\ \A x : <<x>> \in Seq({x})
    OBVIOUS
  <2>2. \A x : 1 \in DOMAIN <<x>> /\ <<x>>[1] = x
    OBVIOUS
  <2>. QED BY <2>1, <2>2 DEF IsSeq, ToSet
<1>2. IsSeq(deriveHistory(op))
  BY HistoryIsSeq
<1>3. CASE op.kem = "junk"
  <2>1. PICK a : a = [tx |-> op.tx, detail |-> <<"kem">>]
    OBVIOUS
  <2>2. deriveOp(op) = [notes |-> {}, spent |-> {}, alarms |-> <<a>>, fill |-> {}, history |-> <<>>]
    BY <1>3, <2>1 DEF deriveOp, Nothing
  <2>3. a.tx = op.tx
    BY <2>1
  <2>. QED BY <1>1, <2>2, <2>3
<1>4. CASE op.kem # "junk" /\ op.published = "junkTail"
  <2>1. PICK a : a = [tx |-> op.tx, detail |-> <<"fold", op.first>>]
    OBVIOUS
  <2>2. deriveOp(op) = [notes |-> {}, spent |-> {}, alarms |-> <<a>>, fill |-> {}, history |-> <<>>]
    BY <1>4, <2>1 DEF deriveOp, Nothing
  <2>3. a.tx = op.tx
    BY <2>1
  <2>. QED BY <1>1, <2>2, <2>3
<1>5. CASE op.kem # "junk" /\ op.published # "junkTail"
  <2>1. deriveOp(op) = [notes |-> MadeBy({op}), spent |-> op.ins, alarms |-> <<>>,
                        fill |-> IF op.kind = "disburse" THEN {op.first} ELSE {},
                        history |-> deriveHistory(op)]
    BY <1>5 DEF deriveOp
  <2>. QED BY <1>1, <1>2, <2>1
<1>. QED BY <1>3, <1>4, <1>5

-----------------------------------------------------------------------------
(***************************************************************************)
(* One replay.  Of the read model, all but the buffers and the cursor.     *)
(***************************************************************************)
View(m) == [feed |-> m.feed, applied |-> m.applied, notes |-> m.notes, spent |-> m.spent,
            history |-> m.history, filled |-> m.filled, nextSeq |-> m.nextSeq,
            alarms |-> ToSet(m.alarms)]

Withheld(op) == op.kind = "priv" \/ op.published \in {"noTail", "nothing"}

Marks(op, notes) == {leaf \in deriveOp(op).spent : \E note \in notes : note.leaf = leaf}

Items(op, from) == [k \in DOMAIN deriveOp(op).history |->
                       [seq |-> from + k - 1, tx |-> op.tx, item |-> deriveOp(op).history[k]]]

\* The view after the operation at place i, if it was not seen before.
Taken(v, i, op) ==
    IF Withheld(op)
    THEN [feed |-> v.feed \cup {i}, applied |-> v.applied, notes |-> v.notes,
          spent |-> v.spent, history |-> v.history, filled |-> v.filled,
          nextSeq |-> v.nextSeq, alarms |-> v.alarms]
    ELSE [feed |-> v.feed \cup {i}, applied |-> v.applied \cup {i},
          notes |-> v.notes \cup deriveOp(op).notes,
          spent |-> v.spent \cup Marks(op, v.notes \cup deriveOp(op).notes),
          history |-> v.history \o Items(op, v.nextSeq),
          filled |-> v.filled \cup deriveOp(op).fill,
          nextSeq |-> v.nextSeq + Len(Items(op, v.nextSeq)),
          alarms |-> v.alarms \cup ToSet(deriveOp(op).alarms)]

AreViews(f, L, m) ==
    f = [n \in 0..m |-> IF n = 0 THEN View(NoMem) ELSE Taken(f[n - 1], n, L[n])]

\* The views of one replay of L, operation by operation.
Views(L) == CHOOSE f : AreViews(f, L, Len(L))

LEMMA ViewsExist ==
    ASSUME NEW L, NEW m \in Nat
    PROVE  \E f : AreViews(f, L, m)
<1> DEFINE Bad == {k \in 0..m : ~ \E f : AreViews(f, L, k)}
<1>1. SUFFICES ASSUME Bad # {} PROVE FALSE
  <2>1. m \in 0..m
    OBVIOUS
  <2>. QED BY <2>1
<1>2. PICK k \in Bad : \A j \in Bad : k <= j
  <2>1. Bad \subseteq Nat
    OBVIOUS
  <2>. QED BY <1>1, <2>1, LeastNatural
<1>3. k # 0
  <2>1. AreViews([n \in 0..0 |-> View(NoMem)], L, 0)
    BY DEF AreViews
  <2>. QED BY <2>1
<1>4. PICK f : AreViews(f, L, k - 1)
  <2>1. k \in 0..m /\ k - 1 \in 0..m /\ ~(k <= k - 1)
    BY <1>3
  <2>. QED BY <1>2, <2>1
<1> DEFINE g == [n \in 0..k |-> IF n = k THEN Taken(f[k - 1], k, L[k]) ELSE f[n]]
<1>5. ASSUME NEW n \in 0..k
      PROVE  g[n] = IF n = 0 THEN View(NoMem) ELSE Taken(g[n - 1], n, L[n])
  <2>1. CASE n = k
    <3>1. g[n - 1] = f[k - 1] /\ g[n] = Taken(f[k - 1], k, L[k])
      BY <2>1, <1>3
    <3>. QED BY <3>1, <2>1, <1>3
  <2>2. CASE n # k
    <3>1. n \in 0..(k - 1) /\ g[n] = f[n] /\ (n # 0 => g[n - 1] = f[n - 1])
      BY <2>2, <1>3
    <3>2. f[n] = IF n = 0 THEN View(NoMem) ELSE Taken(f[n - 1], n, L[n])
      BY <1>4, <3>1 DEF AreViews
    <3>. QED BY <3>1, <3>2
  <2>. QED BY <2>1, <2>2
<1>6. AreViews(g, L, k)
  BY <1>5 DEF AreViews
<1>. QED BY <1>6

LEMMA ViewsAre ==
    ASSUME NEW L, Len(L) \in Nat
    PROVE  /\ Views(L)[0] = View(NoMem)
           /\ \A n \in 1..Len(L) : Views(L)[n] = Taken(Views(L)[n - 1], n, L[n])
<1>1. PICK f : f = Views(L)
  OBVIOUS
<1>2. AreViews(f, L, Len(L))
  <2>1. \E g : AreViews(g, L, Len(L))
    BY ViewsExist
  <2>. QED BY <1>1, <2>1 DEF Views
<1>3. \A n \in 0..Len(L) : f[n] = IF n = 0 THEN View(NoMem) ELSE Taken(f[n - 1], n, L[n])
  BY <1>2 DEF AreViews
<1>. QED BY <1>1, <1>3

\* What is appended changes no earlier view.
LEMMA ViewsStay ==
    ASSUME NEW L, IsSeq(L), NEW op, NEW n \in 0..Len(L)
    PROVE  Views(Append(L, op))[n] = Views(L)[n]
<1>1. PICK M : M = Append(L, op)
  OBVIOUS
<1>2. Len(L) \in Nat /\ Len(M) = Len(L) + 1 /\ \A k \in 1..Len(L) : M[k] = L[k]
  BY <1>1 DEF IsSeq
<1> DEFINE f == Views(L)
           g == Views(M)
           Bad == {k \in 0..Len(L) : g[k] # f[k]}
<1>3. /\ f[0] = View(NoMem) /\ g[0] = View(NoMem)
      /\ \A k \in 1..Len(L) : f[k] = Taken(f[k - 1], k, L[k])
      /\ \A k \in 1..Len(M) : g[k] = Taken(g[k - 1], k, M[k])
  <2>1. Len(M) \in Nat
    BY <1>2
  <2>. QED BY <1>2, <2>1, ViewsAre
<1>. HIDE DEF f, g
<1>4. Bad = {}
  <2>1. SUFFICES ASSUME Bad # {} PROVE FALSE
    OBVIOUS
  <2>2. PICK k \in Bad : \A j \in Bad : k <= j
    <3>1. Bad \subseteq Nat
      BY <1>2
    <3>. QED BY <2>1, <3>1, LeastNatural
  <2>3. k \in 1..Len(L) /\ k \in 1..Len(M)
    BY <1>2, <1>3
  <2>4. g[k - 1] = f[k - 1]
    <3>1. k - 1 \in 0..Len(L) /\ ~(k <= k - 1)
      BY <1>2, <2>3
    <3>. QED BY <2>2, <3>1
  <2>. QED BY <1>2, <1>3, <2>3, <2>4
<1>. QED BY <1>1, <1>4 DEF f, g

-----------------------------------------------------------------------------
\* Operations in order: leaves of their own, transactions that do not go back.
ChainOK(L) ==
    /\ IsSeq(L)
    /\ \A i \in 1..Len(L) : OpOK(L[i])
    /\ \A i, j \in 1..Len(L) : i < j =>
           L[i].first + Len(L[i].outs) <= L[j].first /\ L[i].tx <= L[j].tx

LeavesIn(notes) == {note.leaf : note \in notes}

IsOpened(op, notes) == op.kind = "disburse" /\ LeavesOf(op) \subseteq LeavesIn(notes)

\* The operation is a consumer's, or in the ledger, or listed as an alarm.
Heard(op, notes, alarms) ==
    \/ op.kind = "priv"
    \/ MadeBy({op}) \subseteq notes
    \/ \E a \in alarms : a.tx = op.tx
    \/ verifyDisclosure(op) # "verified"

\* What is true of a view of n operations.
ViewOK(v, L, n) ==
    /\ v.feed = 1..n /\ v.applied \subseteq 1..n
    /\ \A leaf \in LeavesIn(v.notes) : \E i \in 1..n : leaf \in LeavesOf(L[i])
    /\ IsSeq(v.history) /\ v.nextSeq = Len(v.history)
    /\ \A k \in 1..Len(v.history) : v.history[k].seq = k - 1
    /\ v.filled = {L[i].first : i \in {j \in 1..n : IsOpened(L[j], v.notes)}}
    /\ \A i \in 1..n : Heard(L[i], v.notes, v.alarms)

LEMMA MadeByFacts ==
    ASSUME NEW op, OpOK(op)
    PROVE  LeavesIn(MadeBy({op})) = LeavesOf(op) /\ op.first \in LeavesOf(op)
<1>1. op.first \in Nat /\ Len(op.outs) \in Nat \ {0}
  BY SeqFacts DEF OpOK
<1>2. op.first \in LeavesOf(op)
  BY <1>1 DEF LeavesOf
<1>3. MadeBy({op}) = {NoteOf(op, leaf) : leaf \in LeavesOf(op)}
  BY DEF MadeBy
<1>4. \A leaf : NoteOf(op, leaf).leaf = leaf
  BY DEF NoteOf
<1>5. PICK made : made = MadeBy({op})
  OBVIOUS
<1>6. LeavesIn(made) = LeavesOf(op)
  <2>1. ASSUME NEW note \in made PROVE note.leaf \in LeavesOf(op)
    BY <1>3, <1>4, <1>5
  <2>2. ASSUME NEW leaf \in LeavesOf(op) PROVE leaf \in LeavesIn(made)
    <3>1. NoteOf(op, leaf) \in made
      BY <1>3, <1>5
    <3>. QED BY <1>4, <3>1 DEF LeavesIn
  <2>. QED BY <2>1, <2>2 DEF LeavesIn
<1>. QED BY <1>2, <1>5, <1>6

\* Leaves of two operations differ.
LEMMA LeavesApart ==
    ASSUME NEW L, ChainOK(L), NEW i \in 1..Len(L), NEW j \in 1..Len(L), i < j,
           NEW leaf \in LeavesOf(L[i])
    PROVE  leaf \notin LeavesOf(L[j])
<1>1. /\ L[i].first \in Nat /\ Len(L[i].outs) \in Nat
      /\ L[j].first \in Nat /\ Len(L[j].outs) \in Nat
  BY SeqFacts DEF ChainOK, OpOK
<1>2. L[i].first + Len(L[i].outs) <= L[j].first
  BY DEF ChainOK
<1>3. leaf \in Int /\ leaf <= L[i].first + Len(L[i].outs) - 1
  BY <1>1 DEF LeavesOf
<1>4. SUFFICES ASSUME leaf \in LeavesOf(L[j]) PROVE FALSE
  OBVIOUS
<1>5. leaf >= L[j].first
  BY <1>1, <1>4 DEF LeavesOf
<1>. QED BY <1>1, <1>2, <1>3, <1>5

LEMMA ItemsFacts ==
    ASSUME NEW op, OpOK(op), op.kind # "priv", NEW from \in Nat
    PROVE  /\ IsSeq(Items(op, from)) /\ Len(Items(op, from)) \in Nat
           /\ \A k \in 1..Len(Items(op, from)) : Items(op, from)[k].seq = from + k - 1
<1>1. PICK h, r : h = deriveOp(op).history /\ r = Items(op, from)
  OBVIOUS
<1>2. Len(h) \in Nat /\ DOMAIN h = 1..Len(h)
  <2>1. IsSeq(h)
    BY <1>1, DerivedFacts
  <2>. QED BY ONLY <2>1, SeqFacts
<1>3. r = [k \in 1..Len(h) |-> [seq |-> from + k - 1, tx |-> op.tx, item |-> h[k]]]
  BY <1>1, <1>2 DEF Items
<1>4. r = [k \in 1..Len(h) |-> r[k]]
  BY <1>3
<1>5. IsSeq(r) /\ Len(r) = Len(h)
  BY ONLY <1>2, <1>4, FunIsSeq
<1>6. \A k \in 1..Len(r) : r[k].seq = from + k - 1
  BY <1>3, <1>5
<1>. QED BY <1>1, <1>2, <1>5, <1>6

\* What is opened is what was derived of a batch: the next operation opens itself, if
\* its notes were derived, and no other.
LEMMA OpensItself ==
    ASSUME NEW L, ChainOK(L), NEW n \in Nat, n + 1 <= Len(L), NEW notes,
           \A leaf \in LeavesIn(notes) : \E i \in 1..n : leaf \in LeavesOf(L[i]),
           NEW more, more = {} \/ more = MadeBy({L[n + 1]})
    PROVE  /\ \A i \in 1..n : IsOpened(L[i], notes \cup more) <=> IsOpened(L[i], notes)
           /\ IsOpened(L[n + 1], notes \cup more) <=>
                  more # {} /\ L[n + 1].kind = "disburse"
<1>1. n + 1 \in 1..Len(L) /\ \A i \in 1..n : i \in 1..Len(L) /\ i < n + 1
  BY SeqFacts DEF ChainOK
<1>2. /\ LeavesIn(MadeBy({L[n + 1]})) = LeavesOf(L[n + 1])
      /\ L[n + 1].first \in LeavesOf(L[n + 1])
  BY <1>1, MadeByFacts DEF ChainOK
<1>3. LeavesIn(notes \cup more) = LeavesIn(notes) \cup LeavesIn(more)
  BY DEF LeavesIn
<1>4. \/ LeavesIn(more) = {} /\ more = {}
      \/ LeavesIn(more) = LeavesOf(L[n + 1]) /\ more # {}
  BY <1>2 DEF LeavesIn
<1>5. ASSUME NEW i \in 1..n
      PROVE  IsOpened(L[i], notes \cup more) <=> IsOpened(L[i], notes)
  <2>1. \A leaf \in LeavesOf(L[i]) : leaf \notin LeavesOf(L[n + 1])
    BY <1>1, LeavesApart
  <2>2. LeavesOf(L[i]) \subseteq LeavesIn(notes) \cup LeavesIn(more)
          <=> LeavesOf(L[i]) \subseteq LeavesIn(notes)
    BY <1>4, <2>1
  <2>. QED BY <1>3, <2>2 DEF IsOpened
<1>6. L[n + 1].first \notin LeavesIn(notes)
  <2>1. SUFFICES ASSUME NEW i \in 1..n, L[n + 1].first \in LeavesOf(L[i]) PROVE FALSE
    OBVIOUS
  <2>2. i \in 1..Len(L) /\ n + 1 \in 1..Len(L) /\ i < n + 1
    BY <1>1
  <2>3. L[n + 1].first \notin LeavesOf(L[n + 1])
    BY <2>1, <2>2, LeavesApart
  <2>. QED BY <1>2, <2>3
<1>7. IsOpened(L[n + 1], notes \cup more) <=> more # {} /\ L[n + 1].kind = "disburse"
  <2>1. LeavesOf(L[n + 1]) \subseteq LeavesIn(notes) \cup LeavesIn(more) <=> more # {}
    BY <1>2, <1>4, <1>6
  <2>. QED BY <1>3, <2>1 DEF IsOpened
<1>. QED BY <1>5, <1>7

LEMMA TakenKeeps ==
    ASSUME NEW L, ChainOK(L), NEW n \in Nat, n + 1 <= Len(L), NEW v, ViewOK(v, L, n)
    PROVE  ViewOK(Taken(v, n + 1, L[n + 1]), L, n + 1)
<1>1. PICK op, w : op = L[n + 1] /\ w = Taken(v, n + 1, op)
  OBVIOUS
<1>2. OpOK(op) /\ n + 1 \in 1..Len(L) /\ 1..(n + 1) = 1..n \cup {n + 1}
  BY <1>1, SeqFacts DEF ChainOK
<1>3. /\ v.feed = 1..n /\ v.applied \subseteq 1..n
      /\ \A leaf \in LeavesIn(v.notes) : \E i \in 1..n : leaf \in LeavesOf(L[i])
      /\ IsSeq(v.history) /\ v.nextSeq = Len(v.history)
      /\ \A k \in 1..Len(v.history) : v.history[k].seq = k - 1
      /\ v.filled = {L[i].first : i \in {j \in 1..n : IsOpened(L[j], v.notes)}}
      /\ \A i \in 1..n : Heard(L[i], v.notes, v.alarms)
  BY DEF ViewOK
<1>4. CASE Withheld(op)
  <2>1. /\ w.feed = v.feed \cup {n + 1} /\ w.applied = v.applied /\ w.notes = v.notes
        /\ w.history = v.history /\ w.filled = v.filled /\ w.nextSeq = v.nextSeq
        /\ w.alarms = v.alarms
    BY <1>1, <1>4 DEF Taken
  <2>2. v.notes \cup {} = v.notes
    OBVIOUS
  <2>3. ~IsOpened(L[n + 1], v.notes)
    <3>1. PICK none : none = {}
      OBVIOUS
    <3>2. none = {} \/ none = MadeBy({L[n + 1]})
      BY <3>1
    <3>3. IsOpened(L[n + 1], v.notes \cup none) <=> none # {} /\ L[n + 1].kind = "disburse"
      BY <1>3, <3>2, OpensItself
    <3>. QED BY <2>2, <3>1, <3>3
  <2>4. {j \in 1..(n + 1) : IsOpened(L[j], v.notes)} = {j \in 1..n : IsOpened(L[j], v.notes)}
    BY <1>2, <2>3
  <2>5. Heard(op, v.notes, v.alarms)
    BY <1>4 DEF Heard, Withheld, verifyDisclosure
  <2>6. /\ \A leaf \in LeavesIn(w.notes) : \E i \in 1..(n + 1) : leaf \in LeavesOf(L[i])
        /\ w.filled = {L[i].first : i \in {j \in 1..(n + 1) : IsOpened(L[j], w.notes)}}
        /\ \A i \in 1..(n + 1) : Heard(L[i], w.notes, w.alarms)
    BY <1>1, <1>2, <1>3, <2>1, <2>4, <2>5
  <2>7. w.feed = 1..(n + 1) /\ w.applied \subseteq 1..(n + 1)
    BY <1>2, <1>3, <2>1
  <2>8. /\ IsSeq(w.history) /\ w.nextSeq = Len(w.history)
        /\ \A k \in 1..Len(w.history) : w.history[k].seq = k - 1
    BY <1>3, <2>1
  <2>. QED BY <1>1, <2>6, <2>7, <2>8 DEF ViewOK
<1>5. CASE ~Withheld(op)
  <2>1. PICK d : d = deriveOp(op)
    OBVIOUS
  <2>2. PICK items, notes : items = Items(op, v.nextSeq) /\ notes = v.notes \cup d.notes
    OBVIOUS
  <2>3. /\ w.feed = v.feed \cup {n + 1} /\ w.applied = v.applied \cup {n + 1}
        /\ w.notes = notes
        /\ w.history = v.history \o items /\ w.filled = v.filled \cup d.fill
        /\ w.nextSeq = v.nextSeq + Len(items) /\ w.alarms = v.alarms \cup ToSet(d.alarms)
    BY <1>1, <1>5, <2>1, <2>2 DEF Taken
  <2>4. op.kind # "priv"
    BY <1>5 DEF Withheld
  <2>5. \/ d.notes = {} /\ d.fill = {} /\ \E a \in ToSet(d.alarms) : a.tx = op.tx
        \/ d.notes = MadeBy({op}) /\ d.fill = IF op.kind = "disburse" THEN {op.first} ELSE {}
    BY <1>2, <2>1, <2>4, DerivedFacts
  <2>6. MadeBy({op}) # {} /\ LeavesIn(MadeBy({op})) = LeavesOf(op)
    BY <1>2, MadeByFacts DEF LeavesIn
  <2>7. /\ \A i \in 1..n : IsOpened(L[i], notes) <=> IsOpened(L[i], v.notes)
        /\ IsOpened(L[n + 1], notes) <=> d.notes # {} /\ L[n + 1].kind = "disburse"
    <3>1. d.notes = {} \/ d.notes = MadeBy({L[n + 1]})
      BY <1>1, <2>5
    <3>. QED BY <1>3, <2>2, <3>1, OpensItself
  <2>8. d.fill = IF IsOpened(op, notes) THEN {op.first} ELSE {}
    BY <1>1, <2>5, <2>6, <2>7
  <2>9. w.filled = {L[i].first : i \in {j \in 1..(n + 1) : IsOpened(L[j], w.notes)}}
    <3>1. PICK old, new : /\ old = {j \in 1..n : IsOpened(L[j], v.notes)}
                          /\ new = {j \in 1..(n + 1) : IsOpened(L[j], notes)}
      OBVIOUS
    <3>2. new = old \cup (IF IsOpened(op, notes) THEN {n + 1} ELSE {})
      BY <1>1, <1>2, <2>7, <3>1
    <3>3. w.filled = {L[i].first : i \in old} \cup d.fill
      BY <1>3, <2>3, <3>1
    <3>4. {L[i].first : i \in new} = {L[i].first : i \in old} \cup d.fill
      BY <1>1, <2>8, <3>2
    <3>. QED BY <2>3, <3>1, <3>3, <3>4
  <2>10. \A leaf \in LeavesIn(w.notes) : \E i \in 1..(n + 1) : leaf \in LeavesOf(L[i])
    <3>1. LeavesIn(notes) = LeavesIn(v.notes) \cup LeavesIn(d.notes)
      BY <2>2 DEF LeavesIn
    <3>2. LeavesIn(d.notes) \subseteq LeavesOf(op)
      BY <2>5, <2>6 DEF LeavesIn
    <3>. QED BY <1>1, <1>2, <1>3, <2>3, <3>1, <3>2
  <2>11. \A i \in 1..(n + 1) : Heard(L[i], w.notes, w.alarms)
    <3>1. Heard(op, w.notes, w.alarms)
      BY <2>2, <2>3, <2>5 DEF Heard
    <3>2. \A i \in 1..n : Heard(L[i], w.notes, w.alarms)
      BY <1>3, <2>2, <2>3 DEF Heard
    <3>. QED BY <1>1, <1>2, <3>1, <3>2
  <2>12. w.feed = 1..(n + 1) /\ w.applied \subseteq 1..(n + 1)
    BY <1>2, <1>3, <2>3
  <2>13. /\ IsSeq(w.history) /\ w.nextSeq = Len(w.history)
         /\ \A k \in 1..Len(w.history) : w.history[k].seq = k - 1
    <3>1. v.nextSeq \in Nat
      BY <1>3, SeqFacts
    <3>2. /\ IsSeq(items) /\ Len(items) \in Nat
          /\ \A k \in 1..Len(items) : items[k].seq = v.nextSeq + k - 1
      BY <1>2, <2>2, <2>4, <3>1, ItemsFacts
    <3>3. PICK h, r : h = v.history /\ r = w.history
      OBVIOUS
    <3>4. /\ IsSeq(r) /\ Len(r) = Len(h) + Len(items)
          /\ \A k \in 1..Len(h) : r[k] = h[k]
          /\ \A k \in 1..Len(items) : r[Len(h) + k] = items[k]
      BY <1>3, <2>3, <3>2, <3>3, ConcatFacts
    <3>5. ASSUME NEW k \in 1..Len(r) PROVE r[k].seq = k - 1
      <4>1. CASE k \in 1..Len(h)
        BY <1>3, <3>3, <3>4, <4>1
      <4>2. CASE k \notin 1..Len(h)
        <5>1. k - Len(h) \in 1..Len(items) /\ Len(h) + (k - Len(h)) = k
          BY <1>3, <3>1, <3>2, <3>3, <3>4, <4>2
        <5>2. r[k] = items[k - Len(h)] /\ items[k - Len(h)].seq = v.nextSeq + (k - Len(h)) - 1
          BY <3>2, <3>4, <5>1
        <5>. QED BY <1>3, <3>1, <3>3, <5>1, <5>2
      <4>. QED BY <4>1, <4>2
    <3>. QED BY <1>3, <2>3, <3>3, <3>4, <3>5
  <2>. QED BY <1>1, <2>9, <2>10, <2>11, <2>12, <2>13 DEF ViewOK
<1>. QED BY <1>4, <1>5

LEMMA ViewsOK ==
    ASSUME NEW L, ChainOK(L), NEW n \in 0..Len(L)
    PROVE  ViewOK(Views(L)[n], L, n)
<1> DEFINE f == Views(L)
           Bad == {k \in 0..Len(L) : ~ViewOK(f[k], L, k)}
<1>1. Len(L) \in Nat
  BY SeqFacts DEF ChainOK
<1>2. f[0] = View(NoMem) /\ \A k \in 1..Len(L) : f[k] = Taken(f[k - 1], k, L[k])
  BY <1>1, ViewsAre
<1>. HIDE DEF f
<1>3. ViewOK(f[0], L, 0)
  <2>1. /\ NoMem.feed = {} /\ NoMem.applied = {} /\ NoMem.notes = {} /\ NoMem.history = <<>>
        /\ NoMem.nextSeq = 0 /\ NoMem.filled = {}
    BY DEF NoMem
  <2>2. /\ f[0].feed = {} /\ f[0].applied = {} /\ f[0].notes = {} /\ f[0].history = <<>>
        /\ f[0].nextSeq = 0 /\ f[0].filled = {}
    BY <1>2, <2>1 DEF View
  <2>3. IsSeq(<<>>) /\ Len(<<>>) = 0 /\ 1..0 = {}
    <3>1. <<>> \in Seq({})
      OBVIOUS
    <3>. QED BY <3>1 DEF IsSeq
  <2>. QED BY <2>2, <2>3 DEF ViewOK, LeavesIn
<1>4. Bad = {}
  <2>1. SUFFICES ASSUME Bad # {} PROVE FALSE
    OBVIOUS
  <2>2. PICK k \in Bad : \A j \in Bad : k <= j
    <3>1. Bad \subseteq Nat
      BY <1>1
    <3>. QED BY <2>1, <3>1, LeastNatural
  <2>3. k \in 1..Len(L)
    BY <1>1, <1>3
  <2>4. ViewOK(f[k - 1], L, k - 1)
    <3>1. k - 1 \in 0..Len(L) /\ ~(k <= k - 1)
      BY <1>1, <2>3
    <3>. QED BY <2>2, <3>1
  <2>5. k - 1 \in Nat /\ (k - 1) + 1 = k /\ k <= Len(L)
    BY <1>1, <2>3
  <2>6. ViewOK(Taken(f[k - 1], k, L[k]), L, k)
    <3>1. ViewOK(Taken(f[k - 1], (k - 1) + 1, L[(k - 1) + 1]), L, (k - 1) + 1)
      <4>1. (k - 1) + 1 <= Len(L)
        BY <2>5
      <4>. QED BY <2>4, <2>5, <4>1, TakenKeeps
    <3>. QED BY <2>5, <3>1
  <2>. QED BY <1>2, <2>3, <2>6
<1>. QED BY <1>4 DEF f

-----------------------------------------------------------------------------
(* The memory of a process, and its buffers.                               *)

MemShape(m) ==
    /\ m = [feed |-> m.feed, applied |-> m.applied, notes |-> m.notes, spent |-> m.spent,
            history |-> m.history, alarms |-> m.alarms, filled |-> m.filled,
            nextSeq |-> m.nextSeq, dirty |-> m.dirty, last |-> m.last, open |-> m.open]
    /\ m.dirty = [feed |-> m.dirty.feed, notes |-> m.dirty.notes, spent |-> m.dirty.spent,
                  history |-> m.dirty.history, alarms |-> m.dirty.alarms,
                  applied |-> m.dirty.applied]
    /\ IsSeq(m.alarms) /\ IsSeq(m.dirty.alarms)

\* What is held is what is durable and what is still to be written.
Covers(m, rows) ==
    /\ m.feed = rows.feed \cup m.dirty.feed
    /\ m.applied = rows.applied \cup m.dirty.applied
    /\ m.notes = rows.notes \cup m.dirty.notes
    /\ m.spent = rows.spent \cup m.dirty.spent
    /\ ToSet(m.history) = rows.history \cup m.dirty.history
    /\ ToSet(m.alarms) = ToSet(rows.alarms) \cup ToSet(m.dirty.alarms)

LEMMA AppliedIs ==
    ASSUME NEW m, MemShape(m), NEW i, i \notin m.feed, i \notin m.applied
    PROVE  applyLogs(m, i) =
             IF Withheld(chain[i])
             THEN [feed |-> m.feed \cup {i}, applied |-> m.applied, notes |-> m.notes,
                   spent |-> m.spent, history |-> m.history, alarms |-> m.alarms,
                   filled |-> m.filled, nextSeq |-> m.nextSeq,
                   dirty |-> [feed |-> m.dirty.feed \cup {i}, notes |-> m.dirty.notes,
                              spent |-> m.dirty.spent, history |-> m.dirty.history,
                              alarms |-> m.dirty.alarms, applied |-> m.dirty.applied],
                   last |-> m.last, open |-> m.open]
             ELSE [feed |-> m.feed \cup {i}, applied |-> m.applied \cup {i},
                   notes |-> m.notes \cup deriveOp(chain[i]).notes,
                   spent |-> m.spent \cup Marks(chain[i], m.notes \cup deriveOp(chain[i]).notes),
                   history |-> m.history \o Items(chain[i], m.nextSeq),
                   alarms |-> m.alarms \o deriveOp(chain[i]).alarms,
                   filled |-> m.filled \cup deriveOp(chain[i]).fill,
                   nextSeq |-> m.nextSeq + Len(Items(chain[i], m.nextSeq)),
                   dirty |-> [feed |-> m.dirty.feed \cup {i},
                              notes |-> m.dirty.notes \cup deriveOp(chain[i]).notes,
                              spent |-> m.dirty.spent
                                  \cup Marks(chain[i], m.notes \cup deriveOp(chain[i]).notes),
                              history |-> m.dirty.history
                                  \cup ToSet(Items(chain[i], m.nextSeq)),
                              alarms |-> m.dirty.alarms \o deriveOp(chain[i]).alarms,
                              applied |-> m.dirty.applied \cup {i}],
                   last |-> m.last, open |-> m.open]
<1>1. PICK op, d, seen : /\ op = chain[i] /\ d = deriveOp(op)
                         /\ seen = [m EXCEPT !.feed = @ \cup {i}, !.dirty.feed = @ \cup {i}]
  OBVIOUS
<1>2. seen = [feed |-> m.feed \cup {i}, applied |-> m.applied, notes |-> m.notes,
              spent |-> m.spent, history |-> m.history, alarms |-> m.alarms,
              filled |-> m.filled, nextSeq |-> m.nextSeq,
              dirty |-> [feed |-> m.dirty.feed \cup {i}, notes |-> m.dirty.notes,
                         spent |-> m.dirty.spent, history |-> m.dirty.history,
                         alarms |-> m.dirty.alarms, applied |-> m.dirty.applied],
              last |-> m.last, open |-> m.open]
  BY <1>1 DEF MemShape
<1>3. applyLogs(m, i) = IF Withheld(op) THEN seen ELSE apply(seen, i)
  BY <1>1 DEF applyLogs, Withheld
<1>4. PICK items, marks : /\ items = Items(op, m.nextSeq)
                          /\ marks = Marks(op, m.notes \cup d.notes)
  OBVIOUS
<1>5. apply(seen, i) =
        [seen EXCEPT !.applied = @ \cup {i},
                     !.notes = m.notes \cup d.notes,
                     !.spent = @ \cup marks,
                     !.alarms = @ \o d.alarms,
                     !.filled = @ \cup d.fill,
                     !.history = @ \o items,
                     !.nextSeq = @ + Len(items),
                     !.dirty = [seen.dirty EXCEPT !.applied = @ \cup {i},
                                                  !.notes = @ \cup d.notes,
                                                  !.spent = @ \cup marks,
                                                  !.alarms = @ \o d.alarms,
                                                  !.history = @ \cup ToSet(items)]]
  <2>1. /\ items = [k \in DOMAIN d.history |-> [seq |-> seen.nextSeq + k - 1, tx |-> chain[i].tx,
                                                item |-> d.history[k]]]
        /\ marks = {leaf \in d.spent : \E note \in m.notes \cup d.notes : note.leaf = leaf}
        /\ seen.notes = m.notes /\ seen.applied = m.applied /\ d = deriveOp(chain[i])
    BY <1>1, <1>2, <1>4 DEF Items, Marks
  <2>. QED BY <2>1 DEF apply
<1>6. apply(seen, i) =
        [feed |-> m.feed \cup {i}, applied |-> m.applied \cup {i},
         notes |-> m.notes \cup d.notes, spent |-> m.spent \cup marks,
         history |-> m.history \o items, alarms |-> m.alarms \o d.alarms,
         filled |-> m.filled \cup d.fill, nextSeq |-> m.nextSeq + Len(items),
         dirty |-> [feed |-> m.dirty.feed \cup {i}, notes |-> m.dirty.notes \cup d.notes,
                    spent |-> m.dirty.spent \cup marks,
                    history |-> m.dirty.history \cup ToSet(items),
                    alarms |-> m.dirty.alarms \o d.alarms,
                    applied |-> m.dirty.applied \cup {i}],
         last |-> m.last, open |-> m.open]
  <2>1. PICK w, dirt : /\ w = apply(seen, i)
                       /\ dirt = [seen.dirty EXCEPT !.applied = @ \cup {i},
                                                    !.notes = @ \cup d.notes,
                                                    !.spent = @ \cup marks,
                                                    !.alarms = @ \o d.alarms,
                                                    !.history = @ \cup ToSet(items)]
    OBVIOUS
  <2>2. dirt = [feed |-> m.dirty.feed \cup {i}, notes |-> m.dirty.notes \cup d.notes,
                spent |-> m.dirty.spent \cup marks,
                history |-> m.dirty.history \cup ToSet(items),
                alarms |-> m.dirty.alarms \o d.alarms,
                applied |-> m.dirty.applied \cup {i}]
    BY <1>2, <2>1
  <2>3. w = [seen EXCEPT !.applied = @ \cup {i},
                         !.notes = m.notes \cup d.notes,
                         !.spent = @ \cup marks,
                         !.alarms = @ \o d.alarms,
                         !.filled = @ \cup d.fill,
                         !.history = @ \o items,
                         !.nextSeq = @ + Len(items),
                         !.dirty = dirt]
    BY <1>5, <2>1
  <2>4. w = [feed |-> m.feed \cup {i}, applied |-> m.applied \cup {i},
             notes |-> m.notes \cup d.notes, spent |-> m.spent \cup marks,
             history |-> m.history \o items, alarms |-> m.alarms \o d.alarms,
             filled |-> m.filled \cup d.fill, nextSeq |-> m.nextSeq + Len(items),
             dirty |-> dirt, last |-> m.last, open |-> m.open]
    BY <1>2, <2>3
  <2>. QED BY <2>1, <2>2, <2>4
<1>. QED BY <1>1, <1>2, <1>3, <1>4, <1>6

\* A memory that tells the first n operations, over given rows.
MemIs(m, L, n, rows, last, open) ==
    /\ MemShape(m) /\ View(m) = Views(L)[n] /\ Covers(m, rows)
    /\ m.last = last /\ m.open = open

\* The parts of a memory that its view gives.
LEMMA MemFacts ==
    ASSUME NEW L, ChainOK(L), NEW n \in 0..Len(L), NEW m, View(m) = Views(L)[n]
    PROVE  /\ m.feed = 1..n /\ m.applied \subseteq 1..n
           /\ \A leaf \in LeavesIn(m.notes) : \E i \in 1..n : leaf \in LeavesOf(L[i])
           /\ IsSeq(m.history) /\ m.nextSeq = Len(m.history) /\ Len(m.history) \in Nat
           /\ \A k \in 1..Len(m.history) : m.history[k].seq = k - 1
           /\ m.filled = {L[i].first : i \in {j \in 1..n : IsOpened(L[j], m.notes)}}
           /\ \A i \in 1..n : Heard(L[i], m.notes, ToSet(m.alarms))
<1>1. PICK v : v = View(m)
  OBVIOUS
<1>2. ViewOK(v, L, n)
  BY <1>1, ViewsOK
<1>3. /\ v.feed = m.feed /\ v.applied = m.applied /\ v.notes = m.notes
      /\ v.history = m.history /\ v.nextSeq = m.nextSeq /\ v.filled = m.filled
      /\ v.alarms = ToSet(m.alarms)
  BY <1>1 DEF View
<1>4. IsSeq(m.history)
  BY <1>2, <1>3 DEF ViewOK
<1>5. Len(m.history) \in Nat
  BY <1>4, SeqFacts
<1>. QED BY <1>2, <1>3, <1>5 DEF ViewOK

LEMMA ApplyLogsKeeps ==
    ASSUME ChainOK(chain), NEW n \in 0..Len(chain), NEW m, NEW rows, NEW last, NEW open,
           MemIs(m, chain, n, rows, last, open),
           NEW i \in 1..Len(chain), i <= n + 1
    PROVE  MemIs(applyLogs(m, i), chain, IF i <= n THEN n ELSE n + 1, rows, last, open)
<1>1. PICK L : L = chain
  OBVIOUS
<1>2. Len(L) \in Nat
  BY <1>1, SeqFacts DEF ChainOK
<1>3. m.feed = 1..n /\ m.applied \subseteq 1..n /\ m.nextSeq \in Nat /\ IsSeq(m.history)
  BY <1>1, MemFacts DEF MemIs
<1>4. CASE i <= n
  <2>1. applyLogs(m, i) = m
    BY <1>2, <1>3, <1>4 DEF applyLogs
  <2>. QED BY <1>4, <2>1
<1>5. CASE ~(i <= n)
  <2>1. i = n + 1 /\ i \notin m.feed /\ i \notin m.applied /\ n + 1 \in 1..Len(L)
    BY <1>1, <1>2, <1>3, <1>5
  <2>2. PICK r, op, d : r = applyLogs(m, i) /\ op = L[i] /\ d = deriveOp(op)
    OBVIOUS
  <2>3. PICK items, marks : /\ items = Items(op, m.nextSeq)
                            /\ marks = Marks(op, m.notes \cup d.notes)
    OBVIOUS
  <2>4. r = IF Withheld(op)
            THEN [feed |-> m.feed \cup {i}, applied |-> m.applied, notes |-> m.notes,
                  spent |-> m.spent, history |-> m.history, alarms |-> m.alarms,
                  filled |-> m.filled, nextSeq |-> m.nextSeq,
                  dirty |-> [feed |-> m.dirty.feed \cup {i}, notes |-> m.dirty.notes,
                             spent |-> m.dirty.spent, history |-> m.dirty.history,
                             alarms |-> m.dirty.alarms, applied |-> m.dirty.applied],
                  last |-> m.last, open |-> m.open]
            ELSE [feed |-> m.feed \cup {i}, applied |-> m.applied \cup {i},
                  notes |-> m.notes \cup d.notes, spent |-> m.spent \cup marks,
                  history |-> m.history \o items, alarms |-> m.alarms \o d.alarms,
                  filled |-> m.filled \cup d.fill, nextSeq |-> m.nextSeq + Len(items),
                  dirty |-> [feed |-> m.dirty.feed \cup {i},
                             notes |-> m.dirty.notes \cup d.notes,
                             spent |-> m.dirty.spent \cup marks,
                             history |-> m.dirty.history \cup ToSet(items),
                             alarms |-> m.dirty.alarms \o d.alarms,
                             applied |-> m.dirty.applied \cup {i}],
                  last |-> m.last, open |-> m.open]
    <3>1. MemShape(m) /\ i \notin m.feed /\ i \notin m.applied
      BY <2>1 DEF MemIs
    <3>2. /\ r = applyLogs(m, i) /\ op = chain[i] /\ d = deriveOp(chain[i])
          /\ items = Items(chain[i], m.nextSeq)
          /\ marks = Marks(chain[i], m.notes \cup deriveOp(chain[i]).notes)
      BY <1>1, <2>2, <2>3
    <3>. QED BY ONLY <3>1, <3>2, AppliedIs
  <2>5. PICK v : v = Views(L)[n]
    OBVIOUS
  <2>6. Views(L)[n + 1] = Taken(v, i, op)
    <3>1. Views(L)[n + 1] = Taken(Views(L)[(n + 1) - 1], n + 1, L[n + 1])
      BY <1>2, <2>1, ViewsAre
    <3>2. (n + 1) - 1 = n
      BY <1>1, <1>2
    <3>. QED BY <2>1, <2>2, <2>5, <3>1, <3>2
  <2>7. /\ v.feed = m.feed /\ v.applied = m.applied /\ v.notes = m.notes
        /\ v.spent = m.spent /\ v.history = m.history /\ v.nextSeq = m.nextSeq
        /\ v.filled = m.filled /\ v.alarms = ToSet(m.alarms)
    BY <1>1, <2>5 DEF MemIs, View
  <2>8. MemShape(m) /\ Covers(m, rows) /\ m.last = last /\ m.open = open
    BY DEF MemIs
  <2>9. /\ IsSeq(m.alarms) /\ IsSeq(m.dirty.alarms)
    BY <2>8 DEF MemShape
  <2>10. CASE Withheld(op)
    <3>1. View(r) = Taken(v, i, op)
      BY <2>4, <2>7, <2>10 DEF View, Taken
    <3>2. MemShape(r)
      BY <2>4, <2>9, <2>10 DEF MemShape
    <3>3. Covers(r, rows)
      BY <2>4, <2>8, <2>10 DEF Covers
    <3>4. r.last = last /\ r.open = open
      BY <2>4, <2>8, <2>10
    <3>. QED BY <1>1, <1>5, <2>2, <2>6, <3>1, <3>2, <3>3, <3>4 DEF MemIs
  <2>11. CASE ~Withheld(op)
    <3>1. OpOK(op) /\ op.kind # "priv"
      BY <1>1, <2>2, <2>11 DEF ChainOK, Withheld
    <3>2. IsSeq(d.alarms) /\ IsSeq(items)
      BY <1>3, <2>2, <2>3, <3>1, DerivedFacts, ItemsFacts
    <3>3. PICK aa, da, hh : /\ aa = m.alarms \o d.alarms /\ da = m.dirty.alarms \o d.alarms
                            /\ hh = m.history \o items
      OBVIOUS
    <3>4. /\ IsSeq(aa) /\ ToSet(aa) = ToSet(m.alarms) \cup ToSet(d.alarms)
          /\ IsSeq(da) /\ ToSet(da) = ToSet(m.dirty.alarms) \cup ToSet(d.alarms)
          /\ ToSet(hh) = ToSet(m.history) \cup ToSet(items)
      BY <1>3, <2>9, <3>2, <3>3, ConcatFacts
    <3>5. r = [feed |-> m.feed \cup {i}, applied |-> m.applied \cup {i},
               notes |-> m.notes \cup d.notes, spent |-> m.spent \cup marks,
               history |-> hh, alarms |-> aa,
               filled |-> m.filled \cup d.fill, nextSeq |-> m.nextSeq + Len(items),
               dirty |-> [feed |-> m.dirty.feed \cup {i},
                          notes |-> m.dirty.notes \cup d.notes,
                          spent |-> m.dirty.spent \cup marks,
                          history |-> m.dirty.history \cup ToSet(items),
                          alarms |-> da,
                          applied |-> m.dirty.applied \cup {i}],
               last |-> m.last, open |-> m.open]
      BY <2>4, <2>11, <3>3
    <3>6. Taken(v, i, op) =
            [feed |-> m.feed \cup {i}, applied |-> m.applied \cup {i},
             notes |-> m.notes \cup d.notes, spent |-> m.spent \cup marks,
             history |-> hh, filled |-> m.filled \cup d.fill,
             nextSeq |-> m.nextSeq + Len(items), alarms |-> ToSet(m.alarms) \cup ToSet(d.alarms)]
      BY <2>2, <2>3, <2>7, <2>11, <3>3 DEF Taken
    <3>7. View(r) = Taken(v, i, op)
      BY <3>4, <3>5, <3>6 DEF View
    <3>8. MemShape(r)
      BY <3>4, <3>5 DEF MemShape
    <3>9. Covers(r, rows)
      <4>1. /\ m.feed = rows.feed \cup m.dirty.feed
            /\ m.applied = rows.applied \cup m.dirty.applied
            /\ m.notes = rows.notes \cup m.dirty.notes
            /\ m.spent = rows.spent \cup m.dirty.spent
            /\ ToSet(m.history) = rows.history \cup m.dirty.history
            /\ ToSet(m.alarms) = ToSet(rows.alarms) \cup ToSet(m.dirty.alarms)
        BY <2>8 DEF Covers
      <4>2. /\ r.feed = rows.feed \cup r.dirty.feed
            /\ r.applied = rows.applied \cup r.dirty.applied
            /\ r.notes = rows.notes \cup r.dirty.notes
            /\ r.spent = rows.spent \cup r.dirty.spent
        BY <3>5, <4>1
      <4>3. ToSet(r.history) = rows.history \cup r.dirty.history
        BY <3>4, <3>5, <4>1
      <4>4. ToSet(r.alarms) = ToSet(rows.alarms) \cup ToSet(r.dirty.alarms)
        BY <3>4, <3>5, <4>1
      <4>. QED BY <4>2, <4>3, <4>4 DEF Covers
    <3>10. r.last = last /\ r.open = open
      BY <2>8, <3>5
    <3>. QED BY <1>1, <1>5, <2>2, <2>6, <3>7, <3>8, <3>9, <3>10 DEF MemIs
  <2>. QED BY <2>10, <2>11
<1>. QED BY <1>4, <1>5

-----------------------------------------------------------------------------
(* The operations of a range are seen.                                     *)

Largest(S) == CHOOSE x \in S : \A y \in S : x >= y

\* What a fold leaves of every part of the places of a range.
IsFold(g, m, range) ==
    g = [S \in SUBSET DOMAIN range |->
            IF S = {} THEN m ELSE applyLogs(g[S \ {Largest(S)}], range[Largest(S)])]

LEMMA FoldChosen ==
    ASSUME NEW m, NEW range
    PROVE  FoldLeft(applyLogs, m, range) = (CHOOSE g : IsFold(g, m, range))[DOMAIN range]
BY DEF FoldLeft, MapThenFoldSet, IsFold, Largest, Max

LEMMA LargestFacts ==
    /\ \A k \in Nat \ {0} : Largest(1..k) = k /\ (1..k) \ {k} = 1..(k - 1)
    /\ \A k \in Nat \ {0} : \A S \in SUBSET (1..k) : k \in S => Largest(S) = k
<1>1. ASSUME NEW k \in Nat \ {0}, NEW S \in SUBSET (1..k), k \in S PROVE Largest(S) = k
  <2>1. \A y \in S : k >= y
    BY <1>1
  <2>2. \A x \in S : (\A y \in S : x >= y) => x = k
    BY <1>1
  <2>. QED BY <1>1, <2>1, <2>2 DEF Largest
<1>2. ASSUME NEW k \in Nat \ {0} PROVE Largest(1..k) = k /\ (1..k) \ {k} = 1..(k - 1)
  <2>1. k \in 1..k
    OBVIOUS
  <2>. QED BY <1>1, <2>1
<1>. QED BY <1>1, <1>2

LEMMA FoldExists ==
    ASSUME NEW m, NEW n \in Nat, NEW range, DOMAIN range = 1..n
    PROVE  \E g : IsFold(g, m, range)
<1> DEFINE Is(g, k) ==
             g = [S \in SUBSET (1..k) |->
                     IF S = {} THEN m ELSE applyLogs(g[S \ {Largest(S)}], range[Largest(S)])]
           Bad == {k \in Nat : ~ \E g : Is(g, k)}
<1>1. SUFFICES Bad = {}
  <2>1. CASE Bad = {}
    <3>1. \E g : Is(g, n)
      BY <2>1
    <3>. QED BY <3>1 DEF IsFold
  <2>. QED BY <2>1
<1>2. SUFFICES ASSUME Bad # {} PROVE FALSE
  OBVIOUS
<1>3. PICK k \in Bad : \A j \in Bad : k <= j
  <2>1. Bad \subseteq Nat
    OBVIOUS
  <2>. HIDE DEF Bad
  <2>. QED BY <1>2, <2>1, LeastNatural
<1>4. k # 0
  <2>1. SUBSET (1..0) = {{}}
    OBVIOUS
  <2>2. Is([S \in SUBSET (1..0) |-> m], 0)
    BY <2>1
  <2>. QED BY <2>2
<1>5. PICK f : Is(f, k - 1)
  <2>1. k - 1 \in Nat /\ ~(k <= k - 1)
    BY <1>4
  <2>. QED BY <1>3, <2>1
<1> DEFINE top(S) == applyLogs(f[S \ {k}], range[k])
           g == [S \in SUBSET (1..k) |-> IF k \in S THEN top(S) ELSE f[S]]
<1>6. k \in Nat \ {0}
  BY <1>4
<1>7. ASSUME NEW S \in SUBSET (1..k)
      PROVE  g[S] = IF S = {} THEN m ELSE applyLogs(g[S \ {Largest(S)}], range[Largest(S)])
  <2>1. CASE k \in S
    <3>1. Largest(S) = k
      BY <1>6, <2>1, LargestFacts
    <3>2. S \ {k} \in SUBSET (1..k) /\ k \notin S \ {k}
      OBVIOUS
    <3>3. g[S \ {k}] = f[S \ {k}]
      BY <3>2
    <3>4. g[S] = top(S)
      BY <2>1
    <3>. HIDE DEF g
    <3>. QED BY <2>1, <3>1, <3>3, <3>4
  <2>2. CASE k \notin S
    <3>1. S \in SUBSET (1..(k - 1))
      BY <1>6, <2>2
    <3>2. f[S] = IF S = {} THEN m ELSE applyLogs(f[S \ {Largest(S)}], range[Largest(S)])
      BY <1>5, <3>1
    <3>3. S \ {Largest(S)} \in SUBSET (1..k) /\ k \notin S \ {Largest(S)}
      BY <2>2
    <3>4. g[S \ {Largest(S)}] = f[S \ {Largest(S)}] /\ g[S] = f[S]
      BY <2>2, <3>3
    <3>. HIDE DEF g
    <3>. QED BY <3>2, <3>4
  <2>. QED BY <2>1, <2>2
<1>8. Is(g, k)
  <2>1. g = [S \in SUBSET (1..k) |-> g[S]]
    OBVIOUS
  <2>. HIDE DEF g
  <2>. QED BY <1>7, <2>1
<1>. QED BY <1>3, <1>8


LEMMA ReplayedIs ==
    ASSUME ChainOK(chain), NEW n \in 0..Len(chain), NEW m, NEW rows, NEW last, NEW open,
           MemIs(m, chain, n, rows, last, open),
           NEW lo \in 0..n, NEW r \in Nat, lo + r <= Len(chain),
           NEW range, range = [j \in 1..r |-> lo + j]
    PROVE  MemIs(Replayed(m, range), chain, IF lo + r <= n THEN n ELSE lo + r, rows, last, open)
<1> DEFINE g == CHOOSE h : IsFold(h, m, range)
           at(k) == IF lo + k <= n THEN n ELSE lo + k
           Good(k) == MemIs(g[1..k], chain, at(k), rows, last, open)
           Bad == {k \in 0..r : ~Good(k)}
<1>1. Len(chain) \in Nat /\ n \in Nat /\ lo \in Nat /\ lo <= n /\ n <= Len(chain)
  BY SeqFacts DEF ChainOK
<1>2. DOMAIN range = 1..r /\ \A k \in 1..r : range[k] = lo + k
  OBVIOUS
<1>3. IsFold(g, m, range)
  <2>1. \E h : IsFold(h, m, range)
    BY <1>2, FoldExists
  <2>. QED BY <2>1
<1>4. FoldLeft(applyLogs, m, range) = g[1..r]
  <2>1. FoldLeft(applyLogs, m, range) = g[DOMAIN range]
    BY FoldChosen
  <2>. QED BY <1>2, <2>1
<1>. HIDE DEF g
<1>5. g[1..0] = m
  <2>1. 1..0 = {} /\ {} \in SUBSET DOMAIN range
    OBVIOUS
  <2>2. g[{}] = m
    BY <1>3, <2>1 DEF IsFold
  <2>. QED BY <2>1, <2>2
<1>6. ASSUME NEW k \in 1..r PROVE g[1..k] = applyLogs(g[1..(k - 1)], lo + k)
  <2>1. 1..k \in SUBSET DOMAIN range /\ 1..k # {} /\ k \in Nat \ {0}
    <3>1. k \in Nat \ {0} /\ r \in Nat /\ k <= r
      OBVIOUS
    <3>2. \A j \in 1..k : j \in 1..r
      BY <3>1
    <3>3. k \in 1..k
      BY <3>1
    <3>. QED BY <1>2, <3>1, <3>2, <3>3
  <2>2. Largest(1..k) = k /\ (1..k) \ {k} = 1..(k - 1)
    BY <2>1, LargestFacts
  <2>3. g[1..k] = applyLogs(g[(1..k) \ {Largest(1..k)}], range[Largest(1..k)])
    BY <1>3, <2>1 DEF IsFold
  <2>. QED BY <1>2, <2>2, <2>3
<1>7. Bad = {}
  <2>1. SUFFICES ASSUME Bad # {} PROVE FALSE
    OBVIOUS
  <2>2. PICK k \in Bad : \A j \in Bad : k <= j
    <3>1. Bad \subseteq Nat
      OBVIOUS
    <3>. HIDE DEF Bad
    <3>. QED BY <2>1, <3>1, LeastNatural
  <2>3. k \in 0..r /\ ~Good(k)
    OBVIOUS
  <2>4. k # 0
    <3>1. at(0) = n
      BY <1>1
    <3>2. Good(0)
      BY <1>5, <3>1
    <3>. QED BY <2>3, <3>2
  <2>5. Good(k - 1)
    <3>1. k - 1 \in 0..r /\ ~(k <= k - 1)
      BY <2>3, <2>4
    <3>. QED BY <2>2, <3>1
  <2>6. PICK l, q, i : l = g[1..(k - 1)] /\ q = at(k - 1) /\ i = lo + k
    OBVIOUS
  <2>7. /\ q \in 0..Len(chain) /\ i \in 1..Len(chain) /\ i <= q + 1
        /\ at(k) = IF i <= q THEN q ELSE q + 1
    BY <1>1, <2>3, <2>4, <2>6
  <2>8. MemIs(l, chain, q, rows, last, open)
    BY <2>5, <2>6
  <2>9. MemIs(applyLogs(l, i), chain, IF i <= q THEN q ELSE q + 1, rows, last, open)
    BY <2>7, <2>8, ApplyLogsKeeps
  <2>10. g[1..k] = applyLogs(l, i)
    BY <1>6, <2>3, <2>4, <2>6
  <2>11. Good(k)
    BY <2>7, <2>9, <2>10
  <2>. QED BY <2>3, <2>11
<1>8. Good(r)
  <2>1. r \in 0..r
    OBVIOUS
  <2>. QED BY <1>7, <2>1
<1>. QED BY <1>4, <1>8 DEF Replayed

-----------------------------------------------------------------------------
(* Ranges of blocks.                                                       *)

\* The operations up to a block are the first k.
Upto(L, block, k) == \A i \in 1..Len(L) : L[i].tx <= block <=> i <= k

LEMMA HeadFacts ==
    ASSUME ChainOK(chain)
    PROVE  /\ headBlock \in Nat /\ Upto(chain, headBlock, Len(chain)) /\ Len(chain) \in Nat
           /\ DOMAIN chain = 1..Len(chain)
           /\ Len(chain) = 0 => chain = <<>> /\ headBlock = 0
           /\ Len(chain) # 0 => headBlock = chain[Len(chain)].tx /\ chain # <<>>
<1>1. /\ IsSeq(chain) /\ Len(chain) \in Nat /\ DOMAIN chain = 1..Len(chain)
  BY SeqFacts DEF ChainOK
<1>2. CASE Len(chain) = 0
  <2>1. chain = <<>>
    BY <1>1, <1>2 DEF IsSeq
  <2>. QED BY <1>1, <1>2, <2>1 DEF headBlock, Upto
<1>3. CASE Len(chain) # 0
  <2>1. chain # <<>>
    BY <1>3
  <2>2. headBlock = chain[Len(chain)].tx /\ Len(chain) \in 1..Len(chain)
    BY <1>1, <1>3, <2>1 DEF headBlock, Last
  <2>3. headBlock \in Nat
    BY <2>2 DEF ChainOK, OpOK
  <2>4. ASSUME NEW i \in 1..Len(chain) PROVE chain[i].tx <= headBlock
    <3>1. CASE i = Len(chain)
      BY <2>2, <2>3, <3>1
    <3>2. CASE i < Len(chain)
      BY <2>2, <3>2 DEF ChainOK
    <3>. QED BY <1>1, <3>1, <3>2
  <2>. QED BY <1>1, <1>3, <2>1, <2>2, <2>3, <2>4 DEF Upto
<1>. QED BY <1>2, <1>3

LEMMA RangeIs ==
    ASSUME ChainOK(chain), NEW from \in Nat, NEW to \in Nat,
           NEW lo \in 0..Len(chain), NEW hi \in 0..Len(chain), lo <= hi,
           Upto(chain, from, lo), Upto(chain, to, hi)
    PROVE  OpsBetween(from, to) = [j \in 1..(hi - lo) |-> lo + j]
<1>1. Len(chain) \in Nat /\ DOMAIN chain = 1..Len(chain)
  BY HeadFacts
<1>2. PICK S : S = {i \in DOMAIN chain : chain[i].tx \in from + 1 .. to}
  OBVIOUS
<1>3. S = (lo + 1)..hi
  <2>1. ASSUME NEW i \in 1..Len(chain) PROVE i \in S <=> i \in (lo + 1)..hi
    <3>1. chain[i].tx \in Nat
      BY DEF ChainOK, OpOK
    <3>2. chain[i].tx \in from + 1 .. to <=> ~(chain[i].tx <= from) /\ chain[i].tx <= to
      BY <3>1
    <3>3. /\ chain[i].tx <= from <=> i <= lo
          /\ chain[i].tx <= to <=> i <= hi
      BY DEF Upto
    <3>. QED BY <1>1, <1>2, <3>2, <3>3
  <2>2. S \subseteq 1..Len(chain) /\ (lo + 1)..hi \subseteq 1..Len(chain)
    BY <1>1, <1>2
  <2>. QED BY <2>1, <2>2
<1>4. InOrder((lo + 1)..hi) = [j \in 1..(hi - lo) |-> lo + j]
  BY <1>1, InOrderInterval
<1>. QED BY <1>2, <1>3, <1>4 DEF OpsBetween

-----------------------------------------------------------------------------
(* The rows.                                                               *)

NoRows == [feed |-> {}, applied |-> {}, notes |-> {}, spent |-> {}, history |-> {},
           alarms |-> <<>>]

LEMMA NoMemIs ==
    ASSUME NEW L, Len(L) \in Nat
    PROVE  MemIs(NoMem, L, 0, NoRows, 0, FALSE)
<1>1. Views(L)[0] = View(NoMem)
  BY ViewsAre
<1>2. IsSeq(<<>>) /\ ToSet(<<>>) = {}
  <2>1. <<>> \in Seq({}) /\ DOMAIN <<>> = {}
    OBVIOUS
  <2>. QED BY <2>1 DEF IsSeq, ToSet
<1>3. MemShape(NoMem)
  BY <1>2 DEF MemShape, NoMem, NoDirt
<1>4. Covers(NoMem, NoRows)
  BY <1>2 DEF Covers, NoMem, NoDirt, NoRows
<1>5. NoMem.last = 0 /\ NoMem.open = FALSE
  BY DEF NoMem
<1>. QED BY <1>1, <1>3, <1>4, <1>5 DEF MemIs

\* One replay of the first n operations gives the view of them.
LEMMA OneReplay ==
    ASSUME ChainOK(chain), NEW n \in 0..Len(chain)
    PROVE  View(Replayed(NoMem, InOrder(1..n))) = Views(chain)[n]
<1>1. Len(chain) \in Nat /\ n \in Nat
  BY HeadFacts
<1>2. PICK range : range = InOrder(1..n)
  OBVIOUS
<1>3. range = [j \in 1..n |-> 0 + j]
  <2>1. InOrder((0 + 1)..n) = [j \in 1..(n - 0) |-> 0 + j]
    <3>1. 0 \in Nat /\ n \in Nat /\ 0 <= n
      BY <1>1
    <3>. QED BY ONLY <3>1, InOrderInterval
  <2>2. 0 + 1 = 1 /\ n - 0 = n
    BY <1>1
  <2>. QED BY <1>2, <2>1, <2>2
<1>4. MemIs(NoMem, chain, 0, NoRows, 0, FALSE)
  BY <1>1, NoMemIs
<1>5. MemIs(Replayed(NoMem, range), chain, IF 0 + n <= 0 THEN 0 ELSE 0 + n, NoRows, 0, FALSE)
  <2>1. 0 \in 0..Len(chain) /\ 0 \in 0..0 /\ 0 + n <= Len(chain)
    BY <1>1
  <2>. QED BY <1>1, <1>3, <1>4, <2>1, ReplayedIs
<1>6. (IF 0 + n <= 0 THEN 0 ELSE 0 + n) = n
  BY <1>1
<1>. QED BY <1>2, <1>5, <1>6 DEF MemIs

\* Rows that say what a view says.
RowsAre(rows, v) ==
    /\ rows.feed = v.feed /\ rows.applied = v.applied
    /\ rows.notes = v.notes /\ rows.spent = v.spent
    /\ rows.history = ToSet(v.history) /\ ToSet(rows.alarms) = v.alarms

\* What InsertAlarms leaves.
LEMMA InsertAlarmsIs ==
    ASSUME NEW rows, NEW alarms, IsSeq(rows), IsSeq(alarms)
    PROVE  /\ IsSeq(InsertAlarms(rows, alarms))
           /\ ToSet(InsertAlarms(rows, alarms)) = ToSet(rows) \cup ToSet(alarms)
<1>1. PICK S : S = {i \in DOMAIN alarms : /\ alarms[i] \notin ToSet(rows)
                                          /\ \A j \in 1..(i - 1) : alarms[j] # alarms[i]}
  OBVIOUS
<1>2. Len(alarms) \in Nat /\ DOMAIN alarms = 1..Len(alarms)
  BY SeqFacts
<1>3. S \subseteq Nat /\ IsFiniteSet(S)
  <2>1. IsFiniteSet(1..Len(alarms))
    BY <1>2, FS_Interval
  <2>. QED BY <1>1, <1>2, <2>1, FS_Subset
<1>4. PICK new : new = Kept(alarms, S)
  OBVIOUS
<1>5. IsSeq(new) /\ ToSet(new) = {alarms[i] : i \in S}
  BY <1>3, <1>4, KeptFacts
<1>6. InsertAlarms(rows, alarms) = rows \o new
  BY <1>1, <1>4 DEF InsertAlarms
<1>7. IsSeq(rows \o new) /\ ToSet(rows \o new) = ToSet(rows) \cup ToSet(new)
  BY <1>5, ConcatFacts
<1>8. ASSUME NEW a \in ToSet(alarms), a \notin ToSet(rows) PROVE a \in ToSet(new)
  <2>1. PICK T : T = {i \in DOMAIN alarms : alarms[i] = a}
    OBVIOUS
  <2>2. T # {} /\ T \subseteq Nat
    BY <1>2, <2>1 DEF ToSet
  <2>3. PICK i \in T : \A j \in T : i <= j
    BY <2>2, LeastNatural
  <2>4. i \in 1..Len(alarms) /\ alarms[i] = a
    BY <1>2, <2>1
  <2>5. ASSUME NEW j \in 1..(i - 1) PROVE alarms[j] # alarms[i]
    <3>1. j \in 1..Len(alarms) /\ ~(i <= j)
      BY <1>2, <2>4
    <3>. QED BY <1>2, <2>1, <2>3, <2>4, <3>1
  <2>6. i \in S
    BY <1>1, <1>2, <1>8, <2>4, <2>5
  <2>. QED BY <1>5, <2>4, <2>6
<1>9. ToSet(new) \subseteq ToSet(alarms)
  BY <1>1, <1>5 DEF ToSet
<1>. QED BY <1>6, <1>7, <1>8, <1>9

-----------------------------------------------------------------------------
(***************************************************************************)
(* The ledger's invariant.  What is durable is one replay up to the        *)
(* cursor, and what is in memory one replay that goes no less far; between *)
(* them, the buffers hold what the rows lack.                              *)
(***************************************************************************)
DbIs(k) == RowsAre(db, Views(chain)[k]) /\ Upto(chain, db.cursor, k)

DbOK == /\ IsSeq(db.alarms) /\ db.cursor \in 0..headBlock
        /\ \E k \in 0..Len(chain) : DbIs(k)

HoldsTo(n) ==
    /\ MemIs(mem, chain, n, db, mem.last, mem.open)
    /\ \E lo \in 0..n : Upto(chain, mem.last, lo)

HoldsOK ==
    /\ mem.last \in 0..headBlock
    /\ \E n \in 0..Len(chain) : HoldsTo(n)
    /\ phase \in {"applied", "committed"} => HoldsTo(Len(chain)) /\ upTo = headBlock
    /\ phase = "committed" => RowsAre(db, View(mem)) /\ db.cursor = upTo

LedgerInv ==
    /\ mix \in Mixes /\ ChainOK(chain)
    /\ phase \in {"idle", "applied", "committed", "down"}
    /\ DbOK
    /\ IF phase = "down" THEN mem = NoMem ELSE HoldsOK

LEMMA InvInit == Init => LedgerInv
<1>1. SUFFICES ASSUME Init PROVE LedgerInv
  OBVIOUS
<1>2. mix \in Mixes /\ chain = <<>> /\ mem = NoMem /\ phase = "idle"
      /\ db = [feed |-> {}, applied |-> {}, notes |-> {}, spent |-> {}, history |-> {},
               alarms |-> <<>>, cursor |-> 0]
  BY <1>1 DEF Init
<1>3. Len(chain) = 0 /\ IsSeq(chain) /\ DOMAIN <<>> = {}
  <2>1. <<>> \in Seq({}) /\ DOMAIN <<>> = {}
    OBVIOUS
  <2>. QED BY <1>2, <2>1 DEF IsSeq
<1>4. ChainOK(chain)
  BY <1>3 DEF ChainOK
<1>5. headBlock = 0 /\ \A block, k : Upto(chain, block, k)
  BY <1>2, <1>3 DEF headBlock, Upto
<1>6. MemIs(NoMem, chain, 0, NoRows, 0, FALSE)
  <2>1. Len(chain) \in Nat
    BY <1>3
  <2>. QED BY ONLY <2>1, NoMemIs
<1>7. HoldsTo(0)
  <2>1. NoMem.last = 0 /\ NoMem.open = FALSE
    BY DEF NoMem
  <2>2. Covers(NoMem, db)
    BY <1>2, <1>6 DEF MemIs, Covers, NoRows
  <2>3. MemIs(mem, chain, 0, db, mem.last, mem.open)
    BY <1>2, <1>6, <2>1, <2>2 DEF MemIs
  <2>4. 0 \in 0..0
    OBVIOUS
  <2>. QED BY <1>5, <2>3, <2>4 DEF HoldsTo
<1>8. HoldsOK
  <2>1. mem.last = 0 /\ 0 \in 0..Len(chain)
    BY <1>2, <1>3 DEF NoMem
  <2>2. phase \notin {"applied", "committed"}
    BY <1>2
  <2>. QED BY <1>5, <1>7, <2>1, <2>2 DEF HoldsOK
<1>9. DbOK
  <2>1. Views(chain)[0] = View(NoMem)
    BY <1>3, ViewsAre
  <2>2. ToSet(<<>>) = {} /\ IsSeq(<<>>)
    BY <1>2, <1>3 DEF ToSet
  <2>3. RowsAre(db, View(NoMem))
    BY <1>2, <2>2 DEF RowsAre, View, NoMem
  <2>4. IsSeq(db.alarms) /\ db.cursor \in 0..headBlock /\ 0 \in 0..Len(chain)
    BY <1>2, <1>3, <1>5, <2>2
  <2>. QED BY <1>5, <2>1, <2>3, <2>4 DEF DbOK, DbIs
<1>. QED BY <1>2, <1>4, <1>8, <1>9 DEF LedgerInv

\* What a poll has to see.
LEMMA OpsAreSeq ==
    ASSUME ChainOK(chain), HoldsOK
    PROVE  /\ OpsBetween(mem.last, headBlock) \in Seq(Nat)
           /\ \A n \in 0..Len(chain) : HoldsTo(n) =>
                  \E lo \in 0..n :
                      /\ Upto(chain, mem.last, lo)
                      /\ OpsBetween(mem.last, headBlock)
                             = [j \in 1..(Len(chain) - lo) |-> lo + j]
<1>1. /\ Len(chain) \in Nat /\ headBlock \in Nat /\ Upto(chain, headBlock, Len(chain))
      /\ mem.last \in Nat
  <2>1. headBlock \in Nat
    BY HeadFacts
  <2>. QED BY <2>1, HeadFacts DEF HoldsOK
<1>2. ASSUME NEW n \in 0..Len(chain), HoldsTo(n)
      PROVE  \E lo \in 0..n :
                 /\ Upto(chain, mem.last, lo)
                 /\ OpsBetween(mem.last, headBlock) = [j \in 1..(Len(chain) - lo) |-> lo + j]
                 /\ OpsBetween(mem.last, headBlock) \in Seq(Nat)
  <2>1. PICK lo \in 0..n : Upto(chain, mem.last, lo)
    BY <1>2 DEF HoldsTo
  <2>2. lo \in 0..Len(chain) /\ Len(chain) \in 0..Len(chain) /\ lo <= Len(chain)
        /\ Len(chain) - lo \in Nat /\ lo \in Nat
    BY <1>1
  <2>3. PICK ops : ops = OpsBetween(mem.last, headBlock)
    OBVIOUS
  <2>4. ops = [j \in 1..(Len(chain) - lo) |-> lo + j]
    BY <1>1, <2>1, <2>2, <2>3, RangeIs
  <2>5. ops \in Seq(Nat)
    BY <2>2, <2>4
  <2>. QED BY <2>1, <2>3, <2>4, <2>5
<1>3. PICK n \in 0..Len(chain) : HoldsTo(n)
  BY DEF HoldsOK
<1>. QED BY <1>2, <1>3

\* Memory after a poll, or a part of one.
LEMMA Polled ==
    ASSUME ChainOK(chain), HoldsOK, NEW r \in 0..Len(OpsBetween(mem.last, headBlock)),
           NEW range, range = SubSeq(OpsBetween(mem.last, headBlock), 1, r)
    PROVE  \E n \in 0..Len(chain) :
               /\ MemIs(Replayed(mem, range), chain, n, db, mem.last, mem.open)
               /\ \E lo \in 0..n : Upto(chain, mem.last, lo)
               /\ r = Len(OpsBetween(mem.last, headBlock)) => n = Len(chain)
<1>1. /\ Len(chain) \in Nat /\ headBlock \in Nat /\ Upto(chain, headBlock, Len(chain))
      /\ mem.last \in Nat
  <2>1. headBlock \in Nat
    BY HeadFacts
  <2>. QED BY <2>1, HeadFacts DEF HoldsOK
<1>2. PICK n \in 0..Len(chain) : HoldsTo(n)
  BY DEF HoldsOK
<1>3. PICK lo \in 0..n :
          /\ Upto(chain, mem.last, lo)
          /\ OpsBetween(mem.last, headBlock) = [j \in 1..(Len(chain) - lo) |-> lo + j]
  BY <1>2, OpsAreSeq
<1>4. PICK m, last, open, rows, ops :
          /\ m = mem /\ last = mem.last /\ open = mem.open /\ rows = db
          /\ ops = OpsBetween(mem.last, headBlock)
  OBVIOUS
<1>5. MemIs(m, chain, n, rows, last, open)
  BY <1>2, <1>4 DEF HoldsTo
<1>6. n \in Nat /\ lo \in 0..Len(chain) /\ Len(chain) \in 0..Len(chain) /\ lo <= Len(chain)
      /\ Len(chain) - lo \in Nat /\ lo \in Nat /\ lo <= n
  BY <1>1
<1>7. ops = [j \in 1..(Len(chain) - lo) |-> lo + j]
  BY <1>3, <1>4
<1>8. ops \in Seq(Nat) /\ Len(ops) = Len(chain) - lo
  BY <1>6, <1>7
<1>9. r \in Nat /\ r <= Len(chain) - lo /\ lo + r <= Len(chain)
  BY <1>1, <1>4, <1>6, <1>8
<1>10. range = [j \in 1..r |-> lo + j]
  <2>1. range = [j \in 1..r |-> ops[j]]
    BY <1>4, <1>8, <1>9
  <2>2. \A j \in 1..r : ops[j] = lo + j
    BY <1>1, <1>6, <1>7, <1>9
  <2>. QED BY <2>1, <2>2
<1>11. MemIs(Replayed(m, range), chain, IF lo + r <= n THEN n ELSE lo + r, rows, last, open)
  BY <1>5, <1>9, <1>10, ReplayedIs
<1>12. PICK p : p = IF lo + r <= n THEN n ELSE lo + r
  OBVIOUS
<1>13. p \in 0..Len(chain) /\ lo \in 0..p /\ (r = Len(ops) => p = Len(chain))
  BY <1>1, <1>6, <1>8, <1>9, <1>12
<1>. QED BY <1>3, <1>4, <1>11, <1>12, <1>13

-----------------------------------------------------------------------------
(* The steps of a poll, its failures, and restarts.                        *)

LEMMA DbStays ==
    ASSUME DbOK, UNCHANGED <<chain, db>>
    PROVE  DbOK'
<1>1. headBlock' = headBlock
  BY DEF headBlock
<1>. QED BY <1>1 DEF DbOK, DbIs

\* Memory that goes as far as the last poll or further, at rest or applied.
LEMMA HoldsAgain ==
    ASSUME UNCHANGED <<chain, db>>, mem.last \in 0..headBlock,
           NEW n \in 0..Len(chain), MemIs(mem', chain, n, db, mem.last, mem.open),
           \E lo \in 0..n : Upto(chain, mem.last, lo),
           \/ phase' = "idle"
           \/ phase' = "applied" /\ n = Len(chain) /\ upTo' = headBlock
    PROVE  HoldsOK'
<1>1. headBlock' = headBlock /\ Len(chain)' = Len(chain)
  BY DEF headBlock
<1>2. mem'.last = mem.last /\ mem'.open = mem.open
  BY DEF MemIs
<1>3. HoldsTo(n)'
  BY <1>2 DEF HoldsTo
<1>. QED BY <1>1, <1>2, <1>3 DEF HoldsOK

LEMMA PollOnceKeeps == LedgerInv /\ pollOnce => LedgerInv'
<1>1. SUFFICES ASSUME LedgerInv, pollOnce PROVE LedgerInv'
  OBVIOUS
<1>2. /\ phase = "idle" /\ phase' = "applied" /\ upTo' = headBlock
      /\ mem' = Replayed(mem, OpsBetween(mem.last, headBlock))
      /\ UNCHANGED <<mix, chain, db>>
  BY <1>1 DEF pollOnce
<1>3. ChainOK(chain) /\ HoldsOK /\ DbOK /\ mix \in Mixes
  BY <1>1, <1>2 DEF LedgerInv
<1>4. PICK ops : ops = OpsBetween(mem.last, headBlock)
  OBVIOUS
<1>5. Len(ops) \in Nat /\ ops = SubSeq(ops, 1, Len(ops))
  <2>1. ops \in Seq(Nat)
    BY <1>3, <1>4, OpsAreSeq
  <2>. QED BY <2>1
<1>6. PICK n \in 0..Len(chain) :
          /\ MemIs(Replayed(mem, ops), chain, n, db, mem.last, mem.open)
          /\ \E lo \in 0..n : Upto(chain, mem.last, lo)
          /\ n = Len(chain)
  <2>1. Len(ops) \in 0..Len(ops)
    BY <1>5
  <2>. QED BY <1>3, <1>4, <1>5, <2>1, Polled
<1>7. HoldsOK'
  <2>1. mem' = Replayed(mem, ops)
    BY <1>2, <1>4
  <2>2. mem.last \in 0..headBlock
    BY <1>3 DEF HoldsOK
  <2>. QED BY <1>2, <1>6, <2>1, <2>2, HoldsAgain
<1>8. DbOK'
  BY <1>2, <1>3, DbStays
<1>. QED BY <1>2, <1>3, <1>7, <1>8 DEF LedgerInv

LEMMA PollThrowsKeeps == LedgerInv /\ pollThrows => LedgerInv'
<1>1. SUFFICES ASSUME LedgerInv, pollThrows PROVE LedgerInv'
  OBVIOUS
<1>2. phase = "idle" /\ UNCHANGED <<mix, chain, db>>
  BY <1>1 DEF pollThrows
<1>3. ChainOK(chain) /\ HoldsOK /\ DbOK /\ mix \in Mixes
  BY <1>1, <1>2 DEF LedgerInv
<1>4. PICK ops : ops = OpsBetween(mem.last, headBlock)
  OBVIOUS
<1>5. PICK r \in 1..Len(ops) - 1 : Failed(Replayed(mem, SubSeq(ops, 1, r)))
  BY <1>1, <1>4 DEF pollThrows
<1>6. ops \in Seq(Nat)
  BY <1>3, <1>4, OpsAreSeq
<1>7. PICK m : m = Replayed(mem, SubSeq(ops, 1, r))
  OBVIOUS
<1>8. PICK n \in 0..Len(chain) :
          /\ MemIs(m, chain, n, db, mem.last, mem.open)
          /\ \E lo \in 0..n : Upto(chain, mem.last, lo)
  <2>1. r \in 0..Len(ops)
    BY <1>6
  <2>. QED BY <1>3, <1>4, <1>7, <2>1, Polled
<1>9. DbOK'
  BY <1>2, <1>3, DbStays
<1>10. CASE mem.open
  <2>1. phase' = "idle" /\ mem' = m
    BY <1>5, <1>7, <1>10 DEF Failed
  <2>2. HoldsOK'
    <3>1. mem.last \in 0..headBlock
      BY <1>3 DEF HoldsOK
    <3>. QED BY <1>2, <1>8, <2>1, <3>1, HoldsAgain
  <2>. QED BY <1>2, <1>3, <1>9, <2>1, <2>2 DEF LedgerInv
<1>11. CASE ~mem.open
  <2>1. phase' = "down" /\ mem' = NoMem
    BY <1>5, <1>7, <1>11 DEF Failed
  <2>. QED BY <1>2, <1>3, <1>9, <2>1 DEF LedgerInv
<1>. QED BY <1>10, <1>11

LEMMA RollBackKeeps == LedgerInv /\ RollBack => LedgerInv'
<1>1. SUFFICES ASSUME LedgerInv, RollBack PROVE LedgerInv'
  OBVIOUS
<1>2. phase \in {"applied", "committed"} /\ Failed(mem) /\ UNCHANGED <<mix, chain, db>>
  BY <1>1 DEF RollBack
<1>3. ChainOK(chain) /\ HoldsOK /\ DbOK /\ mix \in Mixes
  BY <1>1, <1>2 DEF LedgerInv
<1>4. DbOK'
  BY <1>2, <1>3, DbStays
<1>5. CASE mem.open
  <2>1. phase' = "idle" /\ mem' = mem
    BY <1>2, <1>5 DEF Failed
  <2>2. PICK n \in 0..Len(chain) : HoldsTo(n)
    BY <1>3 DEF HoldsOK
  <2>3. /\ MemIs(mem', chain, n, db, mem.last, mem.open)
        /\ \E lo \in 0..n : Upto(chain, mem.last, lo)
    BY <2>1, <2>2 DEF HoldsTo
  <2>4. mem.last \in 0..headBlock
    BY <1>3 DEF HoldsOK
  <2>5. HoldsOK'
    BY <1>2, <2>1, <2>3, <2>4, HoldsAgain
  <2>. QED BY <1>2, <1>3, <1>4, <2>1, <2>5 DEF LedgerInv
<1>6. CASE ~mem.open
  <2>1. phase' = "down" /\ mem' = NoMem
    BY <1>2, <1>6 DEF Failed
  <2>. QED BY <1>2, <1>3, <1>4, <2>1 DEF LedgerInv
<1>. QED BY <1>5, <1>6

LEMMA CrashKeeps == LedgerInv /\ Crash => LedgerInv'
<1>1. SUFFICES ASSUME LedgerInv, Crash PROVE LedgerInv'
  OBVIOUS
<1>2. phase' = "down" /\ mem' = NoMem /\ UNCHANGED <<mix, chain, db>>
  BY <1>1 DEF Crash
<1>3. ChainOK(chain) /\ DbOK /\ mix \in Mixes
  BY <1>1 DEF LedgerInv
<1>4. DbOK'
  BY <1>2, <1>3, DbStays
<1>. QED BY <1>2, <1>3, <1>4 DEF LedgerInv

LEMMA PersistKeeps == LedgerInv /\ persistAtomically => LedgerInv'
<1>1. SUFFICES ASSUME LedgerInv, persistAtomically PROVE LedgerInv'
  OBVIOUS
<1>2. /\ phase = "applied" /\ phase' = "committed" /\ db' = flushInto
      /\ UNCHANGED <<mix, chain, mem, upTo>>
  BY <1>1 DEF persistAtomically
<1>3. ChainOK(chain) /\ HoldsOK /\ DbOK /\ mix \in Mixes
  BY <1>1, <1>2 DEF LedgerInv
<1>4. /\ HoldsTo(Len(chain)) /\ upTo = headBlock /\ mem.last \in 0..headBlock
  BY <1>2, <1>3 DEF HoldsOK
<1>5. PICK m, old, new : m = mem /\ old = db /\ new = flushInto
  OBVIOUS
<1>6. MemShape(m) /\ View(m) = Views(chain)[Len(chain)] /\ Covers(m, old)
  BY <1>4, <1>5 DEF HoldsTo, MemIs
<1>7. PICK alarms : alarms = InsertAlarms(old.alarms, m.dirty.alarms)
  OBVIOUS
<1>8. IsSeq(alarms) /\ ToSet(alarms) = ToSet(old.alarms) \cup ToSet(m.dirty.alarms)
  <2>1. IsSeq(old.alarms) /\ IsSeq(m.dirty.alarms)
    BY <1>3, <1>5, <1>6 DEF DbOK, MemShape
  <2>. QED BY <1>7, <2>1, InsertAlarmsIs
<1>9. /\ IsSeq(m.history) /\ Len(m.history) \in Nat
      /\ \A k \in 1..Len(m.history) : m.history[k].seq = k - 1
  <2>1. Len(chain) \in 0..Len(chain)
    BY <1>3, HeadFacts
  <2>. QED BY <1>3, <1>6, <2>1, MemFacts
<1>10. PICK items : items = {h \in m.dirty.history : \A k \in old.history : k.seq # h.seq}
  OBVIOUS
<1>11. old.history \cup items = ToSet(m.history)
  <2>1. ToSet(m.history) = old.history \cup m.dirty.history
    BY <1>6 DEF Covers
  <2>2. ASSUME NEW h \in m.dirty.history, NEW k \in old.history, k.seq = h.seq PROVE k = h
    <3>1. h \in ToSet(m.history) /\ k \in ToSet(m.history)
      BY <2>1
    <3>2. PICK a, b \in 1..Len(m.history) : h = m.history[a] /\ k = m.history[b]
      BY <1>9, <3>1, SeqFacts DEF ToSet
    <3>. QED BY <1>9, <2>2, <3>2
  <2>3. \A h \in m.dirty.history : h \in old.history \/ h \in items
    BY <1>10, <2>2
  <2>. QED BY <1>10, <2>1, <2>3
<1>12. new = [feed |-> old.feed \cup m.dirty.feed, applied |-> old.applied \cup m.dirty.applied,
              notes |-> old.notes \cup m.dirty.notes, spent |-> old.spent \cup m.dirty.spent,
              history |-> old.history \cup items, alarms |-> alarms, cursor |-> upTo]
  BY <1>5, <1>7, <1>10 DEF flushInto
<1>13. /\ new.feed = m.feed /\ new.applied = m.applied /\ new.notes = m.notes
       /\ new.spent = m.spent /\ new.history = ToSet(m.history)
       /\ ToSet(new.alarms) = ToSet(m.alarms) /\ new.cursor = upTo /\ IsSeq(new.alarms)
  BY <1>6, <1>8, <1>11, <1>12 DEF Covers
<1>14. RowsAre(new, View(m))
  BY <1>13 DEF RowsAre, View
<1>15. headBlock' = headBlock /\ Len(chain)' = Len(chain) /\ db' = new /\ mem' = m /\ chain' = chain
  BY <1>2, <1>5 DEF headBlock
<1>16. /\ headBlock \in Nat /\ Upto(chain, headBlock, Len(chain)) /\ Len(chain) \in Nat
  BY <1>3, HeadFacts
<1>17. DbOK'
  <2>1. DbIs(Len(chain))'
    BY <1>4, <1>6, <1>13, <1>14, <1>15, <1>16 DEF DbIs
  <2>2. Len(chain) \in 0..Len(chain)
    BY <1>16
  <2>. QED BY <1>4, <1>13, <1>15, <1>16, <2>1, <2>2 DEF DbOK
<1>18. Covers(m, new)
  <2>1. /\ m.feed = new.feed \cup m.dirty.feed
        /\ m.applied = new.applied \cup m.dirty.applied
        /\ m.notes = new.notes \cup m.dirty.notes
        /\ m.spent = new.spent \cup m.dirty.spent
        /\ ToSet(m.history) = new.history \cup m.dirty.history
        /\ ToSet(m.alarms) = ToSet(new.alarms) \cup ToSet(m.dirty.alarms)
    BY <1>6, <1>13 DEF Covers
  <2>. QED BY <2>1 DEF Covers
<1>19. HoldsTo(Len(chain))'
  <2>1. MemIs(m, chain, Len(chain), new, m.last, m.open)
    BY <1>6, <1>18 DEF MemIs
  <2>2. \E lo \in 0..Len(chain) : Upto(chain, m.last, lo)
    BY <1>4, <1>5 DEF HoldsTo
  <2>. QED BY <1>15, <2>1, <2>2 DEF HoldsTo
<1>20. HoldsOK'
  <2>1. Len(chain) \in 0..Len(chain)
    BY <1>16
  <2>2. RowsAre(db, View(mem))' /\ (db.cursor)' = upTo /\ upTo' = upTo
    BY <1>2, <1>13, <1>14, <1>15
  <2>. QED BY <1>4, <1>5, <1>15, <1>19, <2>1, <2>2 DEF HoldsOK
<1>. QED BY <1>2, <1>3, <1>17, <1>20 DEF LedgerInv

LEMMA CommitFlushKeeps == LedgerInv /\ commitFlush => LedgerInv'
<1>1. SUFFICES ASSUME LedgerInv, commitFlush PROVE LedgerInv'
  OBVIOUS
<1>2. /\ phase = "committed" /\ phase' = "idle" /\ UNCHANGED <<mix, chain, db, upTo>>
      /\ mem' = [mem EXCEPT !.dirty = NoDirt, !.last = upTo, !.open = TRUE]
  BY <1>1 DEF commitFlush
<1>3. ChainOK(chain) /\ HoldsOK /\ DbOK /\ mix \in Mixes
  BY <1>1, <1>2 DEF LedgerInv
<1>4. HoldsTo(Len(chain)) /\ upTo = headBlock /\ RowsAre(db, View(mem))
  BY <1>2, <1>3 DEF HoldsOK
<1>5. PICK m, new : m = mem /\ new = mem'
  OBVIOUS
<1>6. MemShape(m) /\ View(m) = Views(chain)[Len(chain)]
  BY <1>4, <1>5 DEF HoldsTo, MemIs
<1>7. new = [feed |-> m.feed, applied |-> m.applied, notes |-> m.notes, spent |-> m.spent,
             history |-> m.history, alarms |-> m.alarms, filled |-> m.filled,
             nextSeq |-> m.nextSeq, dirty |-> NoDirt, last |-> upTo, open |-> TRUE]
  BY <1>2, <1>5, <1>6 DEF MemShape
<1>8. IsSeq(<<>>) /\ ToSet(<<>>) = {}
  <2>1. <<>> \in Seq({}) /\ DOMAIN <<>> = {}
    OBVIOUS
  <2>. QED BY <2>1 DEF IsSeq, ToSet
<1>9. MemShape(new)
  BY <1>6, <1>7, <1>8 DEF MemShape, NoDirt
<1>10. View(new) = View(m)
  BY <1>7 DEF View
<1>11. Covers(new, db)
  <2>1. /\ db.feed = m.feed /\ db.applied = m.applied /\ db.notes = m.notes
        /\ db.spent = m.spent /\ db.history = ToSet(m.history)
        /\ ToSet(db.alarms) = ToSet(m.alarms)
    BY <1>4, <1>5 DEF RowsAre, View
  <2>. QED BY <1>7, <1>8, <2>1 DEF Covers, NoDirt
<1>12. MemIs(new, chain, Len(chain), db, new.last, new.open)
  BY <1>6, <1>9, <1>10, <1>11 DEF MemIs
<1>13. headBlock' = headBlock /\ Len(chain)' = Len(chain) /\ db' = db /\ mem' = new /\ chain' = chain
  BY <1>2, <1>5 DEF headBlock
<1>14. /\ headBlock \in Nat /\ Upto(chain, headBlock, Len(chain)) /\ Len(chain) \in Nat
  BY <1>3, HeadFacts
<1>15. new.last = headBlock
  BY <1>4, <1>7
<1>16. HoldsTo(Len(chain))'
  <2>1. Len(chain) \in 0..Len(chain)
    BY <1>14
  <2>. QED BY <1>12, <1>13, <1>14, <1>15, <2>1 DEF HoldsTo
<1>17. HoldsOK'
  <2>1. Len(chain) \in 0..Len(chain)
    BY <1>14
  <2>2. mem'.last \in 0..headBlock' /\ Len(chain) \in 0..Len(chain)'
    BY <1>13, <1>14, <1>15, <2>1
  <2>3. phase' \notin {"applied", "committed"}
    BY <1>2
  <2>. QED BY <1>16, <2>2, <2>3 DEF HoldsOK
<1>18. DbOK'
  BY <1>2, <1>3, DbStays
<1>. QED BY <1>2, <1>3, <1>17, <1>18 DEF LedgerInv

\* Numbers that go from nought tell the items apart, in their order.
LEMMA BySeqIs ==
    ASSUME NEW h, IsSeq(h), \A k \in 1..Len(h) : h[k].seq = k - 1
    PROVE  BySeq(ToSet(h)) = h /\ NextSeq(ToSet(h)) = Len(h)
<1>1. Len(h) \in Nat /\ DOMAIN h = 1..Len(h) /\ h = [k \in 1..Len(h) |-> h[k]]
  <2>1. h = [k \in 1..Len(h) |-> h[k]]
    BY DEF IsSeq
  <2>. QED BY <2>1, SeqFacts
<1>2. PICK all, len : all = ToSet(h) /\ len = Len(h)
  OBVIOUS
<1>3. all = {h[k] : k \in 1..len} /\ len \in Nat
  BY <1>1, <1>2 DEF ToSet
<1>4. ASSUME NEW p \in 0..len PROVE Cardinality({h[k] : k \in 1..p}) = p
  <2> DEFINE A == {h[k] : k \in 1..p}
             f == [k \in 1..p |-> h[k]]
  <2>1. p \in Nat /\ \A k \in 1..p : k \in 1..Len(h)
    BY <1>2, <1>3
  <2>2. \A j, k \in 1..p : f[j] = f[k] => j = k
    <3>1. SUFFICES ASSUME NEW j \in 1..p, NEW k \in 1..p, h[j] = h[k] PROVE j = k
      OBVIOUS
    <3>2. h[j].seq = j - 1 /\ h[k].seq = k - 1
      BY <2>1
    <3>. QED BY <3>1, <3>2
  <2>3. f \in Injection(1..p, A)
    BY <2>2 DEF Injection, IsInjective
  <2>4. f \in Surjection(1..p, A)
    BY DEF Surjection
  <2>5. ExistsBijection(1..p, A)
    BY <2>3, <2>4 DEF ExistsBijection, Bijection
  <2>6. IsFiniteSet(1..p) /\ Cardinality(1..p) = p
    BY <2>1, FS_Interval
  <2>. HIDE DEF A
  <2>7. Cardinality(1..p) = Cardinality(A)
    BY ONLY <2>5, <2>6, FS_Bijection
  <2>. QED BY <2>6, <2>7 DEF A
<1>5. Cardinality(all) = len
  <2>1. len \in 0..len
    BY <1>3
  <2>. QED BY <1>3, <1>4, <2>1
<1>6. ASSUME NEW k \in 1..len
      PROVE  (CHOOSE x \in all : Cardinality({g \in all : g.seq < x.seq}) = k - 1) = h[k]
  <2>1. ASSUME NEW j \in 1..len PROVE Cardinality({g \in all : g.seq < h[j].seq}) = j - 1
    <3>1. \A i \in 1..len : h[i].seq = i - 1
      BY <1>2
    <3>2. {g \in all : g.seq < h[j].seq} = {h[i] : i \in 1..(j - 1)}
      <4>1. ASSUME NEW i \in 1..len PROVE h[i].seq < h[j].seq <=> i \in 1..(j - 1)
        <5>1. h[i].seq = i - 1 /\ h[j].seq = j - 1
          BY <3>1
        <5>. QED BY <1>3, <5>1
      <4>2. \A i \in 1..(j - 1) : i \in 1..len
        BY <1>3
      <4>. QED BY <1>3, <4>1, <4>2
    <3>3. j - 1 \in 0..len
      BY <1>3
    <3>. QED BY <1>4, <3>2, <3>3
  <2>2. h[k] \in all /\ Cardinality({g \in all : g.seq < h[k].seq}) = k - 1
    BY <1>3, <2>1
  <2>3. ASSUME NEW x \in all, Cardinality({g \in all : g.seq < x.seq}) = k - 1 PROVE x = h[k]
    <3>1. PICK j \in 1..len : x = h[j]
      BY <1>3
    <3>2. j - 1 = k - 1
      BY <2>1, <2>3, <3>1
    <3>3. j = k
      BY <1>3, <3>2
    <3>. QED BY <3>1, <3>3
  <2>. QED BY <2>2, <2>3
<1>7. BySeq(all) = h
  <2>1. BySeq(all) = [k \in 1..len |->
                       CHOOSE x \in all : Cardinality({g \in all : g.seq < x.seq}) = k - 1]
    BY <1>5 DEF BySeq
  <2>2. BySeq(all) = [k \in 1..len |-> h[k]]
    BY <1>6, <2>1
  <2>. QED BY <1>1, <1>2, <2>2
<1>8. NextSeq(all) = len
  <2>1. CASE len = 0
    <3>1. all = {}
      BY <1>3, <2>1
    <3>. QED BY <2>1, <3>1 DEF NextSeq
  <2>2. CASE len # 0
    <3>1. PICK S : S = {x.seq : x \in all}
      OBVIOUS
    <3>2. \A k \in 1..len : h[k].seq = k - 1
      BY <1>2
    <3>3. S = 0..(len - 1)
      <4>1. ASSUME NEW x \in S PROVE x \in 0..(len - 1)
        <5>1. PICK k \in 1..len : x = h[k].seq
          BY <1>3, <3>1
        <5>. QED BY <1>3, <3>2, <5>1
      <4>2. ASSUME NEW n \in 0..(len - 1) PROVE n \in S
        <5>1. n + 1 \in 1..len
          BY <1>3
        <5>2. h[n + 1] \in all /\ h[n + 1].seq = (n + 1) - 1
          BY <1>3, <3>2, <5>1
        <5>. QED BY <1>3, <3>1, <5>2
      <4>. QED BY <4>1, <4>2
    <3>4. len - 1 \in S /\ \A y \in S : len - 1 >= y
      BY <1>3, <2>2, <3>3
    <3>5. \A x \in S : (\A y \in S : x >= y) => x = len - 1
      BY <1>3, <2>2, <3>3
    <3>6. (CHOOSE x \in S : \A y \in S : x >= y) = len - 1
      BY <3>4, <3>5
    <3>7. Max(S) = len - 1
      BY <3>6 DEF Max
    <3>8. all # {}
      BY <3>1, <3>4
    <3>9. NextSeq(all) = Max(S) + 1
      BY <3>1, <3>8 DEF NextSeq
    <3>. QED BY <1>3, <3>7, <3>9
  <2>. QED BY <2>1, <2>2
<1>. QED BY <1>2, <1>7, <1>8

LEMMA ViewShape ==
    ASSUME NEW L, ChainOK(L), NEW n \in 0..Len(L), NEW v, v = Views(L)[n]
    PROVE  v = [feed |-> v.feed, applied |-> v.applied, notes |-> v.notes, spent |-> v.spent,
                history |-> v.history, filled |-> v.filled, nextSeq |-> v.nextSeq,
                alarms |-> v.alarms]
<1>1. Len(L) \in Nat
  BY SeqFacts DEF ChainOK
<1>2. CASE n = 0
  <2>1. v = View(NoMem)
    BY <1>1, <1>2, ViewsAre
  <2>. QED BY <2>1 DEF View
<1>3. CASE n # 0
  <2>1. n \in 1..Len(L)
    BY <1>1, <1>3
  <2>2. v = Taken(Views(L)[n - 1], n, L[n])
    BY <1>1, <2>1, ViewsAre
  <2>3. PICK a, b, c, d, e, f, g, h :
            v = [feed |-> a, applied |-> b, notes |-> c, spent |-> d, history |-> e,
                 filled |-> f, nextSeq |-> g, alarms |-> h]
    <3>1. PICK u, op : u = Views(L)[n - 1] /\ op = L[n]
      OBVIOUS
    <3>2. CASE Withheld(op)
      BY <2>2, <3>1, <3>2 DEF Taken
    <3>3. CASE ~Withheld(op)
      BY <2>2, <3>1, <3>3 DEF Taken
    <3>. QED BY <3>2, <3>3
  <2>. QED BY <2>3
<1>. QED BY <1>2, <1>3

LEMMA BootKeeps == LedgerInv /\ boot => LedgerInv'
<1>1. SUFFICES ASSUME LedgerInv, boot PROVE LedgerInv'
  OBVIOUS
<1>2. /\ phase' = "idle" /\ UNCHANGED <<mix, chain, db>>
      /\ mem' = [feed |-> db.feed, applied |-> db.applied, notes |-> db.notes,
                 spent |-> db.spent, history |-> BySeq(db.history), alarms |-> db.alarms,
                 filled |-> Opened(db.notes), nextSeq |-> NextSeq(db.history),
                 dirty |-> NoDirt, last |-> db.cursor, open |-> FALSE]
  BY <1>1 DEF boot
<1>3. ChainOK(chain) /\ DbOK /\ mix \in Mixes
  BY <1>1 DEF LedgerInv
<1>4. PICK k \in 0..Len(chain) : DbIs(k)
  BY <1>3 DEF DbOK
<1>5. PICK L, v, rows, m : L = chain /\ v = Views(L)[k] /\ rows = db /\ m = mem'
  OBVIOUS
<1>6. ViewOK(v, L, k)
  BY <1>3, <1>5, ViewsOK
<1>7. RowsAre(rows, v) /\ Upto(chain, db.cursor, k)
  BY <1>4, <1>5 DEF DbIs
<1>8. /\ BySeq(ToSet(v.history)) = v.history /\ NextSeq(ToSet(v.history)) = Len(v.history)
  <2>1. IsSeq(v.history) /\ \A j \in 1..Len(v.history) : v.history[j].seq = j - 1
    BY <1>6 DEF ViewOK
  <2>. QED BY ONLY <2>1, BySeqIs
<1>9. Opened(db.notes) = v.filled
  <2>1. rows.feed = 1..k /\ rows.notes = v.notes
    BY <1>6, <1>7 DEF RowsAre, ViewOK
  <2>2. v.filled = {L[i].first : i \in {j \in 1..k : IsOpened(L[j], v.notes)}}
    BY <1>6 DEF ViewOK
  <2>. QED BY <1>5, <2>1, <2>2 DEF Opened, IsOpened, LeavesIn
<1>10. m = [feed |-> v.feed, applied |-> v.applied, notes |-> v.notes, spent |-> v.spent,
            history |-> v.history, alarms |-> rows.alarms, filled |-> v.filled,
            nextSeq |-> v.nextSeq, dirty |-> NoDirt, last |-> db.cursor, open |-> FALSE]
  <2>1. v.nextSeq = Len(v.history)
    BY <1>6 DEF ViewOK
  <2>2. /\ rows.feed = v.feed /\ rows.applied = v.applied /\ rows.notes = v.notes
        /\ rows.spent = v.spent /\ rows.history = ToSet(v.history)
    BY <1>7 DEF RowsAre
  <2>. QED BY <1>2, <1>5, <1>8, <1>9, <2>1, <2>2
<1>11. IsSeq(<<>>) /\ ToSet(<<>>) = {}
  <2>1. <<>> \in Seq({}) /\ DOMAIN <<>> = {}
    OBVIOUS
  <2>. QED BY <2>1 DEF IsSeq, ToSet
<1>12. MemShape(m)
  <2>1. IsSeq(rows.alarms)
    BY <1>3, <1>5 DEF DbOK
  <2>. QED BY <1>10, <1>11, <2>1 DEF MemShape, NoDirt
<1>13. View(m) = v
  <2>1. PICK w : w = View(m)
    OBVIOUS
  <2>2. v = [feed |-> v.feed, applied |-> v.applied, notes |-> v.notes, spent |-> v.spent,
             history |-> v.history, filled |-> v.filled, nextSeq |-> v.nextSeq,
             alarms |-> v.alarms]
    BY <1>3, <1>5, ViewShape
  <2>3. ToSet(rows.alarms) = v.alarms
    BY <1>7 DEF RowsAre
  <2>. QED BY <1>10, <2>2, <2>3 DEF View
<1>14. Covers(m, rows)
  <2>1. /\ rows.feed = v.feed /\ rows.applied = v.applied /\ rows.notes = v.notes
        /\ rows.spent = v.spent /\ rows.history = ToSet(v.history)
    BY <1>7 DEF RowsAre
  <2>. QED BY <1>10, <1>11, <2>1 DEF Covers, NoDirt
<1>15. headBlock' = headBlock /\ chain' = chain /\ db' = rows /\ mem' = m
  BY <1>2, <1>5 DEF headBlock
<1>16. m.last = db.cursor /\ k \in 0..k /\ Len(chain) \in Nat
  BY <1>3, <1>10, HeadFacts
<1>17. HoldsTo(k)'
  <2>1. MemIs(m, chain, k, rows, m.last, m.open)
    BY <1>5, <1>12, <1>13, <1>14 DEF MemIs
  <2>2. Upto(chain, m.last, k)
    BY <1>7, <1>16
  <2>. QED BY <1>15, <1>16, <2>1, <2>2 DEF HoldsTo
<1>18. HoldsOK'
  <2>1. mem'.last \in 0..headBlock' /\ k \in 0..Len(chain)'
    BY <1>3, <1>15, <1>16 DEF DbOK
  <2>2. phase' \notin {"applied", "committed"}
    BY <1>2
  <2>. QED BY <1>17, <2>1, <2>2 DEF HoldsOK
<1>19. DbOK'
  BY <1>2, <1>3, DbStays
<1>. QED BY <1>2, <1>3, <1>18, <1>19 DEF LedgerInv

-----------------------------------------------------------------------------
(* The chain grows.                                                        *)

\* A closed batch ends where the next aligned block begins, or before.
LEMMA AlignedIs ==
    ASSUME NEW leaf \in Nat
    PROVE  Aligned(leaf) \in Nat /\ leaf <= Aligned(leaf)
<1>1. BatchSize \in Nat /\ BatchSize > 0
  BY LedgerAssumption
<1> DEFINE n == leaf + BatchSize - 1
           q == n \div BatchSize
           r == n % BatchSize
<1>2. n \in Nat
  BY <1>1
<1>. HIDE DEF n
<1>3. q \in Nat /\ r \in 0..(BatchSize - 1) /\ n = BatchSize * q + r
  BY <1>1, <1>2
<1>. HIDE DEF q, r
<1>4. BatchSize * q \in Nat /\ q * BatchSize = BatchSize * q
  BY <1>1, <1>3
<1>5. leaf <= BatchSize * q
  BY <1>1, <1>3, <1>4 DEF n
<1>. QED BY <1>4, <1>5 DEF Aligned, n, q

LEMMA OutsAreSeq ==
    ASSUME NEW n \in Nat, NEW total, NEW o \in Outs(n, total)
    PROVE  IsSeq(o) /\ Len(o) = n
<1>1. PICK T : o \in [1..n -> T]
  BY DEF Outs
<1>2. o = [k \in 1..n |-> o[k]]
  BY <1>1
<1>. QED BY ONLY <1>2, FunIsSeq, n \in Nat

LEMMA DraftFacts ==
    ASSUME NEW kind \in Kinds, NEW draft \in DraftsOf(kind)
    PROVE  IsSeq(draft.outs) /\ Len(draft.outs) # 0
<1>1. \A k, s, outs : Draft(k, s, outs).outs = outs
  BY DEF Draft
<1>2. BatchSize \in Nat /\ BatchSize # 0 /\ 2 \in Nat
  BY LedgerAssumption
<1>3. ASSUME NEW r PROVE IsSeq(<<r>>) /\ Len(<<r>>) # 0
  <2>1. <<r>> \in Seq({r}) /\ Len(<<r>>) = 1
    OBVIOUS
  <2>2. IsSeq(<<r>>)
    BY <2>1 DEF IsSeq
  <2>3. Len(<<r>>) # 0
    BY <2>1
  <2>. QED BY <2>2, <2>3
<1>4. \/ \E outs, total : outs \in Outs(2, total) /\ draft.outs = outs
      \/ \E outs, total : outs \in Outs(BatchSize, total) /\ draft.outs = outs
      \/ \E r : draft.outs = <<r>>
  <2>1. CASE kind = "deposit"
    <3>1. DraftsOf(kind) = {Draft(kind, {}, outs) : outs \in {o \in Outs(2, Stake) : o[1].owner = o[2].owner}}
      BY <2>1 DEF DraftsOf
    <3>2. PICK outs \in Outs(2, Stake) : draft = Draft(kind, {}, outs)
      BY <3>1
    <3>. QED BY <1>1, <3>2
  <2>2. CASE kind = "transfer"
    <3>1. DraftsOf(kind) = UNION {{Draft(kind, s, outs) : outs \in Outs(2, WorthOf(s))} : s \in Spendable(2)}
      BY <2>2 DEF DraftsOf
    <3>2. PICK s \in Spendable(2) : draft \in {Draft(kind, s, outs) : outs \in Outs(2, WorthOf(s))}
      BY <3>1
    <3>3. PICK outs \in Outs(2, WorthOf(s)) : draft = Draft(kind, s, outs)
      BY <3>2
    <3>. QED BY <1>1, <3>3
  <2>3. CASE kind = "disburse"
    <3>1. DraftsOf(kind) = UNION {{Draft(kind, s, outs) : outs \in Outs(BatchSize, WorthOf(s))} : s \in Spendable(1)}
      BY <2>3 DEF DraftsOf
    <3>2. PICK s \in Spendable(1) : draft \in {Draft(kind, s, outs) : outs \in Outs(BatchSize, WorthOf(s))}
      BY <3>1
    <3>3. PICK outs \in Outs(BatchSize, WorthOf(s)) : draft = Draft(kind, s, outs)
      BY <3>2
    <3>. QED BY <1>1, <3>3
  <2>4. CASE kind = "withdraw"
    <3>1. DraftsOf(kind) =
            UNION {{Draft(kind, s, <<[owner |-> SenderOf(s), value |-> v]>>) : v \in 0..WorthOf(s)} :
                      s \in Spendable(2)}
      BY <2>4 DEF DraftsOf
    <3>2. PICK s \in Spendable(2) :
              draft \in {Draft(kind, s, <<[owner |-> SenderOf(s), value |-> v]>>) : v \in 0..WorthOf(s)}
      BY <3>1
    <3>3. PICK r : draft = Draft(kind, s, <<r>>)
      BY <3>2
    <3>. QED BY <1>1, <3>3
  <2>5. CASE kind = "priv"
    <3>1. DraftsOf(kind) =
            UNION {{Draft(kind, s, <<[owner |-> o, value |-> WorthOf(s)]>>) : o \in Owner} :
                      s \in Spendable(2)}
      BY <2>5 DEF DraftsOf
    <3>2. PICK s \in Spendable(2) :
              draft \in {Draft(kind, s, <<[owner |-> o, value |-> WorthOf(s)]>>) : o \in Owner}
      BY <3>1
    <3>3. PICK r : draft = Draft(kind, s, <<r>>)
      BY <3>2
    <3>. QED BY <1>1, <3>3
  <2>. QED BY <2>1, <2>2, <2>3, <2>4, <2>5 DEF Kinds
<1>5. CASE \E outs, total : outs \in Outs(2, total) /\ draft.outs = outs
  BY <1>2, <1>5, OutsAreSeq
<1>6. CASE \E outs, total : outs \in Outs(BatchSize, total) /\ draft.outs = outs
  BY <1>2, <1>6, OutsAreSeq
<1>7. CASE \E r : draft.outs = <<r>>
  BY <1>3, <1>7
<1>. QED BY <1>4, <1>5, <1>6, <1>7

\* A block that a new operation is past still ends where it did.
LEMMA UptoStays ==
    ASSUME NEW L, IsSeq(L), NEW op, NEW block \in Nat, op.tx \in Nat, block < op.tx,
           NEW k \in 0..Len(L), Upto(L, block, k)
    PROVE  Upto(Append(L, op), block, k)
<1>1. PICK M : M = Append(L, op)
  OBVIOUS
<1>2. Len(L) \in Nat /\ Len(M) = Len(L) + 1 /\ M[Len(L) + 1] = op
      /\ \A i \in 1..Len(L) : M[i] = L[i]
  BY <1>1 DEF IsSeq
<1>3. ASSUME NEW i \in 1..Len(M) PROVE M[i].tx <= block <=> i <= k
  <2>1. CASE i \in 1..Len(L)
    BY <1>2, <2>1 DEF Upto
  <2>2. CASE i \notin 1..Len(L)
    <3>1. i = Len(L) + 1
      BY <1>2, <2>2
    <3>. QED BY <1>2, <3>1
  <2>. QED BY <2>1, <2>2
<1>. QED BY <1>1, <1>3 DEF Upto

LEMMA ChainGrows ==
    ASSUME NEW L, ChainOK(L), NEW op, OpOK(op),
           \A i \in 1..Len(L) : L[i].first + Len(L[i].outs) <= op.first /\ L[i].tx <= op.tx
    PROVE  ChainOK(Append(L, op))
<1>1. PICK M : M = Append(L, op)
  OBVIOUS
<1>2. /\ Len(L) \in Nat /\ Len(M) = Len(L) + 1 /\ M[Len(L) + 1] = op
      /\ \A i \in 1..Len(L) : M[i] = L[i]
  BY <1>1 DEF ChainOK, IsSeq
<1>3. IsSeq(M)
  <2>1. PICK T : L \in Seq(T)
    BY DEF ChainOK, IsSeq
  <2>2. L \in Seq(T \cup {op})
    BY <2>1
  <2>3. M \in Seq(T \cup {op})
    BY <1>1, <2>2
  <2>. QED BY <2>3 DEF IsSeq
<1>4. \A i \in 1..Len(M) : i \in 1..Len(L) \/ i = Len(L) + 1
  BY <1>2
<1>5. \A i \in 1..Len(M) : OpOK(M[i])
  BY <1>2, <1>4 DEF ChainOK
<1>6. ASSUME NEW i \in 1..Len(M), NEW j \in 1..Len(M), i < j
      PROVE  M[i].first + Len(M[i].outs) <= M[j].first /\ M[i].tx <= M[j].tx
  <2>1. i \in 1..Len(L)
    BY <1>2, <1>6
  <2>2. CASE j \in 1..Len(L)
    BY <1>2, <1>6, <2>1, <2>2 DEF ChainOK
  <2>3. CASE j = Len(L) + 1
    BY <1>2, <2>1, <2>3
  <2>. QED BY <1>4, <2>2, <2>3
<1>. QED BY <1>1, <1>3, <1>5, <1>6 DEF ChainOK

LEMMA NextLeafFacts ==
    ASSUME ChainOK(chain)
    PROVE  /\ NextLeaf \in Nat
           /\ \A i \in 1..Len(chain) : /\ chain[i].first + Len(chain[i].outs) <= NextLeaf
                                       /\ chain[i].tx <= headBlock
<1>1. /\ Len(chain) \in Nat /\ headBlock \in Nat /\ Upto(chain, headBlock, Len(chain))
      /\ Len(chain) = 0 => chain = <<>>
      /\ Len(chain) # 0 => chain # <<>>
  BY HeadFacts
<1>2. \A i \in 1..Len(chain) : chain[i].tx <= headBlock
  BY <1>1 DEF Upto
<1>3. \A i \in 1..Len(chain) : chain[i].first \in Nat /\ Len(chain[i].outs) \in Nat
  BY SeqFacts DEF ChainOK, OpOK
<1>4. CASE Len(chain) = 0
  BY <1>1, <1>2, <1>4 DEF NextLeaf
<1>5. CASE Len(chain) # 0
  <2>1. PICK last : last = Len(chain)
    OBVIOUS
  <2>2. NextLeaf = chain[last].first + Len(chain[last].outs) /\ last \in 1..Len(chain)
    BY <1>1, <1>5, <2>1 DEF NextLeaf, Last
  <2>3. ASSUME NEW i \in 1..Len(chain) PROVE chain[i].first + Len(chain[i].outs) <= NextLeaf
    <3>1. CASE i = last
      BY <1>3, <2>2, <3>1
    <3>2. CASE i < last
      <4>1. chain[i].first + Len(chain[i].outs) <= chain[last].first
        BY <2>2, <3>2 DEF ChainOK
      <4>. QED BY <1>3, <2>2, <4>1
    <3>. QED BY <1>1, <2>1, <3>1, <3>2
  <2>. QED BY <1>2, <1>3, <2>2, <2>3
<1>. QED BY <1>4, <1>5

\* The next operation is past what was polled: another of the last transaction is
\* made only while the last operation was not seen.
LEMMA PastThePoll ==
    ASSUME LedgerInv, phase = "idle", NEW tx \in {headBlock + 1} \cup Unpolled
    PROVE  /\ tx \in Nat \ {0} /\ headBlock <= tx
           /\ db.cursor \in Nat /\ db.cursor < tx /\ mem.last \in Nat /\ mem.last < tx
<1>1. ChainOK(chain) /\ DbOK /\ HoldsOK
  BY DEF LedgerInv
<1>2. /\ headBlock \in Nat /\ Len(chain) \in Nat
      /\ Len(chain) = 0 => chain = <<>> /\ headBlock = 0
      /\ Len(chain) # 0 => headBlock = chain[Len(chain)].tx
  BY <1>1, HeadFacts
<1>3. /\ db.cursor \in Nat /\ db.cursor <= headBlock
      /\ mem.last \in Nat /\ mem.last <= headBlock
  BY <1>1, <1>2 DEF DbOK, HoldsOK
<1>4. CASE tx = headBlock + 1
  BY <1>2, <1>3, <1>4
<1>5. CASE tx # headBlock + 1
  <2>1. tx \in Unpolled
    BY <1>5
  <2>2. tx = headBlock /\ chain # <<>> /\ \A i \in mem.feed : chain[i].tx # headBlock
    BY <2>1 DEF Unpolled
  <2>3. Len(chain) # 0 /\ Len(chain) \in 1..Len(chain)
    BY <1>2, <2>2
  <2>4. PICK n \in 0..Len(chain) : HoldsTo(n)
    BY <1>1 DEF HoldsOK
  <2>5. PICK k \in 0..Len(chain) : DbIs(k)
    BY <1>1 DEF DbOK
  <2>6. PICK L, m, v, w : L = chain /\ m = mem /\ v = Views(L)[n] /\ w = Views(L)[k]
    OBVIOUS
  <2>7. m.feed = 1..n
    <3>1. View(m) = Views(L)[n]
      BY <2>4, <2>6 DEF HoldsTo, MemIs
    <3>2. ChainOK(L) /\ n \in 0..Len(L)
      BY <1>1, <2>6
    <3>. QED BY <3>1, <3>2, MemFacts
  <2>8. db.feed = 1..k
    <3>1. ViewOK(w, L, k)
      BY <1>1, <2>6, ViewsOK
    <3>. QED BY <2>5, <2>6, <3>1 DEF DbIs, RowsAre, ViewOK
  <2>9. db.feed \subseteq m.feed
    BY <2>4, <2>6 DEF HoldsTo, MemIs, Covers
  <2>10. n < Len(chain)
    <3>1. Len(chain) \notin 1..n
      BY <1>2, <2>2, <2>3, <2>6, <2>7
    <3>. QED BY <1>2, <2>3, <3>1
  <2>11. k < Len(chain)
    <3>1. SUFFICES ASSUME k = Len(chain) PROVE FALSE
      BY <1>2
    <3>2. Len(chain) \in 1..n
      BY <2>3, <2>7, <2>8, <2>9, <3>1
    <3>. QED BY <1>2, <2>10, <3>2
  <2>12. ~(headBlock <= db.cursor)
    <3>1. chain[Len(chain)].tx <= db.cursor <=> Len(chain) <= k
      BY <2>3, <2>5 DEF DbIs, Upto
    <3>. QED BY <1>2, <2>3, <2>11, <3>1
  <2>13. ~(headBlock <= mem.last)
    <3>1. PICK lo \in 0..n : Upto(chain, mem.last, lo)
      BY <2>4 DEF HoldsTo
    <3>2. chain[Len(chain)].tx <= mem.last <=> Len(chain) <= lo
      BY <2>3, <3>1 DEF Upto
    <3>. QED BY <1>2, <2>3, <2>10, <3>2
  <2>. QED BY <1>2, <1>3, <2>2, <2>12, <2>13
<1>. QED BY <1>4, <1>5

LEMMA TransactKeeps == LedgerInv /\ Transact => LedgerInv'
<1>1. SUFFICES ASSUME LedgerInv, Transact PROVE LedgerInv'
  OBVIOUS
<1>2. phase = "idle" /\ UNCHANGED <<mix, mem, db, phase, upTo>>
  BY <1>1 DEF Transact
<1>3. ChainOK(chain) /\ DbOK /\ HoldsOK /\ mix \in Mixes
  BY <1>1, <1>2 DEF LedgerInv
<1>4. PICK kind \in mix \ {"spoilt", "bundled", "paged"} : \E draft \in DraftsOf(kind),
          kem \in {"good"} \cup (IF "spoilt" \in mix THEN {"junk"} ELSE {}),
          published \in IF kind = "disburse" THEN Published ELSE {"whole"},
          tx \in {headBlock + 1} \cup Unpolled :
            chain' = Append(chain,
                        [kind |-> kind, outs |-> draft.outs, ins |-> draft.ins,
                         sender |-> draft.sender, worth |-> draft.worth,
                         kem |-> kem, published |-> published, tx |-> tx,
                         first |-> IF kind = "disburse" THEN Aligned(NextLeaf) ELSE NextLeaf])
  BY <1>1 DEF Transact
<1>5. PICK draft, tx, op :
          /\ draft \in DraftsOf(kind) /\ tx \in {headBlock + 1} \cup Unpolled
          /\ chain' = Append(chain, op)
          /\ op.kind = kind /\ op.outs = draft.outs /\ op.tx = tx
          /\ op.first = IF kind = "disburse" THEN Aligned(NextLeaf) ELSE NextLeaf
  <2>1. PICK draft \in DraftsOf(kind) : \E
          kem \in {"good"} \cup (IF "spoilt" \in mix THEN {"junk"} ELSE {}),
          published \in IF kind = "disburse" THEN Published ELSE {"whole"},
          tx \in {headBlock + 1} \cup Unpolled :
            chain' = Append(chain,
                        [kind |-> kind, outs |-> draft.outs, ins |-> draft.ins,
                         sender |-> draft.sender, worth |-> draft.worth,
                         kem |-> kem, published |-> published, tx |-> tx,
                         first |-> IF kind = "disburse" THEN Aligned(NextLeaf) ELSE NextLeaf])
    BY <1>4
  <2>2. PICK kem \in {"good"} \cup (IF "spoilt" \in mix THEN {"junk"} ELSE {}),
             published \in IF kind = "disburse" THEN Published ELSE {"whole"},
             tx \in {headBlock + 1} \cup Unpolled :
            chain' = Append(chain,
                        [kind |-> kind, outs |-> draft.outs, ins |-> draft.ins,
                         sender |-> draft.sender, worth |-> draft.worth,
                         kem |-> kem, published |-> published, tx |-> tx,
                         first |-> IF kind = "disburse" THEN Aligned(NextLeaf) ELSE NextLeaf])
    BY <2>1
  <2>. QED BY <2>2
<1>6. kind \in Kinds
  BY <1>3, <1>4, LedgerAssumption DEF Kinds
<1>7. IsSeq(op.outs) /\ Len(op.outs) # 0
  BY <1>5, <1>6, DraftFacts
<1>8. /\ NextLeaf \in Nat
      /\ \A i \in 1..Len(chain) : /\ chain[i].first + Len(chain[i].outs) <= NextLeaf
                                  /\ chain[i].tx <= headBlock
  BY <1>3, NextLeafFacts
<1>9. op.first \in Nat /\ NextLeaf <= op.first
  BY <1>5, <1>8, AlignedIs
<1>10. /\ op.tx \in Nat \ {0} /\ headBlock <= op.tx
       /\ db.cursor \in Nat /\ db.cursor < op.tx /\ mem.last \in Nat /\ mem.last < op.tx
  BY <1>1, <1>2, <1>5, PastThePoll
<1>11. OpOK(op)
  BY <1>5, <1>6, <1>7, <1>9, <1>10 DEF OpOK
<1>12. /\ headBlock \in Nat /\ Len(chain) \in Nat /\ IsSeq(chain)
  BY <1>3, HeadFacts DEF ChainOK
<1>13. PICK L, M : L = chain /\ M = chain'
  OBVIOUS
<1>14. ChainOK(M)
  <2>1. \A i \in 1..Len(L) : L[i].first + Len(L[i].outs) <= op.first /\ L[i].tx <= op.tx
    <3>1. \A i \in 1..Len(L) : /\ L[i].first \in Nat /\ Len(L[i].outs) \in Nat
                               /\ L[i].tx \in Nat
      BY <1>3, <1>13, SeqFacts DEF ChainOK, OpOK
    <3>. QED BY <1>8, <1>9, <1>10, <1>12, <1>13, <3>1
  <2>2. ChainOK(L) /\ OpOK(op) /\ M = Append(L, op)
    BY <1>3, <1>5, <1>11, <1>13
  <2>. QED BY ONLY <2>1, <2>2, ChainGrows
<1>15. /\ Len(M) = Len(L) + 1 /\ M # <<>> /\ M[Len(L) + 1] = op
  BY <1>5, <1>12, <1>13 DEF IsSeq
<1>16. headBlock' = op.tx
  BY <1>12, <1>13, <1>15 DEF headBlock, Last
<1>17. \A n \in 0..Len(L) : Views(M)[n] = Views(L)[n] /\ n \in 0..Len(M)
  <2>1. IsSeq(L) /\ M = Append(L, op)
    BY <1>5, <1>12, <1>13
  <2>. QED BY <1>12, <1>13, <1>15, <2>1, ViewsStay
<1>18. \A block \in Nat : \A k \in 0..Len(L) :
           block < op.tx /\ Upto(L, block, k) => Upto(M, block, k)
  <2>1. IsSeq(L) /\ M = Append(L, op) /\ op.tx \in Nat
    BY <1>5, <1>10, <1>12, <1>13
  <2>. QED BY ONLY <2>1, UptoStays
<1>19. DbOK'
  <2>1. PICK k \in 0..Len(L) : DbIs(k)
    BY <1>3, <1>13 DEF DbOK
  <2>2. DbIs(k)'
    BY <1>2, <1>10, <1>13, <1>17, <1>18, <2>1 DEF DbIs
  <2>3. k \in 0..Len(chain)'
    BY <1>13, <1>17
  <2>4. db'.cursor \in 0..headBlock' /\ IsSeq(db.alarms)
    BY <1>2, <1>3, <1>10, <1>16 DEF DbOK
  <2>. QED BY <1>2, <2>2, <2>3, <2>4 DEF DbOK
<1>20. HoldsOK'
  <2>1. PICK n \in 0..Len(L) : HoldsTo(n)
    BY <1>3, <1>13 DEF HoldsOK
  <2>2. PICK lo \in 0..n : Upto(L, mem.last, lo)
    BY <1>13, <2>1 DEF HoldsTo
  <2>3. lo \in 0..Len(L)
    BY <1>12, <1>13
  <2>4. Upto(M, mem.last, lo)
    BY <1>10, <1>18, <2>2, <2>3
  <2>5. MemIs(mem, M, n, db, mem.last, mem.open)
    BY <1>13, <1>17, <2>1 DEF HoldsTo, MemIs
  <2>6. HoldsTo(n)'
    BY <1>2, <1>13, <2>4, <2>5 DEF HoldsTo
  <2>7. n \in 0..Len(chain)' /\ mem'.last \in 0..headBlock' /\ phase' = "idle"
    BY <1>2, <1>10, <1>13, <1>16, <1>17
  <2>. QED BY <2>6, <2>7 DEF HoldsOK
<1>. QED BY <1>2, <1>3, <1>13, <1>14, <1>19, <1>20 DEF LedgerInv

\* Reading changes nothing of what is read.
LEMMA ReadingKeeps == LedgerInv /\ UNCHANGED <<mix, chain, mem, db, phase, upTo>> => LedgerInv'
<1>1. SUFFICES ASSUME LedgerInv, UNCHANGED <<mix, chain, mem, db, phase, upTo>>
               PROVE  LedgerInv'
  OBVIOUS
<1>2. headBlock' = headBlock
  BY <1>1 DEF headBlock
<1>. QED BY <1>1, <1>2 DEF LedgerInv, DbOK, DbIs, HoldsOK, HoldsTo

LEMMA InvNext == LedgerInv /\ [Next]_vars => LedgerInv'
<1>1. SUFFICES ASSUME LedgerInv, [Next]_vars PROVE LedgerInv'
  OBVIOUS
<1>2. CASE Transact
  BY <1>1, <1>2, TransactKeeps
<1>3. CASE pollOnce
  BY <1>1, <1>3, PollOnceKeeps
<1>4. CASE persistAtomically
  BY <1>1, <1>4, PersistKeeps
<1>5. CASE commitFlush
  BY <1>1, <1>5, CommitFlushKeeps
<1>6. CASE boot
  BY <1>1, <1>6, BootKeeps
<1>7. CASE pollThrows
  BY <1>1, <1>7, PollThrowsKeeps
<1>8. CASE RollBack
  BY <1>1, <1>8, RollBackKeeps
<1>9. CASE Crash
  BY <1>1, <1>9, CrashKeeps
<1>10. CASE FirstPage \/ NextPage
  <2>1. UNCHANGED <<mix, chain, mem, db, phase, upTo>>
    BY <1>10 DEF FirstPage, NextPage
  <2>. QED BY <1>1, <2>1, ReadingKeeps
<1>11. CASE UNCHANGED vars
  BY <1>1, <1>11, ReadingKeeps DEF vars
<1>. QED BY <1>1, <1>2, <1>3, <1>4, <1>5, <1>6, <1>7, <1>8, <1>9, <1>10, <1>11 DEF Next

\* The rows are one replay up to the cursor and memory one replay that goes no less far;
\* what the rows lack is in the buffers.
THEOREM LedgerInvariant == Spec => []LedgerInv
<1>1. Init => LedgerInv
  BY InvInit
<1>2. LedgerInv /\ [Next]_vars => LedgerInv'
  BY InvNext
<1>. QED BY <1>1, <1>2, PTL DEF Spec

LEMMA InvTellsTheChain == LedgerInv => LedgerTellsTheChain
<1>1. SUFFICES ASSUME LedgerInv PROVE LedgerTellsTheChain
  OBVIOUS
<1>2. ChainOK(chain) /\ DbOK
  BY <1>1 DEF LedgerInv
<1>3. Len(chain) \in Nat /\ headBlock \in Nat
  BY <1>2, HeadFacts
<1>4. ASSUME NEW n \in 0..Len(chain), NEW r, r = Replayed(NoMem, InOrder(1..n))
      PROVE  /\ r.feed = Views(chain)[n].feed /\ r.applied = Views(chain)[n].applied
             /\ r.notes = Views(chain)[n].notes /\ r.spent = Views(chain)[n].spent
             /\ r.history = Views(chain)[n].history /\ r.filled = Views(chain)[n].filled
             /\ ToSet(r.alarms) = Views(chain)[n].alarms
             /\ Views(chain)[n].feed = 1..n
  <2>1. PICK v : v = Views(chain)[n]
    OBVIOUS
  <2>2. View(r) = v
    BY <1>2, <1>4, <2>1, OneReplay
  <2>3. v.feed = 1..n
    BY <1>2, <2>1, ViewsOK DEF ViewOK
  <2>. QED BY <2>1, <2>2, <2>3 DEF View
<1>5. PICK k \in 0..Len(chain) : DbIs(k)
  BY <1>2 DEF DbOK
<1>6. OpsBetween(0, db.cursor) = InOrder(1..k)
  <2>1. db.cursor \in Nat /\ k \in Nat
    BY <1>2, <1>3 DEF DbOK
  <2>2. Upto(chain, 0, 0)
    BY <1>2 DEF Upto, ChainOK, OpOK
  <2>3. 0 \in Nat /\ 0 \in 0..Len(chain) /\ 0 <= k /\ Upto(chain, db.cursor, k)
    BY <1>3, <1>5 DEF DbIs
  <2>4. OpsBetween(0, db.cursor) = [j \in 1..(k - 0) |-> 0 + j]
    BY ONLY <1>2, <1>5, <2>1, <2>2, <2>3, RangeIs
  <2>5. InOrder((0 + 1)..k) = [j \in 1..(k - 0) |-> 0 + j]
    BY ONLY <2>1, <2>3, InOrderInterval
  <2>. QED BY <2>4, <2>5
<1>7. /\ Same(db, Replayed(NoMem, OpsBetween(0, db.cursor)))
      /\ db.history = ToSet(Replayed(NoMem, OpsBetween(0, db.cursor)).history)
      /\ ToSet(db.alarms) = ToSet(Replayed(NoMem, OpsBetween(0, db.cursor)).alarms)
  <2>1. PICK r : r = Replayed(NoMem, InOrder(1..k))
    OBVIOUS
  <2>. QED BY <1>4, <1>5, <1>6, <2>1 DEF DbIs, RowsAre, Same
<1>8. /\ Same(mem, Replayed(NoMem, InOrder(mem.feed)))
      /\ mem.history = Replayed(NoMem, InOrder(mem.feed)).history
      /\ mem.filled = Replayed(NoMem, InOrder(mem.feed)).filled
  <2>1. PICK n \in 0..Len(chain) : View(mem) = Views(chain)[n]
    <3>1. CASE phase = "down"
      <4>1. mem = NoMem /\ Views(chain)[0] = View(NoMem) /\ 0 \in 0..Len(chain)
        BY <1>1, <1>3, <3>1, ViewsAre DEF LedgerInv
      <4>. QED BY <4>1
    <3>2. CASE phase # "down"
      BY <1>1, <3>2 DEF LedgerInv, HoldsOK, HoldsTo, MemIs
    <3>. QED BY <3>1, <3>2
  <2>2. PICK v : v = Views(chain)[n]
    OBVIOUS
  <2>3. /\ mem.feed = v.feed /\ mem.applied = v.applied /\ mem.notes = v.notes
        /\ mem.spent = v.spent /\ mem.history = v.history /\ mem.filled = v.filled
    BY <2>1, <2>2 DEF View
  <2>4. PICK r : r = Replayed(NoMem, InOrder(1..n))
    OBVIOUS
  <2>5. /\ r.feed = v.feed /\ r.applied = v.applied /\ r.notes = v.notes
        /\ r.spent = v.spent /\ r.history = v.history /\ r.filled = v.filled
        /\ v.feed = 1..n
    BY <1>4, <2>2, <2>4
  <2>6. Replayed(NoMem, InOrder(mem.feed)) = r
    BY <2>3, <2>4, <2>5
  <2>. QED BY <2>3, <2>5, <2>6 DEF Same
<1>. QED BY <1>7, <1>8 DEF LedgerTellsTheChain

\* Whatever fails, is retried or restarted, the rows are those of one replay up to the
\* cursor and what is served is one replay of what was seen.
THEOREM LedgerAlwaysTellsTheChain == Spec => []LedgerTellsTheChain
BY LedgerInvariant, InvTellsTheChain, PTL

LEMMA InvNoSilentGap == LedgerInv => NoSilentGap
<1>1. SUFFICES ASSUME LedgerInv, NEW i \in mem.feed
               PROVE  \/ chain[i].kind = "priv"
                      \/ MadeBy({chain[i]}) \subseteq mem.notes
                      \/ \E a \in ToSet(mem.alarms) : a.tx = chain[i].tx
                      \/ chain[i] \in Disclosures(mem.feed)
  BY DEF NoSilentGap
<1>2. ChainOK(chain)
  BY <1>1 DEF LedgerInv
<1>3. CASE phase = "down"
  BY <1>1, <1>3 DEF LedgerInv, NoMem
<1>4. CASE phase # "down"
  <2>1. PICK n \in 0..Len(chain) : View(mem) = Views(chain)[n]
    BY <1>1, <1>4 DEF LedgerInv, HoldsOK, HoldsTo, MemIs
  <2>2. PICK L, m : L = chain /\ m = mem
    OBVIOUS
  <2>3. ChainOK(L) /\ n \in 0..Len(L) /\ View(m) = Views(L)[n]
    BY <1>2, <2>1, <2>2
  <2>4. m.feed = 1..n /\ \A j \in 1..n : Heard(L[j], m.notes, ToSet(m.alarms))
    BY ONLY <2>3, MemFacts
  <2>5. Heard(chain[i], mem.notes, ToSet(mem.alarms))
    BY <1>1, <2>2, <2>4
  <2>. QED BY <1>1, <2>5 DEF Heard, Disclosures
<1>. QED BY <1>3, <1>4

\* No enterprise operation that was seen escapes the auditor silently: its notes are in
\* the ledger or an alarm about it is, before and after any failure.
THEOREM LedgerHasNoSilentGap == Spec => []NoSilentGap
BY LedgerInvariant, InvNoSilentGap, PTL

=============================================================================
