---------------------------- MODULE SolanaProofs ----------------------------
(***************************************************************************)
(* What the Solana program guarantees for every set of notes and values,   *)
(* every profile, batch size and capacity, and whatever addresses anybody  *)
(* sends lamports to; and what the indexer of the rail makes of any ledger *)
(* of it, however its passes fail.                                         *)
(***************************************************************************)
EXTENDS SolanaPool, SolanaIndexer, SharedLemmas

-----------------------------------------------------------------------------
(***************************************************************************)
(* The inductive invariant.  The root of a tree with a leaf in it is known *)
(* (initialize registers none), known roots tell leaves still in place,    *)
(* and a batch's account lies inside the tree: without the last two the    *)
(* next op could spend what is not there, or append into a batch.          *)
(***************************************************************************)
TypesOK == /\ leaves \in Seq(Commitment)
           /\ balance \in [Holder -> Nat]

RootsTell == /\ \A r \in knownRoots : r \subseteq RootOf(leaves)
             /\ leaves # <<>> => RootOf(leaves) \in knownRoots

AnchorsInside == \A b \in batches : /\ b.start \in Nat
                                    /\ b.disclosed \in Seq(Commitment)
                                    /\ b.start + Len(b.disclosed) <= Len(leaves)

Covered == Worth(Unspent) <= balance[Vault]

SolanaInv == TypesOK /\ RootsTell /\ AnchorsInside /\ AnchorsNameTheirBatch /\ Covered

\* The tree after an op that appends new: old leaves in place, one new root.
TreeStep(new) == /\ leaves' = leaves \o new
                 /\ register_new_root

LEMMA TreeStepKeeps ==
    ASSUME SolanaInv, NEW new \in Seq(Commitment), TreeStep(new)
    PROVE  /\ leaves' \in Seq(Commitment)
           /\ RootsTell'
           /\ Committed' = Committed \cup Nonzeros(new)
           /\ \A b \in batches :
                 /\ b.start + Len(b.disclosed) <= Len(leaves')
                 /\ SubSeq(leaves', b.start + 1, b.start + Len(b.disclosed)) = b.disclosed
<1>1. leaves \in Seq(Commitment) /\ leaves' = leaves \o new
      /\ knownRoots' = knownRoots \cup {RootOf(leaves')}
  BY DEF SolanaInv, TypesOK, TreeStep, register_new_root
<1>2. leaves' \in Seq(Commitment) /\ RootOf(leaves) \subseteq RootOf(leaves')
  BY <1>1, RootOfConcat
<1>3. RootsTell'
  BY <1>1, <1>2 DEF SolanaInv, RootsTell
<1>4. Committed' = Committed \cup Nonzeros(new)
  <2>1. Nonzeros(leaves') = Nonzeros(leaves) \cup Nonzeros(new)
    BY <1>1, NonzerosConcat
  <2>. QED BY <2>1 DEF Committed, Nonzeros
<1>5. ASSUME NEW b \in batches
      PROVE  /\ b.start + Len(b.disclosed) <= Len(leaves')
             /\ SubSeq(leaves', b.start + 1, b.start + Len(b.disclosed)) = b.disclosed
  <2> DEFINE n == Len(b.disclosed)
  <2>1. /\ b.start \in Nat /\ n \in Nat /\ b.start + n <= Len(leaves)
        /\ SubSeq(leaves, b.start + 1, b.start + n) = b.disclosed
    BY DEF SolanaInv, AnchorsInside, AnchorsNameTheirBatch
  <2>2. Len(leaves) <= Len(leaves') /\ Len(leaves) \in Nat /\ Len(leaves') \in Nat
    BY <1>1
  <2>. HIDE DEF n
  <2>3. SubSeq(leaves', b.start + 1, b.start + n) = b.disclosed
    BY <1>1, <2>1, SubSeqStays
  <2>4. b.start + n <= Len(leaves')
    BY <2>1, <2>2
  <2>. QED BY <2>3, <2>4 DEF n
<1>. QED BY <1>2, <1>3, <1>4, <1>5

-----------------------------------------------------------------------------
(***************************************************************************)
(* The money.                                                              *)
(***************************************************************************)
LEMMA LedgerWorth ==
    ASSUME NEW S
    PROVE  Ledger!WorthOf(S) = Worth(S)
BY DEF Worth, Ledger!WorthOf, SumFunctionOnSet, FoldFunctionOnSet, MapThenFoldSet,
       Ledger!SumFunctionOnSet, Ledger!FoldFunctionOnSet, Ledger!MapThenFoldSet

LEMMA UnspentFinite ==
    ASSUME leaves \in Seq(Commitment)
    PROVE  Unspent \in FiniteNotes
<1>1. Committed \in FiniteNotes
  BY NonzerosFinite DEF Committed, Nonzeros
<1>. QED BY <1>1, PartIsFinite DEF Unspent

LEMMA Exchanges ==
    ASSUME NEW used, NEW made, used \subseteq Unspent,
           Committed' = Committed \cup made, nullifiers' = nullifiers \cup used
    PROVE  Ledger!Exchange(used, made)
BY DEF Ledger!Exchange, Unspent

\* An exchange the vault moves with is a step of the ledger, and covered.
LEMMA MintIsLedger ==
    ASSUME SolanaInv, NEW n \in Nat, NEW outs \in Outputs(n),
           Ledger!Exchange({}, Nonzeros(Commitments(outs))),
           balance'[Vault] = balance[Vault] + SlotSum(outs)
    PROVE  Ledger!LedgerNext /\ Covered'
<1> DEFINE made == Nonzeros(Commitments(outs))
<1>1. made \in FiniteNotes /\ Worth(made) <= SlotSum(outs) /\ SlotSum(outs) \in Nat
  BY MadeWorth, OutputFacts
<1>2. balance[Vault] \in Nat /\ Unspent \in FiniteNotes
  BY UnspentFinite DEF SolanaInv, TypesOK, Holder
<1>. HIDE DEF made
<1>3. Worth(made) \in Nat /\ Ledger!WorthOf(made) = Worth(made) /\ Worth({}) = 0
  BY <1>1, WorthNat, LedgerWorth
<1>4. /\ balance'[Vault] \in Nat
      /\ balance'[Vault] >= balance[Vault] + Ledger!WorthOf(made)
      /\ Worth(made) + balance[Vault] <= Worth({}) + balance'[Vault]
  BY <1>1, <1>2, <1>3
<1>5. Ledger!Mint(made)
  BY <1>4 DEF Ledger!Mint, made
<1>6. made \in SUBSET Note /\ Ledger!IsFiniteSet(made)
  BY <1>1 DEF FiniteNotes, IsFiniteSet, Ledger!IsFiniteSet
<1>7. Unspent' \subseteq (Unspent \ {}) \cup made
  BY DEF Ledger!Exchange, made
<1>8. Worth(Unspent') <= balance'[Vault]
  BY <1>1, <1>2, <1>4, <1>7, ExchangeIsCovered DEF SolanaInv, Covered
<1>. QED BY <1>5, <1>6, <1>8 DEF Ledger!LedgerNext, Covered, Worth

LEMMA SpendIsLedger ==
    ASSUME SolanaInv, NEW k \in Nat, NEW n \in Nat, NEW tree,
           NEW ins \in ProvedInputs(k, tree), NEW outs \in Outputs(n),
           \A i, j \in 1..k : ins[i].nf = ins[j].nf => i = j \/ ins[i].nf = Zero,
           Ledger!Exchange(Nonzeros(Nullifiers(ins)), Nonzeros(Commitments(outs))),
           SlotSum(ins) >= SlotSum(outs), balance'[Vault] \in Nat,
           \/ balance'[Vault] = balance[Vault]
           \/ balance'[Vault] = balance[Vault] - (SlotSum(ins) - SlotSum(outs))
    PROVE  Ledger!LedgerNext /\ Covered'
<1> DEFINE used == Nonzeros(Nullifiers(ins))
           made == Nonzeros(Commitments(outs))
<1>1. made \in FiniteNotes /\ Worth(made) <= SlotSum(outs) /\ SlotSum(outs) \in Nat
  BY MadeWorth, OutputFacts
<1>2. used \in FiniteNotes /\ Worth(used) = SlotSum(ins) /\ SlotSum(ins) \in Nat
  BY UsedWorth, InputFacts
<1>3. balance[Vault] \in Nat /\ Unspent \in FiniteNotes
  BY UnspentFinite DEF SolanaInv, TypesOK, Holder
<1>4. Ledger!Exchange(used, made)
  OBVIOUS
<1>. HIDE DEF made, used
<1>5. /\ Worth(made) \in Nat
      /\ Ledger!WorthOf(made) = Worth(made) /\ Ledger!WorthOf(used) = Worth(used)
  BY <1>1, WorthNat, LedgerWorth
<1>6. /\ balance'[Vault] <= balance[Vault]
      /\ Worth(made) + (balance[Vault] - balance'[Vault]) <= Worth(used)
      /\ Worth(made) + balance[Vault] <= Worth(used) + balance'[Vault]
  BY <1>1, <1>2, <1>3, <1>5
<1>7. Ledger!Redeem(used, made)
  BY <1>4, <1>5, <1>6 DEF Ledger!Redeem
<1>8. made \in SUBSET Note /\ Ledger!IsFiniteSet(made)
  BY <1>1 DEF FiniteNotes, IsFiniteSet, Ledger!IsFiniteSet
<1>9. used \in SUBSET Unspent /\ Unspent' \subseteq (Unspent \ used) \cup made
  BY <1>4 DEF Ledger!Exchange
<1>10. Worth(Unspent') <= balance'[Vault]
  BY <1>1, <1>3, <1>6, <1>9, ExchangeIsCovered DEF SolanaInv, Covered
<1>. QED BY <1>7, <1>8, <1>9, <1>10 DEF Ledger!LedgerNext, Covered, Worth

-----------------------------------------------------------------------------
(***************************************************************************)
(* What a spend that passes check_spend uses: notes of the tree, not used  *)
(* before and each once, whatever root it claims.                          *)
(***************************************************************************)
LEMMA CheckedSpend ==
    ASSUME SolanaInv, NEW k \in Nat, NEW root, NEW ins \in Proved(k, root),
           check_spend(Nullifiers(ins), root), spend_nullifiers(Nullifiers(ins)),
           NEW made, Committed' = Committed \cup made
    PROVE  /\ \A i, j \in 1..k : ins[i].nf = ins[j].nf => i = j \/ ins[i].nf = Zero
           /\ Ledger!Exchange(Nonzeros(Nullifiers(ins)), made)
<1> DEFINE nfs == Nullifiers(ins)
           tree == IF root = NoRoot THEN {} ELSE root
<1>1. /\ DOMAIN nfs = 1..k
      /\ \A i \in 1..k : nfs[i] # Zero => nfs[i] \in Members(tree)
  BY InputFacts DEF Proved
<1>2. \A i \in 1..k : nfs[i] = ins[i].nf
  BY <1>1 DEF Nullifiers
<1>3. Spending(nfs) = Nonzeros(nfs)
  BY DEF Spending, Nonzeros
<1>. HIDE DEF nfs
<1>4. /\ \A i, j \in DOMAIN nfs : nfs[i] = nfs[j] => i = j \/ nfs[i] = Zero
      /\ nullifiers' = nullifiers \cup Nonzeros(nfs)
      /\ Nonzeros(nfs) \cap nullifiers = {}
      /\ Nonzeros(nfs) # {} => root \in knownRoots
  BY <1>3 DEF check_spend, spend_nullifiers, nfs
<1>5. Nonzeros(nfs) \subseteq Committed
  <2>1. ASSUME NEW i \in 1..k, nfs[i] # Zero
        PROVE  nfs[i] \in Committed
    <3>1. nfs[i] \in Nonzeros(nfs) /\ nfs[i] \in Members(tree)
      BY <1>1, <2>1 DEF Nonzeros
    <3>2. root # NoRoot
      BY <3>1 DEF Members
    <3>3. nfs[i] \in Members(root) /\ root \in knownRoots
      BY <1>4, <3>1, <3>2
    <3>4. root \in SUBSET RootOf(leaves) /\ leaves \in Seq(Commitment)
      BY <3>3 DEF SolanaInv, RootsTell, TypesOK
    <3>5. nfs[i] \in Nonzeros(leaves)
      BY <3>3, <3>4, MembersOfRoots
    <3>. QED BY <3>5 DEF Nonzeros, Committed
  <2>. QED BY <1>1, <2>1 DEF Nonzeros
<1>6. Nonzeros(nfs) \subseteq Unspent
  BY <1>4, <1>5 DEF Unspent
<1>7. Ledger!Exchange(Nonzeros(nfs), made)
  BY <1>4, <1>6, Exchanges
<1>. QED BY <1>1, <1>2, <1>4, <1>7 DEF nfs

-----------------------------------------------------------------------------
(***************************************************************************)
(* One lemma per instruction: it keeps the invariant and is a step of the  *)
(* ledger.                                                                 *)
(***************************************************************************)
LEMMA MoveFacts ==
    ASSUME SolanaInv, NEW from \in Holder, NEW to \in Holder, NEW amount \in Nat,
           Move(from, to, amount)
    PROVE  /\ balance' \in [Holder -> Nat]
           /\ balance[Vault] \in Nat
           /\ balance'[Vault] = balance[Vault] - (IF Vault = from THEN amount ELSE 0)
                                               + (IF Vault = to THEN amount ELSE 0)
<1>1. Vault \in Holder /\ balance \in [Holder -> Nat] /\ amount <= balance[from]
  BY DEF Holder, SolanaInv, TypesOK, Move
<1>2. balance' = [h \in Holder |-> balance[h] - (IF h = from THEN amount ELSE 0)
                                              + (IF h = to THEN amount ELSE 0)]
  BY DEF Move
<1>3. ASSUME NEW h \in Holder
      PROVE  balance[h] - (IF h = from THEN amount ELSE 0)
                        + (IF h = to THEN amount ELSE 0) \in Nat
  BY <1>1
<1>. QED BY <1>1, <1>2, <1>3

\* An op that opens no batch.
LEMMA OpKeepsInv ==
    ASSUME SolanaInv, NEW new \in Seq(Commitment), TreeStep(new),
           UNCHANGED batches, balance' \in [Holder -> Nat], Covered'
    PROVE  SolanaInv'
<1>1. TypesOK' /\ RootsTell'
  BY TreeStepKeeps DEF TypesOK
<1>2. AnchorsInside' /\ AnchorsNameTheirBatch'
  BY TreeStepKeeps DEF SolanaInv, AnchorsInside, AnchorsNameTheirBatch
<1>. QED BY <1>1, <1>2 DEF SolanaInv

LEMMA MintInv ==
    ASSUME SolanaInv, NEW family, Mint(family)
    PROVE  SolanaInv' /\ Ledger!LedgerNext
<1>1. PICK from \in Account, outs \in Outputs(2) :
          /\ append_leaves(Commitments(outs))
          /\ register_new_root
          /\ \E amount \in amount_u64(SlotSum(outs)) : Move(from, Vault, amount)
  BY DEF Mint
<1>2. SlotSum(outs) \in Nat /\ Commitments(outs) \in Seq(Commitment)
  BY OutputFacts
<1>3. UNCHANGED batches /\ nullifiers' = nullifiers \cup {}
  BY DEF Mint
<1>4. TreeStep(Commitments(outs))
  BY <1>1 DEF TreeStep, append_leaves
<1>5. Committed' = Committed \cup Nonzeros(Commitments(outs))
  BY <1>2, <1>4, TreeStepKeeps
<1>6. Ledger!Exchange({}, Nonzeros(Commitments(outs)))
  BY <1>3, <1>5, Exchanges
<1>7. balance' \in [Holder -> Nat] /\ balance'[Vault] = balance[Vault] + SlotSum(outs)
  <2>1. from \in Holder /\ Vault \in Holder /\ from # Vault
    BY SolanaAssumption DEF Holder
  <2>2. Move(from, Vault, SlotSum(outs))
    BY <1>1 DEF amount_u64
  <2>3. /\ balance' \in [Holder -> Nat] /\ balance[Vault] \in Nat
        /\ balance'[Vault] = balance[Vault] - 0 + SlotSum(outs)
    BY <1>2, <2>1, <2>2, MoveFacts
  <2>. QED BY <1>2, <2>3
<1>8. Ledger!LedgerNext /\ Covered'
  BY <1>6, <1>7, MintIsLedger
<1>. QED BY <1>2, <1>3, <1>4, <1>7, <1>8, OpKeepsInv

LEMMA SpendInv ==
    ASSUME SolanaInv, NEW family, NEW nIn \in Nat, Spend(family, nIn)
    PROVE  SolanaInv' /\ Ledger!LedgerNext
<1>1. PICK root \in Claims : \E ins \in Proved(nIn, root) :
          /\ check_spend(Nullifiers(ins), root)
          /\ spend_nullifiers(Nullifiers(ins))
          /\ \E outs \in Outputs(2) :
                /\ SlotSum(ins) = SlotSum(outs)
                /\ append_leaves(Commitments(outs))
                /\ register_new_root
  BY DEF Spend
<1>2. PICK ins \in Proved(nIn, root), outs \in Outputs(2) :
          /\ check_spend(Nullifiers(ins), root)
          /\ spend_nullifiers(Nullifiers(ins))
          /\ SlotSum(ins) = SlotSum(outs)
          /\ append_leaves(Commitments(outs))
          /\ register_new_root
  BY <1>1
<1> DEFINE tree == IF root = NoRoot THEN {} ELSE root
<1>3. ins \in ProvedInputs(nIn, tree)
  BY DEF Proved
<1>. HIDE DEF tree
<1>4. /\ Commitments(outs) \in Seq(Commitment)
      /\ SlotSum(ins) \in Nat /\ SlotSum(ins) >= SlotSum(outs)
  BY <1>2, <1>3, OutputFacts, InputFacts
<1>5. TreeStep(Commitments(outs))
  BY <1>2 DEF TreeStep, append_leaves
<1>6. Committed' = Committed \cup Nonzeros(Commitments(outs))
  BY <1>4, <1>5, TreeStepKeeps
<1>7. /\ \A i, j \in 1..nIn : ins[i].nf = ins[j].nf => i = j \/ ins[i].nf = Zero
      /\ Ledger!Exchange(Nonzeros(Nullifiers(ins)), Nonzeros(Commitments(outs)))
  BY <1>2, <1>6, CheckedSpend
<1>8. UNCHANGED <<batches, balance>> /\ balance \in [Holder -> Nat] /\ balance[Vault] \in Nat
  BY DEF Spend, SolanaInv, TypesOK, Holder
<1>9. Ledger!LedgerNext /\ Covered'
  BY <1>3, <1>4, <1>7, <1>8, SpendIsLedger
<1>. QED BY <1>4, <1>5, <1>8, <1>9, OpKeepsInv

LEMMA PayInv ==
    ASSUME SolanaInv, NEW family, Pay(family)
    PROVE  SolanaInv' /\ Ledger!LedgerNext
<1>1. PICK root \in Claims : \E ins \in Proved(2, root) :
          /\ check_spend(Nullifiers(ins), root)
          /\ spend_nullifiers(Nullifiers(ins))
          /\ \E outs \in Outputs(1), to \in Holder :
                /\ SlotSum(ins) >= SlotSum(outs)
                /\ append_leaves(Commitments(outs))
                /\ register_new_root
                /\ \E amount \in amount_u64(SlotSum(ins) - SlotSum(outs)) :
                      Move(Vault, to, amount)
  BY DEF Pay
<1>2. PICK ins \in Proved(2, root), outs \in Outputs(1), to \in Holder :
          /\ check_spend(Nullifiers(ins), root)
          /\ spend_nullifiers(Nullifiers(ins))
          /\ SlotSum(ins) >= SlotSum(outs)
          /\ append_leaves(Commitments(outs))
          /\ register_new_root
          /\ \E amount \in amount_u64(SlotSum(ins) - SlotSum(outs)) : Move(Vault, to, amount)
  BY <1>1
<1> DEFINE tree == IF root = NoRoot THEN {} ELSE root
           paid == SlotSum(ins) - SlotSum(outs)
<1>3. ins \in ProvedInputs(2, tree)
  BY DEF Proved
<1>. HIDE DEF tree
<1>4. /\ Commitments(outs) \in Seq(Commitment)
      /\ SlotSum(ins) \in Nat /\ SlotSum(outs) \in Nat /\ SlotSum(ins) >= SlotSum(outs)
  BY <1>2, <1>3, OutputFacts, InputFacts
<1>5. TreeStep(Commitments(outs))
  BY <1>2 DEF TreeStep, append_leaves
<1>6. Committed' = Committed \cup Nonzeros(Commitments(outs))
  BY <1>4, <1>5, TreeStepKeeps
<1>7. /\ \A i, j \in 1..2 : ins[i].nf = ins[j].nf => i = j \/ ins[i].nf = Zero
      /\ Ledger!Exchange(Nonzeros(Nullifiers(ins)), Nonzeros(Commitments(outs)))
  <2>1. ASSUME NEW k \in Nat, NEW inputs \in Proved(k, root),
               check_spend(Nullifiers(inputs), root), spend_nullifiers(Nullifiers(inputs))
        PROVE  /\ \A i, j \in 1..k :
                     inputs[i].nf = inputs[j].nf => i = j \/ inputs[i].nf = Zero
               /\ Ledger!Exchange(Nonzeros(Nullifiers(inputs)), Nonzeros(Commitments(outs)))
    BY <1>6, <2>1, CheckedSpend
  <2>. QED BY <1>2, <2>1
<1>8. /\ balance' \in [Holder -> Nat]
      /\ balance'[Vault] \in Nat
      /\ balance'[Vault] = balance[Vault] \/ balance'[Vault] = balance[Vault] - paid
  <2>1. Move(Vault, to, paid) /\ paid \in Nat /\ Vault \in Holder
    BY <1>2, <1>4 DEF amount_u64, Holder
  <2>. HIDE DEF paid
  <2>2. /\ balance' \in [Holder -> Nat] /\ balance[Vault] \in Nat
        /\ balance'[Vault] = balance[Vault] - paid + (IF Vault = to THEN paid ELSE 0)
    BY <2>1, MoveFacts
  <2>. QED BY <2>1, <2>2
<1>9. UNCHANGED batches
  BY DEF Pay
<1>10. Ledger!LedgerNext /\ Covered'
  BY <1>3, <1>4, <1>7, <1>8, SpendIsLedger
<1>. QED BY <1>4, <1>5, <1>8, <1>9, <1>10, OpKeepsInv

LEMMA DisburseInv ==
    ASSUME SolanaInv, disburse256
    PROVE  SolanaInv' /\ Ledger!LedgerNext
<1>1. PICK root \in Claims : \E ins \in Proved(1, root) :
          /\ check_spend(Nullifiers(ins), root)
          /\ spend_nullifiers(Nullifiers(ins))
          /\ \E outs \in Outputs(CircuitB) :
                /\ SlotSum(ins) = SlotSum(outs)
                /\ attach_subtree(Commitments(outs))
                /\ register_new_root
                /\ batches' = batches \cup {[start |-> BatchStart,
                                             disclosed |-> Commitments(outs)]}
  BY DEF disburse256
<1>2. PICK ins \in Proved(1, root), outs \in Outputs(CircuitB) :
          /\ check_spend(Nullifiers(ins), root)
          /\ spend_nullifiers(Nullifiers(ins))
          /\ SlotSum(ins) = SlotSum(outs)
          /\ attach_subtree(Commitments(outs))
          /\ register_new_root
          /\ batches' = batches \cup {[start |-> BatchStart,
                                       disclosed |-> Commitments(outs)]}
  BY <1>1
<1> DEFINE tree == IF root = NoRoot THEN {} ELSE root
           cms == Commitments(outs)
           zeros == [i \in 1..Gap |-> Zero]
<1>3. ins \in ProvedInputs(1, tree)
  BY DEF Proved
<1>4. cms \in Seq(Commitment) /\ SlotSum(ins) \in Nat /\ SlotSum(ins) >= SlotSum(outs)
  BY <1>2, <1>3, OutputFacts, InputFacts, SolanaAssumption
<1>5. leaves \in Seq(Commitment) /\ Gap \in Nat
  <2>1. config.B = CircuitB /\ CircuitB \in Nat \ {0} /\ leaves \in Seq(Commitment)
    BY SolanaAssumption DEF disburse256, SolanaInv, TypesOK
  <2>. QED BY <2>1 DEF Gap
<1>6. zeros \in Seq(Commitment) /\ Len(zeros) = Gap /\ Nonzeros(zeros) = {}
  BY <1>5 DEF Commitment, Nonzeros
<1>7. leaves' = leaves \o zeros \o cms
  BY <1>2 DEF attach_subtree
<1>. HIDE DEF tree, cms, zeros
<1>8. zeros \o cms \in Seq(Commitment) /\ leaves' = leaves \o (zeros \o cms)
  BY <1>4, <1>5, <1>6, <1>7
<1>9. TreeStep(zeros \o cms)
  BY <1>2, <1>8 DEF TreeStep
<1>10. Committed' = Committed \cup Nonzeros(cms)
  <2>1. Nonzeros(zeros \o cms) = Nonzeros(zeros) \cup Nonzeros(cms)
    BY <1>4, <1>6, NonzerosConcat
  <2>2. Nonzeros(zeros \o cms) = Nonzeros(cms)
    BY <1>6, <2>1
  <2>. QED BY <1>8, <1>9, <2>2, TreeStepKeeps
<1>11. /\ \A i, j \in 1..1 : ins[i].nf = ins[j].nf => i = j \/ ins[i].nf = Zero
       /\ Ledger!Exchange(Nonzeros(Nullifiers(ins)), Nonzeros(cms))
  BY <1>2, <1>10, CheckedSpend
<1>12. UNCHANGED balance /\ balance \in [Holder -> Nat] /\ balance[Vault] \in Nat
  BY DEF disburse256, SolanaInv, TypesOK, Holder
<1>13. Ledger!LedgerNext /\ Covered'
  BY <1>3, <1>4, <1>11, <1>12, SpendIsLedger, SolanaAssumption DEF cms
<1>14. /\ BatchStart \in Nat
       /\ BatchStart + Len(cms) <= Len(leaves')
       /\ SubSeq(leaves', BatchStart + 1, BatchStart + Len(cms)) = cms
  <2> DEFINE before == leaves \o zeros
  <2>1. before \in Seq(Commitment) /\ Len(before) = Len(leaves) + Gap
    BY <1>5, <1>6
  <2>2. BatchStart = Len(before)
    BY <2>1 DEF BatchStart
  <2>3. leaves' = before \o cms
    BY <1>7
  <2>. HIDE DEF before
  <2>4. SubSeq(leaves', Len(before) + 1, Len(before) + Len(cms)) = cms
    BY <1>4, <2>1, <2>3, SubSeqLast
  <2>5. Len(before \o cms) = Len(before) + Len(cms)
    BY <1>4, <2>1
  <2>6. Len(before) \in Nat /\ Len(cms) \in Nat
    BY <1>4, <2>1
  <2>7. BatchStart + Len(cms) <= Len(leaves')
    BY <2>2, <2>3, <2>5, <2>6
  <2>. QED BY <2>2, <2>4, <2>6, <2>7
<1>15. TypesOK' /\ RootsTell'
  BY <1>8, <1>9, <1>12, TreeStepKeeps DEF TypesOK
<1>16. AnchorsInside' /\ AnchorsNameTheirBatch'
  <2>1. ASSUME NEW b \in batches'
        PROVE  /\ b.start \in Nat
               /\ b.disclosed \in Seq(Commitment)
               /\ b.start + Len(b.disclosed) <= Len(leaves')
               /\ SubSeq(leaves', b.start + 1, b.start + Len(b.disclosed)) = b.disclosed
    <3>1. CASE b \in batches
      BY <1>8, <1>9, <3>1, TreeStepKeeps DEF SolanaInv, AnchorsInside
    <3>2. CASE b = [start |-> BatchStart, disclosed |-> cms]
      BY <1>4, <1>14, <3>2
    <3>. QED BY <1>2, <3>1, <3>2 DEF cms
  <2>. QED BY <2>1 DEF AnchorsInside, AnchorsNameTheirBatch
<1>. QED BY <1>13, <1>15, <1>16 DEF SolanaInv

LEMMA StillKeeps ==
    ASSUME SolanaInv, UNCHANGED <<treeState, nullifiers, balance>>
    PROVE  SolanaInv' /\ UNCHANGED Ledger!ledgerVars
<1>1. UNCHANGED <<leaves, knownRoots, batches, nullifiers, balance>>
  BY DEF treeState
<1>2. SolanaInv'
  BY <1>1 DEF SolanaInv, TypesOK, RootsTell, AnchorsInside, AnchorsNameTheirBatch,
              Covered, Unspent, Committed
<1>. QED BY <1>1, <1>2 DEF Ledger!ledgerVars, Unspent, Committed

LEMMA PoolNextInv ==
    ASSUME SolanaInv, [PoolNext]_poolVars
    PROVE  SolanaInv' /\ [Ledger!LedgerNext]_(Ledger!ledgerVars)
<1>1. ASSUME NEW profile, initialize(profile)
      PROVE  SolanaInv' /\ UNCHANGED Ledger!ledgerVars
  BY <1>1, StillKeeps DEF initialize
<1>2. ASSUME NEW address, SendLamports(address)
      PROVE  SolanaInv' /\ UNCHANGED Ledger!ledgerVars
  BY <1>2, StillKeeps DEF SendLamports
<1>3. CASE deposit \/ deposit_priv
  BY <1>3, MintInv DEF deposit, deposit_priv
<1>4. CASE transfer \/ transfer_priv \/ transfer10x2 \/ transfer10x2_priv
  BY <1>4, SpendInv, SolanaAssumption DEF transfer, transfer_priv, transfer10x2,
                                          transfer10x2_priv
<1>5. CASE withdraw \/ withdraw_priv
  BY <1>5, PayInv DEF withdraw, withdraw_priv
<1>6. CASE disburse256
  BY <1>6, DisburseInv
<1>7. CASE UNCHANGED poolVars
  BY <1>7, StillKeeps DEF poolVars
<1>. QED BY <1>1, <1>2, <1>3, <1>4, <1>5, <1>6, <1>7 DEF PoolNext, Instruction

LEMMA PoolInitInv == PoolInit => SolanaInv /\ Ledger!LedgerInit
<1>. SUFFICES ASSUME PoolInit PROVE SolanaInv /\ Ledger!LedgerInit
  OBVIOUS
<1>1. /\ leaves = <<>> /\ knownRoots = {} /\ nullifiers = {} /\ batches = {}
      /\ Unspent = {}
  BY DEF PoolInit, Unspent, Committed
<1>2. balance \in [Holder -> Nat] /\ balance[Vault] = 0
  BY SolanaAssumption DEF PoolInit, Holder
<1>3. TypesOK /\ RootsTell /\ AnchorsInside /\ AnchorsNameTheirBatch
  BY <1>1, <1>2 DEF TypesOK, RootsTell, AnchorsInside, AnchorsNameTheirBatch
<1>4. Covered
  BY <1>1, <1>2, WorthNat DEF Covered
<1>. QED BY <1>1, <1>2, <1>3, <1>4 DEF SolanaInv, Ledger!LedgerInit

-----------------------------------------------------------------------------
(***************************************************************************)
(* The invariant holds in every reachable state of the program.            *)
(***************************************************************************)
THEOREM SolanaInvariant == PoolSpec => []SolanaInv
<1>1. SolanaInv /\ [PoolNext]_poolVars => SolanaInv'
  BY PoolNextInv
<1>. QED BY PoolInitInv, <1>1, PTL DEF PoolSpec

(***************************************************************************)
(* The program keeps the ledger the EVM pool keeps: each instruction is at *)
(* most one minting or redemption, whatever profile enabled it.            *)
(***************************************************************************)
THEOREM SolanaImplementsLedger == PoolSpec => ImplementsLedger
<1>1. SolanaInv /\ [PoolNext]_poolVars => [Ledger!LedgerNext]_(Ledger!ledgerVars)
  BY PoolNextInv
<1>. QED BY SolanaInvariant, PoolInitInv, <1>1, PTL
         DEF PoolSpec, ImplementsLedger, Ledger!LedgerSpec

\* n is a multiple of d exactly when nothing remains.
LEMMA Divides ==
    ASSUME NEW n \in Nat, NEW d \in Nat \ {0}
    PROVE  n % d = 0 <=> \E q \in Nat : n = d * q
<1>1. n \div d \in Int /\ n % d \in 0..(d - 1) /\ n = d * (n \div d) + (n % d)
  BY SMT
<1>2. ASSUME NEW q \in Nat, n = d * q PROVE n % d = 0
  BY <1>2, SMTT(30)
<1>3. ASSUME n % d = 0 PROVE \E q \in Nat : n = d * q
  <2>1. n = d * (n \div d)
    BY <1>1, <1>3
  <2>2. n \div d \in Nat
    BY <1>1, SMT
  <2>. QED BY <2>1, <2>2
<1>. QED BY <1>2, <1>3

\* Twice a power of two is one: an odd divisor of 2n divides n.
LEMMA PowerDoubles ==
    ASSUME NEW n \in Nat, is_power_of_two(n)
    PROVE  is_power_of_two(2 * n)
<1>1. SUFFICES ASSUME NEW d \in 1..(2 * n), (2 * n) % d = 0, d # 1, d % 2 # 0
               PROVE FALSE
  BY DEF is_power_of_two
<1>2. PICK q \in Nat : 2 * n = d * q
  BY <1>1, Divides
<1>3. PICK k \in Nat : d = 2 * k + 1
  <2>1. d = 2 * (d \div 2) + (d % 2) /\ d % 2 \in 0..1 /\ d \div 2 \in Nat
    BY SMT
  <2>. QED BY <1>1, <2>1
<1>4. \E r \in Nat : q = 2 * r
  <2> DEFINE P == k * q
  <2>1. P \in Nat /\ d * q = 2 * P + q
    BY <1>3
  <2>2. q = 2 * (n - P)
    BY <1>2, <2>1
  <2>3. n - P \in Nat
    BY <2>1, <2>2
  <2>. QED BY <2>2, <2>3
<1>5. PICK r \in Nat : q = 2 * r
  BY <1>4
<1>6. n = d * r
  BY <1>2, <1>5
<1>7. d \in 1..n
  <2>1. n > 0
    BY DEF is_power_of_two
  <2>2. r > 0
    BY <1>6, <2>1
  <2>. QED BY <1>6, <2>2
<1>8. n % d = 0
  BY <1>6, <1>7, Divides
<1>. QED BY <1>1, <1>7, <1>8 DEF is_power_of_two

\* initialize takes the batch size of the deployed circuit, so that there are batches.
LEMMA DeployedBatchSize == is_power_of_two(256)
<1>1. is_power_of_two(1)
  BY DEF is_power_of_two
<1>2. is_power_of_two(2 * (2 * (2 * (2 * 1))))
  BY <1>1, PowerDoubles
<1>3. is_power_of_two(2 * (2 * (2 * (2 * 16))))
  <2>1. is_power_of_two(16)
    BY <1>2
  <2>. QED BY <2>1, PowerDoubles
<1>. QED BY <1>3

(***************************************************************************)
(* A batch's account names the leaves where the batch went, for ever, for  *)
(* batches of any size; the deployed one, 256, is one a pool may have.     *)
(***************************************************************************)
THEOREM SolanaAnchorsNameTheirBatch == PoolSpec => []AnchorsNameTheirBatch
<1>1. SolanaInv => AnchorsNameTheirBatch
  BY DEF SolanaInv
<1>. QED BY SolanaInvariant, <1>1, PTL

(***************************************************************************)
(* No note in the tree can be kept from being spent: its root is known,    *)
(* its value is in the vault, and lamports sent ahead to an address of the *)
(* spend do not stop the account there from being made.                    *)
(***************************************************************************)
THEOREM SolanaNoNoteIsFrozen == PoolSpec => []NoNoteIsFrozen
<1>1. ASSUME SolanaInv, NEW n \in Unspent, NEW c \in Note, Value[n] <= MaxAmount
      PROVE  Redeemable(n, c)
  <2> DEFINE root == RootOf(leaves)
  <2>0. n \in Committed /\ n \notin nullifiers /\ n # Zero
    BY DEF Unspent, Committed
  <2>1. leaves \in Seq(Commitment) /\ leaves # <<>>
    BY <1>1, <2>0 DEF SolanaInv, TypesOK, Committed
  <2>2. n \in Note /\ Value[n] \in Nat
    BY <2>0, <2>1, NoteAssumption DEF Committed, Commitment
  <2>3. n \in Members(root)
    BY <2>0, <2>1, MembersOfRoots DEF Committed, Nonzeros
  <2>4. root \in knownRoots
    BY <1>1, <2>1 DEF SolanaInv, RootsTell
  <2>5. Value[n] <= balance[Vault]
    <3>1. Unspent \in FiniteNotes /\ {n} \in SUBSET Unspent
      BY <2>1, UnspentFinite
    <3>2. Worth({n}) <= Worth(Unspent) /\ Worth(Unspent) \in Nat
      BY <3>1, WorthMono, WorthNat
    <3>3. Worth({n}) = Value[n]
      BY <2>2, WorthOfOne
    <3>4. Worth(Unspent) <= balance[Vault] /\ balance[Vault] \in Nat
      BY <1>1 DEF SolanaInv, Covered, TypesOK, Holder
    <3>. QED BY <2>2, <3>2, <3>3, <3>4
  <2>6. check_spend(<<n, Zero>>, root)
    <3>1. Spending(<<n, Zero>>) = {n}
      <4>1. DOMAIN <<n, Zero>> = {1, 2} /\ <<n, Zero>>[1] = n /\ <<n, Zero>>[2] = Zero
        OBVIOUS
      <4>. QED BY <2>0, <4>1 DEF Spending
    <3>2. \A i, j \in DOMAIN <<n, Zero>> :
             <<n, Zero>>[i] = <<n, Zero>>[j] => i = j \/ <<n, Zero>>[i] = Zero
      BY <2>0
    <3>. HIDE DEF root
    <3>. QED BY <2>0, <2>4, <3>1, <3>2 DEF check_spend, create_pda, CreateAccount
  <2>7. amount_u64(Value[n]) = {Value[n]}
    BY <1>1, <2>2, SolanaAssumption DEF amount_u64
  <2>8. create_pda(<<"root", RootOf(Append(leaves, c))>>)
    BY DEF create_pda, CreateAccount
  <2>. HIDE DEF root
  <2>. QED BY <2>3, <2>4, <2>5, <2>6, <2>7, <2>8 DEF Redeemable
<1>2. SolanaInv => NoNoteIsFrozen
  BY <1>1 DEF NoNoteIsFrozen
<1>. QED BY SolanaInvariant, <1>2, PTL

-----------------------------------------------------------------------------
(***************************************************************************)
(* The rail's indexer: trees of a ledger.                                  *)
(***************************************************************************)
LedgerKind == {"one", "two", "batch"}
Leaf == Nat \X Nat

\* What the operation at place n of the ledger L makes of a tree.
GrownIn(L, tree, n) ==
    (IF L[n] = "batch" THEN Padded(tree) ELSE tree) \o [k \in 1..Width(L[n]) |-> <<n, k>>]

\* The trees that the operations of L leave, taken in the order the numbers say.
IsTree(f, L, order, m) ==
    f = [n \in 0..m |-> IF n = 0 THEN <<>> ELSE GrownIn(L, f[n - 1], order[n])]

Tree(L) == CHOOSE f : IsTree(f, L, [n \in 1..Len(L) |-> n], Len(L))

LEMMA TreeExists ==
    ASSUME NEW L, NEW order, NEW m \in Nat
    PROVE  \E f : IsTree(f, L, order, m)
<1> DEFINE Bad == {k \in 0..m : ~ \E f : IsTree(f, L, order, k)}
<1>1. SUFFICES ASSUME Bad # {} PROVE FALSE
  <2>1. m \in 0..m
    OBVIOUS
  <2>. QED BY <2>1
<1>2. PICK k \in Bad : \A j \in Bad : k <= j
  <2>1. Bad \subseteq Nat
    OBVIOUS
  <2>. QED BY <1>1, <2>1, LeastNatural
<1>3. k # 0
  <2>1. IsTree([n \in 0..0 |-> <<>>], L, order, 0)
    BY DEF IsTree
  <2>. QED BY <2>1
<1>4. PICK f : IsTree(f, L, order, k - 1)
  <2>1. k \in 0..m /\ k - 1 \in 0..m /\ ~(k <= k - 1)
    BY <1>3
  <2>. QED BY <1>2, <2>1
<1> DEFINE g == [n \in 0..k |-> IF n = k THEN GrownIn(L, f[k - 1], order[k]) ELSE f[n]]
<1>5. ASSUME NEW n \in 0..k
      PROVE  g[n] = IF n = 0 THEN <<>> ELSE GrownIn(L, g[n - 1], order[n])
  <2>1. CASE n = k
    <3>1. g[n - 1] = f[k - 1] /\ g[n] = GrownIn(L, f[k - 1], order[k])
      BY <2>1, <1>3
    <3>. QED BY <3>1, <2>1, <1>3
  <2>2. CASE n # k
    <3>1. n \in 0..(k - 1) /\ g[n] = f[n] /\ (n # 0 => g[n - 1] = f[n - 1])
      BY <2>2, <1>3
    <3>2. f[n] = IF n = 0 THEN <<>> ELSE GrownIn(L, f[n - 1], order[n])
      BY <1>4, <3>1 DEF IsTree
    <3>. QED BY <3>1, <3>2
  <2>. QED BY <2>1, <2>2
<1>6. IsTree(g, L, order, k)
  BY <1>5 DEF IsTree
<1>. QED BY <1>6

\* The same r operations come first.
Alike(L, o, M, p, r) == \A n \in 1..r : o[n] = p[n] /\ L[o[n]] = M[p[n]]

\* Two of them agree as long as they grow by the same operations.
LEMMA TreesAgree ==
    ASSUME NEW L, NEW M, NEW o, NEW p, NEW m \in Nat, NEW q \in Nat, NEW r \in Nat,
           r <= m, r <= q, NEW f, NEW g, IsTree(f, L, o, m), IsTree(g, M, p, q),
           Alike(L, o, M, p, r)
    PROVE  \A n \in 0..r : f[n] = g[n]
<1> DEFINE Bad == {n \in 0..r : f[n] # g[n]}
<1>1. SUFFICES ASSUME Bad # {} PROVE FALSE
  OBVIOUS
<1>2. PICK k \in Bad : \A j \in Bad : k <= j
  <2>1. Bad \subseteq Nat
    OBVIOUS
  <2>. QED BY <1>1, <2>1, LeastNatural
<1>3. /\ f[k] = IF k = 0 THEN <<>> ELSE GrownIn(L, f[k - 1], o[k])
      /\ g[k] = IF k = 0 THEN <<>> ELSE GrownIn(M, g[k - 1], p[k])
  <2>1. k \in 0..m /\ k \in 0..q
    OBVIOUS
  <2>. QED BY <2>1 DEF IsTree
<1>4. k # 0
  BY <1>3
<1>5. k \in 1..r /\ k - 1 \in 0..r /\ ~(k <= k - 1)
  BY <1>4
<1>6. f[k - 1] = g[k - 1] /\ o[k] = p[k] /\ L[o[k]] = M[p[k]]
  BY <1>2, <1>5 DEF Alike
<1>7. GrownIn(L, f[k - 1], o[k]) = GrownIn(M, g[k - 1], p[k])
  BY <1>6 DEF GrownIn
<1>. QED BY <1>3, <1>4, <1>7

-----------------------------------------------------------------------------
LEMMA ConcatInSeq ==
    ASSUME NEW T, NEW s \in Seq(T), NEW t \in Seq(T)
    PROVE  /\ s \o t \in Seq(T) /\ Len(s \o t) = Len(s) + Len(t)
           /\ \A i \in 1..Len(s) : (s \o t)[i] = s[i]
           /\ \A i \in 1..Len(t) : (s \o t)[Len(s) + i] = t[i]
OBVIOUS

LEMMA PaddedFacts ==
    ASSUME NEW tree \in Seq(Leaf)
    PROVE  /\ Padded(tree) \in Seq(Leaf)
           /\ Len(Padded(tree)) >= Len(tree)
           /\ \A i \in 1..Len(tree) : Padded(tree)[i] = tree[i]
           /\ \A i \in (Len(tree) + 1)..Len(Padded(tree)) : Padded(tree)[i] = <<0, 0>>
<1> DEFINE w == (B - (Len(tree) % B)) % B
           pad == [k \in 1..w |-> <<0, 0>>]
<1>1. w \in Nat
  <2>1. B \in Nat \ {0} /\ Len(tree) \in Nat
    BY SolanaIndexerAssumption
  <2>2. (Len(tree) % B) \in 0..(B - 1)
    BY <2>1
  <2>3. (B - (Len(tree) % B)) \in Nat
    BY <2>1, <2>2
  <2>. QED BY <2>1, <2>3
<1>2. Padded(tree) = tree \o pad
  BY DEF Padded
<1>. HIDE DEF w
<1>3. pad \in Seq(Leaf) /\ Len(pad) = w /\ \A i \in 1..w : pad[i] = <<0, 0>>
  BY <1>1 DEF Leaf
<1>. HIDE DEF pad
<1>. QED BY <1>1, <1>2, <1>3

LEMMA WidthFacts ==
    ASSUME NEW kind \in LedgerKind
    PROVE  Width(kind) \in Nat \ {0} /\ Width(kind) <= 2 + B /\ (kind # "batch" => Width(kind) <= B)
BY SolanaIndexerAssumption DEF LedgerKind, Width

\* The base an operation's leaves go behind.
Under(L, tree, n) == IF L[n] = "batch" THEN Padded(tree) ELSE tree

\* Its leaves stand behind the base, and what was there is not moved.
Grows(L, tree, n, new) ==
    LET u == Under(L, tree, n)
    IN  /\ u \in Seq(Leaf) /\ Len(u) >= Len(tree)
        /\ new \in Seq(Leaf) /\ Len(new) = Len(u) + Width(L[n])
        /\ \A i \in 1..Width(L[n]) : new[Len(u) + i] = <<n, i>>
        /\ \A i \in 1..Len(tree) : new[i] = tree[i]

LEMMA GrownFacts ==
    ASSUME NEW L, NEW tree \in Seq(Leaf), NEW n \in Nat, L[n] \in LedgerKind
    PROVE  Grows(L, tree, n, GrownIn(L, tree, n))
<1> DEFINE w == Width(L[n])
           own == [k \in 1..w |-> <<n, k>>]
           u == Under(L, tree, n)
<1>1. w \in Nat \ {0}
  BY WidthFacts
<1>2. /\ u \in Seq(Leaf) /\ Len(u) >= Len(tree)
      /\ \A i \in 1..Len(tree) : u[i] = tree[i]
      /\ \A i \in (Len(tree) + 1)..Len(u) : u[i] = <<0, 0>>
  BY PaddedFacts DEF Under
<1>3. GrownIn(L, tree, n) = u \o own
  BY DEF GrownIn, Under
<1>. HIDE DEF w, u
<1>4. own \in Seq(Leaf) /\ Len(own) = w /\ \A i \in 1..w : own[i] = <<n, i>>
  BY <1>1 DEF Leaf
<1>. HIDE DEF own
<1>5. /\ u \o own \in Seq(Leaf) /\ Len(u \o own) = Len(u) + w
      /\ \A i \in 1..Len(u) : (u \o own)[i] = u[i]
      /\ \A i \in 1..w : (u \o own)[Len(u) + i] = <<n, i>>
  <2>1. u \in Seq(Leaf) /\ own \in Seq(Leaf)
    BY <1>2, <1>4
  <2>2. /\ u \o own \in Seq(Leaf) /\ Len(u \o own) = Len(u) + Len(own)
        /\ \A i \in 1..Len(u) : (u \o own)[i] = u[i]
        /\ \A i \in 1..Len(own) : (u \o own)[Len(u) + i] = own[i]
    BY ONLY <2>1, ConcatInSeq
  <2>. QED BY <1>4, <2>2
<1>6. \A i \in 1..Len(tree) : (u \o own)[i] = tree[i]
  BY <1>2, <1>5
<1>. QED BY <1>2, <1>3, <1>5, <1>6 DEF u, w, Grows

-----------------------------------------------------------------------------
\* The trees of the ledger.
LEMMA TreeOf ==
    ASSUME NEW L \in Seq(LedgerKind)
    PROVE  /\ Tree(L)[0] = <<>>
           /\ \A n \in 1..Len(L) : Tree(L)[n] = GrownIn(L, Tree(L)[n - 1], n)
           /\ \A n \in 0..Len(L) : Tree(L)[n] \in Seq(Leaf)
<1> DEFINE T == Tree(L)
           id == [n \in 1..Len(L) |-> n]
<1>1. IsTree(T, L, id, Len(L))
  <2>1. Len(L) \in Nat
    OBVIOUS
  <2>2. \E f : IsTree(f, L, id, Len(L))
    <3>. HIDE DEF id
    <3>. QED BY <2>1, TreeExists
  <2>. HIDE DEF id
  <2>. QED BY <2>2 DEF Tree, id
<1>2. \A n \in 0..Len(L) : T[n] = IF n = 0 THEN <<>> ELSE GrownIn(L, T[n - 1], id[n])
  <2>. HIDE DEF id, T
  <2>. QED BY <1>1 DEF IsTree
<1>. HIDE DEF T
<1>3. T[0] = <<>> /\ \A n \in 1..Len(L) : T[n] = GrownIn(L, T[n - 1], n)
  <2>1. 0 \in 0..Len(L)
    OBVIOUS
  <2>2. \A n \in 1..Len(L) : n \in 0..Len(L) /\ n # 0 /\ id[n] = n
    OBVIOUS
  <2>. HIDE DEF id
  <2>. QED BY <1>2, <2>1, <2>2
<1> DEFINE Bad == {n \in 0..Len(L) : T[n] \notin Seq(Leaf)}
<1>4. Bad = {}
  <2>1. SUFFICES ASSUME Bad # {} PROVE FALSE
    OBVIOUS
  <2>2. PICK k \in Bad : \A j \in Bad : k <= j
    <3>1. Bad \subseteq Nat
      OBVIOUS
    <3>. QED BY <2>1, <3>1, LeastNatural
  <2>3. k # 0
    <3>1. <<>> \in Seq(Leaf)
      OBVIOUS
    <3>. QED BY <1>3, <2>2, <3>1
  <2>4. k \in 1..Len(L) /\ k - 1 \in 0..Len(L) /\ ~(k <= k - 1)
    BY <2>3
  <2>5. T[k - 1] \in Seq(Leaf) /\ L[k] \in LedgerKind /\ k \in Nat
    BY <2>2, <2>4
  <2>6. GrownIn(L, T[k - 1], k) \in Seq(Leaf)
    <3>1. Grows(L, T[k - 1], k, GrownIn(L, T[k - 1], k))
      BY <2>5, GrownFacts
    <3>. QED BY <3>1 DEF Grows
  <2>. QED BY <1>3, <2>4, <2>6
<1>. QED BY <1>3, <1>4 DEF T

\* Trees only grow, an operation's leaves stand at their end, and nothing that was
\* there is moved.
LEMMA TreeGrows ==
    ASSUME NEW L \in Seq(LedgerKind), NEW n \in 1..Len(L)
    PROVE  /\ Tree(L)[n - 1] \in Seq(Leaf) /\ Width(L[n]) \in Nat \ {0}
           /\ Tree(L)[n] = GrownIn(L, Tree(L)[n - 1], n)
           /\ Grows(L, Tree(L)[n - 1], n, Tree(L)[n])
<1>1. /\ Tree(L)[n - 1] \in Seq(Leaf) /\ Tree(L)[n] = GrownIn(L, Tree(L)[n - 1], n)
      /\ n \in Nat /\ L[n] \in LedgerKind
  <2>1. n - 1 \in 0..Len(L) /\ n \in Nat /\ L[n] \in LedgerKind
    OBVIOUS
  <2>. QED BY <2>1, TreeOf
<1>2. Width(L[n]) \in Nat \ {0}
  BY <1>1, WidthFacts
<1>3. Grows(L, Tree(L)[n - 1], n, GrownIn(L, Tree(L)[n - 1], n))
  BY <1>1, GrownFacts
<1>. QED BY <1>1, <1>2, <1>3

LEMMA TreesAreLonger ==
    ASSUME NEW L \in Seq(LedgerKind), NEW k \in 0..Len(L), NEW n \in 0..k
    PROVE  /\ Tree(L)[n] \in Seq(Leaf) /\ Tree(L)[k] \in Seq(Leaf)
           /\ Len(Tree(L)[n]) <= Len(Tree(L)[k])
<1> DEFINE T == Tree(L)
           Bad == {i \in n..k : Len(T[i]) < Len(T[n])}
<1>1. \A i \in 0..Len(L) : T[i] \in Seq(Leaf) /\ Len(T[i]) \in Nat
  BY TreeOf
<1>2. Bad = {}
  <2>1. SUFFICES ASSUME Bad # {} PROVE FALSE
    OBVIOUS
  <2>2. PICK p \in Bad : \A j \in Bad : p <= j
    <3>1. Bad \subseteq Nat
      OBVIOUS
    <3>. QED BY <2>1, <3>1, LeastNatural
  <2>3. p \in n..k /\ Len(T[p]) < Len(T[n])
    BY <2>2
  <2>4. n \in 0..Len(L) /\ p \in 0..Len(L)
    BY <2>3
  <2>5. p # n
    BY <1>1, <2>3, <2>4
  <2>6. p \in 1..Len(L) /\ p - 1 \in n..k /\ ~(p <= p - 1)
    BY <2>3, <2>5
  <2>7. Len(T[p - 1]) >= Len(T[n])
    <3>1. p - 1 \notin Bad
      BY <2>2, <2>6
    <3>2. ~(Len(T[p - 1]) < Len(T[n]))
      BY <2>6, <3>1
    <3>3. p - 1 \in 0..Len(L)
      BY <2>6
    <3>. HIDE DEF T, Bad
    <3>. QED BY <1>1, <2>4, <3>2, <3>3
  <2>8. Len(T[p]) >= Len(T[p - 1])
    <3>1. p - 1 \in 0..Len(L)
      BY <2>6
    <3>2. Width(L[p]) \in Nat /\ Grows(L, T[p - 1], p, T[p])
      BY <2>6, TreeGrows
    <3>3. /\ Len(Under(L, T[p - 1], p)) >= Len(T[p - 1])
          /\ Len(T[p]) = Len(Under(L, T[p - 1], p)) + Width(L[p])
          /\ Len(Under(L, T[p - 1], p)) \in Nat
      BY <3>2 DEF Grows
    <3>. HIDE DEF T, Bad
    <3>. QED BY <1>1, <2>4, <3>1, <3>2, <3>3
  <2>9. p - 1 \in 0..Len(L)
    BY <2>6
  <2>. HIDE DEF T, Bad
  <2>. QED BY <1>1, <2>3, <2>4, <2>7, <2>8, <2>9
<1>3. Len(T[n]) <= Len(T[k])
  <2>1. ~(Len(T[k]) < Len(T[n]))
    BY <1>2
  <2>2. n \in 0..Len(L) /\ k \in 0..Len(L)
    OBVIOUS
  <2>. HIDE DEF T, Bad
  <2>. QED BY <1>1, <2>1, <2>2
<1>. QED BY <1>1, <1>3

-----------------------------------------------------------------------------
\* The event of operation n says where its leaves began, and what the mirror M of
\* the indexer becomes with it.
StartIn(L, n) == Len(Tree(L)[n]) - Width(L[n])

OwnLeaves(L, n) == [k \in 1..Width(L[n]) |-> <<n, k>>]

MirrorIn(L, M, n) ==
    IF L[n] = "batch"
    THEN IF StartIn(L, n) >= Len(M) THEN Padded(M) \o OwnLeaves(L, n) ELSE M
    ELSE M \o SubSeq(OwnLeaves(L, n),
                     (IF Len(M) > StartIn(L, n) THEN Len(M) - StartIn(L, n) ELSE 0) + 1,
                     Width(L[n]))

GapIn(L, M, n) == L[n] # "batch" /\ StartIn(L, n) > Len(M)

LEMMA LeavesFacts ==
    ASSUME NEW L, NEW n \in Nat, Width(L[n]) \in Nat \ {0}
    PROVE  /\ OwnLeaves(L, n) \in Seq(Leaf) /\ Len(OwnLeaves(L, n)) = Width(L[n])
           /\ \A i \in 1..Width(L[n]) : OwnLeaves(L, n)[i] = <<n, i>>
BY DEF OwnLeaves, Leaf

\* What lies below the frontier is passed over.
LEMMA OldIsPassedOver ==
    ASSUME NEW L \in Seq(LedgerKind), NEW k \in 0..Len(L), NEW n \in 1..k
    PROVE  ~GapIn(L, Tree(L)[k], n) /\ MirrorIn(L, Tree(L)[k], n) = Tree(L)[k]
<1> DEFINE M == Tree(L)[k]
           w == Width(L[n])
           start == StartIn(L, n)
<1>1. M \in Seq(Leaf) /\ Len(Tree(L)[n]) <= Len(M) /\ Tree(L)[n] \in Seq(Leaf)
  <2>1. n \in 0..k
    OBVIOUS
  <2>. QED BY <2>1, TreesAreLonger
<1>2. w \in Nat \ {0} /\ Len(Tree(L)[n]) >= w
  <2>1. n \in 1..Len(L)
    OBVIOUS
  <2>2. w \in Nat \ {0} /\ Grows(L, Tree(L)[n - 1], n, Tree(L)[n])
    BY <2>1, TreeGrows
  <2>. HIDE DEF w
  <2>. QED BY <2>2 DEF Grows, w
<1>3. start \in Nat /\ start + w <= Len(M)
  BY <1>1, <1>2 DEF StartIn
<1>4. OwnLeaves(L, n) \in Seq(Leaf) /\ Len(OwnLeaves(L, n)) = w
  BY <1>2, LeavesFacts
<1>. HIDE DEF M, w, start
<1>5. Len(M) > start /\ ~(start > Len(M)) /\ ~(start >= Len(M))
  BY <1>1, <1>2, <1>3
<1>6. SubSeq(OwnLeaves(L, n), (Len(M) - start) + 1, w) = <<>>
  BY <1>1, <1>2, <1>3, <1>4
<1>7. M \o <<>> = M
  BY <1>1
<1>. QED BY <1>5, <1>6, <1>7 DEF GapIn, MirrorIn, M, w, start

\* The operation that comes next makes the tree of the chain of the mirror.
LEMMA NextIsTaken ==
    ASSUME NEW L \in Seq(LedgerKind), NEW k \in 0..Len(L), k + 1 <= Len(L)
    PROVE  ~GapIn(L, Tree(L)[k], k + 1) /\ MirrorIn(L, Tree(L)[k], k + 1) = Tree(L)[k + 1]
<1> DEFINE M == Tree(L)[k]
           n == k + 1
           w == Width(L[n])
           start == StartIn(L, n)
<1>1. /\ M \in Seq(Leaf) /\ w \in Nat \ {0}
      /\ Tree(L)[n] = GrownIn(L, M, n)
      /\ Grows(L, M, n, Tree(L)[n])
  <2>1. k + 1 \in 1..Len(L) /\ (k + 1) - 1 = k
    OBVIOUS
  <2>. QED BY <2>1, TreeGrows
<1>2. OwnLeaves(L, n) \in Seq(Leaf) /\ Len(OwnLeaves(L, n)) = w
  BY <1>1, LeavesFacts
<1>3. Tree(L)[n] = Under(L, M, n) \o OwnLeaves(L, n)
  BY <1>1 DEF GrownIn, Under, OwnLeaves
<1>. HIDE DEF M, w, n
<1>4. start = Len(Under(L, M, n)) /\ Len(Under(L, M, n)) >= Len(M)
      /\ Len(M) \in Nat /\ Len(Under(L, M, n)) \in Nat
  BY <1>1 DEF Grows, StartIn, w
<1>. HIDE DEF start
<1>5. CASE L[n] = "batch"
  <2>1. Under(L, M, n) = Padded(M) /\ start >= Len(M)
    BY <1>4, <1>5 DEF Under
  <2>. QED BY <1>3, <1>5, <2>1 DEF GapIn, MirrorIn, M, w, n, start
<1>6. CASE L[n] # "batch"
  <2>1. Under(L, M, n) = M /\ start = Len(M)
    BY <1>4, <1>6 DEF Under
  <2>2. ~(start > Len(M)) /\ ~(Len(M) > start)
    BY <1>4, <2>1
  <2>3. SubSeq(OwnLeaves(L, n), 0 + 1, w) = OwnLeaves(L, n)
    BY <1>1, <1>2
  <2>. QED BY <1>3, <1>6, <2>1, <2>2, <2>3 DEF GapIn, MirrorIn, M, w, n, start
<1>. QED BY <1>5, <1>6

\* The one behind a hole is refused: as a gap, or as a batch whose root is not the event's.
LEMMA HoleIsNoticed ==
    ASSUME NEW L \in Seq(LedgerKind), NEW k \in 0..Len(L), k + 2 <= Len(L)
    PROVE  \/ GapIn(L, Tree(L)[k], k + 2)
           \/ /\ MirrorIn(L, Tree(L)[k], k + 2) # Tree(L)[k]
              /\ MirrorIn(L, Tree(L)[k], k + 2) # Tree(L)[k + 2]
<1> DEFINE M == Tree(L)[k]
           hole == k + 1
           n == k + 2
           w == Width(L[n])
           start == StartIn(L, n)
           first == Len(Under(L, M, hole)) + 1
           own == OwnLeaves(L, n)
<1>1. /\ M \in Seq(Leaf) /\ Width(L[hole]) \in Nat \ {0}
      /\ Grows(L, M, hole, Tree(L)[hole])
  <2>1. k + 1 \in 1..Len(L) /\ (k + 1) - 1 = k
    OBVIOUS
  <2>. QED BY <2>1, TreeGrows
<1>2. w \in Nat \ {0} /\ Grows(L, Tree(L)[hole], n, Tree(L)[n])
  <2>1. k + 2 \in 1..Len(L) /\ (k + 2) - 1 = k + 1
    OBVIOUS
  <2>. QED BY <2>1, TreeGrows
<1>3. own \in Seq(Leaf) /\ Len(own) = w /\ \A i \in 1..w : own[i] = <<n, i>>
  BY <1>2, LeavesFacts
<1>0. k \in Nat /\ hole # n /\ hole # 0
  OBVIOUS
<1>. HIDE DEF M, w, n, hole, own
<1>4. /\ Len(M) \in Nat /\ Len(Tree(L)[hole]) \in Nat /\ Len(Under(L, M, hole)) \in Nat
      /\ first \in 1..Len(Tree(L)[hole]) /\ first > Len(M)
      /\ Tree(L)[hole][first] = <<hole, 1>>
  BY <1>1 DEF Grows
<1>. HIDE DEF first
<1>5. start \in Nat /\ start >= Len(Tree(L)[hole]) /\ Tree(L)[n][first] = <<hole, 1>>
      /\ first \in Nat /\ start > Len(M) /\ first \in 1..Len(Tree(L)[n])
  <2>1. /\ Len(Under(L, Tree(L)[hole], n)) \in Nat
        /\ Len(Under(L, Tree(L)[hole], n)) >= Len(Tree(L)[hole])
        /\ Len(Tree(L)[n]) = Len(Under(L, Tree(L)[hole], n)) + w
        /\ \A i \in 1..Len(Tree(L)[hole]) : Tree(L)[n][i] = Tree(L)[hole][i]
    BY <1>2 DEF Grows, w
  <2>2. start = Len(Tree(L)[n]) - w
    BY DEF StartIn, w
  <2>. HIDE DEF start
  <2>. QED BY <1>2, <1>4, <2>1, <2>2
<1>. HIDE DEF start
<1>6. CASE L[n] # "batch"
  BY <1>5, <1>6 DEF GapIn, M, n, start
<1>7. CASE L[n] = "batch"
  <2> DEFINE base == Padded(M)
             new == base \o own
  <2>1. /\ base \in Seq(Leaf) /\ Len(base) >= Len(M) /\ Len(base) \in Nat
        /\ \A i \in (Len(M) + 1)..Len(base) : base[i] = <<0, 0>>
    BY <1>1, PaddedFacts
  <2>. HIDE DEF base
  <2>2. /\ Len(new) = Len(base) + w /\ new \in Seq(Leaf)
        /\ \A i \in 1..Len(base) : new[i] = base[i]
        /\ \A i \in 1..w : new[Len(base) + i] = own[i]
    <3>1. base \in Seq(Leaf) /\ own \in Seq(Leaf)
      BY <2>1, <1>3
    <3>2. /\ Len(new) = Len(base) + Len(own) /\ new \in Seq(Leaf)
          /\ \A i \in 1..Len(base) : new[i] = base[i]
          /\ \A i \in 1..Len(own) : new[Len(base) + i] = own[i]
      BY ONLY <3>1, ConcatInSeq
    <3>. QED BY <3>2, <1>3
  <2>. HIDE DEF new
  <2>3. MirrorIn(L, M, n) = new
    <3>1. start >= Len(M)
      BY <1>4, <1>5
    <3>. QED BY <1>7, <3>1 DEF MirrorIn, new, base, own, start
  <2>4. new # M
    BY <1>2, <1>4, <2>1, <2>2
  <2>5. new # Tree(L)[n]
    <3>1. SUFFICES ASSUME first \in 1..Len(new), new[first] = <<hole, 1>> PROVE FALSE
      <4>. QED BY <1>5
    <3>2. CASE first <= Len(base)
      <4>1. first \in (Len(M) + 1)..Len(base) /\ first \in 1..Len(base)
        BY <1>4, <2>1, <3>2
      <4>2. new[first] = <<0, 0>>
        BY <2>1, <2>2, <4>1
      <4>. QED BY <1>0, <3>1, <4>2
    <3>3. CASE first > Len(base)
      <4>1. first - Len(base) \in 1..w /\ first = Len(base) + (first - Len(base))
        BY <1>2, <1>5, <2>1, <2>2, <3>1, <3>3
      <4>2. new[first] = <<n, first - Len(base)>>
        BY <1>3, <2>2, <4>1
      <4>. QED BY <1>0, <3>1, <4>2
    <3>. QED BY <1>5, <2>1, <3>2, <3>3
  <2>. QED BY <2>3, <2>4, <2>5 DEF M, n
<1>. QED BY <1>6, <1>7

-----------------------------------------------------------------------------
(***************************************************************************)
(* The inductive invariant.                                                *)
(***************************************************************************)
Row == [tx : Nat, verdict : Blob]

\* Rows of operations of L, one of each.
FeedOf(feed, L) ==
    /\ feed \in Seq(Row)
    /\ \A i \in 1..Len(feed) : feed[i].tx \in 1..Len(L)
    /\ \A i, j \in 1..Len(feed) : feed[i].tx = feed[j].tx => i = j

StartsWith(feed, rows) ==
    /\ Len(rows) <= Len(feed)
    /\ \A i \in 1..Len(rows) : feed[i] = rows[i]

RailTypes ==
    /\ landed \in Seq(LedgerKind) /\ Len(landed) <= MaxTxs
    /\ file \in [1..MaxTxs -> Blob]
    /\ lost \in Nat /\ upTo \in Nat
    /\ todo \in Seq(Nat) /\ \A i \in 1..Len(todo) : todo[i] \in 1..Len(landed)
    /\ mem = [mirror |-> mem.mirror, feed |-> mem.feed,
              registry |-> mem.registry, cursor |-> mem.cursor]
    /\ mem.cursor \in Nat /\ db.cursor \in Nat

Feeds == /\ FeedOf(db.feed, landed) /\ FeedOf(mem.feed, landed)
         /\ phase # "down" => StartsWith(mem.feed, db.feed)

\* What the registry says of a batch and what its row says go together.
RegistryOf(registry, feed, L) ==
    /\ DOMAIN registry = {feed[i].tx : i \in {j \in 1..Len(feed) : L[feed[j].tx] = "batch"}}
    /\ \A i \in 1..Len(feed) :
          LET b == registry[feed[i].tx]
          IN  L[feed[i].tx] = "batch" /\ b.held \notin {"none", "verified"} =>
                  (b.baked <=> feed[i].verdict = b.held)

Registry == RegistryOf(mem.registry, mem.feed, landed)

InOrderOf(feed) == \A i \in 1..Len(feed) : feed[i].tx = i

InPlace == mem.mirror = Tree(landed)[Len(mem.feed)]

\* The rest of a pass goes on from where the feed is, or from before that.
Straight(n) ==
    \E h \in 1..(n + 1) : /\ \A i \in 1..Len(todo) : todo[i] = h + i - 1
                          /\ upTo = h + Len(todo) - 1

\* One is missing from it.
Holed(n) ==
    \E h \in 1..(n + 1) : \E m \in h..(h + Len(todo) - 1) :
        /\ \A i \in 1..Len(todo) : todo[i] = IF h + i - 1 < m THEN h + i - 1 ELSE h + i
        /\ upTo = h + Len(todo)

Tracks ==
    /\ InOrderOf(db.feed) /\ db.cursor <= Len(db.feed)
    /\ InOrderOf(mem.feed) /\ mem.cursor <= Len(mem.feed)
    /\ phase # "down" /\ lost = 0 => InPlace
    /\ phase = "applying" => \/ Straight(Len(mem.feed))
                             \/ InPlace /\ lost = 1 /\ Holed(Len(mem.feed))

RailInv == RailTypes /\ Feeds /\ Registry /\ (lost <= 1 => Tracks)

-----------------------------------------------------------------------------
LEMMA TreeAfterIs ==
    ASSUME landed \in Seq(LedgerKind)
    PROVE  TreeAfter = Tree(landed)
<1> DEFINE id == [n \in 1..Len(landed) |-> n]
           Is(f) == IsTree(f, landed, id, Len(landed))
<1>1. \A f : Is(f) <=> f = [n \in 0..Len(landed) |->
                              IF n = 0 THEN <<>> ELSE Grown(f[n - 1], n)]
  <2>1. \A n \in 0..Len(landed) : n # 0 => id[n] = n
    OBVIOUS
  <2>. HIDE DEF id
  <2>. QED BY <2>1 DEF IsTree, Grown, GrownIn, LeavesOf
<1>2. Tree(landed) = CHOOSE f : Is(f)
  BY DEF Tree
<1>. HIDE DEF Is
<1>. QED BY <1>1, <1>2 DEF TreeAfter

LEMMA MirroredIs ==
    ASSUME landed \in Seq(LedgerKind), NEW n
    PROVE  /\ Mirrored(n) = MirrorIn(landed, mem.mirror, n)
           /\ OpGap(n) = GapIn(landed, mem.mirror, n)
<1>1. StartOf(n) = StartIn(landed, n)
  BY TreeAfterIs DEF StartOf, StartIn
<1>2. LeavesOf(n) = OwnLeaves(landed, n)
  BY DEF LeavesOf, OwnLeaves
<1>. QED BY <1>1, <1>2 DEF Mirrored, MirrorIn, OpGap, GapIn

\* The mirror a boot rebuilds from rows in order is the tree of the chain there.
LEMMA RebuiltIs ==
    ASSUME landed \in Seq(LedgerKind), NEW rows \in Seq(Row), Len(rows) <= Len(landed),
           InOrderOf(rows)
    PROVE  Rebuilt(rows) = Tree(landed)[Len(rows)]
<1> DEFINE order == [n \in 1..Len(rows) |-> rows[n].tx]
           id == [n \in 1..Len(landed) |-> n]
           Is(f) == IsTree(f, landed, order, Len(rows))
           f == CHOOSE g : Is(g)
<1>1. Rebuilt(rows) = f[Len(rows)]
  <2>1. \A g : Is(g) <=> g = [n \in 0..Len(rows) |->
                                 IF n = 0 THEN <<>> ELSE Grown(g[n - 1], rows[n].tx)]
    <3>1. \A n \in 0..Len(rows) : n # 0 => order[n] = rows[n].tx
      OBVIOUS
    <3>. HIDE DEF order
    <3>. QED BY <3>1 DEF IsTree, Grown, GrownIn, LeavesOf
  <2>. HIDE DEF Is
  <2>. QED BY <2>1 DEF Rebuilt
<1>2. Is(f)
  <2>1. Len(rows) \in Nat
    OBVIOUS
  <2>2. \E g : Is(g)
    <3>. HIDE DEF order
    <3>. QED BY <2>1, TreeExists
  <2>. HIDE DEF Is
  <2>. QED BY <2>2
<1>3. IsTree(Tree(landed), landed, id, Len(landed))
  <2>1. Len(landed) \in Nat
    OBVIOUS
  <2>2. \E g : IsTree(g, landed, id, Len(landed))
    <3>. HIDE DEF id
    <3>. QED BY <2>1, TreeExists
  <2>. HIDE DEF id
  <2>. QED BY <2>2 DEF Tree, id
<1>4. Alike(landed, order, landed, id, Len(rows))
  BY DEF InOrderOf, Alike
<1>5. \A n \in 0..Len(rows) : f[n] = Tree(landed)[n]
  <2>1. Len(rows) \in Nat /\ Len(landed) \in Nat /\ Len(rows) <= Len(rows)
    OBVIOUS
  <2>2. IsTree(f, landed, order, Len(rows))
    BY <1>2
  <2>. HIDE DEF order, id, f
  <2>. QED BY ONLY <1>3, <1>4, <2>1, <2>2, Len(rows) <= Len(landed), TreesAgree
<1>. HIDE DEF f
<1>. QED BY <1>1, <1>5

\* An operation that lands moves no earlier tree.
LEMMA TreesStay ==
    ASSUME NEW L \in Seq(LedgerKind), NEW kind \in LedgerKind, NEW n \in 0..Len(L)
    PROVE  Tree(Append(L, kind))[n] = Tree(L)[n]
<1> DEFINE M == Append(L, kind)
           id == [i \in 1..Len(L) |-> i]
           jd == [i \in 1..Len(M) |-> i]
<1>1. Len(L) \in Nat /\ Len(M) = Len(L) + 1 /\ Len(L) <= Len(M) /\ Len(M) \in Nat
  OBVIOUS
<1>2. IsTree(Tree(L), L, id, Len(L))
  <2>1. \E g : IsTree(g, L, id, Len(L))
    <3>. HIDE DEF id
    <3>. QED BY <1>1, TreeExists
  <2>. HIDE DEF id
  <2>. QED BY <2>1 DEF Tree, id
<1>3. IsTree(Tree(M), M, jd, Len(M))
  <2>. HIDE DEF M
  <2>1. \E g : IsTree(g, M, jd, Len(M))
    <3>. HIDE DEF jd
    <3>. QED BY <1>1, TreeExists
  <2>. HIDE DEF jd
  <2>. QED BY <2>1 DEF Tree, jd
<1>4. Alike(M, jd, L, id, Len(L))
  BY <1>1 DEF Alike
<1>0. Len(L) <= Len(L)
  OBVIOUS
<1>. HIDE DEF id, jd, M
<1>5. \A i \in 0..Len(L) : Tree(M)[i] = Tree(L)[i]
  BY ONLY <1>0, <1>1, <1>2, <1>3, <1>4, TreesAgree
<1>. QED BY <1>5 DEF M

\* The write keeps the rows that are there and adds the others: it leaves the feed.
LEMMA UpsertedIs ==
    ASSUME Feeds, phase # "down"
    PROVE  Upserted = mem.feed
<1>1. PICK d, m : d = db.feed /\ m = mem.feed
  OBVIOUS
<1>2. /\ d \in Seq(Row) /\ m \in Seq(Row) /\ Len(d) \in Nat /\ Len(m) \in Nat
      /\ Len(d) <= Len(m) /\ \A i \in 1..Len(d) : m[i] = d[i]
      /\ \A i, j \in 1..Len(m) : m[i].tx = m[j].tx => i = j
  <2>1. FeedOf(d, landed) /\ FeedOf(m, landed) /\ StartsWith(m, d)
    BY <1>1 DEF Feeds
  <2>. QED BY <2>1 DEF FeedOf, StartsWith
<1> DEFINE durable == {d[i].tx : i \in 1..Len(d)}
           Is(f) == f = [n \in 0..Len(m) |->
                            IF n = 0 THEN d ELSE IF m[n].tx \in durable THEN f[n - 1]
                                                 ELSE Append(f[n - 1], m[n])]
           f == CHOOSE g : Is(g)
           e == [n \in 0..Len(m) |-> IF n <= Len(d) THEN d ELSE SubSeq(m, 1, n)]
<1>3. Upserted = f[Len(m)]
  <2>1. DOMAIN db.feed = 1..Len(d)
    BY <1>1, <1>2
  <2>. QED BY <1>1, <2>1 DEF Upserted
<1>4. ASSUME NEW n \in 1..Len(m) PROVE m[n].tx \in durable <=> n <= Len(d)
  <2>1. ASSUME n <= Len(d) PROVE m[n].tx \in durable
    BY <2>1, <1>2
  <2>2. ASSUME m[n].tx \in durable PROVE n <= Len(d)
    <3>1. PICK i \in 1..Len(d) : m[n].tx = d[i].tx
      BY <2>2
    <3>2. i \in 1..Len(m) /\ m[i] = d[i]
      BY <1>2
    <3>3. n = i
      BY <1>2, <3>1, <3>2
    <3>. QED BY <1>2, <3>3
  <2>. QED BY <2>1, <2>2
<1>. HIDE DEF durable
<1>5. SubSeq(m, 1, Len(d)) = d
  BY <1>2
<1>6. \A n \in 1..Len(m) : SubSeq(m, 1, n) = Append(SubSeq(m, 1, n - 1), m[n])
  BY <1>2
<1>7. ASSUME NEW n \in 0..Len(m)
      PROVE  e[n] = IF n = 0 THEN d ELSE IF m[n].tx \in durable THEN e[n - 1]
                                         ELSE Append(e[n - 1], m[n])
  <2>1. CASE n <= Len(d)
    BY <1>2, <1>4, <2>1
  <2>2. CASE n > Len(d)
    <3>1. n \in 1..Len(m) /\ n - 1 \in 0..Len(m) /\ m[n].tx \notin durable
      BY <1>2, <1>4, <2>2
    <3>2. e[n - 1] = SubSeq(m, 1, n - 1)
      <4>1. CASE n - 1 <= Len(d)
        <5>1. n - 1 = Len(d)
          BY <1>2, <2>2, <4>1
        <5>. QED BY <1>5, <3>1, <5>1
      <4>2. CASE ~(n - 1 <= Len(d))
        BY <3>1, <4>2
      <4>. QED BY <4>1, <4>2
    <3>3. e[n] = SubSeq(m, 1, n) /\ n # 0
      BY <1>2, <2>2, <3>1
    <3>. HIDE DEF e
    <3>. QED BY <1>6, <3>1, <3>2, <3>3
  <2>. QED BY <1>2, <2>1, <2>2
<1>8. Is(e)
  BY <1>7
<1>9. Is(f)
  <2>1. \E g : Is(g)
    BY <1>8
  <2>. HIDE DEF Is
  <2>. QED BY <2>1
<1>10. e[Len(m)] = m
  <2>1. CASE Len(m) <= Len(d)
    BY <1>2, <1>5, <2>1
  <2>2. CASE ~(Len(m) <= Len(d))
    BY <1>2, <2>2
  <2>. QED BY <2>1, <2>2
<1> DEFINE Bad == {n \in 0..Len(m) : f[n] # e[n]}
<1>11. Bad = {}
  <2>1. SUFFICES ASSUME Bad # {} PROVE FALSE
    OBVIOUS
  <2>2. PICK k \in Bad : \A j \in Bad : k <= j
    <3>1. Bad \subseteq Nat
      OBVIOUS
    <3>. HIDE DEF Bad
    <3>. QED BY <2>1, <3>1, LeastNatural
  <2>. HIDE DEF f, e
  <2>3. k \in 0..Len(m) /\ f[k] # e[k]
    BY <2>2
  <2>4. /\ f[k] = IF k = 0 THEN d ELSE IF m[k].tx \in durable THEN f[k - 1]
                                       ELSE Append(f[k - 1], m[k])
        /\ e[k] = IF k = 0 THEN d ELSE IF m[k].tx \in durable THEN e[k - 1]
                                       ELSE Append(e[k - 1], m[k])
    BY <1>7, <1>9, <2>3
  <2>5. k # 0
    BY <2>3, <2>4
  <2>6. k - 1 \in 0..Len(m) /\ ~(k <= k - 1)
    BY <2>3, <2>5
  <2>7. f[k - 1] = e[k - 1]
    BY <2>2, <2>6
  <2>. QED BY <2>3, <2>4, <2>7
<1>. HIDE DEF f, e
<1>12. f[Len(m)] = e[Len(m)]
  BY <1>2, <1>11
<1>. QED BY <1>1, <1>3, <1>10, <1>12

-----------------------------------------------------------------------------
LEMMA FeedLength ==
    ASSUME NEW L \in Seq(LedgerKind), NEW feed, FeedOf(feed, L), InOrderOf(feed)
    PROVE  Len(feed) \in 0..Len(L)
<1>1. feed \in Seq(Row) /\ Len(feed) \in Nat /\ Len(L) \in Nat
  BY DEF FeedOf
<1>2. CASE Len(feed) = 0
  BY <1>1, <1>2
<1>3. CASE Len(feed) # 0
  <2>1. Len(feed) \in 1..Len(feed)
    BY <1>1, <1>3
  <2>2. feed[Len(feed)].tx = Len(feed) /\ feed[Len(feed)].tx \in 1..Len(L)
    BY <2>1 DEF FeedOf, InOrderOf
  <2>. QED BY <1>1, <2>2
<1>. QED BY <1>2, <1>3

LEMMA MirrorMoves ==
    ASSUME RailTypes, Feeds, InOrderOf(mem.feed), InPlace, NEW n \in 1..Len(landed)
    PROVE  /\ n <= Len(mem.feed) + 1 =>
                 /\ ~OpGap(n) /\ ~Diverged(n)
                 /\ n <= Len(mem.feed) => Mirrored(n) = mem.mirror
                 /\ n = Len(mem.feed) + 1 => Mirrored(n) = Tree(landed)[n]
           /\ n = Len(mem.feed) + 2 => OpGap(n) \/ Diverged(n)
<1>1. landed \in Seq(LedgerKind)
  BY DEF RailTypes
<1>2. PICK L, k, M : L = landed /\ k = Len(mem.feed) /\ M = mem.mirror
  OBVIOUS
<1>3. L \in Seq(LedgerKind) /\ k \in 0..Len(L) /\ M = Tree(L)[k] /\ n \in 1..Len(L)
  <2>1. k \in 0..Len(landed)
    BY <1>1, <1>2, FeedLength DEF Feeds
  <2>. QED BY <1>1, <1>2, <2>1 DEF InPlace
<1>4. /\ Mirrored(n) = MirrorIn(L, M, n) /\ OpGap(n) = GapIn(L, M, n)
      /\ Diverged(n) <=> MirrorIn(L, M, n) # M /\ MirrorIn(L, M, n) # Tree(L)[n]
  BY <1>1, <1>2, MirroredIs, TreeAfterIs DEF Diverged
<1>5. CASE n <= k
  <2>1. n \in 1..k
    BY <1>3, <1>5
  <2>2. ~GapIn(L, M, n) /\ MirrorIn(L, M, n) = M
    BY <1>3, <2>1, OldIsPassedOver
  <2>3. n # k + 1 /\ n # k + 2
    BY <1>3, <2>1
  <2>. QED BY <1>2, <1>4, <2>2, <2>3
<1>6. CASE n = k + 1
  <2>1. ~GapIn(L, M, n) /\ MirrorIn(L, M, n) = Tree(L)[n]
    BY <1>3, <1>6, NextIsTaken
  <2>2. ~(n <= k) /\ n # k + 2
    BY <1>3, <1>6
  <2>. QED BY <1>2, <1>4, <2>1, <2>2
<1>7. CASE n = k + 2
  <2>1. \/ GapIn(L, M, n)
        \/ MirrorIn(L, M, n) # M /\ MirrorIn(L, M, n) # Tree(L)[n]
    BY <1>3, <1>7, HoleIsNoticed
  <2>2. ~(n <= k + 1)
    BY <1>3, <1>7
  <2>. QED BY <1>2, <1>4, <2>1, <2>2
<1>8. CASE n > k + 2
  <2>1. ~(n <= k + 1) /\ n # k + 2
    BY <1>3, <1>8
  <2>. QED BY <1>2, <2>1
<1>. QED BY <1>3, <1>5, <1>6, <1>7, <1>8

LEMMA RowAdded ==
    ASSUME NEW L, NEW feed, FeedOf(feed, L), NEW n \in 1..Len(L), n \in Nat,
           NEW v \in Blob, \A i \in 1..Len(feed) : feed[i].tx # n,
           NEW new, new = Append(feed, [tx |-> n, verdict |-> v])
    PROVE  /\ FeedOf(new, L) /\ Len(new) = Len(feed) + 1
           /\ new[Len(new)] = [tx |-> n, verdict |-> v]
           /\ \A i \in 1..Len(feed) : new[i] = feed[i]
<1> DEFINE row == [tx |-> n, verdict |-> v]
<1>1. feed \in Seq(Row) /\ row \in Row /\ row.tx = n /\ Len(feed) \in Nat
  BY DEF FeedOf, Row
<1>. HIDE DEF row
<1>2. /\ new \in Seq(Row) /\ Len(new) = Len(feed) + 1 /\ new[Len(new)] = row
      /\ \A i \in 1..Len(feed) : new[i] = feed[i]
  BY <1>1 DEF row
<1>3. ASSUME NEW i \in 1..Len(new)
      PROVE  \/ i \in 1..Len(feed) /\ new[i] = feed[i]
             \/ i = Len(new) /\ new[i].tx = n
  BY <1>1, <1>2
<1>4. \A i \in 1..Len(new) : new[i].tx \in 1..Len(L)
  BY <1>3 DEF FeedOf
<1>5. ASSUME NEW i \in 1..Len(new), NEW j \in 1..Len(new), new[i].tx = new[j].tx
      PROVE  i = j
  BY <1>3, <1>5 DEF FeedOf
<1>. QED BY <1>2, <1>4, <1>5 DEF FeedOf, row

\* The rows a write leaves, or those that were there.
DbStep == \/ db' = db
          \/ /\ phase = "applying" /\ todo = <<>>
             /\ db' = [feed |-> mem.feed, cursor |-> upTo]

LEMMA FlushedIs ==
    ASSUME RailInv, Applied, db' = Flushed
    PROVE  DbStep
<1>1. phase = "applying" /\ todo = <<>> /\ phase # "down"
  BY DEF Applied
<1>2. Upserted = mem.feed
  BY <1>1, UpsertedIs DEF RailInv
<1>. QED BY <1>1, <1>2 DEF DbStep, Flushed

LEMMA PassIsOver ==
    ASSUME RailInv, lost <= 1, phase = "applying", todo = <<>>
    PROVE  upTo <= Len(mem.feed)
<1>1. PICK n : n = Len(mem.feed)
  OBVIOUS
<1>2. n \in Nat
  BY <1>1 DEF RailInv, Feeds, FeedOf
<1>3. Straight(n) \/ Holed(n)
  BY <1>1 DEF RailInv, Tracks
<1>4. Len(todo) = 0
  OBVIOUS
<1>5. CASE Straight(n)
  <2>1. PICK h \in 1..(n + 1) : upTo = h + Len(todo) - 1
    BY <1>5 DEF Straight
  <2>. QED BY <1>1, <1>2, <1>4, <2>1
<1>6. CASE Holed(n)
  <2>1. PICK h \in 1..(n + 1) : \E m \in h..(h + Len(todo) - 1) : TRUE
    BY <1>6 DEF Holed
  <2>. QED BY <1>4, <2>1
<1>. QED BY <1>3, <1>5, <1>6

LEMMA DbMoves ==
    ASSUME RailInv, DbStep
    PROVE  /\ FeedOf(db'.feed, landed) /\ db'.cursor \in Nat
           /\ phase # "down" => StartsWith(mem.feed, db'.feed)
           /\ lost <= 1 => InOrderOf(db'.feed) /\ db'.cursor <= Len(db'.feed)
<1>1. CASE db' = db
  BY <1>1 DEF RailInv, RailTypes, Feeds, Tracks
<1>2. CASE phase = "applying" /\ todo = <<>> /\ db' = [feed |-> mem.feed, cursor |-> upTo]
  <2>1. db'.feed = mem.feed /\ db'.cursor = upTo
    BY <1>2
  <2>2. FeedOf(mem.feed, landed) /\ upTo \in Nat
    BY DEF RailInv, RailTypes, Feeds
  <2>3. StartsWith(mem.feed, mem.feed)
    <3>1. mem.feed \in Seq(Row)
      BY <2>2 DEF FeedOf
    <3>. QED BY <3>1 DEF StartsWith
  <2>4. lost <= 1 => InOrderOf(mem.feed) /\ upTo <= Len(mem.feed)
    BY <1>2, PassIsOver DEF RailInv, Tracks
  <2>. QED BY <2>1, <2>2, <2>3, <2>4
<1>. QED BY <1>1, <1>2 DEF DbStep

LEMMA BlankFacts ==
    /\ Blank = [mirror |-> Blank.mirror, feed |-> Blank.feed,
                registry |-> Blank.registry, cursor |-> Blank.cursor]
    /\ Blank.cursor = 0 /\ Blank.feed = <<>> /\ DOMAIN Blank.registry = {}
    /\ \A L : FeedOf(Blank.feed, L) /\ RegistryOf(Blank.registry, Blank.feed, L)
    /\ InOrderOf(Blank.feed) /\ Len(Blank.feed) = 0
<1>1. /\ Blank = [mirror |-> Blank.mirror, feed |-> Blank.feed,
                  registry |-> Blank.registry, cursor |-> Blank.cursor]
      /\ Blank.cursor = 0 /\ Blank.feed = <<>> /\ DOMAIN Blank.registry = {}
  BY DEF Blank
<1>2. Len(<<>>) = 0 /\ <<>> \in Seq(Row) /\ 1..0 = {}
  OBVIOUS
<1>. QED BY <1>1, <1>2 DEF FeedOf, RegistryOf, InOrderOf

\* Memory gone, or kept as it is while a pass ends.
MemStep == \/ mem' = Blank /\ phase' = "down"
           \/ mem' = mem /\ phase # "down" /\ phase' \notin {"down", "applying"}

LEMMA Rests ==
    ASSUME RailInv, DbStep, MemStep, UNCHANGED <<landed, file, lost>>,
           todo' = <<>>, upTo' \in Nat
    PROVE  RailInv'
<1>1. /\ FeedOf(db'.feed, landed) /\ db'.cursor \in Nat
      /\ phase # "down" => StartsWith(mem.feed, db'.feed)
      /\ lost <= 1 => InOrderOf(db'.feed) /\ db'.cursor <= Len(db'.feed)
  BY DbMoves
<1>2. phase' # "applying" /\ (phase' # "down" => phase # "down" /\ mem' = mem)
  BY DEF MemStep
<1>3. /\ mem' = [mirror |-> mem'.mirror, feed |-> mem'.feed,
                 registry |-> mem'.registry, cursor |-> mem'.cursor]
      /\ mem'.cursor \in Nat
      /\ FeedOf(mem'.feed, landed) /\ RegistryOf(mem'.registry, mem'.feed, landed)
      /\ lost <= 1 => InOrderOf(mem'.feed) /\ mem'.cursor <= Len(mem'.feed)
  <2>1. CASE mem' = Blank
    BY <2>1, BlankFacts
  <2>2. CASE mem' = mem
    BY <2>2 DEF RailInv, RailTypes, Feeds, Registry, Tracks
  <2>. QED BY <2>1, <2>2 DEF MemStep
<1>4. RailTypes'
  <2>1. landed' = landed /\ file' = file /\ lost' = lost
    OBVIOUS
  <2>2. todo' \in Seq(Nat) /\ \A i \in 1..Len(todo') : todo'[i] \in 1..Len(landed')
    <3>1. Len(todo') = 0 /\ todo' \in Seq(Nat)
      OBVIOUS
    <3>. QED BY <3>1
  <2>. QED BY <1>1, <1>3, <2>1, <2>2 DEF RailInv, RailTypes
<1>5. Feeds'
  <2>1. phase' # "down" => StartsWith(mem'.feed, db'.feed)
    BY <1>1, <1>2
  <2>. QED BY <1>1, <1>3, <2>1 DEF Feeds
<1>6. Registry'
  BY <1>3 DEF Registry
<1>7. lost' <= 1 => Tracks'
  <2>1. lost <= 1 /\ phase' # "down" /\ lost' = 0 => InPlace'
    <3>1. lost' = lost /\ landed' = landed
      OBVIOUS
    <3>. QED BY <1>2, <3>1 DEF RailInv, Tracks, InPlace
  <2>. QED BY <1>1, <1>2, <1>3, <2>1 DEF Tracks
<1>. QED BY <1>4, <1>5, <1>6, <1>7 DEF RailInv

-----------------------------------------------------------------------------
LEMMA RailInitInv == Init => RailInv
<1> SUFFICES ASSUME Init PROVE RailInv
  OBVIOUS
<1>1. /\ landed = <<>> /\ file = [tx \in 1..MaxTxs |-> "none"] /\ phase = "down"
      /\ mem = Blank /\ todo = <<>> /\ upTo = 0 /\ lost = 0
      /\ db.feed = <<>> /\ db.cursor = 0
  BY DEF Init
<1>2. Len(<<>>) = 0 /\ <<>> \in Seq(Row) /\ <<>> \in Seq(Nat) /\ <<>> \in Seq(LedgerKind)
  OBVIOUS
<1>3. RailTypes
  BY <1>1, <1>2, BlankFacts, SolanaIndexerAssumption DEF RailTypes
<1>4. Feeds
  BY <1>1, <1>2, BlankFacts DEF Feeds, FeedOf
<1>5. Registry
  BY <1>1, BlankFacts DEF Registry
<1>6. Tracks
  BY <1>1, <1>2, BlankFacts DEF Tracks, InOrderOf
<1>. QED BY <1>3, <1>4, <1>5, <1>6 DEF RailInv

\* Rows of a ledger are rows of a longer one.
LEMMA FeedStays ==
    ASSUME NEW L \in Seq(LedgerKind), NEW kind \in LedgerKind, NEW feed, FeedOf(feed, L)
    PROVE  /\ FeedOf(feed, Append(L, kind))
           /\ \A registry : RegistryOf(registry, feed, L) =>
                               RegistryOf(registry, feed, Append(L, kind))
<1> DEFINE M == Append(L, kind)
<1>1. Len(M) = Len(L) + 1 /\ Len(L) \in Nat /\ \A n \in 1..Len(L) : M[n] = L[n]
  OBVIOUS
<1>. HIDE DEF M
<1>2. \A i \in 1..Len(feed) : feed[i].tx \in 1..Len(M) /\ M[feed[i].tx] = L[feed[i].tx]
  BY <1>1 DEF FeedOf
<1>. QED BY <1>2 DEF FeedOf, RegistryOf, M

LEMMA LandKeeps ==
    ASSUME RailInv, Land
    PROVE  RailInv'
<1>1. PICK kind \in LedgerKind : landed' = Append(landed, kind)
  BY DEF Land, LedgerKind
<1>2. /\ Len(landed) < MaxTxs /\ phase # "applying"
      /\ UNCHANGED <<file, phase, mem, todo, upTo, db, lost>>
  BY DEF Land
<1>3. landed \in Seq(LedgerKind) /\ Len(landed) \in Nat
  BY DEF RailInv, RailTypes
<1>4. landed' \in Seq(LedgerKind) /\ Len(landed') = Len(landed) + 1 /\ Len(landed') <= MaxTxs
  BY <1>1, <1>2, <1>3, SolanaIndexerAssumption
<1>5. RailTypes'
  <2>1. \A i \in 1..Len(todo) : todo[i] \in 1..Len(landed')
    BY <1>3, <1>4 DEF RailInv, RailTypes
  <2>. QED BY <1>2, <1>4, <2>1 DEF RailInv, RailTypes
<1>6. Feeds'
  BY <1>1, <1>2, <1>3, FeedStays DEF RailInv, Feeds
<1>7. Registry'
  BY <1>1, <1>2, <1>3, FeedStays DEF RailInv, Feeds, Registry
<1>8. lost <= 1 => Tracks'
  <2>1. ASSUME InOrderOf(mem.feed), InPlace PROVE InPlace'
    <3>1. Len(mem.feed) \in 0..Len(landed)
      BY <1>3, <2>1, FeedLength DEF RailInv, Feeds
    <3>2. Tree(landed')[Len(mem.feed)] = Tree(landed)[Len(mem.feed)]
      BY <1>1, <1>3, <3>1, TreesStay
    <3>. QED BY <1>2, <2>1, <3>2 DEF InPlace
  <2>. QED BY <1>2, <2>1 DEF RailInv, Tracks
<1>. QED BY <1>2, <1>5, <1>6, <1>7, <1>8 DEF RailInv

LEMMA SwapKeeps ==
    ASSUME RailInv, NEW tx \in 1..MaxTxs, Swap(tx)
    PROVE  RailInv'
<1>1. /\ UNCHANGED <<landed, phase, mem, todo, upTo, db, lost>>
      /\ file' \in [1..MaxTxs -> Blob]
  BY DEF Swap, RailInv, RailTypes
<1>2. RailTypes'
  BY <1>1 DEF RailInv, RailTypes
<1>3. Feeds' /\ Registry'
  BY <1>1 DEF RailInv, Feeds, Registry
<1>4. lost' <= 1 => Tracks'
  BY <1>1 DEF RailInv, Tracks, InPlace, Straight, Holed
<1>. QED BY <1>2, <1>3, <1>4 DEF RailInv

\* A pass begins with what the node gave after the cursor.
LEMMA FetchKeeps ==
    ASSUME RailInv, NEW txs, Fetched(txs), lost' \in Nat, lost' >= lost,
           txs \in Seq(Nat), \A i \in 1..Len(txs) : txs[i] \in 1..Len(landed),
           lost' <= 1 /\ mem.cursor <= Len(mem.feed) =>
               \/ Straight(Len(mem.feed))'
               \/ lost = 0 /\ lost' = 1 /\ Holed(Len(mem.feed))'
    PROVE  RailInv'
<1>1. /\ phase = "idle" /\ phase' = "applying" /\ todo' = txs
      /\ upTo' = (IF txs = <<>> THEN mem.cursor ELSE txs[Len(txs)])
      /\ UNCHANGED <<landed, file, mem, db>>
  BY DEF Fetched, Last
<1>2. upTo' \in Nat
  <2>1. mem.cursor \in Nat
    BY DEF RailInv, RailTypes
  <2>2. CASE txs = <<>>
    BY <1>1, <2>1, <2>2
  <2>3. CASE txs # <<>>
    BY <1>1, <2>3
  <2>. QED BY <2>2, <2>3
<1>3. RailTypes'
  BY <1>1, <1>2 DEF RailInv, RailTypes
<1>4. Feeds' /\ Registry'
  BY <1>1 DEF RailInv, Feeds, Registry
<1>5. ASSUME lost' <= 1 PROVE Tracks'
  <2>1. lost \in Nat /\ lost <= 1
    BY <1>5 DEF RailInv, RailTypes
  <2>2. Tracks
    BY <2>1 DEF RailInv
  <2>3. mem.cursor <= Len(mem.feed)
    BY <2>2 DEF Tracks
  <2>4. lost = 0 => InPlace
    BY <1>1, <2>2 DEF Tracks
  <2>5. InPlace => InPlace'
    BY <1>1 DEF InPlace
  <2>6. \/ Straight(Len(mem.feed))'
        \/ InPlace' /\ lost' = 1 /\ Holed(Len(mem.feed))'
    BY <1>5, <2>3, <2>4, <2>5
  <2>7. lost' = 0 => lost = 0
    BY <2>1
  <2>8. /\ InOrderOf(db'.feed) /\ db'.cursor <= Len(db'.feed)
        /\ InOrderOf(mem'.feed) /\ mem'.cursor <= Len(mem'.feed)
    BY <1>1, <2>2 DEF Tracks
  <2>. QED BY <2>4, <2>5, <2>6, <2>7, <2>8 DEF Tracks
<1>. QED BY <1>3, <1>4, <1>5 DEF RailInv

LEMMA SignaturesFacts ==
    ASSUME RailInv, NEW s, s = Signatures
    PROVE  /\ s \in Seq(Nat) /\ Len(s) \in Nat /\ DOMAIN s = 1..Len(s)
           /\ \A i \in 1..Len(s) : s[i] = mem.cursor + i /\ s[i] \in 1..Len(landed)
<1>1. PICK c, N : c = mem.cursor /\ N = Len(landed)
  OBVIOUS
<1>2. c \in Nat /\ N \in Nat
  BY <1>1 DEF RailInv, RailTypes
<1>3. s = [i \in 1..(N - c) |-> c + i]
  BY <1>1 DEF Signatures
<1>4. CASE N - c \in Nat
  <2>1. Len(s) = N - c /\ s \in Seq(Nat) /\ DOMAIN s = 1..Len(s)
    BY <1>2, <1>3, <1>4
  <2>. QED BY <1>1, <1>2, <1>3, <1>4, <2>1
<1>5. CASE N - c \notin Nat
  <2>1. 1..(N - c) = {}
    BY <1>2, <1>5
  <2>2. s = <<>>
    BY <1>3, <2>1
  <2>. QED BY <2>2
<1>. QED BY <1>4, <1>5

LEMMA txsSinceKeeps ==
    ASSUME RailInv, txsSince
    PROVE  RailInv'
<1>1. PICK s : s = Signatures
  OBVIOUS
<1>2. /\ s \in Seq(Nat) /\ Len(s) \in Nat
      /\ \A i \in 1..Len(s) : s[i] = mem.cursor + i /\ s[i] \in 1..Len(landed)
  BY <1>1, SignaturesFacts
<1>3. /\ Fetched(s) /\ lost' = lost /\ todo' = s
      /\ upTo' = (IF s = <<>> THEN mem.cursor ELSE s[Len(s)])
  BY <1>1 DEF txsSince, Fetched, Last
<1>4. ASSUME mem.cursor <= Len(mem.feed) PROVE Straight(Len(mem.feed))'
  <2>1. PICK c, n : c = mem.cursor /\ n = Len(mem.feed)
    OBVIOUS
  <2>2. c \in Nat /\ n \in Nat /\ c <= n
    BY <1>4, <2>1 DEF RailInv, RailTypes, Feeds, FeedOf
  <2>3. upTo' = c + Len(s)
    <3>1. CASE s = <<>>
      BY <1>3, <2>1, <2>2, <3>1
    <3>2. CASE s # <<>>
      <4>1. Len(s) \in 1..Len(s)
        BY <1>2, <3>2
      <4>. QED BY <1>2, <1>3, <2>1, <3>2, <4>1
    <3>. QED BY <3>1, <3>2
  <2>4. c + 1 \in 1..(n + 1)
    BY <2>2
  <2>5. upTo' = (c + 1) + Len(todo') - 1
    BY <1>2, <1>3, <2>2, <2>3
  <2>6. \A i \in 1..Len(todo') : todo'[i] = (c + 1) + i - 1
    BY <1>2, <1>3, <2>1, <2>2
  <2>7. mem' = mem
    BY <1>3 DEF Fetched
  <2>. QED BY <2>1, <2>4, <2>5, <2>6, <2>7 DEF Straight
<1>5. lost \in Nat
  BY DEF RailInv, RailTypes
<1>. QED BY <1>2, <1>3, <1>4, <1>5, FetchKeeps

LEMMA RemoveAtFacts ==
    ASSUME NEW s \in Seq(Nat), NEW i \in 1..Len(s)
    PROVE  /\ RemoveAt(s, i) \in Seq(Nat) /\ Len(RemoveAt(s, i)) = Len(s) - 1
           /\ \A j \in 1..(Len(s) - 1) :
                 RemoveAt(s, i)[j] = IF j < i THEN s[j] ELSE s[j + 1]
<1> DEFINE a == SubSeq(s, 1, i - 1)
           b == SubSeq(s, i + 1, Len(s))
<1>1. /\ a \in Seq(Nat) /\ Len(a) = i - 1 /\ \A j \in 1..(i - 1) : a[j] = s[j]
      /\ b \in Seq(Nat) /\ Len(b) = Len(s) - i /\ \A j \in 1..(Len(s) - i) : b[j] = s[i + j]
  OBVIOUS
<1>2. RemoveAt(s, i) = a \o b
  BY DEF RemoveAt
<1>3. Len(s) \in Nat /\ i \in Nat /\ i <= Len(s)
  OBVIOUS
<1>. HIDE DEF a, b
<1>4. /\ a \o b \in Seq(Nat) /\ Len(a \o b) = Len(a) + Len(b)
      /\ \A j \in 1..Len(a) : (a \o b)[j] = a[j]
      /\ \A j \in 1..Len(b) : (a \o b)[Len(a) + j] = b[j]
  <2>1. a \in Seq(Nat) /\ b \in Seq(Nat)
    BY <1>1
  <2>. QED BY ONLY <2>1, ConcatInSeq
<1>5. ASSUME NEW j \in 1..(Len(s) - 1)
      PROVE  (a \o b)[j] = IF j < i THEN s[j] ELSE s[j + 1]
  <2>1. CASE j < i
    <3>1. j \in 1..Len(a) /\ j \in 1..(i - 1)
      BY <1>1, <1>3, <2>1
    <3>. QED BY <1>1, <1>4, <2>1, <3>1
  <2>2. CASE ~(j < i)
    <3>1. j - (i - 1) \in 1..Len(b) /\ j - (i - 1) \in 1..(Len(s) - i)
          /\ Len(a) + (j - (i - 1)) = j /\ i + (j - (i - 1)) = j + 1
      BY <1>1, <1>3, <2>2
    <3>2. (a \o b)[j] = b[j - (i - 1)] /\ b[j - (i - 1)] = s[j + 1]
      BY <1>1, <1>4, <3>1
    <3>. QED BY <2>2, <3>2
  <2>. QED BY <2>1, <2>2
<1>6. Len(a) + Len(b) = Len(s) - 1
  BY <1>1, <1>3
<1>. QED BY <1>2, <1>4, <1>5, <1>6

LEMMA AnswerLostKeeps ==
    ASSUME RailInv, AnswerLost
    PROVE  RailInv'
<1>1. PICK s : s = Signatures
  OBVIOUS
<1>2. /\ s \in Seq(Nat) /\ Len(s) \in Nat /\ DOMAIN s = 1..Len(s)
      /\ \A j \in 1..Len(s) : s[j] = mem.cursor + j /\ s[j] \in 1..Len(landed)
  BY <1>1, SignaturesFacts
<1>3. PICK i \in 1..Len(s) : Fetched(RemoveAt(s, i))
  BY <1>1, <1>2 DEF AnswerLost
<1>4. PICK t : t = RemoveAt(s, i)
  OBVIOUS
<1>5. /\ t \in Seq(Nat) /\ Len(t) = Len(s) - 1
      /\ \A j \in 1..(Len(s) - 1) : t[j] = IF j < i THEN s[j] ELSE s[j + 1]
  BY <1>2, <1>4, RemoveAtFacts
<1>6. /\ Fetched(t) /\ lost' = lost + 1 /\ todo' = t /\ mem' = mem
      /\ upTo' = (IF t = <<>> THEN mem.cursor ELSE t[Len(t)])
  BY <1>3, <1>4 DEF AnswerLost, Fetched, Last
<1>7. PICK c, n, z : c = mem.cursor /\ n = Len(mem.feed) /\ z = Len(s)
  OBVIOUS
<1>8. c \in Nat /\ n \in Nat /\ z \in Nat /\ lost \in Nat
  BY <1>7 DEF RailInv, RailTypes, Feeds, FeedOf
<1>9. ASSUME NEW j \in 1..(z - 1)
      PROVE  t[j] = (IF j < i THEN c + j ELSE c + j + 1) /\ t[j] \in 1..Len(landed)
  <2>1. t[j] = IF j < i THEN s[j] ELSE s[j + 1]
    BY <1>5, <1>7
  <2>2. j \in 1..Len(s) /\ j + 1 \in 1..Len(s)
    BY <1>7, <1>8
  <2>3. /\ s[j] = c + j /\ s[j] \in 1..Len(landed)
        /\ s[j + 1] = c + (j + 1) /\ s[j + 1] \in 1..Len(landed)
    BY <1>2, <1>7, <2>2
  <2>. QED BY <1>8, <2>1, <2>3
<1>10. Len(t) = z - 1
  BY <1>5, <1>7
<1>11. i \in 1..z
  BY <1>7
<1>12. upTo' = IF z = 1 THEN c ELSE IF i = z THEN c + (z - 1) ELSE c + z
  <2>1. CASE z = 1
    <3>1. t = <<>>
      BY <1>5, <1>10, <2>1
    <3>. QED BY <1>6, <1>7, <2>1, <3>1
  <2>2. CASE z # 1
    <3>1. z - 1 \in 1..(z - 1) /\ t # <<>>
      BY <1>5, <1>8, <1>10, <1>11, <2>2
    <3>2. upTo' = t[z - 1]
      BY <1>6, <1>10, <3>1
    <3>3. (z - 1 < i) <=> i = z
      BY <1>8, <1>11
    <3>. QED BY <1>8, <1>9, <2>2, <3>1, <3>2, <3>3
  <2>. QED BY <2>1, <2>2
<1>13. ASSUME c <= n PROVE Straight(n)' \/ Holed(n)'
  <2>1. c + 1 \in 1..(n + 1)
    BY <1>8, <1>13
  <2>2. CASE i = z
    <3>1. upTo' = (c + 1) + Len(todo') - 1
      BY <1>6, <1>8, <1>10, <1>11, <1>12, <2>2
    <3>2. \A j \in 1..Len(todo') : todo'[j] = (c + 1) + j - 1
      BY <1>6, <1>8, <1>9, <1>10, <2>2
    <3>. QED BY <2>1, <3>1, <3>2 DEF Straight
  <2>3. CASE i # z
    <3>1. upTo' = (c + 1) + Len(todo')
      BY <1>6, <1>8, <1>10, <1>11, <1>12, <2>3
    <3>2. c + i \in (c + 1)..((c + 1) + Len(todo') - 1)
      BY <1>6, <1>8, <1>10, <1>11, <2>3
    <3>3. \A j \in 1..Len(todo') : todo'[j] = IF (c + 1) + j - 1 < c + i
                                              THEN (c + 1) + j - 1 ELSE (c + 1) + j
      BY <1>6, <1>8, <1>9, <1>10, <1>11
    <3>. QED BY <2>1, <3>1, <3>2, <3>3 DEF Holed
  <2>. QED BY <2>2, <2>3
<1>14. ASSUME lost' <= 1, mem.cursor <= Len(mem.feed)
       PROVE  \/ Straight(Len(mem.feed))'
              \/ lost = 0 /\ lost' = 1 /\ Holed(Len(mem.feed))'
  <2>1. Straight(n)' \/ Holed(n)'
    BY <1>7, <1>13, <1>14
  <2>2. lost = 0 /\ lost' = 1
    BY <1>6, <1>8, <1>14
  <2>. QED BY <1>6, <1>7, <2>1, <2>2 DEF Straight, Holed
<1>15. lost' \in Nat /\ lost' >= lost
  BY <1>6, <1>8
<1>16. \A j \in 1..Len(t) : t[j] \in 1..Len(landed)
  BY <1>9, <1>10
<1>. QED BY <1>5, <1>6, <1>14, <1>15, <1>16, FetchKeeps

\* A boot reads each batch's row, and the file that is served now.
LEMMA BootRegistryIs ==
    ASSUME FeedOf(db.feed, landed)
    PROVE  RegistryOf(BootRegistry, db.feed, landed)
<1>1. PICK feed : feed = db.feed
  OBVIOUS
<1>2. feed \in Seq(Row) /\ DOMAIN feed = 1..Len(feed) /\ FeedOf(feed, landed)
  BY <1>1 DEF FeedOf
<1>3. Batches(feed) = {j \in 1..Len(feed) : landed[feed[j].tx] = "batch"}
  BY <1>2 DEF Batches
<1> DEFINE row(tx) == CHOOSE r \in ToSet(feed) : r.tx = tx
           entry(tx) == [held |-> file[tx],
                         baked |-> file[tx] # "none" /\ OwnedByRow(row(tx))]
<1>4. BootRegistry = [tx \in {feed[i].tx : i \in Batches(feed)} |-> entry(tx)]
  BY <1>1 DEF BootRegistry
<1>5. ASSUME NEW i \in 1..Len(feed), landed[feed[i].tx] = "batch"
      PROVE  LET b == BootRegistry[feed[i].tx]
             IN  b.held \notin {"none", "verified"} => (b.baked <=> feed[i].verdict = b.held)
  <2>1. feed[i] \in ToSet(feed) /\ \A r \in ToSet(feed) : r.tx = feed[i].tx => r = feed[i]
    BY <1>2 DEF ToSet, FeedOf
  <2>2. row(feed[i].tx) = feed[i]
    BY <2>1
  <2>. HIDE DEF row
  <2>3. BootRegistry[feed[i].tx] = entry(feed[i].tx)
    BY <1>3, <1>4, <1>5
  <2>4. PICK f, w : f = file[feed[i].tx] /\ w = feed[i].verdict
    OBVIOUS
  <2>5. PICK p \in BOOLEAN : p <=> f # "none" /\ w # "none" /\ w = f
    OBVIOUS
  <2>6. OwnedByRow(feed[i]) <=> w # "none" /\ w = f
    BY <2>4 DEF OwnedByRow
  <2>7. BootRegistry[feed[i].tx] = [held |-> f, baked |-> p]
    BY <2>2, <2>3, <2>4, <2>5, <2>6
  <2>8. BootRegistry[feed[i].tx].held = f /\ BootRegistry[feed[i].tx].baked = p
    BY <2>7
  <2>. QED BY <2>4, <2>5, <2>8
<1>6. DOMAIN BootRegistry = {feed[i].tx : i \in {j \in 1..Len(feed) : landed[feed[j].tx] = "batch"}}
  BY <1>3, <1>4
<1>. QED BY <1>1, <1>5, <1>6 DEF RegistryOf

LEMMA bootKeeps ==
    ASSUME RailInv, boot
    PROVE  RailInv'
<1>1. /\ mem' = [mirror |-> Rebuilt(db.feed), feed |-> db.feed,
                 registry |-> BootRegistry, cursor |-> db.cursor]
      /\ phase' = "idle" /\ UNCHANGED <<landed, file, todo, upTo, db, lost>>
  BY DEF boot
<1>2. /\ mem'.mirror = Rebuilt(db.feed) /\ mem'.feed = db.feed
      /\ mem'.registry = BootRegistry /\ mem'.cursor = db.cursor
  BY <1>1
<1>3. FeedOf(db.feed, landed) /\ landed \in Seq(LedgerKind) /\ db.cursor \in Nat
  BY DEF RailInv, RailTypes, Feeds
<1>4. RailTypes'
  BY <1>1, <1>2, <1>3 DEF RailInv, RailTypes
<1>5. Feeds'
  <2>1. StartsWith(db.feed, db.feed)
    <3>1. db.feed \in Seq(Row)
      BY <1>3 DEF FeedOf
    <3>. QED BY <3>1 DEF StartsWith
  <2>. QED BY <1>1, <1>2, <1>3, <2>1 DEF Feeds
<1>6. Registry'
  BY <1>1, <1>2, <1>3, BootRegistryIs DEF Registry
<1>7. ASSUME lost <= 1 PROVE Tracks'
  <2>1. InOrderOf(db.feed) /\ db.cursor <= Len(db.feed)
    BY <1>7 DEF RailInv, Tracks
  <2>2. db.feed \in Seq(Row) /\ Len(db.feed) <= Len(landed)
    <3>1. Len(db.feed) \in 0..Len(landed) /\ Len(landed) \in Nat
      BY <1>3, <2>1, FeedLength
    <3>. QED BY <1>3, <3>1 DEF FeedOf
  <2>3. Rebuilt(db.feed) = Tree(landed)[Len(db.feed)]
    BY <1>3, <2>1, <2>2, RebuiltIs
  <2>4. InPlace'
    BY <1>1, <1>2, <2>3 DEF InPlace
  <2>. QED BY <1>1, <1>2, <2>1, <2>4 DEF Tracks
<1>. QED BY <1>1, <1>4, <1>5, <1>6, <1>7 DEF RailInv

-----------------------------------------------------------------------------
\* An entry of the feed and the registry's of its batch are made together.
LEMMA Recorded ==
    ASSUME RailInv, NEW n \in 1..Len(landed), n \in Nat,
           NEW v, v = IF landed[n] = "batch" THEN Verdict(n) ELSE "none",
           NEW feed, feed = addEvent(n, v),
           NEW reg, reg = IF landed[n] = "batch" THEN recordBatch(n) ELSE mem.registry
    PROVE  /\ FeedOf(feed, landed) /\ RegistryOf(reg, feed, landed)
           /\ StartsWith(feed, mem.feed)
           /\ \/ feed = mem.feed /\ \E i \in 1..Len(mem.feed) : mem.feed[i].tx = n
              \/ Len(feed) = Len(mem.feed) + 1 /\ feed[Len(feed)].tx = n
<1>1. PICK old, was : old = mem.feed /\ was = mem.registry
  OBVIOUS
<1>2. /\ FeedOf(old, landed) /\ RegistryOf(was, old, landed)
      /\ old \in Seq(Row) /\ DOMAIN old = 1..Len(old) /\ Len(old) \in Nat
  BY <1>1 DEF RailInv, Feeds, Registry, FeedOf
<1>3. DOMAIN was = {old[i].tx : i \in {j \in 1..Len(old) : landed[old[j].tx] = "batch"}}
  BY <1>2 DEF RegistryOf
<1>4. CASE \E i \in 1..Len(old) : old[i].tx = n
  <2>1. feed = old
    BY <1>1, <1>2, <1>4 DEF addEvent
  <2>2. landed[n] = "batch" => n \in DOMAIN was
    BY <1>3, <1>4
  <2>3. reg = was
    BY <1>1, <2>2 DEF recordBatch
  <2>4. StartsWith(old, old)
    BY <1>2 DEF StartsWith
  <2>. QED BY <1>1, <1>2, <1>4, <2>1, <2>3, <2>4
<1>5. CASE ~ \E i \in 1..Len(old) : old[i].tx = n
  <2>1. feed = Append(old, [tx |-> n, verdict |-> v])
    BY <1>1, <1>2, <1>5 DEF addEvent
  <2>2. n \notin DOMAIN was
    BY <1>3, <1>5
  <2>3. v = IF landed[n] = "batch" THEN file[n] ELSE "none"
    BY <1>1, <2>2 DEF Verdict
  <2>4. v \in Blob
    <3>1. n \in 1..MaxTxs
      BY SolanaIndexerAssumption DEF RailInv, RailTypes
    <3>. QED BY <2>3, <3>1, SolanaIndexerAssumption DEF RailInv, RailTypes
  <2>5. /\ FeedOf(feed, landed) /\ Len(feed) = Len(old) + 1
        /\ feed[Len(feed)] = [tx |-> n, verdict |-> v]
        /\ \A i \in 1..Len(old) : feed[i] = old[i]
    BY <1>2, <1>5, <2>1, <2>4, RowAdded
  <2>6. /\ feed[Len(feed)].tx = n /\ feed[Len(feed)].verdict = v
        /\ \A i \in 1..Len(feed) : i \in 1..Len(old) \/ i = Len(feed)
        /\ Len(feed) \in 1..Len(feed) /\ 1..Len(old) \subseteq 1..Len(feed)
    BY <1>2, <2>5
  <2>7. StartsWith(feed, old)
    BY <1>2, <2>5 DEF StartsWith
  <2>8. RegistryOf(reg, feed, landed)
    <3>1. CASE landed[n] = "batch"
      <4>1. reg = [t \in DOMAIN was \cup {n} |->
                      IF t = n THEN [held |-> file[n], baked |-> file[n] # "none"] ELSE was[t]]
        BY <1>1, <2>2, <3>1 DEF recordBatch
      <4>2. DOMAIN reg = {feed[i].tx : i \in {j \in 1..Len(feed) : landed[feed[j].tx] = "batch"}}
        BY <1>3, <2>5, <2>6, <3>1, <4>1
      <4>3. ASSUME NEW i \in 1..Len(feed), landed[feed[i].tx] = "batch",
                   reg[feed[i].tx].held \notin {"none", "verified"}
            PROVE  reg[feed[i].tx].baked <=> feed[i].verdict = reg[feed[i].tx].held
        <5>1. CASE i \in 1..Len(old)
          <6>1. feed[i] = old[i] /\ old[i].tx # n /\ old[i].tx \in DOMAIN was
            BY <1>3, <1>5, <2>5, <4>3, <5>1
          <6>2. reg[feed[i].tx] = was[old[i].tx]
            BY <4>1, <6>1
          <6>. QED BY <1>2, <4>3, <5>1, <6>1, <6>2 DEF RegistryOf
        <5>2. CASE i = Len(feed)
          <6>1. reg[n] = [held |-> file[n], baked |-> file[n] # "none"] /\ v = file[n]
            BY <2>3, <3>1, <4>1
          <6>2. feed[i].tx = n /\ feed[i].verdict = v
            BY <2>6, <5>2
          <6>3. reg[n].held = file[n]
            BY <6>1
          <6>4. file[n] # "none"
            BY <4>3, <6>2, <6>3
          <6>7. reg[n] = [held |-> file[n], baked |-> TRUE]
            BY <6>1, <6>4
          <6>8. reg[n].baked
            BY <6>7
          <6>5. reg[feed[i].tx].baked
            BY <6>2, <6>8
          <6>6. feed[i].verdict = reg[feed[i].tx].held
            BY <6>1, <6>2, <6>3
          <6>. QED BY <6>5, <6>6
        <5>. QED BY <2>6, <5>1, <5>2
      <4>. QED BY <4>2, <4>3 DEF RegistryOf
    <3>2. CASE landed[n] # "batch"
      <4>1. reg = was
        BY <1>1, <3>2
      <4>2. \A i \in 1..Len(feed) : landed[feed[i].tx] = "batch" =>
                                       i \in 1..Len(old) /\ feed[i] = old[i]
        BY <2>5, <2>6, <3>2
      <4>3. {feed[i].tx : i \in {j \in 1..Len(feed) : landed[feed[j].tx] = "batch"}}
              = {old[i].tx : i \in {j \in 1..Len(old) : landed[old[j].tx] = "batch"}}
        BY <2>5, <2>6, <4>2
      <4>4. DOMAIN reg = {feed[i].tx : i \in {j \in 1..Len(feed) : landed[feed[j].tx] = "batch"}}
        BY <1>3, <4>1, <4>3
      <4>5. ASSUME NEW i \in 1..Len(feed), landed[feed[i].tx] = "batch",
                   reg[feed[i].tx].held \notin {"none", "verified"}
            PROVE  reg[feed[i].tx].baked <=> feed[i].verdict = reg[feed[i].tx].held
        <5>1. i \in 1..Len(old) /\ feed[i] = old[i]
          BY <4>2, <4>5
        <5>. QED BY <1>2, <4>1, <4>5, <5>1 DEF RegistryOf
      <4>. QED BY <4>4, <4>5 DEF RegistryOf
    <3>. QED BY <3>1, <3>2
  <2>. QED BY <1>1, <2>5, <2>6, <2>7, <2>8
<1>. QED BY <1>4, <1>5

\* The transaction at the head of the pass is the next of the feed or an earlier one,
\* or stands behind a hole.
LEMMA HeadOfPass ==
    ASSUME RailInv, lost <= 1, phase = "applying", todo # <<>>
    PROVE  \/ Head(todo) <= Len(mem.feed) + 1
           \/ InPlace /\ lost = 1 /\ Head(todo) = Len(mem.feed) + 2
<1>1. PICK k, n, z : k = Len(mem.feed) /\ n = todo[1] /\ z = Len(todo)
  OBVIOUS
<1>2. k \in Nat /\ todo \in Seq(Nat)
  BY <1>1 DEF RailInv, RailTypes, Feeds, FeedOf
<1>3. z \in Nat \ {0} /\ 1 \in 1..z /\ Head(todo) = n
  BY <1>1, <1>2
<1>4. Straight(k) \/ (InPlace /\ lost = 1 /\ Holed(k))
  BY <1>1 DEF RailInv, Tracks
<1>5. CASE Straight(k)
  <2>1. PICK h \in 1..(k + 1) : \A i \in 1..Len(todo) : todo[i] = h + i - 1
    BY <1>5 DEF Straight
  <2>2. n = h
    BY <1>1, <1>3, <2>1
  <2>. QED BY <1>1, <1>2, <1>3, <2>2
<1>6. CASE InPlace /\ lost = 1 /\ Holed(k)
  <2>1. PICK h \in 1..(k + 1) : \E m \in h..(h + z - 1) :
           /\ \A i \in 1..z : todo[i] = IF h + i - 1 < m THEN h + i - 1 ELSE h + i
           /\ upTo = h + z
    BY <1>1, <1>6 DEF Holed
  <2>2. n = h \/ n = h + 1
    BY <1>1, <1>2, <1>3, <2>1
  <2>. QED BY <1>1, <1>2, <1>3, <1>6, <2>2
<1>. QED BY <1>4, <1>5, <1>6

LEMMA NoThrow ==
    ASSUME RailInv, lost <= 1, phase = "applying", todo # <<>>, lost = 0
    PROVE  ~OpGap(Head(todo)) /\ ~Diverged(Head(todo))
<1>1. Head(todo) <= Len(mem.feed) + 1
  BY HeadOfPass
<1>2. InPlace /\ InOrderOf(mem.feed)
  BY DEF RailInv, Tracks
<1>3. Head(todo) \in 1..Len(landed)
  <2>1. todo \in Seq(Nat) /\ \A i \in 1..Len(todo) : todo[i] \in 1..Len(landed)
    BY DEF RailInv, RailTypes
  <2>2. 1 \in 1..Len(todo) /\ Head(todo) = todo[1]
    BY <2>1
  <2>. QED BY <2>1, <2>2
<1>4. RailTypes /\ Feeds
  BY DEF RailInv
<1>. QED BY <1>1, <1>2, <1>3, <1>4, MirrorMoves

LEMMA applyOneKeeps ==
    ASSUME RailInv, applyOne
    PROVE  RailInv'
<1>1. PICK n, z, k : n = Head(todo) /\ z = Len(todo) /\ k = Len(mem.feed)
  OBVIOUS
<1>2. /\ phase = "applying" /\ todo # <<>> /\ todo' = Tail(todo)
      /\ ~OpGap(n) /\ ~Diverged(n)
      /\ UNCHANGED <<landed, file, phase, upTo, db, lost>>
  BY <1>1 DEF applyOne
<1>3. PICK v, feed, reg :
         /\ v = IF landed[n] = "batch" THEN Verdict(n) ELSE "none"
         /\ feed = addEvent(n, v)
         /\ reg = IF landed[n] = "batch" THEN recordBatch(n) ELSE mem.registry
  OBVIOUS
<1>4. /\ mem' = [mirror |-> Mirrored(n), feed |-> feed, registry |-> reg,
                 cursor |-> mem.cursor]
  <2>1. mem = [mirror |-> mem.mirror, feed |-> mem.feed,
               registry |-> mem.registry, cursor |-> mem.cursor]
    BY DEF RailInv, RailTypes
  <2>2. mem' = [mem EXCEPT !.mirror = Mirrored(n), !.registry = reg, !.feed = feed]
    BY <1>1, <1>3 DEF applyOne
  <2>. QED BY <2>1, <2>2
<1>5. /\ mem'.mirror = Mirrored(n) /\ mem'.feed = feed /\ mem'.registry = reg
      /\ mem'.cursor = mem.cursor
  BY <1>4
<1>6. /\ todo \in Seq(Nat) /\ z \in Nat \ {0} /\ k \in Nat /\ n = todo[1]
      /\ n \in 1..Len(landed) /\ n \in Nat
  <2>1. todo \in Seq(Nat) /\ \A i \in 1..Len(todo) : todo[i] \in 1..Len(landed)
    BY DEF RailInv, RailTypes
  <2>2. 1 \in 1..Len(todo) /\ z \in Nat \ {0} /\ n = todo[1]
    BY <1>1, <1>2, <2>1
  <2>3. k \in Nat
    BY <1>1 DEF RailInv, Feeds, FeedOf
  <2>. QED BY <2>1, <2>2, <2>3
<1>7. /\ FeedOf(feed, landed) /\ RegistryOf(reg, feed, landed)
      /\ StartsWith(feed, mem.feed)
      /\ \/ feed = mem.feed /\ \E i \in 1..Len(mem.feed) : mem.feed[i].tx = n
         \/ Len(feed) = Len(mem.feed) + 1 /\ feed[Len(feed)].tx = n
  <2>1. RailInv /\ n \in 1..Len(landed) /\ n \in Nat
    BY <1>6
  <2>2. v = IF landed[n] = "batch" THEN Verdict(n) ELSE "none"
    BY <1>3
  <2>3. feed = addEvent(n, v)
    BY <1>3
  <2>4. reg = IF landed[n] = "batch" THEN recordBatch(n) ELSE mem.registry
    BY <1>3
  <2>. QED BY ONLY <2>1, <2>2, <2>3, <2>4, Recorded
<1>8. /\ todo' \in Seq(Nat) /\ Len(todo') = z - 1
      /\ \A i \in 1..(z - 1) : todo'[i] = todo[i + 1] /\ i + 1 \in 1..z
  BY <1>1, <1>2, <1>6
<1>9. RailTypes'
  <2>1. \A i \in 1..Len(todo') : todo'[i] \in 1..Len(landed)
    BY <1>1, <1>8 DEF RailInv, RailTypes
  <2>2. mem' = [mirror |-> mem'.mirror, feed |-> mem'.feed,
                registry |-> mem'.registry, cursor |-> mem'.cursor]
    BY <1>4, <1>5
  <2>. QED BY <1>2, <1>5, <1>8, <2>1, <2>2 DEF RailInv, RailTypes
<1>10. Feeds'
  <2>1. StartsWith(mem.feed, db.feed)
    BY <1>2 DEF RailInv, Feeds
  <2>2. StartsWith(feed, db.feed)
    <3>1. PICK d, m : d = db.feed /\ m = mem.feed
      OBVIOUS
    <3>2. /\ Len(d) \in Nat /\ Len(m) \in Nat /\ Len(feed) \in Nat
          /\ Len(d) <= Len(m) /\ Len(m) <= Len(feed)
          /\ \A i \in 1..Len(d) : m[i] = d[i]
          /\ \A i \in 1..Len(m) : feed[i] = m[i]
      <4>1. StartsWith(m, d) /\ StartsWith(feed, m)
        BY <1>7, <2>1, <3>1
      <4>2. FeedOf(d, landed) /\ FeedOf(m, landed)
        BY <3>1 DEF RailInv, Feeds
      <4>. QED BY <1>7, <4>1, <4>2 DEF StartsWith, FeedOf
    <3>3. StartsWith(feed, d)
      BY <3>2 DEF StartsWith
    <3>. QED BY <3>1, <3>3
  <2>. QED BY <1>2, <1>5, <1>7, <2>2 DEF RailInv, Feeds
<1>11. Registry'
  BY <1>2, <1>5, <1>7 DEF Registry
<1>12. ASSUME lost <= 1 PROVE Tracks'
  <2>1. Tracks /\ InOrderOf(mem.feed)
    BY <1>12 DEF RailInv, Tracks
  <2>2. InPlace => ~(n = k + 2)
    BY <1>1, <1>2, <1>6, <2>1, MirrorMoves DEF RailInv
  <2>3. n <= k + 1
    BY <1>1, <1>2, <1>12, <2>2, HeadOfPass
  <2>4. /\ InOrderOf(feed) /\ Len(feed) \in Nat
        /\ \/ n <= k /\ Len(feed) = k
           \/ n = k + 1 /\ Len(feed) = k + 1
    <3>1. PICK m : m = mem.feed
      OBVIOUS
    <3>2. /\ k = Len(m) /\ \A i \in 1..k : m[i].tx = i /\ feed[i] = m[i]
      BY <1>1, <1>7, <2>1, <3>1 DEF StartsWith, InOrderOf
    <3>3. /\ Len(feed) \in Nat
          /\ \A i, j \in 1..Len(feed) : feed[i].tx = feed[j].tx => i = j
      BY <1>7 DEF FeedOf
    <3>4. CASE feed = m /\ \E i \in 1..Len(m) : m[i].tx = n
      BY <1>6, <3>2, <3>3, <3>4 DEF InOrderOf
    <3>5. CASE Len(feed) = k + 1 /\ feed[Len(feed)].tx = n
      <4>1. k + 1 \in 1..Len(feed) /\ feed[k + 1].tx = n /\ \A i \in 1..k : i \in 1..Len(feed)
        BY <1>6, <3>5
      <4>2. ~(n <= k)
        <5>1. SUFFICES ASSUME n <= k PROVE FALSE
          OBVIOUS
        <5>2. n \in 1..k
          BY <1>6, <5>1
        <5>3. feed[n].tx = n
          BY <3>2, <5>2
        <5>. QED BY <1>6, <3>3, <4>1, <5>2, <5>3
      <4>3. n = k + 1
        BY <1>6, <2>3, <4>2
      <4>4. \A i \in 1..Len(feed) : feed[i].tx = i
        <5>1. \A i \in 1..Len(feed) : i \in 1..k \/ i = k + 1
          BY <1>6, <3>5
        <5>. QED BY <3>2, <4>1, <4>3, <5>1
      <4>. QED BY <1>6, <3>3, <3>5, <4>3, <4>4 DEF InOrderOf
    <3>. QED BY <1>1, <1>7, <3>1, <3>4, <3>5
  <2>5. ASSUME InPlace PROVE InPlace'
    <3>1. /\ n <= k => Mirrored(n) = mem.mirror
          /\ n = k + 1 => Mirrored(n) = Tree(landed)[n]
      BY <1>1, <1>6, <2>1, <2>3, <2>5, MirrorMoves DEF RailInv
    <3>2. mem.mirror = Tree(landed)[k]
      BY <1>1, <2>5 DEF InPlace
    <3>3. Mirrored(n) = Tree(landed)[Len(feed)]
      BY <1>6, <2>4, <3>1, <3>2
    <3>. QED BY <1>2, <1>5, <3>3 DEF InPlace
  <2>6. PICK q : q = Len(feed)
    OBVIOUS
  <2>7. q \in Nat /\ q >= k /\ q >= n
    BY <1>6, <2>4, <2>6
  <2>8. ASSUME Straight(k) PROVE Straight(q)'
    <3>1. PICK h \in 1..(k + 1) : /\ \A i \in 1..z : todo[i] = h + i - 1
                                  /\ upTo = h + z - 1
      BY <1>1, <2>8 DEF Straight
    <3>2. n = h
      BY <1>6, <3>1
    <3>3. h + 1 \in 1..(q + 1)
      BY <1>6, <2>7, <3>2
    <3>4. \A i \in 1..Len(todo') : todo'[i] = (h + 1) + i - 1
      BY <1>6, <1>8, <3>1
    <3>5. upTo' = (h + 1) + Len(todo') - 1
      <4>1. h \in Nat /\ upTo = h + z - 1 /\ upTo' = upTo /\ Len(todo') = z - 1
        BY <1>2, <1>6, <1>8, <3>1
      <4>. QED BY <1>6, <4>1
    <3>. QED BY <3>3, <3>4, <3>5 DEF Straight
  <2>9. ASSUME Holed(k) PROVE Straight(q)' \/ Holed(q)'
    <3>1. PICK h \in 1..(k + 1) : \E m \in h..(h + z - 1) :
             /\ \A i \in 1..z : todo[i] = IF h + i - 1 < m THEN h + i - 1 ELSE h + i
             /\ upTo = h + z
      BY <1>1, <2>9 DEF Holed
    <3>2. PICK m \in h..(h + z - 1) :
             /\ \A i \in 1..z : todo[i] = IF h + i - 1 < m THEN h + i - 1 ELSE h + i
             /\ upTo = h + z
      BY <3>1
    <3>3. h \in Nat /\ m \in Nat /\ 1 \in 1..z
      BY <1>6, <3>2
    <3>4. CASE m = h
      <4>1. n = h + 1
        BY <1>6, <3>2, <3>3, <3>4
      <4>2. h + 2 \in 1..(q + 1)
        BY <2>7, <3>3, <4>1
      <4>3. \A i \in 1..Len(todo') : todo'[i] = (h + 2) + i - 1
        BY <1>6, <1>8, <3>2, <3>3, <3>4
      <4>4. upTo' = (h + 2) + Len(todo') - 1
        BY <1>2, <1>6, <1>8, <3>2, <3>3
      <4>. QED BY <4>2, <4>3, <4>4 DEF Straight
    <3>5. CASE m # h
      <4>1. n = h
        BY <1>6, <3>2, <3>3, <3>5
      <4>2. h + 1 \in 1..(q + 1)
        BY <2>7, <3>3, <4>1
      <4>3. m \in (h + 1)..((h + 1) + Len(todo') - 1)
        BY <1>6, <1>8, <3>2, <3>3, <3>5
      <4>4. \A i \in 1..Len(todo') : todo'[i] = IF (h + 1) + i - 1 < m
                                                THEN (h + 1) + i - 1 ELSE (h + 1) + i
        BY <1>6, <1>8, <3>2, <3>3
      <4>5. upTo' = (h + 1) + Len(todo')
        BY <1>2, <1>6, <1>8, <3>2, <3>3
      <4>. QED BY <4>2, <4>3, <4>4, <4>5 DEF Holed
    <3>. QED BY <3>4, <3>5
  <2>10. \/ Straight(q)'
         \/ InPlace' /\ lost' = 1 /\ Holed(q)'
    BY <1>1, <1>2, <2>1, <2>5, <2>8, <2>9 DEF Tracks
  <2>11. /\ InOrderOf(db.feed) /\ db.cursor <= Len(db.feed)
         /\ mem.cursor <= k /\ (lost = 0 => InPlace)
    BY <1>1, <1>2, <2>1 DEF Tracks
  <2>12. mem.cursor <= q
    <3>1. mem.cursor \in Nat
      BY DEF RailInv, RailTypes
    <3>. QED BY <1>6, <2>7, <2>11, <3>1
  <2>13. Len(mem'.feed) = q
    BY <1>5, <2>6
  <2>14. \/ Straight(Len(mem.feed))'
         \/ InPlace' /\ lost' = 1 /\ Holed(Len(mem.feed))'
    BY <2>10, <2>13 DEF Straight, Holed
  <2>. QED BY <1>2, <1>5, <2>4, <2>5, <2>6, <2>11, <2>12, <2>13, <2>14 DEF Tracks
<1>. QED BY <1>2, <1>9, <1>10, <1>11, <1>12 DEF RailInv

LEMMA applyThrowsKeeps ==
    ASSUME RailInv, applyThrows
    PROVE  RailInv'
<1>1. PICK n : n = Head(todo)
  OBVIOUS
<1>2. /\ phase = "applying" /\ todo # <<>> /\ (OpGap(n) \/ Diverged(n))
      /\ todo' = <<>> /\ upTo' = 0 /\ UNCHANGED <<landed, file, db, lost>>
  BY <1>1 DEF applyThrows
<1>3. \/ MemStep
      \/ mem' = [mem EXCEPT !.mirror = Mirrored(n)] /\ phase' = "idle"
  BY <1>1, <1>2 DEF applyThrows, MemStep
<1>4. CASE MemStep
  BY <1>2, <1>4, Rests DEF DbStep
<1>5. CASE mem' = [mem EXCEPT !.mirror = Mirrored(n)] /\ phase' = "idle"
  <2>1. lost <= 1 => lost # 0
    <3>1. SUFFICES ASSUME lost = 0 PROVE FALSE
      OBVIOUS
    <3>. QED BY <1>1, <1>2, <3>1, NoThrow
  <2>2. mem' = [mirror |-> Mirrored(n), feed |-> mem.feed,
                registry |-> mem.registry, cursor |-> mem.cursor]
    <3>1. mem = [mirror |-> mem.mirror, feed |-> mem.feed,
                 registry |-> mem.registry, cursor |-> mem.cursor]
      BY DEF RailInv, RailTypes
    <3>. QED BY <1>5, <3>1
  <2>3. /\ mem'.feed = mem.feed /\ mem'.registry = mem.registry /\ mem'.cursor = mem.cursor
        /\ mem' = [mirror |-> mem'.mirror, feed |-> mem'.feed,
                   registry |-> mem'.registry, cursor |-> mem'.cursor]
    BY <2>2
  <2>4. RailTypes'
    BY <1>2, <2>3 DEF RailInv, RailTypes
  <2>5. Feeds' /\ Registry'
    BY <1>2, <2>3 DEF RailInv, Feeds, Registry
  <2>6. lost' <= 1 => Tracks'
    BY <1>2, <1>5, <2>1, <2>3 DEF RailInv, Tracks
  <2>. QED BY <2>4, <2>5, <2>6 DEF RailInv
<1>. QED BY <1>3, <1>4, <1>5

LEMMA CommitKeeps ==
    ASSUME RailInv, Commit
    PROVE  RailInv'
<1>1. /\ phase = "applying" /\ todo = <<>> /\ phase' = "asserting"
      /\ UNCHANGED <<landed, file, todo, upTo, lost>>
  BY DEF Commit, Applied
<1>2. CASE UNCHANGED <<db, mem>>
  <2>1. MemStep /\ DbStep /\ upTo' \in Nat /\ todo' = <<>>
    BY <1>1, <1>2 DEF MemStep, DbStep, RailInv, RailTypes
  <2>. QED BY <1>1, <2>1, Rests
<1>3. CASE db' = Flushed /\ mem' = [mem EXCEPT !.cursor = db'.cursor]
  <2>1. Applied
    BY DEF Commit
  <2>2. DbStep
    BY <1>3, <2>1, FlushedIs
  <2>3. Upserted = mem.feed
    BY <1>1, UpsertedIs DEF RailInv
  <2>4. db'.feed = mem.feed /\ db'.cursor = upTo
    BY <1>3, <2>3 DEF Flushed
  <2>5. mem' = [mirror |-> mem.mirror, feed |-> mem.feed,
                registry |-> mem.registry, cursor |-> upTo]
    <3>1. mem = [mirror |-> mem.mirror, feed |-> mem.feed,
                 registry |-> mem.registry, cursor |-> mem.cursor]
      BY DEF RailInv, RailTypes
    <3>. QED BY <1>3, <2>4, <3>1
  <2>6. /\ mem'.mirror = mem.mirror /\ mem'.feed = mem.feed
        /\ mem'.registry = mem.registry /\ mem'.cursor = upTo
        /\ mem' = [mirror |-> mem'.mirror, feed |-> mem'.feed,
                   registry |-> mem'.registry, cursor |-> mem'.cursor]
    BY <2>5
  <2>7. /\ FeedOf(db'.feed, landed) /\ db'.cursor \in Nat
        /\ StartsWith(mem.feed, db'.feed)
        /\ lost <= 1 => InOrderOf(db'.feed) /\ db'.cursor <= Len(db'.feed)
    BY <1>1, <2>2, DbMoves
  <2>8. RailTypes'
    BY <1>1, <2>4, <2>6, <2>7 DEF RailInv, RailTypes
  <2>9. Feeds' /\ Registry'
    BY <1>1, <2>6, <2>7 DEF RailInv, Feeds, Registry
  <2>10. lost' <= 1 => Tracks'
    <3>1. SUFFICES ASSUME lost <= 1 PROVE Tracks'
      BY <1>1
    <3>2. upTo <= Len(mem.feed)
      BY <1>1, <3>1, PassIsOver
    <3>3. InOrderOf(mem.feed) /\ (lost = 0 => InPlace)
      BY <1>1, <3>1 DEF RailInv, Tracks
    <3>4. InPlace => InPlace'
      BY <1>1, <2>6 DEF InPlace
    <3>. QED BY <1>1, <2>6, <2>7, <3>1, <3>2, <3>3, <3>4 DEF Tracks
  <2>. QED BY <2>8, <2>9, <2>10 DEF RailInv
<1>. QED BY <1>2, <1>3 DEF Commit

LEMMA RailRests ==
    ASSUME RailInv,
           \/ RollBack \/ CommitUnheard \/ AssertHead \/ HeadLags \/ Crash
           \/ UNCHANGED vars
    PROVE  RailInv'
<1>1. CASE RollBack
  BY <1>1, Rests DEF RollBack, Applied, PassFails, MemStep, DbStep
<1>2. CASE CommitUnheard
  <2>1. Applied /\ db' = Flushed
    BY <1>2 DEF CommitUnheard
  <2>2. DbStep
    BY <2>1, FlushedIs
  <2>. QED BY <1>2, <2>2, Rests DEF CommitUnheard, Applied, PassFails, MemStep
<1>3. CASE AssertHead
  BY <1>3, Rests DEF AssertHead, PassFails, MemStep, DbStep
<1>4. CASE HeadLags
  BY <1>4, Rests DEF HeadLags, PassFails, MemStep, DbStep
<1>5. CASE Crash
  BY <1>5, Rests DEF Crash, MemStep, DbStep
<1>6. CASE UNCHANGED vars
  <2>1. /\ mem' = mem /\ db' = db /\ todo' = todo /\ upTo' = upTo
        /\ landed' = landed /\ file' = file /\ lost' = lost /\ phase' = phase
    BY <1>6 DEF vars
  <2>2. RailTypes' /\ Feeds' /\ Registry'
    BY <2>1 DEF RailInv, RailTypes, Feeds, Registry
  <2>3. Tracks => Tracks'
    BY <2>1 DEF Tracks, InPlace, Straight, Holed
  <2>. QED BY <2>1, <2>2, <2>3 DEF RailInv
<1>. QED BY <1>1, <1>2, <1>3, <1>4, <1>5, <1>6

\* Every reachable state of the rail's indexer has the invariant.
THEOREM RailInvariant == Spec => []RailInv
<1>1. RailInv /\ [Next]_vars => RailInv'
  <2>1. SUFFICES ASSUME RailInv, [Next]_vars PROVE RailInv'
    OBVIOUS
  <2>2. CASE Land
    BY <2>1, <2>2, LandKeeps
  <2>3. CASE \E tx \in 1..MaxTxs : Swap(tx)
    BY <2>1, <2>3, SwapKeeps
  <2>4. CASE Pass
    BY <2>1, <2>4, bootKeeps, txsSinceKeeps, applyOneKeeps, applyThrowsKeeps, CommitKeeps,
       RailRests DEF Pass
  <2>5. CASE AnswerLost
    BY <2>1, <2>5, AnswerLostKeeps
  <2>6. CASE RollBack \/ CommitUnheard \/ HeadLags \/ Crash \/ UNCHANGED vars
    BY <2>1, <2>6, RailRests
  <2>. QED BY <2>1, <2>2, <2>3, <2>4, <2>5, <2>6 DEF Next
<1>. QED BY <1>1, RailInitInv, PTL DEF Spec

\* Whatever crashes, is rolled back, committed unheard or fetched twice, and with one
\* answer missing: the rows are the first operations of the ledger, and rebuild its tree.
THEOREM RailRowsTellTheLedger == Spec => [](lost <= 1 => RowsTellTheLedger)
<1>1. RailInv => (lost <= 1 => RowsTellTheLedger)
  <2>1. SUFFICES ASSUME RailInv, lost <= 1 PROVE RowsTellTheLedger
    OBVIOUS
  <2>2. PICK rows, c : rows = db.feed /\ c = db.cursor
    OBVIOUS
  <2>3. landed \in Seq(LedgerKind) /\ FeedOf(rows, landed)
    BY <2>1, <2>2 DEF RailInv, RailTypes, Feeds
  <2>4. InOrderOf(rows) /\ c <= Len(rows)
    BY <2>1, <2>2 DEF RailInv, Tracks
  <2>5. rows \in Seq(Row)
    BY <2>3 DEF FeedOf
  <2>6. Len(rows) \in Nat /\ Len(landed) \in Nat /\ Len(rows) <= Len(landed)
    <3>1. Len(rows) \in 0..Len(landed)
      BY <2>3, <2>4, FeedLength
    <3>. QED BY <2>3, <3>1
  <2>7. Rebuilt(rows) = TreeAfter[Len(rows)]
    <3>1. Rebuilt(rows) = Tree(landed)[Len(rows)]
      BY ONLY <2>3, <2>4, <2>5, <2>6, RebuiltIs
    <3>2. TreeAfter = Tree(landed)
      BY <2>3, TreeAfterIs
    <3>. QED BY <3>1, <3>2
  <2>. QED BY <2>2, <2>4, <2>6, <2>7 DEF RowsTellTheLedger, InOrderOf
<1>. QED BY <1>1, RailInvariant, PTL

\* However often an answer is missing: a failing verdict on the bytes that are served
\* is listed once, by the feed entry or by the registry.
THEOREM RailVerdictsAreToldOnce == Spec => []VerdictsAreToldOnce
<1>1. RailInv => VerdictsAreToldOnce
  <2>1. SUFFICES ASSUME RailInv, NEW n \in DOMAIN mem.registry,
                        NEW b, b = mem.registry[n],
                        NEW told, told = {i \in StoreAlarms(n) : mem.feed[i].verdict = b.held}
                 PROVE  /\ b.held = "verified" => alarms(n) = {}
                        /\ b.held \notin {"none", "verified"} =>
                             IF told = {} THEN alarms(n) = {b.held} ELSE alarms(n) = {}
    BY DEF VerdictsAreToldOnce
  <2>2. b.held = "verified" => alarms(n) = {}
    BY <2>1 DEF alarms
  <2>3. ASSUME b.held \notin {"none", "verified"}
        PROVE  IF told = {} THEN alarms(n) = {b.held} ELSE alarms(n) = {}
    <3>1. PICK feed : feed = mem.feed
      OBVIOUS
    <3>2. RegistryOf(mem.registry, feed, landed) /\ FeedOf(feed, landed)
      BY <2>1, <3>1 DEF RailInv, Registry, Feeds
    <3>3. PICK j \in 1..Len(feed) : landed[feed[j].tx] = "batch" /\ feed[j].tx = n
      BY <2>1, <3>2 DEF RegistryOf
    <3>4. b.baked <=> feed[j].verdict = b.held
      BY <2>1, <2>3, <3>2, <3>3 DEF RegistryOf
    <3>5. DOMAIN feed = 1..Len(feed) /\ \A i \in 1..Len(feed) : feed[i].tx = n => i = j
      BY <3>2, <3>3 DEF FeedOf
    <3>6. told # {} <=> feed[j].verdict = b.held
      BY <2>1, <2>3, <3>1, <3>3, <3>5 DEF StoreAlarms
    <3>7. alarms(n) = IF b.baked THEN {} ELSE {b.held}
      BY <2>1, <2>3 DEF alarms
    <3>. QED BY <3>4, <3>6, <3>7
  <2>. QED BY <2>2, <2>3
<1>. QED BY <1>1, RailInvariant, PTL
=============================================================================
