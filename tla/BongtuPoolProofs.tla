-------------------------- MODULE BongtuPoolProofs --------------------------
(***************************************************************************)
(* What BongtuPool guarantees for every set of notes and values, every     *)
(* batch size, capacity and arity, and any number of accounts; and, in the *)
(* second part, what it guarantees together with its op modules.  The      *)
(* first part cites nothing of the modules.                                *)
(***************************************************************************)
EXTENDS ConsumerModules, SharedLemmas

-----------------------------------------------------------------------------
(***************************************************************************)
(* The tree.  TreeOK is what an op finds and must leave; Grows is what no  *)
(* op may undo.                                                            *)
(***************************************************************************)
TreeOK == /\ leaves \in Seq(Commitment)
          /\ knownRoots \subseteq Root
          /\ \A r \in knownRoots : r \subseteq RootOf(leaves)
          /\ RootOf(leaves) \in knownRoots

Grows == /\ Continues(leaves, leaves')
         /\ Committed \subseteq Committed'
         /\ knownRoots \subseteq knownRoots'

LEMMA ContinuesItself ==
    ASSUME NEW S, NEW s \in Seq(S)
    PROVE  Continues(s, s)
BY DEF Continues

LEMMA MembersAreCommitted ==
    ASSUME leaves \in Seq(Commitment), NEW r, r \subseteq RootOf(leaves)
    PROVE  Members(r) \subseteq Committed
<1>1. ASSUME NEW p \in r PROVE p[2] \in Committed
  <2>1. PICK i \in DOMAIN leaves : leaves[i] # Zero /\ p = <<i - 1, leaves[i]>>
    BY DEF RootOf
  <2>. QED BY <2>1 DEF Committed
<1>. QED BY <1>1 DEF Members

LEMMA ConcatGrows ==
    ASSUME leaves \in Seq(Commitment), NEW new \in Seq(Commitment),
           leaves' = leaves \o new
    PROVE  /\ leaves' \in Seq(Commitment)
           /\ Continues(leaves, leaves')
           /\ Committed \subseteq Committed'
           /\ RootOf(leaves) \subseteq RootOf(leaves')
           /\ RootOf(leaves') \in Root
<1>1. /\ leaves' \in Seq(Commitment)
      /\ Len(leaves') = Len(leaves) + Len(new)
      /\ \A j \in 1..Len(leaves) : leaves[j] = leaves'[j]
  OBVIOUS
<1>2. Len(leaves) <= Len(leaves')
  BY <1>1
<1>3. RootOf(leaves) \subseteq RootOf(leaves')
  BY <1>1, <1>2, RootOfPrefix
<1>4. RootOf(leaves') \in Root
  <2>1. ASSUME NEW t \in Seq(Commitment) PROVE RootOf(t) \in Root
    BY RootOfPrefix
  <2>. QED BY <1>1, <2>1
<1>5. Committed \subseteq Committed'
  BY <1>1, <1>2 DEF Committed
<1>6. Continues(leaves, leaves')
  BY <1>1, <1>2 DEF Continues
<1>. QED BY <1>1, <1>3, <1>4, <1>5, <1>6

LEMMA AppendLeavesGrows ==
    ASSUME TreeOK, NEW cms \in Seq(Commitment), AppendLeaves(cms)
    PROVE  TreeOK' /\ Grows
<1>1. leaves \in Seq(Commitment) /\ leaves' = leaves \o cms
  BY DEF TreeOK, AppendLeaves
<1>2. /\ leaves' \in Seq(Commitment)
      /\ Continues(leaves, leaves')
      /\ Committed \subseteq Committed'
      /\ RootOf(leaves) \subseteq RootOf(leaves')
      /\ RootOf(leaves') \in Root
  BY <1>1, ConcatGrows
<1>3. ASSUME NEW i \in 1..Len(cms)
      PROVE  /\ RootOf(leaves \o SubSeq(cms, 1, i)) \subseteq RootOf(leaves')
             /\ RootOf(leaves \o SubSeq(cms, 1, i)) \in Root
  <2> DEFINE part == leaves \o SubSeq(cms, 1, i)
  <2>1. SubSeq(cms, 1, i) \in Seq(Commitment) /\ Len(SubSeq(cms, 1, i)) = i
    OBVIOUS
  <2>2. /\ part \in Seq(Commitment)
        /\ Len(part) = Len(leaves) + i
        /\ Len(leaves') = Len(leaves) + Len(cms)
    BY <1>1, <2>1
  <2>3. ASSUME NEW j \in 1..Len(part) PROVE part[j] = leaves'[j]
    <3>1. CASE j <= Len(leaves)
      BY <1>1, <2>1, <3>1
    <3>2. CASE j > Len(leaves)
      <4>1. j - Len(leaves) \in 1..i
        BY <1>1, <2>2, <3>2
      <4>2. part[j] = cms[j - Len(leaves)]
        BY <1>1, <2>1, <2>2, <3>2, <4>1
      <4>3. leaves'[j] = cms[j - Len(leaves)]
        BY <1>1, <2>2, <3>2, <4>1
      <4>. QED BY <4>2, <4>3
    <3>. QED BY <1>1, <2>2, <3>1, <3>2
  <2>4. Len(part) <= Len(leaves')
    BY <1>1, <2>2
  <2>. HIDE DEF part
  <2>5. RootOf(part) \subseteq RootOf(leaves') /\ RootOf(part) \in Root
    BY <1>2, <2>2, <2>3, <2>4, RootOfPrefix
  <2>. QED BY <2>5 DEF part
<1>4. knownRoots' = knownRoots \cup
          {RootOf(leaves \o SubSeq(cms, 1, i)) : i \in 1..Len(cms)}
  BY DEF AppendLeaves
<1>5. RootOf(leaves') \in knownRoots'
  <2>1. CASE Len(cms) = 0
    BY <1>1, <1>4, <2>1 DEF TreeOK
  <2>2. CASE Len(cms) # 0
    <3>1. Len(cms) \in 1..Len(cms) /\ SubSeq(cms, 1, Len(cms)) = cms
      BY <2>2
    <3>. QED BY <1>1, <1>4, <3>1
  <2>. QED BY <2>1, <2>2
<1>. QED BY <1>2, <1>3, <1>4, <1>5 DEF TreeOK, Grows

LEMMA AttachSubtreeGrows ==
    ASSUME TreeOK, NEW cms \in Seq(Commitment), AttachSubtree(cms)
    PROVE  TreeOK' /\ Grows
<1>1. Padding \in Seq(Commitment)
  <2>1. Len(leaves) \in Nat /\ B \in Nat \ {0}
    BY PoolAssumption DEF TreeOK
  <2>2. (B - (Len(leaves) % B)) % B \in Nat
    BY <2>1
  <2>. QED BY <2>2 DEF Padding, Commitment
<1>2. Padding \o cms \in Seq(Commitment)
  BY <1>1
<1>3. leaves' = leaves \o (Padding \o cms)
  <2>1. leaves' = leaves \o Padding \o cms /\ leaves \in Seq(Commitment)
    BY DEF AttachSubtree, TreeOK
  <2>. QED BY <1>1, <2>1
<1>4. /\ leaves' \in Seq(Commitment)
      /\ Continues(leaves, leaves')
      /\ Committed \subseteq Committed'
      /\ RootOf(leaves) \subseteq RootOf(leaves')
      /\ RootOf(leaves') \in Root
  BY <1>2, <1>3, ConcatGrows DEF TreeOK
<1>. QED BY <1>4 DEF TreeOK, Grows, AttachSubtree

-----------------------------------------------------------------------------
(***************************************************************************)
(* The nullifiers a proof reveals under a known root are those of notes    *)
(* the tree holds.                                                         *)
(***************************************************************************)
LEMMA SpendIsOfCommitted ==
    ASSUME TreeOK, NoPhantomSpend, nullifierUsed \subseteq Note,
           NEW nfs, NEW root \in knownRoots,
           \A i \in DOMAIN nfs : /\ nfs[i] \in Commitment
                                 /\ nfs[i] # Zero => nfs[i] \in Members(root),
           SpendNullifiers(nfs)
    PROVE  /\ nullifierUsed' \subseteq Committed
           /\ nullifierUsed' \subseteq Note
           /\ nullifierUsed \subseteq nullifierUsed'
<1>1. Members(root) \subseteq Committed
  BY MembersAreCommitted DEF TreeOK
<1>2. {nfs[i] : i \in DOMAIN nfs} \ {Zero} \subseteq Committed \cap Note
  BY <1>1 DEF Commitment
<1>. QED BY <1>2 DEF SpendNullifiers, NoPhantomSpend

-----------------------------------------------------------------------------
(***************************************************************************)
(* The inductive invariant.  TypeOK is not inductive: a pending transfer   *)
(* must be backed for the balances to stay natural numbers.  Nor are the   *)
(* two tree properties: a spend marks only committed notes because known   *)
(* roots tell the tree, and before initialization there is no tree.        *)
(***************************************************************************)
Backed == call # NoCall => call.amount <= balance[call.from]

Fresh == ~initialized =>
             leaves = <<>> /\ knownRoots = {} /\ arbiterEpochs = <<>>

InitializedOnce == version = 0 <=> ~initialized

Inv == TypeOK /\ Backed /\ Fresh /\ InitializedOnce
          /\ RootsTellTheTree /\ NoPhantomSpend

\* The body of AppendOnly: what a step never takes back.
Extends ==
    /\ Continues(leaves, leaves')
    /\ knownRoots \subseteq knownRoots'
    /\ nullifierUsed \subseteq nullifierUsed'
    /\ Continues(arbiterEpochs, arbiterEpochs')

LEMMA TreeOfInv ==
    ASSUME Inv, initialized
    PROVE  TreeOK
BY DEF Inv, TypeOK, RootsTellTheTree, TreeOK

\* What an op leaves of the invariant, from what it does to each part.
LEMMA OpKeepsInv ==
    ASSUME Inv, initialized, UNCHANGED adminVars, TreeOK', Grows,
           nullifierUsed' \subseteq Committed', nullifierUsed' \subseteq Note,
           nullifierUsed \subseteq nullifierUsed',
           balance' \in [Holder -> Nat], call' \in Call \cup {NoCall}, Backed'
    PROVE  Inv' /\ Extends
<1>1. TypeOK'
  BY DEF Inv, TypeOK, TreeOK, adminVars
<1>2. Fresh' /\ InitializedOnce'
  BY DEF Inv, Fresh, InitializedOnce, initialized, adminVars
<1>3. RootsTellTheTree' /\ NoPhantomSpend'
  BY DEF TreeOK, RootsTellTheTree, NoPhantomSpend
<1>4. arbiterEpochs' = arbiterEpochs /\ arbiterEpochs \in Seq(Key)
  BY DEF Inv, TypeOK, adminVars
<1>5. Continues(arbiterEpochs, arbiterEpochs')
  BY <1>4, ContinuesItself
<1>. QED BY <1>1, <1>2, <1>3, <1>5 DEF Inv, Grows, Extends

\* An administrative step that leaves the tree and the money alone.
LEMMA AdminKeepsInv ==
    ASSUME Inv, initialized, profile' = profile, version' \in 1..3,
           verifiers' \subseteq EnterpriseOp, arbiterEpochs' \in Seq(Key),
           Continues(arbiterEpochs, arbiterEpochs'),
           registeredModules' \subseteq Module,
           UNCHANGED <<treeVars, nullifierUsed, balance, call>>
    PROVE  Inv' /\ Extends
<1>. USE DEF treeVars
<1>1. TypeOK'
  BY DEF Inv, TypeOK
<1>2. Backed' /\ Fresh' /\ InitializedOnce'
  BY DEF Inv, Backed, Fresh, InitializedOnce, initialized
<1>3. RootsTellTheTree' /\ NoPhantomSpend'
  BY DEF Inv, RootsTellTheTree, NoPhantomSpend, initialized, Committed
<1>4. Continues(leaves, leaves')
  BY ContinuesItself DEF Inv, TypeOK
<1>. QED BY <1>1, <1>2, <1>3, <1>4 DEF Inv, Extends

LEMMA CallTokenFacts ==
    ASSUME Inv, NEW from \in Holder, NEW to \in Holder, NEW amount \in Nat,
           CallToken(from, to, amount), UNCHANGED balance
    PROVE  call' \in Call \cup {NoCall} /\ Backed'
BY DEF CallToken, Call, Backed

-----------------------------------------------------------------------------
(***************************************************************************)
(* One lemma per action.                                                   *)
(***************************************************************************)
LEMMA InitInv == Init => Inv
<1>. SUFFICES ASSUME Init PROVE Inv
  OBVIOUS
<1>1. balance \in [Holder -> Nat]
  BY PoolAssumption DEF Init, Holder
<1>2. TypeOK
  BY <1>1 DEF Init, TypeOK
<1>. QED BY <1>2 DEF Init, Inv, Backed, Fresh, InitializedOnce, initialized,
                     RootsTellTheTree, NoPhantomSpend

LEMMA InitTreeInv ==
    ASSUME Inv, version = 0, version' = 1, profile' \in {"enterprise", "consumer"},
           InitTree, verifiers' \subseteq EnterpriseOp, arbiterEpochs' \in Seq(Key),
           Continues(arbiterEpochs, arbiterEpochs'),
           UNCHANGED <<registeredModules, nullifierUsed, balance, call>>
    PROVE  Inv' /\ Extends
<1>1. leaves = <<>> /\ knownRoots = {} /\ leaves' = leaves
  BY DEF Inv, InitializedOnce, Fresh, InitTree
<1>2. RootOf(<<>>) = {}
  BY DEF RootOf
<1>3. knownRoots' = {{}}
  BY <1>2 DEF InitTree
<1>4. TypeOK'
  BY <1>1, <1>3 DEF Inv, TypeOK, Root
<1>5. Backed' /\ Fresh' /\ InitializedOnce'
  BY DEF Inv, Backed, Fresh, InitializedOnce, initialized
<1>6. RootsTellTheTree' /\ NoPhantomSpend'
  BY <1>1, <1>2, <1>3 DEF Inv, RootsTellTheTree, NoPhantomSpend, Committed
<1>7. Continues(leaves, leaves')
  BY <1>1, ContinuesItself DEF Inv, TypeOK
<1>. QED BY <1>1, <1>4, <1>5, <1>6, <1>7 DEF Inv, Extends

LEMMA InitializeInv == Inv /\ Initialize => Inv' /\ Extends
<1>. SUFFICES ASSUME Inv, Initialize PROVE Inv' /\ Extends
  OBVIOUS
<1>1. arbiterEpochs' \in Seq(Key)
  BY DEF Initialize
<1>2. Continues(arbiterEpochs, arbiterEpochs')
  <2>1. arbiterEpochs = <<>>
    BY DEF Inv, Fresh, InitializedOnce, Initialize
  <2>. QED BY <1>1, <2>1 DEF Continues
<1>. QED BY <1>1, <1>2, InitTreeInv DEF Initialize

LEMMA AdminInv == Inv /\ Admin => Inv' /\ Extends
<1>. SUFFICES ASSUME Inv, Admin PROVE Inv' /\ Extends
  OBVIOUS
<1>1. arbiterEpochs \in Seq(Key) /\ version \in 0..3 /\ verifiers \subseteq EnterpriseOp
      /\ registeredModules \subseteq Module
  BY DEF Inv, TypeOK
<1>2. Continues(arbiterEpochs, arbiterEpochs)
  BY <1>1, ContinuesItself
<1>3. initialized => version \in 1..3
  BY <1>1 DEF Inv, InitializedOnce
<1>4. CASE Initialize
  BY <1>4, InitializeInv
<1>5. CASE InitializeConsumerOnly
  BY <1>1, <1>2, <1>5, InitTreeInv DEF InitializeConsumerOnly
<1>6. CASE ReinitializeV2
  BY <1>1, <1>2, <1>6, AdminKeepsInv DEF ReinitializeV2, EnterpriseOp
<1>7. ASSUME NEW modules \in SUBSET Module, ReinitializeV3(modules)
      PROVE  Inv' /\ Extends
  BY <1>1, <1>2, <1>7, AdminKeepsInv DEF ReinitializeV3
<1>8. ASSUME NEW key \in Key, RotateArbiter(key)
      PROVE  Inv' /\ Extends
  <2>1. arbiterEpochs' \in Seq(Key)
    BY <1>1, <1>8 DEF RotateArbiter
  <2>2. Continues(arbiterEpochs, arbiterEpochs')
    BY <1>1, <1>8 DEF RotateArbiter, Continues
  <2>. QED BY <1>1, <1>3, <1>8, <2>1, <2>2, AdminKeepsInv DEF RotateArbiter
<1>9. ASSUME NEW module \in Module, RegisterModule(module) \/ RemoveModule(module)
      PROVE  Inv' /\ Extends
  BY <1>1, <1>2, <1>3, <1>9, AdminKeepsInv DEF RegisterModule, RemoveModule
<1>. QED BY <1>4, <1>5, <1>6, <1>7, <1>8, <1>9 DEF Admin

LEMMA DepositInv == Inv /\ Deposit => Inv' /\ Extends
<1>. SUFFICES ASSUME Inv, Deposit PROVE Inv' /\ Extends
  OBVIOUS
<1>1. PICK from \in Account, outs \in Outputs(2) :
          AppendLeaves(Commitments(outs)) /\ CallToken(from, Pool, SlotSum(outs))
  BY DEF Deposit
<1>2. initialized /\ UNCHANGED <<adminVars, nullifierUsed, balance>>
  BY DEF Deposit, Enter
<1>3. SlotSum(outs) \in Nat /\ Commitments(outs) \in Seq(Commitment)
  BY OutputFacts
<1>4. TreeOK' /\ Grows
  BY <1>1, <1>2, <1>3, TreeOfInv, AppendLeavesGrows
<1>5. call' \in Call \cup {NoCall} /\ Backed'
  BY <1>1, <1>2, <1>3, CallTokenFacts DEF Holder
<1>6. nullifierUsed \subseteq Committed /\ nullifierUsed \subseteq Note
      /\ balance \in [Holder -> Nat]
  BY DEF Inv, NoPhantomSpend, TypeOK
<1>. QED BY <1>2, <1>4, <1>5, <1>6, OpKeepsInv DEF Grows

LEMMA SpendInv ==
    ASSUME NEW op, NEW nIn \in Nat, NEW nOut \in Nat, Inv, Spend(op, nIn, nOut)
    PROVE  Inv' /\ Extends
<1>0. PICK root \in knownRoots : \E ins \in ProvedInputs(nIn, root) :
          /\ SpendNullifiers(Nullifiers(ins))
          /\ \E outs \in Outputs(nOut) : AppendLeaves(Commitments(outs))
  BY DEF Spend
<1>1. PICK ins \in ProvedInputs(nIn, root), outs \in Outputs(nOut) :
          SpendNullifiers(Nullifiers(ins)) /\ AppendLeaves(Commitments(outs))
  BY <1>0
<1>2. initialized /\ UNCHANGED <<adminVars, balance, call>>
  BY DEF Spend, Enter
<1>3. TreeOK
  BY <1>2, TreeOfInv
<1>4. TreeOK' /\ Grows
  BY <1>1, <1>3, OutputFacts, AppendLeavesGrows
<1>5. NoPhantomSpend /\ nullifierUsed \subseteq Note
      /\ balance \in [Holder -> Nat] /\ call \in Call \cup {NoCall} /\ Backed
  BY DEF Inv, TypeOK
<1>6. /\ nullifierUsed' \subseteq Committed
      /\ nullifierUsed' \subseteq Note
      /\ nullifierUsed \subseteq nullifierUsed'
  BY <1>1, <1>3, <1>5, InputFacts, SpendIsOfCommitted
<1>7. balance' \in [Holder -> Nat] /\ call' \in Call \cup {NoCall} /\ Backed'
  BY <1>2, <1>5 DEF Backed
<1>. QED BY <1>2, <1>4, <1>6, <1>7, OpKeepsInv DEF Grows

LEMMA DisburseInv == Inv /\ Disburse => Inv' /\ Extends
<1>. SUFFICES ASSUME Inv, Disburse PROVE Inv' /\ Extends
  OBVIOUS
<1>0. PICK root \in knownRoots : \E ins \in ProvedInputs(1, root) :
          /\ SpendNullifiers(Nullifiers(ins))
          /\ \E outs \in Outputs(B) : AttachSubtree(Commitments(outs))
  BY DEF Disburse
<1>1. PICK ins \in ProvedInputs(1, root), outs \in Outputs(B) :
          SpendNullifiers(Nullifiers(ins)) /\ AttachSubtree(Commitments(outs))
  BY <1>0
<1>2. initialized /\ UNCHANGED <<adminVars, balance, call>>
  BY DEF Disburse, Enter
<1>3. TreeOK
  BY <1>2, TreeOfInv
<1>4. TreeOK' /\ Grows
  BY <1>1, <1>3, OutputFacts, AttachSubtreeGrows, PoolAssumption
<1>5. NoPhantomSpend /\ nullifierUsed \subseteq Note
      /\ balance \in [Holder -> Nat] /\ call \in Call \cup {NoCall} /\ Backed
  BY DEF Inv, TypeOK
<1>6. /\ nullifierUsed' \subseteq Committed
      /\ nullifierUsed' \subseteq Note
      /\ nullifierUsed \subseteq nullifierUsed'
  BY <1>1, <1>3, <1>5, InputFacts, SpendIsOfCommitted
<1>7. balance' \in [Holder -> Nat] /\ call' \in Call \cup {NoCall} /\ Backed'
  BY <1>2, <1>5 DEF Backed
<1>. QED BY <1>2, <1>4, <1>6, <1>7, OpKeepsInv DEF Grows

LEMMA WithdrawInv == Inv /\ Withdraw => Inv' /\ Extends
<1>. SUFFICES ASSUME Inv, Withdraw PROVE Inv' /\ Extends
  OBVIOUS
<1>0. PICK root \in knownRoots : \E ins \in ProvedInputs(2, root) :
          /\ SpendNullifiers(Nullifiers(ins))
          /\ \E outs \in Outputs(1), to \in Holder :
                /\ SlotSum(ins) >= SlotSum(outs)
                /\ AppendLeaves(Commitments(outs))
                /\ CallToken(Pool, to, SlotSum(ins) - SlotSum(outs))
  BY DEF Withdraw
<1>1. PICK ins \in ProvedInputs(2, root), outs \in Outputs(1), to \in Holder :
          /\ SpendNullifiers(Nullifiers(ins))
          /\ SlotSum(ins) >= SlotSum(outs)
          /\ AppendLeaves(Commitments(outs))
          /\ CallToken(Pool, to, SlotSum(ins) - SlotSum(outs))
  BY <1>0
<1>2. initialized /\ UNCHANGED <<adminVars, balance>>
  BY DEF Withdraw, Enter
<1>3. TreeOK
  BY <1>2, TreeOfInv
<1>4. TreeOK' /\ Grows
  BY <1>1, <1>3, OutputFacts, AppendLeavesGrows
<1>5. NoPhantomSpend /\ nullifierUsed \subseteq Note /\ balance \in [Holder -> Nat]
  BY DEF Inv, TypeOK
<1>6. /\ nullifierUsed' \subseteq Committed
      /\ nullifierUsed' \subseteq Note
      /\ nullifierUsed \subseteq nullifierUsed'
  BY <1>1, <1>3, <1>5, InputFacts, SpendIsOfCommitted
<1>7. SlotSum(ins) - SlotSum(outs) \in Nat
  <2>1. SlotSum(ins) \in Nat /\ SlotSum(outs) \in Nat
    BY InputFacts, OutputFacts
  <2>. QED BY <1>1, <2>1
<1>8. call' \in Call \cup {NoCall} /\ Backed'
  BY <1>1, <1>2, <1>7, CallTokenFacts DEF Holder
<1>. QED BY <1>2, <1>4, <1>5, <1>6, <1>8, OpKeepsInv DEF Grows

LEMMA CompleteTransferInv == Inv /\ CompleteTransfer => Inv' /\ Extends
<1>. SUFFICES ASSUME Inv, CompleteTransfer PROVE Inv' /\ Extends
  OBVIOUS
<1>1. /\ call \in Call /\ balance \in [Holder -> Nat]
      /\ call.amount <= balance[call.from]
  BY DEF Inv, TypeOK, Backed, CompleteTransfer, NotEntered
<1>2. /\ call' = NoCall
      /\ UNCHANGED <<adminVars, treeVars, nullifierUsed>>
  BY DEF CompleteTransfer
<1>3. balance' \in [Holder -> Nat]
  <2> DEFINE paid == [balance EXCEPT ![call.from] = @ - call.amount]
  <2>1. call.from \in Holder /\ call.to \in Holder /\ call.amount \in Nat
    BY <1>1 DEF Call
  <2>2. paid \in [Holder -> Nat]
    BY <1>1, <2>1
  <2>3. balance' = [paid EXCEPT ![call.to] = @ + call.amount]
    BY DEF CompleteTransfer
  <2>. QED BY <2>1, <2>2, <2>3
<1>4. TypeOK'
  BY <1>2, <1>3 DEF Inv, TypeOK, adminVars, treeVars
<1>5. Backed' /\ Fresh' /\ InitializedOnce'
  BY <1>2 DEF Inv, Backed, Fresh, InitializedOnce, initialized, adminVars, treeVars
<1>6. RootsTellTheTree' /\ NoPhantomSpend'
  BY <1>2 DEF Inv, RootsTellTheTree, NoPhantomSpend, initialized, Committed,
              adminVars, treeVars
<1>7. Extends
  BY <1>2, ContinuesItself DEF Inv, TypeOK, Extends, adminVars, treeVars
<1>. QED BY <1>4, <1>5, <1>6, <1>7 DEF Inv

LEMMA NextInv == Inv /\ [Next]_vars => Inv' /\ (Next => Extends)
<1>. SUFFICES ASSUME Inv, [Next]_vars PROVE Inv' /\ (Next => Extends)
  OBVIOUS
<1>1. CASE Admin
  BY <1>1, AdminInv
<1>2. CASE Deposit
  BY <1>2, DepositInv
<1>3. CASE Transfer \/ Transfer10 \/ Transfer10x2
  BY <1>3, SpendInv, PoolAssumption DEF Transfer, Transfer10, Transfer10x2
<1>4. CASE Disburse
  BY <1>4, DisburseInv
<1>5. CASE Withdraw
  BY <1>5, WithdrawInv
<1>6. CASE CompleteTransfer
  BY <1>6, CompleteTransferInv
<1>7. CASE UNCHANGED vars /\ ~Next
  BY <1>7 DEF vars, adminVars, treeVars, Inv, TypeOK, Backed, Fresh, InitializedOnce,
              initialized, RootsTellTheTree, NoPhantomSpend, Committed
<1>. QED BY <1>1, <1>2, <1>3, <1>4, <1>5, <1>6, <1>7 DEF Next, Enterprise

-----------------------------------------------------------------------------
(***************************************************************************)
(* The invariant holds in every reachable state of every pool.             *)
(***************************************************************************)
THEOREM PoolInvariant == Spec => []Inv
<1>1. Inv /\ [Next]_vars => Inv'
  BY NextInv
<1>. QED BY InitInv, <1>1, PTL DEF Spec

(***************************************************************************)
(* Type correctness: no balance is ever negative, though the transfer at   *)
(* the end of an op happens in a later step than its check.                *)
(***************************************************************************)
THEOREM PoolTypeCorrect == Spec => []TypeOK
<1>1. Inv => TypeOK
  BY DEF Inv
<1>. QED BY PoolInvariant, <1>1, PTL

(***************************************************************************)
(* A nullifier is used only by spending a note the tree holds.             *)
(***************************************************************************)
THEOREM PoolNoPhantomSpend == Spec => []NoPhantomSpend
<1>1. Inv => NoPhantomSpend
  BY DEF Inv
<1>. QED BY PoolInvariant, <1>1, PTL

(***************************************************************************)
(* Every known root tells leaves the tree still holds in place, and the    *)
(* root of the current tree is known: every unspent note can be proved.    *)
(***************************************************************************)
THEOREM PoolRootsTellTheTree == Spec => []RootsTellTheTree
<1>1. Inv => RootsTellTheTree
  BY DEF Inv
<1>. QED BY PoolInvariant, <1>1, PTL

(***************************************************************************)
(* No step moves a leaf, forgets a root, frees a nullifier or changes the  *)
(* key of a past epoch.                                                    *)
(***************************************************************************)
THEOREM PoolAppendOnly == Spec => AppendOnly
<1>1. Inv /\ [Next]_vars => [Extends]_vars
  BY NextInv
<1>. QED BY PoolInvariant, <1>1, PTL DEF Spec, AppendOnly, Extends

(***************************************************************************)
(* A leaf is inserted only while no token transfer is in flight.           *)
(***************************************************************************)
THEOREM PoolOpsSeeSettledEscrow == Spec => OpsSeeSettledEscrow
<1>1. ASSUME Next, leaves' # leaves PROVE NotEntered
  <2>1. CASE Admin
    BY <1>1, <2>1 DEF Admin, Initialize, InitializeConsumerOnly, ReinitializeV2,
                      ReinitializeV3, RotateArbiter, RegisterModule, RemoveModule,
                      InitTree, treeVars
  <2>2. CASE Enterprise
    BY <2>2 DEF Enterprise, Deposit, Transfer, Transfer10, Transfer10x2, Spend,
                Disburse, Withdraw, Enter
  <2>3. CASE CompleteTransfer
    BY <1>1, <2>3 DEF CompleteTransfer, treeVars
  <2>. QED BY <1>1, <2>1, <2>2, <2>3 DEF Next
<1>2. [Next]_vars => [leaves' # leaves => SettledEscrow = balance[Pool]]_vars
  BY <1>1 DEF SettledEscrow, NotEntered
<1>. QED BY <1>2, PTL DEF Spec, OpsSeeSettledEscrow

-----------------------------------------------------------------------------
(***************************************************************************)
(* The money.  Every op is one exchange of notes that are in the tree for  *)
(* notes it puts there, whatever leaves it pads the tree with.             *)
(***************************************************************************)
LEMMA LedgerWorth ==
    ASSUME NEW S
    PROVE  Ledger!WorthOf(S) = Worth(S)
BY DEF Worth, Ledger!WorthOf, SumFunctionOnSet, FoldFunctionOnSet, MapThenFoldSet,
       Ledger!SumFunctionOnSet, Ledger!FoldFunctionOnSet, Ledger!MapThenFoldSet

LEMMA UnspentFinite ==
    ASSUME leaves \in Seq(Commitment)
    PROVE  Unspent \in FiniteNotes
<1>1. Committed \in FiniteNotes
  BY NonzerosFinite DEF Committed, Nonzeros
<1>. QED BY <1>1, PartIsFinite DEF Unspent

LEMMA EscrowIsNat ==
    ASSUME Inv
    PROVE  SettledEscrow \in Nat
<1>1. balance \in [Holder -> Nat] /\ Pool \in Holder /\ balance[Pool] \in Nat
  BY DEF Inv, TypeOK, Holder
<1>2. CASE call = NoCall
  BY <1>1, <1>2 DEF SettledEscrow
<1>3. CASE call # NoCall
  <2>1. call.amount \in Nat /\ (call.from = Pool => call.amount <= balance[Pool])
    BY <1>3 DEF Inv, TypeOK, Backed, Call
  <2>. QED BY <1>1, <1>3, <2>1 DEF SettledEscrow
<1>. QED BY <1>2, <1>3

LEMMA AppendCommits ==
    ASSUME leaves \in Seq(Commitment), NEW cms \in Seq(Commitment), AppendLeaves(cms)
    PROVE  Committed' = Committed \cup Nonzeros(cms)
<1>1. leaves' = leaves \o cms
  BY DEF AppendLeaves
<1>2. Nonzeros(leaves') = Nonzeros(leaves) \cup Nonzeros(cms)
  BY <1>1, NonzerosConcat
<1>. QED BY <1>2 DEF Committed, Nonzeros

LEMMA AttachCommits ==
    ASSUME leaves \in Seq(Commitment), NEW cms \in Seq(Commitment), AttachSubtree(cms)
    PROVE  Committed' = Committed \cup Nonzeros(cms)
<1> DEFINE n == (B - (Len(leaves) % B)) % B
<1>1. n \in Nat
  BY PoolAssumption
<1>2. leaves' = leaves \o [i \in 1..n |-> Zero] \o cms
  BY DEF AttachSubtree, Padding
<1>. HIDE DEF n
<1>3. Nonzeros(leaves') = Nonzeros(leaves) \cup Nonzeros(cms)
  BY <1>1, <1>2, PaddedNonzeros
<1>. QED BY <1>3 DEF Committed, Nonzeros

LEMMA UsedIsUnspent ==
    ASSUME TreeOK, NEW nfs, NEW root \in knownRoots, SpendNullifiers(nfs),
           \A i \in DOMAIN nfs : nfs[i] # Zero => nfs[i] \in Members(root)
    PROVE  /\ Nonzeros(nfs) \subseteq Unspent
           /\ nullifierUsed' = nullifierUsed \cup Nonzeros(nfs)
<1>1. Members(root) \subseteq Committed
  BY MembersAreCommitted DEF TreeOK
<1>. QED BY <1>1 DEF SpendNullifiers, Nonzeros, Unspent

LEMMA OpExchanges ==
    ASSUME NEW used, NEW made, used \subseteq Unspent,
           Committed' = Committed \cup made, nullifierUsed' = nullifierUsed \cup used
    PROVE  Ledger!Exchange(used, made)
BY DEF Ledger!Exchange, Unspent

LEMMA MintIsLedger ==
    ASSUME NEW n \in Nat, NEW outs \in Outputs(n),
           Ledger!Exchange({}, Nonzeros(Commitments(outs))),
           SettledEscrow \in Nat, SettledEscrow' = SettledEscrow + SlotSum(outs)
    PROVE  Ledger!LedgerNext
<1> DEFINE made == Nonzeros(Commitments(outs))
<1>1. made \in FiniteNotes /\ Worth(made) <= SlotSum(outs)
  BY MadeWorth
<1>2. SlotSum(outs) \in Nat
  BY OutputFacts
<1>. HIDE DEF made
<1>3. Worth(made) \in Nat /\ Ledger!WorthOf(made) = Worth(made)
  BY <1>1, WorthNat, LedgerWorth
<1>4. SettledEscrow' \in Nat /\ SettledEscrow' >= SettledEscrow + Ledger!WorthOf(made)
  BY <1>1, <1>2, <1>3
<1>5. Ledger!Mint(made)
  BY <1>4 DEF Ledger!Mint, made
<1>6. made \in SUBSET Note /\ Ledger!IsFiniteSet(made)
  BY <1>1 DEF FiniteNotes, IsFiniteSet, Ledger!IsFiniteSet
<1>. QED BY <1>5, <1>6 DEF Ledger!LedgerNext

\* A withdraw pays out the difference; a transfer, a batch or one to the pool nothing.
LEMMA SpendIsLedger ==
    ASSUME NEW k \in Nat, NEW n \in Nat, NEW root,
           NEW ins \in ProvedInputs(k, root), NEW outs \in Outputs(n),
           \A i, j \in 1..k : ins[i].nf = ins[j].nf => i = j \/ ins[i].nf = Zero,
           Ledger!Exchange(Nonzeros(Nullifiers(ins)), Nonzeros(Commitments(outs))),
           SlotSum(ins) >= SlotSum(outs),
           SettledEscrow \in Nat, SettledEscrow' \in Nat,
           \/ SettledEscrow' = SettledEscrow
           \/ SettledEscrow' = SettledEscrow - (SlotSum(ins) - SlotSum(outs))
    PROVE  Ledger!LedgerNext
<1> DEFINE used == Nonzeros(Nullifiers(ins))
           made == Nonzeros(Commitments(outs))
<1>1. made \in FiniteNotes /\ Worth(made) <= SlotSum(outs)
  BY MadeWorth
<1>2. used \in FiniteNotes /\ Worth(used) = SlotSum(ins)
  BY UsedWorth
<1>3. SlotSum(outs) \in Nat /\ SlotSum(ins) \in Nat
  BY OutputFacts, InputFacts
<1>4. Ledger!Exchange(used, made)
  OBVIOUS
<1>. HIDE DEF made, used
<1>5. /\ Worth(made) \in Nat
      /\ Ledger!WorthOf(made) = Worth(made) /\ Ledger!WorthOf(used) = Worth(used)
  BY <1>1, WorthNat, LedgerWorth
<1>6. /\ SettledEscrow' <= SettledEscrow
      /\ Worth(made) + (SettledEscrow - SettledEscrow') <= Worth(used)
  BY <1>1, <1>2, <1>3, <1>5
<1>7. Ledger!Redeem(used, made)
  BY <1>4, <1>5, <1>6 DEF Ledger!Redeem
<1>8. made \in SUBSET Note /\ Ledger!IsFiniteSet(made)
  BY <1>1 DEF FiniteNotes, IsFiniteSet, Ledger!IsFiniteSet
<1>9. used \in SUBSET Unspent
  BY <1>4 DEF Ledger!Exchange
<1>. QED BY <1>7, <1>8, <1>9 DEF Ledger!LedgerNext

LEMMA ProvedSpendExchanges ==
    ASSUME TreeOK, NEW k \in Nat, NEW root \in knownRoots,
           NEW ins \in ProvedInputs(k, root), SpendNullifiers(Nullifiers(ins)),
           NEW made, Committed' = Committed \cup made
    PROVE  /\ \A i, j \in 1..k : ins[i].nf = ins[j].nf => i = j \/ ins[i].nf = Zero
           /\ Ledger!Exchange(Nonzeros(Nullifiers(ins)), made)
<1>1. DOMAIN Nullifiers(ins) = 1..k /\ DOMAIN ins = 1..k
  BY InputFacts DEF Nullifiers
<1>2. \A i \in 1..k : Nullifiers(ins)[i] = ins[i].nf
  BY <1>1 DEF Nullifiers
<1>3. \A i, j \in 1..k : ins[i].nf = ins[j].nf => i = j \/ ins[i].nf = Zero
  BY <1>1, <1>2 DEF SpendNullifiers
<1>4. /\ Nonzeros(Nullifiers(ins)) \subseteq Unspent
      /\ nullifierUsed' = nullifierUsed \cup Nonzeros(Nullifiers(ins))
  BY <1>1, InputFacts, UsedIsUnspent
<1>. QED BY <1>3, <1>4, OpExchanges

\* The escrow before and after a call of the token, and without one.
LEMMA EscrowOfCall ==
    ASSUME Inv, NotEntered, UNCHANGED balance,
           NEW from \in Holder, NEW to \in Holder, NEW amount \in Nat,
           CallToken(from, to, amount)
    PROVE  /\ SettledEscrow = balance[Pool]
           /\ SettledEscrow' = balance[Pool] + (IF to = Pool THEN amount ELSE 0)
                                             - (IF from = Pool THEN amount ELSE 0)
           /\ balance[Pool] \in Nat
<1>1. call' = [from |-> from, to |-> to, amount |-> amount] /\ call' \in Call
  BY DEF CallToken, Call
<1>2. call' # NoCall /\ call = NoCall
  BY <1>1, LatchAssumption DEF NotEntered
<1>3. balance[Pool] \in Nat
  BY DEF Inv, TypeOK, Holder
<1>. QED BY <1>1, <1>2, <1>3 DEF SettledEscrow

LEMMA EscrowStays ==
    ASSUME Inv, UNCHANGED <<balance, call>>
    PROVE  SettledEscrow \in Nat /\ SettledEscrow' = SettledEscrow
BY EscrowIsNat DEF SettledEscrow

\* The escrow after a withdraw, whoever it pays.
LEMMA EscrowPays ==
    ASSUME Inv, NotEntered, UNCHANGED balance,
           NEW to \in Holder, NEW amount \in Nat, CallToken(Pool, to, amount)
    PROVE  /\ SettledEscrow \in Nat /\ SettledEscrow' \in Nat
           /\ SettledEscrow' = SettledEscrow \/ SettledEscrow' = SettledEscrow - amount
<1>1. amount <= balance[Pool] /\ Pool \in Holder
  BY DEF CallToken, Holder
<1>2. /\ SettledEscrow = balance[Pool]
      /\ SettledEscrow' = balance[Pool] + (IF to = Pool THEN amount ELSE 0) - amount
      /\ balance[Pool] \in Nat
  BY <1>1, EscrowOfCall
<1>. QED BY <1>1, <1>2

LEMMA DepositLedger ==
    ASSUME Inv, Deposit
    PROVE  Ledger!LedgerNext
<1>1. PICK from \in Account, outs \in Outputs(2) :
          AppendLeaves(Commitments(outs)) /\ CallToken(from, Pool, SlotSum(outs))
  BY DEF Deposit
<1>2. NotEntered /\ UNCHANGED balance /\ nullifierUsed' = nullifierUsed
      /\ leaves \in Seq(Commitment)
  BY DEF Deposit, Enter, Inv, TypeOK
<1>3. SlotSum(outs) \in Nat /\ Commitments(outs) \in Seq(Commitment)
  BY OutputFacts
<1>4. Ledger!Exchange({}, Nonzeros(Commitments(outs)))
  BY <1>1, <1>2, <1>3, AppendCommits, OpExchanges
<1>5. SettledEscrow \in Nat /\ SettledEscrow' = SettledEscrow + SlotSum(outs)
  <2>1. from \in Holder /\ Pool \in Holder /\ from # Pool
    BY PoolAssumption DEF Holder
  <2>2. CallToken(from, Pool, SlotSum(outs))
    BY <1>1
  <2>3. /\ SettledEscrow = balance[Pool] /\ balance[Pool] \in Nat
        /\ SettledEscrow' = balance[Pool] + SlotSum(outs) - 0
    BY <1>2, <1>3, <2>1, <2>2, EscrowOfCall
  <2>. QED BY <1>3, <2>3
<1>. QED BY <1>4, <1>5, MintIsLedger

LEMMA SpendLedger ==
    ASSUME NEW op, NEW nIn \in Nat, NEW nOut \in Nat, Inv, Spend(op, nIn, nOut)
    PROVE  Ledger!LedgerNext
<1>1. PICK root \in knownRoots : \E ins \in ProvedInputs(nIn, root) :
          /\ SpendNullifiers(Nullifiers(ins))
          /\ \E outs \in Outputs(nOut) : /\ SlotSum(ins) = SlotSum(outs)
                                         /\ AppendLeaves(Commitments(outs))
  BY DEF Spend
<1>2. PICK ins \in ProvedInputs(nIn, root), outs \in Outputs(nOut) :
          /\ SpendNullifiers(Nullifiers(ins))
          /\ SlotSum(ins) = SlotSum(outs)
          /\ AppendLeaves(Commitments(outs))
  BY <1>1
<1>3. TreeOK /\ leaves \in Seq(Commitment)
  BY TreeOfInv DEF Spend, Enter, Inv, TypeOK
<1>4. Committed' = Committed \cup Nonzeros(Commitments(outs))
  BY <1>2, <1>3, OutputFacts, AppendCommits
<1>5. SettledEscrow \in Nat /\ SettledEscrow' = SettledEscrow
  BY EscrowStays DEF Spend
<1>6. SlotSum(ins) \in Nat /\ SlotSum(ins) >= SlotSum(outs)
  BY <1>2, InputFacts
<1>. QED BY <1>2, <1>3, <1>4, <1>5, <1>6, ProvedSpendExchanges, SpendIsLedger

LEMMA DisburseLedger ==
    ASSUME Inv, Disburse
    PROVE  Ledger!LedgerNext
<1>1. PICK root \in knownRoots : \E ins \in ProvedInputs(1, root) :
          /\ SpendNullifiers(Nullifiers(ins))
          /\ \E outs \in Outputs(B) : /\ SlotSum(ins) = SlotSum(outs)
                                      /\ AttachSubtree(Commitments(outs))
  BY DEF Disburse
<1>2. PICK ins \in ProvedInputs(1, root), outs \in Outputs(B) :
          /\ SpendNullifiers(Nullifiers(ins))
          /\ SlotSum(ins) = SlotSum(outs)
          /\ AttachSubtree(Commitments(outs))
  BY <1>1
<1>3. TreeOK /\ leaves \in Seq(Commitment) /\ B \in Nat
  BY TreeOfInv, PoolAssumption DEF Disburse, Enter, Inv, TypeOK
<1>4. Committed' = Committed \cup Nonzeros(Commitments(outs))
  BY <1>2, <1>3, OutputFacts, AttachCommits
<1>5. SettledEscrow \in Nat /\ SettledEscrow' = SettledEscrow
  BY EscrowStays DEF Disburse
<1>6. SlotSum(ins) \in Nat /\ SlotSum(ins) >= SlotSum(outs)
  BY <1>2, InputFacts
<1>. QED BY <1>2, <1>3, <1>4, <1>5, <1>6, ProvedSpendExchanges, SpendIsLedger

LEMMA WithdrawLedger ==
    ASSUME Inv, Withdraw
    PROVE  Ledger!LedgerNext
<1>1. PICK root \in knownRoots : \E ins \in ProvedInputs(2, root) :
          /\ SpendNullifiers(Nullifiers(ins))
          /\ \E outs \in Outputs(1), to \in Holder :
                /\ SlotSum(ins) >= SlotSum(outs)
                /\ AppendLeaves(Commitments(outs))
                /\ CallToken(Pool, to, SlotSum(ins) - SlotSum(outs))
  BY DEF Withdraw
<1>2. PICK ins \in ProvedInputs(2, root), outs \in Outputs(1), to \in Holder :
          /\ SpendNullifiers(Nullifiers(ins))
          /\ SlotSum(ins) >= SlotSum(outs)
          /\ AppendLeaves(Commitments(outs))
          /\ CallToken(Pool, to, SlotSum(ins) - SlotSum(outs))
  BY <1>1
<1>3. TreeOK /\ leaves \in Seq(Commitment) /\ NotEntered /\ UNCHANGED balance
  BY TreeOfInv DEF Withdraw, Enter, Inv, TypeOK
<1>4. Committed' = Committed \cup Nonzeros(Commitments(outs))
  BY <1>2, <1>3, OutputFacts, AppendCommits
<1>5. SlotSum(ins) - SlotSum(outs) \in Nat
  <2>1. SlotSum(ins) \in Nat /\ SlotSum(outs) \in Nat
    BY InputFacts, OutputFacts
  <2>. QED BY <1>2, <2>1
<1>6. /\ SettledEscrow \in Nat /\ SettledEscrow' \in Nat
      /\ \/ SettledEscrow' = SettledEscrow
         \/ SettledEscrow' = SettledEscrow - (SlotSum(ins) - SlotSum(outs))
  BY <1>2, <1>3, <1>5, EscrowPays
<1>. QED BY <1>2, <1>3, <1>4, <1>6, ProvedSpendExchanges, SpendIsLedger

\* What the token contract settles was counted when it was called.
LEMMA CompleteTransferLedger ==
    ASSUME Inv, CompleteTransfer
    PROVE  UNCHANGED Ledger!ledgerVars
<1>1. /\ call \in Call /\ call # NoCall /\ call' = NoCall
      /\ balance \in [Holder -> Nat] /\ Pool \in Holder
      /\ UNCHANGED <<leaves, nullifierUsed>>
  BY DEF Inv, TypeOK, CompleteTransfer, NotEntered, Holder, treeVars
<1>2. call.from \in Holder /\ call.to \in Holder /\ call.amount \in Nat
  BY <1>1 DEF Call
<1> DEFINE paid == [balance EXCEPT ![call.from] = @ - call.amount]
<1>3. balance' = [paid EXCEPT ![call.to] = @ + call.amount]
  BY DEF CompleteTransfer
<1>4. /\ paid[Pool] = balance[Pool] - (IF call.from = Pool THEN call.amount ELSE 0)
      /\ DOMAIN paid = Holder
  BY <1>1, <1>2
<1>. HIDE DEF paid
<1>5. balance'[Pool] = paid[Pool] + (IF call.to = Pool THEN call.amount ELSE 0)
  <2>1. balance[Pool] \in Nat
    BY <1>1
  <2>. QED BY <1>1, <1>2, <1>3, <1>4, <2>1
<1>6. SettledEscrow' = SettledEscrow
  <2>1. balance[Pool] \in Nat
    BY <1>1
  <2>. QED BY <1>1, <1>2, <1>4, <1>5, <2>1 DEF SettledEscrow
<1>7. Unspent' = Unspent
  BY <1>1 DEF Unspent, Committed
<1>. QED BY <1>1, <1>6, <1>7 DEF Ledger!ledgerVars

LEMMA AdminLedger ==
    ASSUME Inv, Admin
    PROVE  UNCHANGED Ledger!ledgerVars
<1>1. UNCHANGED <<leaves, nullifierUsed, balance, call>>
  BY DEF Admin, Initialize, InitializeConsumerOnly, ReinitializeV2, ReinitializeV3,
         RotateArbiter, RegisterModule, RemoveModule, InitTree, treeVars
<1>. QED BY <1>1 DEF Ledger!ledgerVars, Unspent, Committed, SettledEscrow

LEMMA NextIsLedger ==
    ASSUME Inv, [Next]_vars
    PROVE  [Ledger!LedgerNext]_(Ledger!ledgerVars)
<1>1. CASE Admin
  BY <1>1, AdminLedger
<1>2. CASE Deposit
  BY <1>2, DepositLedger
<1>3. CASE Transfer \/ Transfer10 \/ Transfer10x2
  BY <1>3, SpendLedger, PoolAssumption DEF Transfer, Transfer10, Transfer10x2
<1>4. CASE Disburse
  BY <1>4, DisburseLedger
<1>5. CASE Withdraw
  BY <1>5, WithdrawLedger
<1>6. CASE CompleteTransfer
  BY <1>6, CompleteTransferLedger
<1>7. CASE UNCHANGED vars
  BY <1>7 DEF vars, treeVars, Ledger!ledgerVars, Unspent, Committed, SettledEscrow
<1>. QED BY <1>1, <1>2, <1>3, <1>4, <1>5, <1>6, <1>7 DEF Next, Enterprise

LEMMA InitIsLedger == Init => Ledger!LedgerInit
BY DEF Init, Ledger!LedgerInit, Unspent, Committed, SettledEscrow, Holder

-----------------------------------------------------------------------------
(***************************************************************************)
(* What the escrow owes.  Solvency speaks of states at rest only; this     *)
(* holds with a transfer in flight too, and every step of the ledger       *)
(* keeps it.                                                               *)
(***************************************************************************)
Covered == Worth(Unspent) <= SettledEscrow

LEMMA InitIsCovered == Init => Covered
<1>1. ASSUME Init PROVE Unspent = {} /\ SettledEscrow = 0
  BY <1>1 DEF Init, Unspent, Committed, SettledEscrow, Holder
<1>. QED BY <1>1, WorthNat DEF Covered

LEMMA CoveredIsSolvent == Covered => Solvency
BY DEF Covered, Solvency, SettledEscrow, NotEntered

LEMMA LedgerKeepsCovered ==
    ASSUME Inv, Covered, [Ledger!LedgerNext]_(Ledger!ledgerVars)
    PROVE  Covered'
<1>1. CASE UNCHANGED Ledger!ledgerVars
  BY <1>1 DEF Ledger!ledgerVars, Covered
<1>2. CASE Ledger!LedgerNext
  <2>1. Unspent \in FiniteNotes /\ SettledEscrow \in Nat
    BY EscrowIsNat, UnspentFinite DEF Inv, TypeOK
  <2>2. PICK made \in SUBSET Note :
           /\ Ledger!IsFiniteSet(made)
           /\ \/ Ledger!Mint(made)
              \/ \E used \in SUBSET Unspent :
                    Ledger!Change(used, made) \/ Ledger!Redeem(used, made)
    BY <1>2 DEF Ledger!LedgerNext
  <2>3. made \in FiniteNotes /\ Worth(made) \in Nat
    BY <2>2, WorthNat DEF FiniteNotes, IsFiniteSet, Ledger!IsFiniteSet
  <2>4. PICK used \in SUBSET Unspent :
           /\ Ledger!Exchange(used, made)
           /\ SettledEscrow' \in Nat
           /\ Worth(made) + SettledEscrow <= Worth(used) + SettledEscrow'
    <3>1. CASE Ledger!Mint(made)
      <4>1. /\ Ledger!Exchange({}, made) /\ SettledEscrow' \in Nat
            /\ SettledEscrow' >= SettledEscrow + Worth(made)
        BY <3>1, LedgerWorth DEF Ledger!Mint
      <4>2. Worth(made) + SettledEscrow <= Worth({}) + SettledEscrow'
        BY <2>1, <2>3, <4>1, WorthNat
      <4>. QED BY <4>1, <4>2
    <3>2. ASSUME NEW used \in SUBSET Unspent,
                 Ledger!Change(used, made) \/ Ledger!Redeem(used, made)
          PROVE  /\ Ledger!Exchange(used, made)
                 /\ SettledEscrow' \in Nat
                 /\ Worth(made) + SettledEscrow <= Worth(used) + SettledEscrow'
      <4>1. Worth(used) \in Nat
        BY <2>1, PartIsFinite, WorthNat
      <4>2. CASE Ledger!Change(used, made)
        <5>1. /\ Ledger!Exchange(used, made) /\ SettledEscrow' = SettledEscrow
              /\ Worth(made) <= Worth(used)
          BY <4>2, LedgerWorth DEF Ledger!Change
        <5>. QED BY <2>1, <2>3, <4>1, <5>1
      <4>3. CASE Ledger!Redeem(used, made)
        <5>1. /\ Ledger!Exchange(used, made) /\ SettledEscrow' \in Nat
              /\ Worth(made) + (SettledEscrow - SettledEscrow') <= Worth(used)
          BY <4>3, LedgerWorth DEF Ledger!Redeem
        <5>. QED BY <2>1, <2>3, <4>1, <5>1
      <4>. QED BY <3>2, <4>2, <4>3
    <3>. QED BY <2>2, <3>1, <3>2
  <2>5. Unspent' \subseteq (Unspent \ used) \cup made
    BY <2>4 DEF Ledger!Exchange
  <2>6. Worth(Unspent') <= SettledEscrow'
    BY <2>1, <2>3, <2>4, <2>5, ExchangeIsCovered DEF Covered
  <2>. QED BY <2>6 DEF Covered, Worth
<1>. QED BY <1>1, <1>2

-----------------------------------------------------------------------------
(***************************************************************************)
(* Every op of the pool, batched, padded, against any historical root and  *)
(* with the token called at its end, is one step of the shielded ledger or *)
(* none: no op makes value, and no used note comes back.                   *)
(***************************************************************************)
THEOREM PoolImplementsLedger == Spec => ImplementsLedger
<1>1. Inv /\ [Next]_vars => [Ledger!LedgerNext]_(Ledger!ledgerVars)
  BY NextIsLedger
<1>. QED BY PoolInvariant, InitIsLedger, <1>1, PTL DEF Spec, ImplementsLedger, Ledger!LedgerSpec

(***************************************************************************)
(* At rest the tokens in escrow cover every unspent note.                  *)
(***************************************************************************)
THEOREM PoolSolvency == Spec => []Solvency
<1>1. Inv /\ Covered /\ [Next]_vars => Covered'
  BY NextIsLedger, LedgerKeepsCovered
<1>. QED BY PoolInvariant, InitIsCovered, CoveredIsSolvent, <1>1, PTL DEF Spec

-----------------------------------------------------------------------------
(***************************************************************************)
(* The pool and its op modules.  Whatever effects a module hands over, the *)
(* tree, the roots and the nullifiers keep the invariant of the pool, and  *)
(* a batch stays filed where it was attached.                              *)
(***************************************************************************)

-----------------------------------------------------------------------------
(***************************************************************************)
(* Stripping zeros leaves a sequence of the values that were not zero.     *)
(***************************************************************************)
IsKept(f, v, n) ==
    f = [i \in 0..n |->
            IF i = 0 THEN <<>>
            ELSE IF v[i] = Zero THEN f[i - 1] ELSE Append(f[i - 1], v[i])]

LEMMA KeptExists ==
    ASSUME NEW n \in Nat, NEW v, NEW T, \A i \in 1..n : v[i] # Zero => v[i] \in T
    PROVE  \E f \in [0..n -> Seq(T)] : IsKept(f, v, n)
<1> DEFINE Bad == {k \in 0..n : ~ \E f \in [0..k -> Seq(T)] : IsKept(f, v, k)}
<1>1. SUFFICES ASSUME Bad # {} PROVE FALSE
  <2>1. n \in 0..n
    OBVIOUS
  <2>2. (n \notin Bad) => \E f \in [0..n -> Seq(T)] : IsKept(f, v, n)
    BY <2>1
  <2>. QED BY <2>2
<1>2. PICK k \in Bad : \A j \in Bad : k <= j
  <2>1. Bad \subseteq Nat
    OBVIOUS
  <2>. QED BY <1>1, <2>1, LeastNatural
<1>3. k # 0
  <2>1. IsKept([i \in 0..0 |-> <<>>], v, 0)
    BY DEF IsKept
  <2>2. [i \in 0..0 |-> <<>>] \in [0..0 -> Seq(T)]
    OBVIOUS
  <2>. QED BY <2>1, <2>2
<1>4. PICK f \in [0..(k - 1) -> Seq(T)] : IsKept(f, v, k - 1)
  <2>1. k \in 0..n /\ k - 1 \in 0..n /\ ~(k <= k - 1)
    BY <1>3
  <2>2. k - 1 \notin Bad
    BY <1>2, <2>1
  <2>. QED BY <2>1, <2>2
<1> DEFINE last == IF v[k] = Zero THEN f[k - 1] ELSE Append(f[k - 1], v[k])
           g    == [i \in 0..k |-> IF i = k THEN last ELSE f[i]]
<1>5. last \in Seq(T)
  <2>1. k \in 1..n /\ f[k - 1] \in Seq(T)
    BY <1>3
  <2>. QED BY <2>1
<1>6. g \in [0..k -> Seq(T)]
  <2>. HIDE DEF last
  <2>. QED BY <1>3, <1>5
<1>7. ASSUME NEW i \in 0..k
      PROVE  g[i] = IF i = 0 THEN <<>>
                    ELSE IF v[i] = Zero THEN g[i - 1] ELSE Append(g[i - 1], v[i])
  <2>1. CASE i = k
    BY <2>1, <1>3
  <2>2. CASE i # k
    <3>1. i \in 0..(k - 1) /\ i # k
      BY <2>2
    <3>2. f[i] = IF i = 0 THEN <<>>
                 ELSE IF v[i] = Zero THEN f[i - 1] ELSE Append(f[i - 1], v[i])
      BY <1>4, <3>1 DEF IsKept
    <3>3. i # 0 => i - 1 \in 0..k /\ i - 1 # k
      BY <3>1
    <3>. HIDE DEF last
    <3>4. g[i] = f[i]
      BY <3>1
    <3>5. i # 0 => g[i - 1] = f[i - 1]
      BY <3>3
    <3>. HIDE DEF g
    <3>. QED BY <3>2, <3>4, <3>5
  <2>. QED BY <2>1, <2>2
<1>8. IsKept(g, v, k)
  BY <1>7 DEF IsKept
<1>. QED BY <1>6, <1>8

LEMMA KeptIsSeq ==
    ASSUME NEW n \in Nat, NEW v, NEW T, \A i \in 1..n : v[i] # Zero => v[i] \in T,
           NEW f, IsKept(f, v, n)
    PROVE  \A i \in 0..n : f[i] \in Seq(T)
<1> DEFINE Bad == {i \in 0..n : f[i] \notin Seq(T)}
<1>1. SUFFICES ASSUME Bad # {} PROVE FALSE
  OBVIOUS
<1>2. PICK k \in Bad : \A j \in Bad : k <= j
  <2>1. Bad \subseteq Nat
    OBVIOUS
  <2>. QED BY <1>1, <2>1, LeastNatural
<1>3. f[k] = IF k = 0 THEN <<>>
             ELSE IF v[k] = Zero THEN f[k - 1] ELSE Append(f[k - 1], v[k])
  BY DEF IsKept
<1>4. k # 0
  <2>1. k = 0 => f[k] = <<>>
    BY <1>3
  <2>2. <<>> \in Seq(T)
    OBVIOUS
  <2>. QED BY <2>1, <2>2
<1>5. k \in 1..n /\ k - 1 \in 0..n /\ ~(k <= k - 1)
  BY <1>4
<1>6. f[k - 1] \in Seq(T)
  BY <1>2, <1>5
<1>7. CASE v[k] = Zero
  BY <1>3, <1>5, <1>6, <1>7
<1>8. CASE v[k] # Zero
  <2>1. f[k] = Append(f[k - 1], v[k])
    BY <1>3, <1>4, <1>8
  <2>2. v[k] \in T
    BY <1>5, <1>8
  <2>3. Append(f[k - 1], v[k]) \in Seq(T)
    BY <1>6, <2>2
  <2>. QED BY <2>1, <2>3
<1>. QED BY <1>7, <1>8

Distinct(s) == \A p, q \in DOMAIN s : s[p] = s[q] => p = q

\* Appending keeps distinct only what was, and only with a value that was not there.
LEMMA AppendFacts ==
    ASSUME NEW T, NEW s \in Seq(T), NEW x \in T
    PROVE  /\ {Append(s, x)[p] : p \in DOMAIN Append(s, x)}
                 = {s[p] : p \in DOMAIN s} \cup {x}
           /\ Distinct(Append(s, x)) => Distinct(s) /\ \A p \in DOMAIN s : s[p] # x
<1> DEFINE t == Append(s, x)
<1>1. /\ DOMAIN s = 1..Len(s) /\ DOMAIN t = 1..(Len(s) + 1)
      /\ \A p \in 1..Len(s) : t[p] = s[p]
      /\ t[Len(s) + 1] = x
      /\ Len(s) \in Nat
  OBVIOUS
<1>. HIDE DEF t
<1>2. /\ 1..(Len(s) + 1) = (1..Len(s)) \cup {Len(s) + 1}
      /\ \A p \in 1..Len(s) : p # Len(s) + 1
  BY <1>1
<1>3. {t[p] : p \in DOMAIN t} = {s[p] : p \in DOMAIN s} \cup {x}
  BY <1>1, <1>2
<1>4. Distinct(t) => Distinct(s) /\ \A p \in DOMAIN s : s[p] # x
  BY <1>1, <1>2 DEF Distinct
<1>. QED BY <1>3, <1>4 DEF t

\* What s keeps of v is what was not zero, and a value twice there is kept twice.
Keeps(s, v, k) ==
    /\ {s[p] : p \in DOMAIN s} = {v[j] : j \in 1..k} \ {Zero}
    /\ Distinct(s) => \A i, j \in 1..k : v[i] = v[j] => i = j \/ v[i] = Zero

LEMMA KeptTells ==
    ASSUME NEW n \in Nat, NEW v, NEW T, \A i \in 1..n : v[i] # Zero => v[i] \in T,
           NEW f, IsKept(f, v, n)
    PROVE  \A k \in 0..n : Keeps(f[k], v, k)
<1> DEFINE Told(k) == {f[k][p] : p \in DOMAIN f[k]} = {v[j] : j \in 1..k} \ {Zero}
           Apart(k) == \A i, j \in 1..k : v[i] = v[j] => i = j \/ v[i] = Zero
           Bad == {k \in 0..n : ~(Told(k) /\ (Distinct(f[k]) => Apart(k)))}
<1>1. SUFFICES ASSUME Bad # {} PROVE FALSE
  BY DEF Keeps
<1>2. PICK k \in Bad : \A j \in Bad : k <= j
  <2>1. Bad \subseteq Nat
    OBVIOUS
  <2>. HIDE DEF Bad
  <2>. QED BY <1>1, <2>1, LeastNatural
<1>3. f[k] = IF k = 0 THEN <<>>
             ELSE IF v[k] = Zero THEN f[k - 1] ELSE Append(f[k - 1], v[k])
  BY DEF IsKept
<1>4. k # 0
  <2>1. CASE k = 0
    <3>1. f[k] = <<>> /\ 1..k = {} /\ DOMAIN f[k] = {}
      BY <1>3, <2>1
    <3>2. Told(k) /\ Apart(k)
      BY <3>1
    <3>. HIDE DEF Told, Apart
    <3>. QED BY <1>2, <3>2
  <2>. QED BY <2>1
<1>5. k \in 1..n /\ k - 1 \in 0..n /\ ~(k <= k - 1) /\ 1..k = (1..(k - 1)) \cup {k}
  BY <1>4
<1>6. Told(k - 1) /\ (Distinct(f[k - 1]) => Apart(k - 1))
  <2>. HIDE DEF Told, Apart
  <2>. QED BY <1>2, <1>5
<1>7. f[k - 1] \in Seq(T)
  BY <1>5, KeptIsSeq
<1>8. Told(k) /\ (Distinct(f[k]) => Apart(k))
  <2>1. CASE v[k] = Zero
    <3>1. f[k] = f[k - 1]
      BY <1>3, <1>4, <2>1
    <3>2. Told(k)
      BY <1>5, <1>6, <2>1, <3>1
    <3>3. Apart(k - 1) => Apart(k)
      BY <1>5, <2>1
    <3>. HIDE DEF Told, Apart
    <3>. QED BY <1>6, <3>1, <3>2, <3>3
  <2>2. CASE v[k] # Zero
    <3>1. f[k] = Append(f[k - 1], v[k]) /\ v[k] \in T
      BY <1>3, <1>4, <1>5, <2>2
    <3>2. /\ {f[k][p] : p \in DOMAIN f[k]} = {f[k - 1][p] : p \in DOMAIN f[k - 1]} \cup {v[k]}
          /\ Distinct(f[k]) => /\ Distinct(f[k - 1])
                               /\ v[k] \notin {f[k - 1][p] : p \in DOMAIN f[k - 1]}
      <4> DEFINE t == f[k - 1]
                 x == v[k]
      <4>. HIDE DEF t, x
      <4>0. t \in Seq(T) /\ x \in T
        BY <1>7, <3>1 DEF t, x
      <4>1. /\ {Append(t, x)[p] : p \in DOMAIN Append(t, x)} = {t[p] : p \in DOMAIN t} \cup {x}
            /\ Distinct(Append(t, x)) => Distinct(t) /\ \A p \in DOMAIN t : t[p] # x
        BY <4>0, AppendFacts
      <4>2. f[k] = Append(t, x)
        BY <3>1 DEF t, x
      <4>3. x \notin {t[p] : p \in DOMAIN t} <=> \A p \in DOMAIN t : t[p] # x
        OBVIOUS
      <4>4. {f[k][p] : p \in DOMAIN f[k]} = {t[p] : p \in DOMAIN t} \cup {x}
        BY ONLY <4>1, <4>2
      <4>5. Distinct(f[k]) => Distinct(t) /\ x \notin {t[p] : p \in DOMAIN t}
        BY ONLY <4>1, <4>2, <4>3
      <4>6. t = f[k - 1] /\ x = v[k]
        BY DEF t, x
      <4>. QED BY ONLY <4>4, <4>5, <4>6
    <3>3. Told(k)
      <4>1. {v[j] : j \in 1..k} \ {Zero} = ({v[j] : j \in 1..(k - 1)} \ {Zero}) \cup {v[k]}
        BY <1>5, <2>2
      <4>. QED BY <1>6, <3>2, <4>1
    <3>4. Distinct(f[k]) => Apart(k - 1) /\ \A i \in 1..(k - 1) : v[i] # v[k]
      <4>1. ASSUME Distinct(f[k]), NEW i \in 1..(k - 1), v[i] = v[k] PROVE FALSE
        <5>1. v[i] \in {v[j] : j \in 1..(k - 1)} \ {Zero}
          BY <2>2, <4>1
        <5>. QED BY <1>6, <3>2, <4>1, <5>1
      <4>. HIDE DEF Told, Apart
      <4>. QED BY <1>6, <3>2, <4>1
    <3>5. Distinct(f[k]) => Apart(k)
      BY <1>5, <3>4
    <3>. HIDE DEF Told, Apart
    <3>. QED BY <3>3, <3>5
  <2>. QED BY <2>1, <2>2
<1>. HIDE DEF Told, Apart
<1>. QED BY <1>2, <1>8

LEMMA StripFacts ==
    ASSUME NEW k \in Nat, NEW nfs, DOMAIN nfs = 1..k, Len(nfs) = k,
           NEW T \in SUBSET Note, \A i \in 1..k : nfs[i] # Zero => nfs[i] \in T
    PROVE  /\ _stripZeros(nfs) \in Seq(T)
           /\ Nonzeros(_stripZeros(nfs)) = Nonzeros(nfs)
           /\ SpendNullifiers(_stripZeros(nfs)) =>
                 \A i, j \in 1..k : nfs[i] = nfs[j] => i = j \/ nfs[i] = Zero
<1> DEFINE kept == CHOOSE f : IsKept(f, nfs, Len(nfs))
<1>1. PICK f \in [0..k -> Seq(T)] : IsKept(f, nfs, k)
  BY KeptExists
<1>2. IsKept(kept, nfs, k)
  BY <1>1
<1>3. _stripZeros(nfs) = kept[k]
  BY DEF _stripZeros, IsKept
<1>. HIDE DEF kept
<1> DEFINE s == kept[k]
<1>4. s \in Seq(T)
  BY <1>2, KeptIsSeq
<1>5. /\ {s[p] : p \in DOMAIN s} = {nfs[j] : j \in 1..k} \ {Zero}
      /\ Distinct(s) => \A i, j \in 1..k : nfs[i] = nfs[j] => i = j \/ nfs[i] = Zero
  <2>1. k \in 0..k
    OBVIOUS
  <2>2. \A m \in 0..k : Keeps(kept[m], nfs, m)
    BY <1>2, KeptTells
  <2>. QED BY <2>1, <2>2 DEF Keeps
<1>6. \A p \in DOMAIN s : s[p] \in T /\ s[p] # Zero
  BY <1>4, NoteAssumption
<1>. HIDE DEF s
<1>7. Nonzeros(s) = Nonzeros(nfs)
  BY <1>5 DEF Nonzeros
<1>8. SpendNullifiers(s) => Distinct(s)
  BY <1>6 DEF SpendNullifiers, Distinct
<1>. QED BY <1>3, <1>4, <1>5, <1>7, <1>8 DEF s

\* The nonzero nullifiers of a proof, under a root or under none.
LEMMA NullifierFacts ==
    ASSUME NEW k \in Nat, NEW root, NEW ins \in ProvedInputs(k, TreeOf(root))
    PROVE  /\ DOMAIN Nullifiers(ins) = 1..k /\ Len(Nullifiers(ins)) = k
           /\ \A i \in 1..k : Nullifiers(ins)[i] # Zero =>
                 Nullifiers(ins)[i] \in Members(TreeOf(root)) \cap Note
           /\ _stripZeros(Nullifiers(ins)) \in Seq(Members(TreeOf(root)) \cap Note)
           /\ Nonzeros(_stripZeros(Nullifiers(ins))) = Nonzeros(Nullifiers(ins))
           /\ SpendNullifiers(_stripZeros(Nullifiers(ins))) =>
                 \A i, j \in 1..k : ins[i].nf = ins[j].nf => i = j \/ ins[i].nf = Zero
<1>1. /\ DOMAIN Nullifiers(ins) = 1..k
      /\ \A i \in 1..k : Nullifiers(ins)[i] # Zero =>
            Nullifiers(ins)[i] \in Members(TreeOf(root)) \cap Note
  BY InputFacts DEF Commitment
<1>2. Len(Nullifiers(ins)) = k
  <2>1. ins \in [1..k -> InputSlot]
    BY DEF ProvedInputs
  <2>. QED BY <2>1 DEF Nullifiers
<1>3. \A i \in 1..k : Nullifiers(ins)[i] = ins[i].nf
  BY <1>1 DEF Nullifiers
<1> DEFINE nfs == Nullifiers(ins)
           T == Members(TreeOf(root)) \cap Note
<1>4. T \in SUBSET Note
  OBVIOUS
<1>. HIDE DEF nfs, T
<1>5. /\ _stripZeros(nfs) \in Seq(T)
      /\ Nonzeros(_stripZeros(nfs)) = Nonzeros(nfs)
      /\ SpendNullifiers(_stripZeros(nfs)) =>
            \A i, j \in 1..k : nfs[i] = nfs[j] => i = j \/ nfs[i] = Zero
  BY <1>1, <1>2, <1>4, StripFacts DEF nfs, T
<1>. QED BY <1>1, <1>2, <1>3, <1>5 DEF nfs, T

LEMMA FunctionIsSeq ==
    ASSUME NEW T, NEW n \in Nat, NEW f \in [1..n -> T]
    PROVE  f \in Seq(T)
OBVIOUS

\* A batch has one input, and its nullifier is handed over as it is.
LEMMA SoleNullifier ==
    ASSUME NEW root, NEW ins \in ProvedInputs(1, TreeOf(root)), ins[1].nf # Zero
    PROVE  Nullifiers(ins) \in Seq(Members(TreeOf(root)) \cap Note)
<1> DEFINE nfs == Nullifiers(ins)
<1>1. /\ DOMAIN nfs = 1..1 /\ Len(nfs) = 1
      /\ \A i \in 1..1 : nfs[i] # Zero => nfs[i] \in Members(TreeOf(root)) \cap Note
  BY NullifierFacts
<1>2. ins \in [1..1 -> InputSlot]
  BY DEF ProvedInputs
<1>3. nfs = [i \in 1..1 |-> ins[i].nf]
  BY <1>2 DEF Nullifiers
<1>4. nfs[1] # Zero
  BY <1>2, <1>3
<1>5. nfs \in [1..1 -> Members(TreeOf(root)) \cap Note]
  <2>. HIDE DEF nfs
  <2>1. nfs = [i \in 1..1 |-> nfs[i]]
    BY <1>3
  <2>2. \A i \in 1..1 : nfs[i] \in Members(TreeOf(root)) \cap Note
    BY <1>1, <1>4
  <2>. QED BY <2>1, <2>2
<1>. HIDE DEF nfs
<1>6. nfs \in Seq(Members(TreeOf(root)) \cap Note)
  BY <1>5, FunctionIsSeq
<1>. QED BY <1>6 DEF nfs

-----------------------------------------------------------------------------
(***************************************************************************)
(* Effects: what a module may hand the pool, and what the pool makes of    *)
(* them.  The nullifiers are of notes of the claimed tree; none under the  *)
(* root 0, so a module whose proof spends nothing can spend nothing.       *)
(***************************************************************************)
LEMMA ApplyOpGrows ==
    ASSUME Inv, NEW m, NEW root, NEW nfs \in Seq(Members(TreeOf(root)) \cap Note),
           NEW lvs \in Seq(Commitment), NEW sub \in Seq(Commitment),
           ApplyOp(m, [root |-> root, nullifiers |-> nfs, leaves |-> lvs, subtree |-> sub])
    PROVE  /\ initialized /\ UNCHANGED adminVars
           /\ TreeOK' /\ Grows
           /\ nullifierUsed' \subseteq Committed'
           /\ nullifierUsed' \subseteq Note
           /\ nullifierUsed \subseteq nullifierUsed'
<1>1. /\ initialized
      /\ UNCHANGED adminVars
      /\ nfs # <<>> => root \in knownRoots
      /\ SpendNullifiers(nfs)
      /\ AttachSubtree(sub) \/ AppendLeaves(lvs)
  BY DEF ApplyOp, onlyRegisteredModule
<1>2. TreeOK
  BY <1>1, TreeOfInv
<1>3. TreeOK' /\ Grows
  BY <1>1, <1>2, AppendLeavesGrows, AttachSubtreeGrows
<1>4. NoPhantomSpend /\ nullifierUsed \subseteq Note
  BY DEF Inv, TypeOK
<1>5. /\ nullifierUsed' \subseteq Committed
      /\ nullifierUsed' \subseteq Note
      /\ nullifierUsed \subseteq nullifierUsed'
  <2>1. CASE nfs = <<>>
    BY <1>1, <1>4, <2>1 DEF SpendNullifiers, NoPhantomSpend
  <2>2. CASE nfs # <<>>
    <3>1. 1 \in DOMAIN nfs
      BY <2>2
    <3>2. nfs[1] \in Members(TreeOf(root))
      BY <3>1
    <3>3. TreeOf(root) = root
      BY <3>2 DEF TreeOf, Members
    <3>4. \A i \in DOMAIN nfs : nfs[i] \in Commitment /\ nfs[i] \in Members(root)
      BY <3>3 DEF Commitment
    <3>. QED BY <1>1, <1>2, <1>4, <2>2, <3>4, SpendIsOfCommitted
  <2>. QED BY <2>1, <2>2
<1>. QED BY <1>1, <1>3, <1>5 DEF Grows

\* An op that moves no tokens, and one that calls the token last.
LEMMA StillOpKeepsInv ==
    ASSUME Inv, initialized, UNCHANGED adminVars, TreeOK', Grows,
           nullifierUsed' \subseteq Committed', nullifierUsed' \subseteq Note,
           nullifierUsed \subseteq nullifierUsed', UNCHANGED <<balance, call>>
    PROVE  Inv' /\ Extends
<1>1. balance' \in [Holder -> Nat] /\ call' \in Call \cup {NoCall} /\ Backed'
  BY DEF Inv, TypeOK, Backed
<1>. QED BY <1>1, OpKeepsInv

LEMMA PayingOpKeepsInv ==
    ASSUME Inv, initialized, UNCHANGED adminVars, TreeOK', Grows,
           nullifierUsed' \subseteq Committed', nullifierUsed' \subseteq Note,
           nullifierUsed \subseteq nullifierUsed', UNCHANGED balance,
           NEW from \in Holder, NEW to \in Holder, NEW amount \in Nat,
           CallToken(from, to, amount)
    PROVE  Inv' /\ Extends
<1>1. call' \in Call \cup {NoCall} /\ Backed'
  BY CallTokenFacts
<1>2. balance' \in [Holder -> Nat]
  BY DEF Inv, TypeOK
<1>. QED BY <1>1, <1>2, OpKeepsInv

-----------------------------------------------------------------------------
(***************************************************************************)
(* One lemma per entry point.                                              *)
(***************************************************************************)
LEMMA DepositPrivInv ==
    ASSUME Inv, NEW m, depositPriv(m)
    PROVE  Inv' /\ Extends
<1>1. PICK from \in Account, outs \in Outputs(2) :
          /\ ApplyOp(m, Leaves(NoRoot, <<>>, outs))
          /\ CallToken(from, Pool, SlotSum(outs))
  BY DEF depositPriv
<1>2. UNCHANGED balance
  BY DEF depositPriv
<1>3. SlotSum(outs) \in Nat /\ Commitments(outs) \in Seq(Commitment)
  BY OutputFacts
<1>4. _stripZeros(Nullifiers(<<>>)) \in Seq(Members(TreeOf(NoRoot)) \cap Note)
  <2>1. Nullifiers(<<>>) = <<>>
    BY DEF Nullifiers
  <2>2. DOMAIN <<>> = 1..0 /\ Len(<<>>) = 0
    OBVIOUS
  <2>. QED BY <2>1, <2>2, StripFacts
<1>5. <<>> \in Seq(Commitment)
  OBVIOUS
<1>6. /\ initialized /\ UNCHANGED adminVars
      /\ TreeOK' /\ Grows
      /\ nullifierUsed' \subseteq Committed'
      /\ nullifierUsed' \subseteq Note
      /\ nullifierUsed \subseteq nullifierUsed'
  BY <1>1, <1>3, <1>4, <1>5, ApplyOpGrows DEF Leaves
<1>. QED BY <1>1, <1>2, <1>3, <1>6, PayingOpKeepsInv DEF Holder

LEMMA TransferThroughInv ==
    ASSUME Inv, NEW m, NEW op, NEW nIn \in Nat, TransferThrough(m, op, nIn)
    PROVE  Inv' /\ Extends
<1>1. PICK root \in ProofRoots : \E ins \in ProvedInputs(nIn, TreeOf(root)),
             outs \in Outputs(2) : ApplyOp(m, Leaves(root, ins, outs))
  BY DEF TransferThrough
<1>2. PICK ins \in ProvedInputs(nIn, TreeOf(root)), outs \in Outputs(2) :
          ApplyOp(m, Leaves(root, ins, outs))
  BY <1>1
<1>3. Commitments(outs) \in Seq(Commitment) /\ <<>> \in Seq(Commitment)
  BY OutputFacts
<1>4. _stripZeros(Nullifiers(ins)) \in Seq(Members(TreeOf(root)) \cap Note)
  BY NullifierFacts
<1>5. /\ initialized /\ UNCHANGED adminVars
      /\ TreeOK' /\ Grows
      /\ nullifierUsed' \subseteq Committed'
      /\ nullifierUsed' \subseteq Note
      /\ nullifierUsed \subseteq nullifierUsed'
  BY <1>2, <1>3, <1>4, ApplyOpGrows DEF Leaves
<1>6. UNCHANGED <<balance, call>>
  BY DEF TransferThrough
<1>. QED BY <1>5, <1>6, StillOpKeepsInv

LEMMA WithdrawPrivInv ==
    ASSUME Inv, NEW m, withdrawPriv(m)
    PROVE  Inv' /\ Extends
<1>1. PICK root \in ProofRoots : \E ins \in ProvedInputs(2, TreeOf(root)),
             outs \in Outputs(1), to \in Holder :
                /\ SlotSum(ins) >= SlotSum(outs)
                /\ ApplyOp(m, Leaves(root, ins, outs))
                /\ CallToken(Pool, to, SlotSum(ins) - SlotSum(outs))
  BY DEF withdrawPriv
<1>2. PICK ins \in ProvedInputs(2, TreeOf(root)), outs \in Outputs(1), to \in Holder :
          /\ SlotSum(ins) >= SlotSum(outs)
          /\ ApplyOp(m, Leaves(root, ins, outs))
          /\ CallToken(Pool, to, SlotSum(ins) - SlotSum(outs))
  BY <1>1
<1>3. Commitments(outs) \in Seq(Commitment) /\ <<>> \in Seq(Commitment)
  BY OutputFacts
<1>4. _stripZeros(Nullifiers(ins)) \in Seq(Members(TreeOf(root)) \cap Note)
  BY NullifierFacts
<1>5. /\ initialized /\ UNCHANGED adminVars
      /\ TreeOK' /\ Grows
      /\ nullifierUsed' \subseteq Committed'
      /\ nullifierUsed' \subseteq Note
      /\ nullifierUsed \subseteq nullifierUsed'
  BY <1>2, <1>3, <1>4, ApplyOpGrows DEF Leaves
<1>6. SlotSum(ins) - SlotSum(outs) \in Nat
  <2>1. SlotSum(ins) \in Nat /\ SlotSum(outs) \in Nat
    BY InputFacts, OutputFacts
  <2>. QED BY <1>2, <2>1
<1>7. UNCHANGED balance /\ Pool \in Holder
  BY DEF withdrawPriv, Holder
<1>. QED BY <1>2, <1>5, <1>6, <1>7, PayingOpKeepsInv

-----------------------------------------------------------------------------
(***************************************************************************)
(* Batches.  A start is a multiple of B: the padding rounds the length of  *)
(* the tree up to the next one.                                            *)
(***************************************************************************)
LEMMA MultipleOf ==
    ASSUME NEW b \in Nat \ {0}, NEW q \in Nat
    PROVE  (b * q) % b = 0
<1> DEFINE m == b * q
           d == m \div b
           k == q - d
<1>1. m \in Nat /\ d \in Int /\ m % b \in 0..(b - 1) /\ m = b * d + (m % b)
  OBVIOUS
<1>2. m % b = b * k
  BY <1>1
<1>3. k \in Int
  BY <1>1
<1>4. CASE k = 0
  BY <1>2, <1>4
<1>5. ASSUME k >= 1 PROVE FALSE
  <2>1. b * k >= b
    BY <1>3, <1>5
  <2>. QED BY <1>1, <1>2, <2>1
<1>6. ASSUME k <= -1 PROVE FALSE
  <2>1. b * k <= -b
    BY <1>3, <1>6
  <2>. QED BY <1>1, <1>2, <2>1
<1>. HIDE DEF k
<1>. QED BY <1>3, <1>4, <1>5, <1>6

LEMMA PaddingAligns ==
    ASSUME NEW b \in Nat \ {0}, NEW l \in Nat
    PROVE  (l + ((b - (l % b)) % b)) % b = 0
<1> DEFINE q == l \div b
           r == l % b
<1>1. q \in Nat /\ r \in 0..(b - 1) /\ l = b * q + r
  OBVIOUS
<1>. HIDE DEF q, r
<1>2. CASE r = 0
  <2>1. (b - r) % b = 0
    BY <1>2
  <2>2. l = b * q
    BY <1>1, <1>2
  <2>3. l % b = 0
    BY <1>1, <2>2, MultipleOf
  <2>. QED BY <1>2, <2>1, <2>3 DEF r
<1>3. CASE r # 0
  <2>1. b - r \in 0..(b - 1)
    BY <1>1, <1>3
  <2>2. (b - r) % b = b - r
    BY <2>1
  <2>3. l + (b - r) = b * (q + 1)
    BY <1>1
  <2>4. q + 1 \in Nat
    BY <1>1
  <2>5. (b * (q + 1)) % b = 0
    BY <2>4, MultipleOf
  <2>. QED BY <2>2, <2>3, <2>5 DEF r
<1>. QED BY <1>2, <1>3

LEMMA BatchIsAttached ==
    ASSUME leaves \in Seq(Commitment), NEW cms \in [1..B -> Commitment],
           AttachSubtree(cms)
    PROVE  /\ BatchStart \in Nat /\ BatchStart % B = 0
           /\ BatchStart + B <= Len(leaves')
           /\ SubSeq(leaves', BatchStart + 1, BatchStart + B) = cms
<1>1. B \in Nat \ {0} /\ Len(leaves) \in Nat
  BY PoolAssumption
<1> DEFINE pad == (B - (Len(leaves) % B)) % B
<1>2. pad \in Nat
  BY <1>1
<1>3. Padding \in Seq(Commitment) /\ Len(Padding) = pad
  BY <1>2 DEF Padding, Commitment
<1>4. BatchStart = Len(leaves) + pad
  BY <1>3 DEF BatchStart
<1>5. BatchStart % B = 0
  <2>. HIDE DEF pad
  <2>. QED BY <1>1, <1>4, PaddingAligns DEF pad
<1>. HIDE DEF pad
<1>6. cms \in Seq(Commitment) /\ Len(cms) = B
  BY <1>1
<1>7. leaves \o Padding \in Seq(Commitment) /\ Len(leaves \o Padding) = BatchStart
  BY <1>1, <1>2, <1>3, <1>4
<1>8. BatchStart \in Nat
  BY <1>1, <1>2, <1>4
<1>9. leaves' = (leaves \o Padding) \o cms
  BY DEF AttachSubtree
<1> DEFINE before == leaves \o Padding
<1>. HIDE DEF before
<1>10. SubSeq(before \o cms, Len(before) + 1, Len(before) + B) = cms
  <2>1. before \in Seq(Commitment)
    BY <1>7 DEF before
  <2>. QED BY <1>1, <1>6, <2>1
<1>11. Len(before \o cms) = Len(before) + B
  BY <1>6, <1>7 DEF before
<1>. QED BY <1>5, <1>7, <1>8, <1>9, <1>10, <1>11 DEF before

LEMMA BatchStays ==
    ASSUME leaves \in Seq(Commitment), leaves' \in Seq(Commitment),
           Continues(leaves, leaves'), NEW s \in Nat, s + B <= Len(leaves)
    PROVE  /\ s + B <= Len(leaves')
           /\ SubSeq(leaves', s + 1, s + B) = SubSeq(leaves, s + 1, s + B)
<1>1. B \in Nat
  BY PoolAssumption
<1>2. /\ Len(leaves) <= Len(leaves')
      /\ \A j \in 1..Len(leaves) : leaves'[j] = leaves[j]
  BY DEF Continues
<1>3. \A j \in 1..B : leaves'[s + j] = leaves[s + j]
  BY <1>1, <1>2
<1>. QED BY <1>1, <1>2, <1>3

-----------------------------------------------------------------------------
(***************************************************************************)
(* The inductive invariant of the pool and its modules.  The files of a    *)
(* module are functions of natural positions; without the invariant of the *)
(* pool the leaves they speak of could move.                               *)
(***************************************************************************)
ModuleInv == /\ Inv
             /\ DOMAIN chunkHashes = Module
             /\ \A m \in Module : \A s \in Batches(m) : s \in Nat
             /\ BatchesNameTheirLeaves

LEMMA StutterKeepsInv ==
    ASSUME Inv, UNCHANGED vars
    PROVE  Inv' /\ Extends
<1>1. Inv'
  BY NextInv
<1>2. /\ leaves \in Seq(Commitment) /\ arbiterEpochs \in Seq(Key)
      /\ UNCHANGED <<leaves, knownRoots, nullifierUsed, arbiterEpochs>>
  BY DEF Inv, TypeOK, vars, treeVars, adminVars
<1>3. Continues(leaves, leaves') /\ Continues(arbiterEpochs, arbiterEpochs')
  BY <1>2, ContinuesItself
<1>. QED BY <1>1, <1>2, <1>3 DEF Extends

LEMMA ModuleInitInv == ModuleInit => ModuleInv
<1>. SUFFICES ASSUME ModuleInit PROVE ModuleInv
  OBVIOUS
<1>1. Inv
  BY InitInv DEF ModuleInit
<1>2. DOMAIN chunkHashes = Module /\ \A m \in Module : Batches(m) = {}
  BY DEF ModuleInit, Batches
<1>. QED BY <1>1, <1>2 DEF ModuleInv, BatchesNameTheirLeaves

\* A step that files nothing keeps every file true.
LEMMA FilesStay ==
    ASSUME ModuleInv, Inv', Extends, UNCHANGED chunkHashes
    PROVE  ModuleInv'
<1>1. /\ leaves \in Seq(Commitment) /\ leaves' \in Seq(Commitment)
      /\ Continues(leaves, leaves')
  BY DEF ModuleInv, Inv, TypeOK, Extends
<1>2. ASSUME NEW m \in Module, NEW s \in Batches(m)
      PROVE  /\ s \in Nat /\ s % B = 0 /\ s + B <= Len(leaves')
             /\ SubSeq(leaves', s + 1, s + B) = chunkHashes[m][s]
  <2>1. /\ s \in Nat /\ s % B = 0 /\ s + B <= Len(leaves)
        /\ SubSeq(leaves, s + 1, s + B) = chunkHashes[m][s]
    BY DEF ModuleInv, BatchesNameTheirLeaves, nextLeafIndex
  <2>. QED BY <1>1, <2>1, BatchStays
<1>3. \A m \in Module : Batches(m)' = Batches(m)
  BY DEF Batches
<1>. QED BY <1>2, <1>3 DEF ModuleInv, BatchesNameTheirLeaves, nextLeafIndex

LEMMA DisbursePrivInv ==
    ASSUME ModuleInv, NEW m \in Module, disbursePriv256(m)
    PROVE  ModuleInv' /\ Extends
<1>1. PICK root \in ProofRoots : \E ins \in ProvedInputs(1, TreeOf(root)),
             outs \in Outputs(B) :
                /\ ins[1].nf # Zero
                /\ ApplyOp(m, [root |-> root, nullifiers |-> Nullifiers(ins),
                               leaves |-> <<>>, subtree |-> Commitments(outs)])
                /\ chunkHashes' = [chunkHashes EXCEPT ![m] =
                      [s \in {BatchStart} \cup DOMAIN @ |->
                          IF s = BatchStart THEN Commitments(outs) ELSE @[s]]]
  BY DEF disbursePriv256
<1>2. PICK ins \in ProvedInputs(1, TreeOf(root)), outs \in Outputs(B) :
          /\ ins[1].nf # Zero
          /\ ApplyOp(m, [root |-> root, nullifiers |-> Nullifiers(ins),
                         leaves |-> <<>>, subtree |-> Commitments(outs)])
          /\ chunkHashes' = [chunkHashes EXCEPT ![m] =
                [s \in {BatchStart} \cup DOMAIN @ |->
                    IF s = BatchStart THEN Commitments(outs) ELSE @[s]]]
  BY <1>1
<1> DEFINE cms == Commitments(outs)
           nfs == Nullifiers(ins)
<1>3. cms \in [1..B -> Commitment] /\ cms \in Seq(Commitment) /\ <<>> \in Seq(Commitment)
  BY OutputFacts, PoolAssumption
<1>4. nfs \in Seq(Members(TreeOf(root)) \cap Note)
  BY <1>2, SoleNullifier
<1>5. /\ Inv /\ initialized /\ UNCHANGED adminVars
      /\ TreeOK' /\ Grows
      /\ nullifierUsed' \subseteq Committed'
      /\ nullifierUsed' \subseteq Note
      /\ nullifierUsed \subseteq nullifierUsed'
  BY <1>2, <1>3, <1>4, ApplyOpGrows DEF ModuleInv
<1>6. Inv' /\ Extends
  <2>1. UNCHANGED <<balance, call>>
    BY DEF disbursePriv256
  <2>. QED BY <1>5, <2>1, StillOpKeepsInv
<1>7. leaves \in Seq(Commitment) /\ leaves' \in Seq(Commitment) /\ Continues(leaves, leaves')
  BY <1>5, <1>6 DEF Inv, TypeOK, Extends
<1>8. AttachSubtree(cms)
  <2>1. B \in Nat \ {0} /\ cms # <<>>
    BY <1>3, PoolAssumption
  <2>. QED BY <1>2, <2>1 DEF ApplyOp
<1>9. /\ BatchStart \in Nat /\ BatchStart % B = 0
      /\ BatchStart + B <= Len(leaves')
      /\ SubSeq(leaves', BatchStart + 1, BatchStart + B) = cms
  <2>. HIDE DEF cms
  <2>. QED BY <1>3, <1>7, <1>8, BatchIsAttached
<1>10. DOMAIN chunkHashes = Module /\ DOMAIN chunkHashes' = Module
  BY <1>2 DEF ModuleInv
<1>11. ASSUME NEW n \in Module, NEW s \in DOMAIN chunkHashes'[n]
       PROVE  /\ s \in Nat /\ s % B = 0 /\ s + B <= Len(leaves')
              /\ SubSeq(leaves', s + 1, s + B) = chunkHashes'[n][s]
  <2>1. CASE n = m /\ s = BatchStart
    <3>1. chunkHashes'[m][BatchStart] = cms
      BY <1>2, <1>10
    <3>. QED BY <1>9, <2>1, <3>1
  <2>2. CASE ~(n = m /\ s = BatchStart)
    <3>1. s \in Batches(n) /\ chunkHashes'[n][s] = chunkHashes[n][s]
      BY <1>2, <1>10, <2>2 DEF Batches
    <3>2. /\ s \in Nat /\ s % B = 0 /\ s + B <= Len(leaves)
          /\ SubSeq(leaves, s + 1, s + B) = chunkHashes[n][s]
      BY <3>1 DEF ModuleInv, BatchesNameTheirLeaves, nextLeafIndex
    <3>. QED BY <1>7, <3>1, <3>2, BatchStays
  <2>. QED BY <2>1, <2>2
<1>. QED BY <1>6, <1>10, <1>11 DEF ModuleInv, BatchesNameTheirLeaves, Batches,
                                   nextLeafIndex

LEMMA ModuleStepInv ==
    ASSUME ModuleInv, NEW m \in Module, ModuleStep(m)
    PROVE  ModuleInv' /\ Extends
<1>1. Inv
  BY DEF ModuleInv
<1>2. CASE depositPriv(m)
  <2>1. UNCHANGED chunkHashes
    BY <1>2 DEF depositPriv, chunkVars
  <2>. QED BY <1>1, <1>2, <2>1, DepositPrivInv, FilesStay
<1>3. CASE transferPriv(m) \/ transfer10x2Priv(m)
  <2>1. UNCHANGED chunkHashes
    BY <1>3 DEF transferPriv, transfer10x2Priv, TransferThrough, chunkVars
  <2>2. Inv' /\ Extends
    BY <1>1, <1>3, TransferThroughInv, PoolAssumption DEF transferPriv, transfer10x2Priv
  <2>. QED BY <2>1, <2>2, FilesStay
<1>4. CASE withdrawPriv(m)
  <2>1. UNCHANGED chunkHashes
    BY <1>4 DEF withdrawPriv, chunkVars
  <2>. QED BY <1>1, <1>4, <2>1, WithdrawPrivInv, FilesStay
<1>5. CASE disbursePriv256(m)
  BY <1>5, DisbursePrivInv
<1>6. ASSUME NEW batch, NEW chunk, submitDisburseKemChunk(m, batch, chunk)
      PROVE  ModuleInv' /\ Extends
  <2>1. UNCHANGED vars /\ UNCHANGED chunkHashes
    BY <1>6 DEF submitDisburseKemChunk
  <2>2. Inv' /\ Extends
    BY <1>1, <2>1, StutterKeepsInv
  <2>. QED BY <2>1, <2>2, FilesStay
<1>. QED BY <1>2, <1>3, <1>4, <1>5, <1>6 DEF ModuleStep

LEMMA ModuleNextInv ==
    ASSUME ModuleInv, [ModuleNext]_allVars
    PROVE  ModuleInv' /\ Extends
<1>1. Inv
  BY DEF ModuleInv
<1>2. CASE Next /\ UNCHANGED chunkVars
  <2>1. Inv' /\ Extends
    BY <1>1, <1>2, NextInv
  <2>2. UNCHANGED chunkHashes
    BY <1>2 DEF chunkVars
  <2>. QED BY <2>1, <2>2, FilesStay
<1>3. CASE \E m \in Module : ModuleStep(m)
  BY <1>3, ModuleStepInv
<1>4. CASE UNCHANGED allVars
  <2>1. UNCHANGED vars /\ UNCHANGED chunkHashes
    BY <1>4 DEF allVars, chunkVars
  <2>. QED BY <1>1, <2>1, StutterKeepsInv, FilesStay
<1>. QED BY <1>2, <1>3, <1>4 DEF ModuleNext

-----------------------------------------------------------------------------
(***************************************************************************)
(* The invariant holds of a pool with any modules registered and removed   *)
(* at any time, each called by anyone.                                     *)
(***************************************************************************)
THEOREM ModulesInvariant == ModuleSpec => []ModuleInv
<1>1. ModuleInv /\ [ModuleNext]_allVars => ModuleInv'
  BY ModuleNextInv
<1>. QED BY ModuleInitInv, <1>1, PTL DEF ModuleSpec

(***************************************************************************)
(* No module can make the pool accept a nullifier of a note the tree does  *)
(* not hold, though the pool never sees the module's proof.                *)
(***************************************************************************)
THEOREM ModulesNoPhantomSpend == ModuleSpec => []NoPhantomSpend
<1>1. ModuleInv => NoPhantomSpend
  BY DEF ModuleInv, Inv
<1>. QED BY ModulesInvariant, <1>1, PTL

(***************************************************************************)
(* Known roots tell the tree whichever op, of the pool or of a module,     *)
(* grew it.                                                                *)
(***************************************************************************)
THEOREM ModulesRootsTellTheTree == ModuleSpec => []RootsTellTheTree
<1>1. ModuleInv => RootsTellTheTree
  BY DEF ModuleInv, Inv
<1>. QED BY ModulesInvariant, <1>1, PTL

(***************************************************************************)
(* The chunk hashes of a batch are filed under the position its leaves     *)
(* have in the tree, now and after any later op.                           *)
(***************************************************************************)
THEOREM ModulesBatchesNameTheirLeaves == ModuleSpec => []BatchesNameTheirLeaves
<1>1. ModuleInv => BatchesNameTheirLeaves
  BY DEF ModuleInv
<1>. QED BY ModulesInvariant, <1>1, PTL

-----------------------------------------------------------------------------
(***************************************************************************)
(* The money.  The pool sees neither the values nor the proof of a module: *)
(* the effects it is handed are an exchange of the notes the proof spends  *)
(* for the notes it makes, and nothing else.                               *)
(***************************************************************************)
LEMMA ApplyOpExchanges ==
    ASSUME Inv, NEW m, NEW root, NEW nfs \in Seq(Members(TreeOf(root)) \cap Note),
           NEW lvs \in Seq(Commitment), NEW sub \in Seq(Commitment),
           ApplyOp(m, [root |-> root, nullifiers |-> nfs, leaves |-> lvs, subtree |-> sub])
    PROVE  /\ Ledger!Exchange(Nonzeros(nfs), Nonzeros(lvs) \cup Nonzeros(sub))
           /\ SpendNullifiers(nfs)
           /\ NotEntered
<1>1. /\ initialized /\ NotEntered
      /\ nfs # <<>> => root \in knownRoots
      /\ SpendNullifiers(nfs)
      /\ \/ lvs = <<>> /\ AttachSubtree(sub)
         \/ sub = <<>> /\ AppendLeaves(lvs)
  BY DEF ApplyOp, onlyRegisteredModule
<1>2. TreeOK /\ leaves \in Seq(Commitment)
  BY <1>1, TreeOfInv DEF Inv, TypeOK
<1>3. Committed' = Committed \cup (Nonzeros(lvs) \cup Nonzeros(sub))
  <2>1. Nonzeros(<<>>) = {}
    BY DEF Nonzeros
  <2>. QED BY <1>1, <1>2, <2>1, AppendCommits, AttachCommits
<1>4. /\ Nonzeros(nfs) \subseteq Unspent
      /\ nullifierUsed' = nullifierUsed \cup Nonzeros(nfs)
  <2>1. CASE nfs = <<>>
    <3>1. Nonzeros(nfs) = {} /\ DOMAIN nfs = {}
      BY <2>1 DEF Nonzeros
    <3>2. nullifierUsed' = nullifierUsed \cup Nonzeros(nfs)
      BY <1>1 DEF SpendNullifiers, Nonzeros
    <3>. QED BY <3>1, <3>2
  <2>2. CASE nfs # <<>>
    <3>1. 1 \in DOMAIN nfs
      BY <2>2
    <3>2. nfs[1] \in Members(TreeOf(root))
      BY <3>1
    <3>3. TreeOf(root) = root
      BY <3>2 DEF TreeOf, Members
    <3>4. \A i \in DOMAIN nfs : nfs[i] \in Members(root)
      BY <3>3
    <3>. QED BY <1>1, <1>2, <2>2, <3>4, UsedIsUnspent
  <2>. QED BY <2>1, <2>2
<1> DEFINE made == Nonzeros(lvs) \cup Nonzeros(sub)
<1>. HIDE DEF made
<1>5. Ledger!Exchange(Nonzeros(nfs), made)
  BY <1>3, <1>4, OpExchanges DEF made
<1>. QED BY <1>1, <1>5 DEF made

\* The effects of an op that appends its outputs one by one.
LEMMA LeavesExchange ==
    ASSUME Inv, NEW m, NEW root, NEW ins, NEW n \in Nat, NEW outs \in Outputs(n),
           _stripZeros(Nullifiers(ins)) \in Seq(Members(TreeOf(root)) \cap Note),
           Nonzeros(_stripZeros(Nullifiers(ins))) = Nonzeros(Nullifiers(ins)),
           ApplyOp(m, Leaves(root, ins, outs))
    PROVE  /\ Ledger!Exchange(Nonzeros(Nullifiers(ins)), Nonzeros(Commitments(outs)))
           /\ SpendNullifiers(_stripZeros(Nullifiers(ins)))
           /\ NotEntered
<1> DEFINE nfs == _stripZeros(Nullifiers(ins))
           lvs == Commitments(outs)
<1>1. lvs \in Seq(Commitment) /\ <<>> \in Seq(Commitment)
  BY OutputFacts
<1>2. Nonzeros(<<>>) = {}
  BY DEF Nonzeros
<1>3. ApplyOp(m, [root |-> root, nullifiers |-> nfs, leaves |-> lvs, subtree |-> <<>>])
  BY DEF Leaves
<1>4. nfs \in Seq(Members(TreeOf(root)) \cap Note)
  OBVIOUS
<1>. HIDE DEF nfs, lvs
<1>5. /\ Ledger!Exchange(Nonzeros(nfs), Nonzeros(lvs) \cup Nonzeros(<<>>))
      /\ SpendNullifiers(nfs) /\ NotEntered
  BY <1>1, <1>3, <1>4, ApplyOpExchanges
<1>6. Nonzeros(lvs) \cup Nonzeros(<<>>) = Nonzeros(lvs)
  BY <1>2
<1>. QED BY <1>5, <1>6 DEF nfs, lvs

LEMMA DepositPrivLedger ==
    ASSUME Inv, NEW m, depositPriv(m)
    PROVE  Ledger!LedgerNext
<1>1. PICK from \in Account, outs \in Outputs(2) :
          /\ ApplyOp(m, Leaves(NoRoot, <<>>, outs))
          /\ CallToken(from, Pool, SlotSum(outs))
  BY DEF depositPriv
<1>2. Nullifiers(<<>>) = <<>> /\ Nonzeros(<<>>) = {}
  BY DEF Nullifiers, Nonzeros
<1>3. /\ _stripZeros(Nullifiers(<<>>)) \in Seq(Members(TreeOf(NoRoot)) \cap Note)
      /\ Nonzeros(_stripZeros(Nullifiers(<<>>))) = Nonzeros(Nullifiers(<<>>))
  <2>1. DOMAIN <<>> = 1..0 /\ Len(<<>>) = 0
    OBVIOUS
  <2>. QED BY <1>2, <2>1, StripFacts
<1>4. Ledger!Exchange({}, Nonzeros(Commitments(outs))) /\ NotEntered
  BY <1>1, <1>2, <1>3, LeavesExchange
<1>5. SettledEscrow \in Nat /\ SettledEscrow' = SettledEscrow + SlotSum(outs)
  <2>1. from \in Holder /\ Pool \in Holder /\ from # Pool /\ SlotSum(outs) \in Nat
    BY PoolAssumption, OutputFacts DEF Holder
  <2>2. CallToken(from, Pool, SlotSum(outs)) /\ UNCHANGED balance
    BY <1>1 DEF depositPriv
  <2>3. /\ SettledEscrow = balance[Pool] /\ balance[Pool] \in Nat
        /\ SettledEscrow' = balance[Pool] + SlotSum(outs) - 0
    BY <1>4, <2>1, <2>2, EscrowOfCall
  <2>. QED BY <2>1, <2>3
<1>. QED BY <1>4, <1>5, MintIsLedger

LEMMA TransferThroughLedger ==
    ASSUME Inv, NEW m, NEW op, NEW nIn \in Nat, TransferThrough(m, op, nIn)
    PROVE  Ledger!LedgerNext
<1>1. PICK root \in ProofRoots : \E ins \in ProvedInputs(nIn, TreeOf(root)),
             outs \in Outputs(2) : /\ SlotSum(ins) = SlotSum(outs)
                                   /\ ApplyOp(m, Leaves(root, ins, outs))
  BY DEF TransferThrough
<1>2. PICK ins \in ProvedInputs(nIn, TreeOf(root)), outs \in Outputs(2) :
          SlotSum(ins) = SlotSum(outs) /\ ApplyOp(m, Leaves(root, ins, outs))
  BY <1>1
<1>3. /\ Ledger!Exchange(Nonzeros(Nullifiers(ins)), Nonzeros(Commitments(outs)))
      /\ SpendNullifiers(_stripZeros(Nullifiers(ins)))
  BY <1>2, NullifierFacts, LeavesExchange
<1>4. \A i, j \in 1..nIn : ins[i].nf = ins[j].nf => i = j \/ ins[i].nf = Zero
  BY <1>3, NullifierFacts
<1>5. SettledEscrow \in Nat /\ SettledEscrow' = SettledEscrow
  BY EscrowStays DEF TransferThrough
<1>6. SlotSum(ins) \in Nat /\ SlotSum(ins) >= SlotSum(outs)
  BY <1>2, InputFacts
<1>. QED BY <1>3, <1>4, <1>5, <1>6, SpendIsLedger

LEMMA WithdrawPrivLedger ==
    ASSUME Inv, NEW m, withdrawPriv(m)
    PROVE  Ledger!LedgerNext
<1>1. PICK root \in ProofRoots : \E ins \in ProvedInputs(2, TreeOf(root)),
             outs \in Outputs(1), to \in Holder :
                /\ SlotSum(ins) >= SlotSum(outs)
                /\ ApplyOp(m, Leaves(root, ins, outs))
                /\ CallToken(Pool, to, SlotSum(ins) - SlotSum(outs))
  BY DEF withdrawPriv
<1>2. PICK ins \in ProvedInputs(2, TreeOf(root)), outs \in Outputs(1), to \in Holder :
          /\ SlotSum(ins) >= SlotSum(outs)
          /\ ApplyOp(m, Leaves(root, ins, outs))
          /\ CallToken(Pool, to, SlotSum(ins) - SlotSum(outs))
  BY <1>1
<1>3. /\ Ledger!Exchange(Nonzeros(Nullifiers(ins)), Nonzeros(Commitments(outs)))
      /\ SpendNullifiers(_stripZeros(Nullifiers(ins)))
      /\ NotEntered
  BY <1>2, NullifierFacts, LeavesExchange
<1>4. \A i, j \in 1..2 : ins[i].nf = ins[j].nf => i = j \/ ins[i].nf = Zero
  <2>1. ASSUME NEW k \in Nat, NEW inputs \in ProvedInputs(k, TreeOf(root)),
               SpendNullifiers(_stripZeros(Nullifiers(inputs)))
        PROVE  \A i, j \in 1..k :
                  inputs[i].nf = inputs[j].nf => i = j \/ inputs[i].nf = Zero
    BY <2>1, NullifierFacts
  <2>2. 2 \in Nat
    OBVIOUS
  <2>. QED BY <1>3, <2>1, <2>2
<1>5. SlotSum(ins) - SlotSum(outs) \in Nat
  <2>1. SlotSum(ins) \in Nat /\ SlotSum(outs) \in Nat
    BY InputFacts, OutputFacts
  <2>. QED BY <1>2, <2>1
<1>6. /\ SettledEscrow \in Nat /\ SettledEscrow' \in Nat
      /\ \/ SettledEscrow' = SettledEscrow
         \/ SettledEscrow' = SettledEscrow - (SlotSum(ins) - SlotSum(outs))
  <2>1. UNCHANGED balance
    BY DEF withdrawPriv
  <2>. QED BY <1>2, <1>3, <1>5, <2>1, EscrowPays
<1>. QED BY <1>2, <1>3, <1>4, <1>6, SpendIsLedger

LEMMA DisbursePrivLedger ==
    ASSUME Inv, NEW m, disbursePriv256(m)
    PROVE  Ledger!LedgerNext
<1>1. PICK root \in ProofRoots : \E ins \in ProvedInputs(1, TreeOf(root)),
             outs \in Outputs(B) :
                /\ ins[1].nf # Zero
                /\ SlotSum(ins) = SlotSum(outs)
                /\ ApplyOp(m, [root |-> root, nullifiers |-> Nullifiers(ins),
                               leaves |-> <<>>, subtree |-> Commitments(outs)])
  BY DEF disbursePriv256
<1>2. PICK ins \in ProvedInputs(1, TreeOf(root)), outs \in Outputs(B) :
          /\ ins[1].nf # Zero
          /\ SlotSum(ins) = SlotSum(outs)
          /\ ApplyOp(m, [root |-> root, nullifiers |-> Nullifiers(ins),
                         leaves |-> <<>>, subtree |-> Commitments(outs)])
  BY <1>1
<1> DEFINE cms == Commitments(outs)
           nfs == Nullifiers(ins)
<1>3. cms \in Seq(Commitment) /\ <<>> \in Seq(Commitment) /\ B \in Nat
  BY OutputFacts, PoolAssumption
<1>4. nfs \in Seq(Members(TreeOf(root)) \cap Note)
  BY <1>2, SoleNullifier
<1>5. Ledger!Exchange(Nonzeros(nfs), Nonzeros(cms))
  <2>1. Nonzeros(<<>>) \cup Nonzeros(cms) = Nonzeros(cms)
    BY DEF Nonzeros
  <2>2. ApplyOp(m, [root |-> root, nullifiers |-> nfs, leaves |-> <<>>, subtree |-> cms])
    BY <1>2
  <2>. HIDE DEF cms, nfs
  <2>3. Ledger!Exchange(Nonzeros(nfs), Nonzeros(<<>>) \cup Nonzeros(cms))
    BY <1>3, <1>4, <2>2, ApplyOpExchanges
  <2>. QED BY <2>1, <2>3
<1>6. \A i, j \in 1..1 : ins[i].nf = ins[j].nf => i = j \/ ins[i].nf = Zero
  OBVIOUS
<1>7. SettledEscrow \in Nat /\ SettledEscrow' = SettledEscrow
  BY EscrowStays DEF disbursePriv256
<1>8. SlotSum(ins) \in Nat /\ SlotSum(ins) >= SlotSum(outs)
  BY <1>2, InputFacts
<1>. QED BY <1>3, <1>5, <1>6, <1>7, <1>8, SpendIsLedger

LEMMA VarsStayLedger ==
    ASSUME UNCHANGED vars
    PROVE  UNCHANGED Ledger!ledgerVars
BY DEF vars, treeVars, Ledger!ledgerVars, Unspent, Committed, SettledEscrow

LEMMA ModuleNextIsLedger ==
    ASSUME Inv, [ModuleNext]_allVars
    PROVE  [Ledger!LedgerNext]_(Ledger!ledgerVars)
<1>1. CASE Next
  BY <1>1, NextIsLedger
<1>2. ASSUME NEW m \in Module, ModuleStep(m)
      PROVE  [Ledger!LedgerNext]_(Ledger!ledgerVars)
  <2>1. CASE depositPriv(m)
    BY <2>1, DepositPrivLedger
  <2>2. CASE transferPriv(m) \/ transfer10x2Priv(m)
    BY <2>2, TransferThroughLedger, PoolAssumption DEF transferPriv, transfer10x2Priv
  <2>3. CASE withdrawPriv(m)
    BY <2>3, WithdrawPrivLedger
  <2>4. CASE disbursePriv256(m)
    BY <2>4, DisbursePrivLedger
  <2>5. ASSUME NEW batch, NEW chunk, submitDisburseKemChunk(m, batch, chunk)
        PROVE  UNCHANGED Ledger!ledgerVars
    BY <2>5, VarsStayLedger DEF submitDisburseKemChunk
  <2>. QED BY <1>2, <2>1, <2>2, <2>3, <2>4, <2>5 DEF ModuleStep
<1>3. CASE UNCHANGED allVars
  BY <1>3, VarsStayLedger DEF allVars
<1>. QED BY <1>1, <1>2, <1>3 DEF ModuleNext

(***************************************************************************)
(* The pool with its modules is a shielded ledger still: whichever modules *)
(* are registered, and whatever proof each of them accepts, the notes used *)
(* and the notes made are those of one proof that balances.                *)
(***************************************************************************)
THEOREM ModulesImplementLedger == ModuleSpec => ImplementsLedger
<1>1. ModuleInit => Ledger!LedgerInit
  BY InitIsLedger DEF ModuleInit
<1>2. ModuleInv /\ [ModuleNext]_allVars => [Ledger!LedgerNext]_(Ledger!ledgerVars)
  BY ModuleNextIsLedger DEF ModuleInv
<1>. QED BY ModulesInvariant, <1>1, <1>2, PTL
         DEF ModuleSpec, ImplementsLedger, Ledger!LedgerSpec

(***************************************************************************)
(* At rest the escrow covers every unspent note, whoever put it there: an  *)
(* op of the pool or of a module.                                          *)
(***************************************************************************)
THEOREM ModulesSolvency == ModuleSpec => []Solvency
<1>1. ModuleInit => Covered
  BY InitIsCovered DEF ModuleInit
<1>2. ModuleInv /\ Covered /\ [ModuleNext]_allVars => Covered'
  BY ModuleNextIsLedger, LedgerKeepsCovered DEF ModuleInv
<1>. QED BY ModulesInvariant, CoveredIsSolvent, <1>1, <1>2, PTL DEF ModuleSpec
=============================================================================
