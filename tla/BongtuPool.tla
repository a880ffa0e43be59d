----------------------------- MODULE BongtuPool -----------------------------
(***************************************************************************)
(* The core contract chains/evm/src/BongtuPool.sol: one append-only tree   *)
(* of note commitments, one set of used nullifiers, one escrow.            *)
(*                                                                         *)
(* A call that reverts changes nothing and is no step.  A call that        *)
(* succeeds is one step up to its token transfer; the token contract then  *)
(* runs (and may call back) with `call' pending and the latch taken, and   *)
(* CompleteTransfer is its return.                                         *)
(***************************************************************************)
EXTENDS Notes

CONSTANTS Account,          \* externally owned accounts holding the token
          Pool,             \* the pool's own address
          Supply,           \* initial token balance of every account
          Key,              \* arbiter keys
          Module,           \* op-module contracts
          B,                \* disburse batch size
          Capacity,         \* 2^H leaves
          TRANSFER10_ARITY,
          ForgedRoots,      \* roots of trees the pool never had
          NoRoot,           \* the field element 0 passed as a root
          NoCall,           \* no token transfer in flight
          MaxEpochs         \* bound on rotations, of the model only

ASSUME PoolAssumption ==
    /\ Pool \notin Account
    /\ Supply \in [Account -> Nat]
    /\ B \in Nat \ {0, 1}
    /\ Capacity \in Nat /\ Capacity % B = 0
    /\ TRANSFER10_ARITY \in Nat \ {0}
    /\ ForgedRoots \subseteq Root
    /\ MaxEpochs \in Nat

VARIABLES profile,         \* which initializer ran
          version,         \* OpenZeppelin's initializer version
          verifiers,       \* the enterprise ops whose verifier is wired
          arbiterEpochs,   \* the arbiter key of every epoch
          registeredModules,
          leaves,          \* every leaf of the tree, padding included
          knownRoots,
          nullifierUsed,
          balance,         \* the token's balances; balance[Pool] is the escrow
          call             \* the token transfer in flight: the latch `_locked'

treeVars  == <<leaves, knownRoots>>
adminVars == <<profile, version, verifiers, arbiterEpochs, registeredModules>>
vars == <<adminVars, treeVars, nullifierUsed, balance, call>>

Holder == Account \cup {Pool}
EnterpriseOp == {"deposit", "withdraw", "disburse", "transfer", "transfer10",
                 "transfer10x2"}
Call   == [from : Holder, to : Holder, amount : Nat]

ASSUME LatchAssumption == NoCall \notin Call

TypeOK ==
    /\ profile \in {"none", "enterprise", "consumer"}
    /\ version \in 0..3
    /\ verifiers \subseteq EnterpriseOp
    /\ arbiterEpochs \in Seq(Key)
    /\ registeredModules \subseteq Module
    /\ leaves \in Seq(Commitment)
    /\ knownRoots \subseteq Root
    /\ nullifierUsed \subseteq Note
    /\ balance \in [Holder -> Nat]
    /\ call \in Call \cup {NoCall}

nextLeafIndex == Len(leaves)
initialized   == profile # "none"
NotEntered    == call = NoCall
ClaimedRoots  == knownRoots \cup ForgedRoots

Init ==
    /\ profile = "none"
    /\ version = 0
    /\ verifiers = {}
    /\ arbiterEpochs = <<>>
    /\ registeredModules = {}
    /\ leaves = <<>>
    /\ knownRoots = {}
    /\ nullifierUsed = {}
    /\ balance = [h \in Holder |-> IF h = Pool THEN 0 ELSE Supply[h]]
    /\ call = NoCall

-----------------------------------------------------------------------------
(***************************************************************************)
(* Deployment and administration (the owner's calls).  None of them takes  *)
(* the latch.                                                              *)
(***************************************************************************)
InitTree == knownRoots' = {RootOf(<<>>)} /\ UNCHANGED leaves

Initialize ==
    /\ version = 0
    /\ profile' = "enterprise"
    /\ version' = 1
    /\ verifiers' = EnterpriseOp
    /\ \E key \in Key : arbiterEpochs' = <<key>>
    /\ InitTree
    /\ UNCHANGED <<registeredModules, nullifierUsed, balance, call>>

\* No arbiter epoch is ever minted on such a pool at initialization.
InitializeConsumerOnly ==
    /\ version = 0
    /\ profile' = "consumer"
    /\ version' = 1
    /\ InitTree
    /\ UNCHANGED <<verifiers, arbiterEpochs, registeredModules, nullifierUsed,
                   balance, call>>

\* The withdraw verifier is swapped for the one of the current circuit.
ReinitializeV2 ==
    /\ initialized /\ version < 2
    /\ version' = 2
    /\ verifiers' = verifiers \cup {"withdraw"}
    /\ UNCHANGED <<profile, arbiterEpochs, registeredModules, treeVars,
                   nullifierUsed, balance, call>>

ReinitializeV3(modules) ==
    /\ initialized /\ version < 3
    /\ modules \cap registeredModules = {}
    /\ version' = 3
    /\ registeredModules' = registeredModules \cup modules
    /\ UNCHANGED <<profile, verifiers, arbiterEpochs, treeVars, nullifierUsed,
                   balance, call>>

RotateArbiter(key) ==
    /\ initialized
    /\ Len(arbiterEpochs) < MaxEpochs
    /\ arbiterEpochs' = Append(arbiterEpochs, key)
    /\ UNCHANGED <<profile, version, verifiers, registeredModules, treeVars,
                   nullifierUsed, balance, call>>

RegisterModule(module) ==
    /\ initialized
    /\ module \notin registeredModules
    /\ registeredModules' = registeredModules \cup {module}
    /\ UNCHANGED <<profile, version, verifiers, arbiterEpochs, treeVars,
                   nullifierUsed, balance, call>>

RemoveModule(module) ==
    /\ initialized
    /\ module \in registeredModules
    /\ registeredModules' = registeredModules \ {module}
    /\ UNCHANGED <<profile, version, verifiers, arbiterEpochs, treeVars,
                   nullifierUsed, balance, call>>

-----------------------------------------------------------------------------
(***************************************************************************)
(* The tree.  Every single-leaf append makes the root it produces known; a *)
(* batch is attached at a multiple of B, the gap before it closed with     *)
(* zero leaves, and only the root after the batch becomes known.           *)
(***************************************************************************)
AppendLeaves(cms) ==
    /\ Len(leaves) + Len(cms) <= Capacity
    /\ leaves' = leaves \o cms
    /\ knownRoots' = knownRoots \cup
           {RootOf(leaves \o SubSeq(cms, 1, i)) : i \in 1..Len(cms)}

\* Mutant of BatchStart: read before the padding.
BatchStartUnpadded == Len(leaves)

Padding    == [i \in 1..((B - (Len(leaves) % B)) % B) |-> Zero]
BatchStart == Len(leaves) + Len(Padding)

\* Mutant of AttachSubtree: the new root is not marked.
AttachSubtreeUnmarked(cms) ==
    /\ BatchStart + B <= Capacity
    /\ leaves' = leaves \o Padding \o cms
    /\ knownRoots' = knownRoots \cup {RootOf(leaves \o Padding)}

AttachSubtree(cms) ==
    /\ BatchStart + B <= Capacity
    /\ leaves' = leaves \o Padding \o cms
    /\ knownRoots' = knownRoots \cup {RootOf(leaves')}

\* Mutant of SpendNullifiers: all checked, then all marked.
SpendNullifiersTogether(nfs) ==
    /\ \A i \in DOMAIN nfs : nfs[i] \notin nullifierUsed
    /\ nullifierUsed' = nullifierUsed \cup ({nfs[i] : i \in DOMAIN nfs} \ {Zero})

(***************************************************************************)
(* Nullifiers are checked and marked one after the other: a nullifier used *)
(* before, or twice in one call, reverts; a zero one is skipped.           *)
(***************************************************************************)
SpendNullifiers(nfs) ==
    /\ \A i \in DOMAIN nfs : nfs[i] \notin nullifierUsed
    /\ \A i, j \in DOMAIN nfs : nfs[i] = nfs[j] => i = j \/ nfs[i] = Zero
    /\ nullifierUsed' = nullifierUsed \cup ({nfs[i] : i \in DOMAIN nfs} \ {Zero})

NoZeroCommitment(outs) == \A i \in DOMAIN outs : outs[i].cm # Zero

\* The transfer at the end of an op: it reverts the op if it cannot succeed.
CallToken(from, to, amount) ==
    /\ amount <= balance[from]
    /\ call' = [from |-> from, to |-> to, amount |-> amount]

-----------------------------------------------------------------------------
(***************************************************************************)
(* The enterprise operations.  The arbiter key of the current epoch is     *)
(* injected into the proof's public signals, so a pool with no epoch, or   *)
(* with no verifier wired, reverts them all.  The inputs range over what a *)
(* proof can be made for: any root, any inputs the circuit accepts under   *)
(* it, any outputs that balance.                                           *)
(***************************************************************************)
Enter(op) == /\ initialized
             /\ NotEntered
             /\ arbiterEpochs # <<>>
             /\ op \in verifiers

Deposit ==
    /\ Enter("deposit")
    /\ \E from \in Account, outs \in Outputs(2) :
          /\ NoZeroCommitment(outs)
          /\ AppendLeaves(Commitments(outs))
          /\ CallToken(from, Pool, SlotSum(outs))
    /\ UNCHANGED <<adminVars, nullifierUsed, balance>>

\* Mutant of Spend: the root is believed.
SpendUnderAnyRoot(op, nIn, nOut) ==
    /\ Enter(op)
    /\ \E root \in ClaimedRoots :
          \E ins \in ProvedInputs(nIn, root) :
             /\ SpendNullifiers(Nullifiers(ins))
             /\ \E outs \in Outputs(nOut) :
                   /\ NoZeroCommitment(outs)
                   /\ SlotSum(ins) = SlotSum(outs)
                   /\ AppendLeaves(Commitments(outs))
    /\ UNCHANGED <<adminVars, balance, call>>

\* transfer, transfer10 and transfer10x2 differ in their arities only.
Spend(op, nIn, nOut) ==
    /\ Enter(op)
    /\ \E root \in ClaimedRoots :
          /\ root \in knownRoots
          /\ \E ins \in ProvedInputs(nIn, root) :
                /\ SpendNullifiers(Nullifiers(ins))
                /\ \E outs \in Outputs(nOut) :
                      /\ NoZeroCommitment(outs)
                      /\ SlotSum(ins) = SlotSum(outs)
                      /\ AppendLeaves(Commitments(outs))
    /\ UNCHANGED <<adminVars, balance, call>>

Transfer     == Spend("transfer", 2, 2)
Transfer10   == Spend("transfer10", TRANSFER10_ARITY, TRANSFER10_ARITY)
Transfer10x2 == Spend("transfer10x2", TRANSFER10_ARITY, 2)

\* The outputs stay inside the batch: nothing rejects a zero one here.
Disburse ==
    /\ Enter("disburse")
    /\ \E root \in ClaimedRoots :
          /\ root \in knownRoots
          /\ \E ins \in ProvedInputs(1, root) :
                /\ ins[1].nf # Zero
                /\ SpendNullifiers(Nullifiers(ins))
                /\ \E outs \in Outputs(B) :
                      /\ SlotSum(ins) = SlotSum(outs)
                      /\ AttachSubtree(Commitments(outs))
    /\ UNCHANGED <<adminVars, balance, call>>

\* The recipient is bound by the proof; it may be the pool itself.
Withdraw ==
    /\ Enter("withdraw")
    /\ \E root \in ClaimedRoots :
          /\ root \in knownRoots
          /\ \E ins \in ProvedInputs(2, root) :
                /\ SpendNullifiers(Nullifiers(ins))
                /\ \E outs \in Outputs(1), to \in Holder :
                      /\ NoZeroCommitment(outs)
                      /\ SlotSum(ins) >= SlotSum(outs)
                      /\ AppendLeaves(Commitments(outs))
                      /\ CallToken(Pool, to, SlotSum(ins) - SlotSum(outs))
    /\ UNCHANGED <<adminVars, balance>>

\* The token contract has moved the tokens and returns: the latch opens.
CompleteTransfer ==
    /\ ~NotEntered
    /\ balance' = [[balance EXCEPT ![call.from] = @ - call.amount]
                           EXCEPT ![call.to] = @ + call.amount]
    /\ call' = NoCall
    /\ UNCHANGED <<adminVars, treeVars, nullifierUsed>>

-----------------------------------------------------------------------------
(***************************************************************************)
(* applyOp, applyOpWithPull and applyOpWithPush: what the core enforces of *)
(* the effects a registered module hands it.  No subtree is <<>>.          *)
(***************************************************************************)
onlyRegisteredModule(module) ==
    initialized /\ NotEntered /\ module \in registeredModules

ApplyOp(module, fx) ==
    /\ onlyRegisteredModule(module)
    /\ ~(fx.nullifiers = <<>> /\ fx.leaves = <<>> /\ fx.subtree = <<>>)
    /\ IF fx.nullifiers = <<>> THEN fx.root = NoRoot ELSE fx.root \in knownRoots
    /\ \A i \in DOMAIN fx.nullifiers : fx.nullifiers[i] # Zero
    /\ SpendNullifiers(fx.nullifiers)
    /\ \/ /\ fx.subtree # <<>> /\ fx.leaves = <<>>
          /\ AttachSubtree(fx.subtree)
       \/ /\ fx.subtree = <<>>
          /\ \A i \in DOMAIN fx.leaves : fx.leaves[i] # Zero
          /\ AppendLeaves(fx.leaves)
    /\ UNCHANGED adminVars

Admin == \/ Initialize
         \/ InitializeConsumerOnly
         \/ ReinitializeV2
         \/ \E modules \in SUBSET Module : ReinitializeV3(modules)
         \/ \E key \in Key : RotateArbiter(key)
         \/ \E module \in Module : RegisterModule(module) \/ RemoveModule(module)

Enterprise == \/ Deposit \/ Transfer \/ Transfer10 \/ Transfer10x2
              \/ Disburse \/ Withdraw

Next == Admin \/ Enterprise \/ CompleteTransfer

Spec == Init /\ [][Next]_vars

-----------------------------------------------------------------------------
(***************************************************************************)
(* Properties.                                                             *)
(***************************************************************************)
Committed == {leaves[i] : i \in DOMAIN leaves} \ {Zero}
Unspent   == Committed \ nullifierUsed

(***************************************************************************)
(* Escrow counted with the transfer in flight: what a deposit is pulling   *)
(* is not there yet, what a withdraw is pushing is still there.            *)
(***************************************************************************)
SettledEscrow ==
    IF call = NoCall THEN balance[Pool]
    ELSE balance[Pool] + (IF call.to = Pool THEN call.amount ELSE 0)
                       - (IF call.from = Pool THEN call.amount ELSE 0)

(***************************************************************************)
(* The pool is a shielded ledger: every op, however it is batched, padded  *)
(* or interleaved with the token contract, is at most one minting, change  *)
(* or redemption of coins that exist, and what it pays out or leaves in    *)
(* the tree is worth no more than what it took in.                         *)
(***************************************************************************)
Ledger == INSTANCE ShieldedLedger WITH coins <- Unspent,
                                       spent <- nullifierUsed,
                                       vault <- SettledEscrow

ImplementsLedger == Ledger!LedgerSpec

(***************************************************************************)
(* Whenever an op can run, the tokens in escrow cover every note that can  *)
(* still be spent, whatever was deposited twice, padded, batched or spent  *)
(* against an old root (the token motion of deposit and withdraw against   *)
(* the tree and nullifier writes of every op).                             *)
(***************************************************************************)
Solvency == NotEntered => Worth(Unspent) <= balance[Pool]

(***************************************************************************)
(* A nullifier is used only by spending a note the tree holds: no spend of *)
(* a padding leaf, of a forged membership or of a note never minted.       *)
(***************************************************************************)
NoPhantomSpend == nullifierUsed \subseteq Committed

(***************************************************************************)
(* Every unspent note is provable against a root the pool accepts, and any *)
(* known root claims only leaves the tree still holds where it held them   *)
(* (any historical root is accepted, attach makes one root known for two   *)
(* inserts).                                                               *)
(***************************************************************************)
RootsTellTheTree ==
    /\ \A r \in knownRoots : r \subseteq RootOf(leaves)
    /\ initialized => RootOf(leaves) \in knownRoots

\* t is s, or goes on from it.
Continues(s, t) == Len(s) <= Len(t) /\ SubSeq(t, 1, Len(s)) = s

(***************************************************************************)
(* The history is append-only: no step moves or rewrites a leaf, forgets a *)
(* known root, frees a nullifier or changes the key of a past epoch.       *)
(***************************************************************************)
AppendOnly ==
    [][/\ Continues(leaves, leaves')
       /\ knownRoots \subseteq knownRoots'
       /\ nullifierUsed \subseteq nullifierUsed'
       /\ Continues(arbiterEpochs, arbiterEpochs')]_vars

(***************************************************************************)
(* An op never starts while a transfer of another op is in flight: tokens  *)
(* move only in CompleteTransfer, and every op sees a settled escrow.      *)
(***************************************************************************)
OpsSeeSettledEscrow ==
    [][leaves' # leaves => SettledEscrow = balance[Pool]]_vars
=============================================================================
