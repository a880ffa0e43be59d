----------------------------- MODULE SolanaPool -----------------------------
(***************************************************************************)
(* The pool as a Solana program (chains/solana/program/src): the circuits  *)
(* of the EVM pool, with every nullifier, known root and batch an account  *)
(* of its own at an address derived from it, and an escrow in an SPL token *)
(* account.  An instruction fails as a whole or is one step; the SPL token *)
(* program calls nobody back.                                              *)
(*                                                                         *)
(* There is one pool in a deployment (docs/solana-rail.md): the addresses  *)
(* carry no pool, so the program itself does not tell two of them apart.   *)
(***************************************************************************)
EXTENDS Notes

CONSTANTS Account,      \* the users' token accounts
          Vault,        \* the pool's
          Supply,       \* what each account holds at first
          Payloads,     \* the profiles initialize may be sent
          CircuitB,     \* the outputs of the disburse circuit
          Capacity,     \* 2^TREE_HEIGHT leaves
          Arity,        \* the inputs of transfer10x2
          MaxAmount,    \* the largest amount SPL can move, 2^64 - 1
          ForgedRoots,  \* roots of trees the pool never had
          NoRoot,       \* the field element 0 passed as a root
          NoConfig,     \* no pool yet
          Fundable      \* addresses somebody may send lamports to

P2P == {"deposit_priv", "transfer_priv", "transfer10x2_priv", "withdraw_priv"}
Enterprise == {"deposit", "withdraw", "disburse256", "transfer", "transfer10x2"}

Payload == [families : SUBSET (P2P \cup Enterprise \cup {"unknown"}),
            key : BOOLEAN, B : Nat]

ASSUME SolanaAssumption ==
    /\ Vault \notin Account
    /\ Supply \in [Account -> Nat]
    /\ Payloads \subseteq Payload
    /\ CircuitB \in Nat \ {0} /\ Arity \in Nat \ {0}
    /\ Capacity \in Nat /\ Capacity % CircuitB = 0
    /\ MaxAmount \in Nat
    /\ ForgedRoots \subseteq Root

VARIABLES config,       \* the PoolConfig account
          leaves,       \* the leaves of the tree, padding included
          knownRoots,   \* the KnownRoot accounts
          nullifiers,   \* the Nullifier accounts
          batches,      \* the DisburseBatch accounts
          funded,       \* the addresses that were sent lamports
          balance,      \* the token balances
          ledger        \* the event of every operation

treeState == <<leaves, knownRoots, batches>>
poolVars == <<config, treeState, nullifiers, funded, balance, ledger>>

Holder == Account \cup {Vault}

PoolInit ==
    /\ config = NoConfig
    /\ leaves = <<>> /\ knownRoots = {} /\ nullifiers = {} /\ batches = {}
    /\ funded = {}
    /\ balance = [h \in Holder |-> IF h = Vault THEN 0 ELSE Supply[h]]
    /\ ledger = <<>>

-----------------------------------------------------------------------------
(* The accounts.                                                           *)

\* No odd number but 1 divides it.
is_power_of_two(n) == n > 0 /\ \A d \in 1..n : n % d = 0 /\ d # 1 => d % 2 = 0

\* A profile with enterprise families has a key, one without them has none.
\* The capacity is a power of two: one below it has fewer trailing zeros.
initialize(profile) ==
    /\ config = NoConfig
    /\ profile.families \subseteq P2P \cup Enterprise
    /\ is_power_of_two(profile.B) /\ profile.B < Capacity
    /\ "disburse256" \in profile.families => profile.B = CircuitB
    /\ profile.key = (profile.families \cap Enterprise # {})
    /\ config' = profile
    /\ UNCHANGED <<treeState, nullifiers, funded, balance, ledger>>

\* Addresses are a function of public data: anybody may send lamports to one.
SendLamports(address) ==
    /\ funded = {}
    /\ funded' = {address}
    /\ UNCHANGED <<config, treeState, nullifiers, balance, ledger>>

\* CreateAccount fails on an address that holds lamports.
CreateAccount(address) == address \notin funded

\* Mutant of create_pda: the one call for every address.
create_pdaAtOnce(address) == CreateAccount(address)

\* An address that holds lamports is topped up, allocated and assigned instead.
create_pda(address) == address \in funded \/ CreateAccount(address)

\* The op's family is enabled, and an enterprise op finds the arbiter's key.
check_common(family) ==
    /\ config # NoConfig
    /\ family \in config.families
    /\ family \in Enterprise => config.key

\* What SPL can move; a larger amount fails the op.
amount_u64(public) == {public} \cap 0..MaxAmount

Nonzero(cms) == \A i \in DOMAIN cms : cms[i] # Zero

\* Only the root after the op becomes known; it may be known already.
register_new_root ==
    /\ knownRoots' = knownRoots \cup {RootOf(leaves')}
    /\ RootOf(leaves') \notin knownRoots => create_pda(<<"root", RootOf(leaves')>>)

append_leaves(cms) ==
    /\ Len(leaves) + Len(cms) <= Capacity
    /\ leaves' = leaves \o cms

\* Mutant of BatchStart: read before the partial block is closed.
BatchStartUnclosed == Len(leaves)

Gap == (config.B - (Len(leaves) % config.B)) % config.B

BatchStart == Len(leaves) + Gap

\* The partial block is closed with zeros, and the batch attached after it.
attach_subtree(cms) ==
    LET closed == [i \in 1..Gap |-> Zero]
    IN  /\ Len(leaves) + Len(closed) + config.B <= Capacity
        /\ leaves' = leaves \o closed \o cms

Spending(nfs) == {nfs[i] : i \in DOMAIN nfs} \ {Zero}

\* Mutant of check_spend: the nullifiers of one op are not compared.
check_spendApart(nfs, root) ==
    /\ IF Spending(nfs) = {} THEN root = NoRoot ELSE root \in knownRoots
    /\ Spending(nfs) \cap nullifiers = {}
    /\ \A n \in Spending(nfs) : create_pda(<<"nf", n>>)

\* A root is claimed by an op that spends, and is known; the nullifiers are distinct
\* and unspent.
check_spend(nfs, root) ==
    /\ IF Spending(nfs) = {} THEN root = NoRoot ELSE root \in knownRoots
    /\ \A i, j \in DOMAIN nfs : nfs[i] = nfs[j] => i = j \/ nfs[i] = Zero
    /\ Spending(nfs) \cap nullifiers = {}
    /\ \A n \in Spending(nfs) : create_pda(<<"nf", n>>)

spend_nullifiers(nfs) == nullifiers' = nullifiers \cup Spending(nfs)

\* The self-CPI that tells the indexer of the op.
emit(start, count, nfs, batch) ==
    ledger' = Append(ledger, [start |-> start, count |-> count, batch |-> batch,
                              nullifiers |-> Spending(nfs)])

Move(from, to, amount) ==
    /\ amount <= balance[from]
    /\ balance' = [h \in Holder |-> balance[h] - (IF h = from THEN amount ELSE 0)
                                               + (IF h = to THEN amount ELSE 0)]

-----------------------------------------------------------------------------
(* The instructions.  Their inputs range over what a proof can be made for. *)

Claims == knownRoots \cup ForgedRoots \cup {NoRoot}

\* What can be proved of k inputs under a root; under none, only unused ones.
Proved(k, root) == ProvedInputs(k, IF root = NoRoot THEN {} ELSE root)

Mint(family) ==
    /\ check_common(family)
    /\ \E from \in Account, outs \in Outputs(2) :
          /\ Nonzero(Commitments(outs))
          /\ append_leaves(Commitments(outs))
          /\ register_new_root
          /\ \E amount \in amount_u64(SlotSum(outs)) : Move(from, Vault, amount)
    /\ emit(Len(leaves), 2, <<>>, FALSE)
    /\ UNCHANGED <<config, nullifiers, batches, funded>>

Spend(family, nIn) ==
    /\ check_common(family)
    /\ \E root \in Claims : \E ins \in Proved(nIn, root) :
          /\ check_spend(Nullifiers(ins), root)
          /\ spend_nullifiers(Nullifiers(ins))
          /\ \E outs \in Outputs(2) :
                /\ SlotSum(ins) = SlotSum(outs)
                /\ Nonzero(Commitments(outs))
                /\ append_leaves(Commitments(outs))
                /\ register_new_root
          /\ emit(Len(leaves), 2, Nullifiers(ins), FALSE)
    /\ UNCHANGED <<config, batches, funded, balance>>

\* The recipient's token account is bound by the proof; it may be the vault.
Pay(family) ==
    /\ check_common(family)
    /\ \E root \in Claims : \E ins \in Proved(2, root) :
          /\ check_spend(Nullifiers(ins), root)
          /\ spend_nullifiers(Nullifiers(ins))
          /\ \E outs \in Outputs(1), to \in Holder :
                /\ SlotSum(ins) >= SlotSum(outs)
                /\ Nonzero(Commitments(outs))
                /\ append_leaves(Commitments(outs))
                /\ register_new_root
                /\ \E amount \in amount_u64(SlotSum(ins) - SlotSum(outs)) :
                      Move(Vault, to, amount)
          /\ emit(Len(leaves), 1, Nullifiers(ins), FALSE)
    /\ UNCHANGED <<config, batches, funded>>

deposit == Mint("deposit")
deposit_priv == Mint("deposit_priv")
transfer == Spend("transfer", 2)
transfer_priv == Spend("transfer_priv", 2)
transfer10x2 == Spend("transfer10x2", Arity)
transfer10x2_priv == Spend("transfer10x2_priv", Arity)
withdraw == Pay("withdraw")
withdraw_priv == Pay("withdraw_priv")

\* One real input; the outputs stay inside the batch, whose account records them.
disburse256 ==
    /\ check_common("disburse256")
    /\ config.B = CircuitB
    /\ \E root \in Claims : \E ins \in Proved(1, root) :
          /\ Nullifiers(ins)[1] # Zero
          /\ check_spend(Nullifiers(ins), root)
          /\ spend_nullifiers(Nullifiers(ins))
          /\ \E outs \in Outputs(CircuitB) :
                /\ SlotSum(ins) = SlotSum(outs)
                /\ attach_subtree(Commitments(outs))
                /\ register_new_root
                /\ \A b \in batches : b.start # BatchStart
                /\ create_pda(<<"batch", BatchStart>>)
                /\ batches' = batches \cup {[start |-> BatchStart,
                                             disclosed |-> Commitments(outs)]}
          /\ emit(BatchStart, CircuitB, Nullifiers(ins), TRUE)
    /\ UNCHANGED <<config, funded, balance>>

Instruction ==
    \/ deposit \/ deposit_priv
    \/ transfer \/ transfer_priv \/ transfer10x2 \/ transfer10x2_priv
    \/ withdraw \/ withdraw_priv
    \/ disburse256

PoolNext ==
    \/ \E profile \in Payloads : initialize(profile)
    \/ \E address \in Fundable : SendLamports(address)
    \/ Instruction

PoolSpec == PoolInit /\ [][PoolNext]_poolVars

-----------------------------------------------------------------------------
(* Properties.                                                             *)

Committed == {leaves[i] : i \in DOMAIN leaves} \ {Zero}
Unspent == Committed \ nullifiers

(***************************************************************************)
(* The program keeps the ledger the EVM pool keeps: no op, whatever root,  *)
(* padding, amount or family it uses, makes or pays out more than it took. *)
(***************************************************************************)
Ledger == INSTANCE ShieldedLedger WITH coins <- Unspent,
                                       spent <- nullifiers,
                                       vault <- balance[Vault]

ImplementsLedger == Ledger!LedgerSpec

(***************************************************************************)
(* A batch's account, the durable anchor of its disclosure, names the      *)
(* leaves where the batch went, whatever partial block was before it.      *)
(***************************************************************************)
AnchorsNameTheirBatch ==
    \A b \in batches :
        SubSeq(leaves, b.start + 1, b.start + Len(b.disclosed)) = b.disclosed

\* Every guard of a withdrawal of all that n is worth, with change c.
Redeemable(n, c) ==
    \E root \in knownRoots :
        /\ n \in Members(root)
        /\ check_spend(<<n, Zero>>, root)
        /\ amount_u64(Value[n]) # {}
        /\ \A amount \in amount_u64(Value[n]) : amount <= balance[Vault]
        /\ create_pda(<<"root", RootOf(Append(leaves, c))>>)

(***************************************************************************)
(* A note in the tree that was not spent can be: there is a root it is     *)
(* proved under, the vault covers it, and nobody can take the address of   *)
(* its nullifier, or of the root its spend will give, by sending lamports  *)
(* there (op_common.rs:246), as long as the tree has room for the change.  *)
(***************************************************************************)
NoNoteIsFrozen ==
    Len(leaves) < Capacity
        => \A n \in Unspent, c \in Note : Value[n] <= MaxAmount => Redeemable(n, c)
=============================================================================
