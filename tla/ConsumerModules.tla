--------------------------- MODULE ConsumerModules ---------------------------
(***************************************************************************)
(* The consumer op modules (chains/evm/src/modules) on top of the pool:    *)
(* each checks its own proof and hands the pool the effects to apply.  The *)
(* disburse module also keeps, per batch, the hashes of the KEM ciphertext *)
(* chunks that anyone may deliver later.                                   *)
(***************************************************************************)
EXTENDS BongtuPool

CONSTANTS ModuleOp,      \* the operation each module contract implements
          chunkArity     \* outputs whose ciphertexts one chunk carries

ConsumerOp == {"depositPriv", "transferPriv", "transfer10x2Priv",
               "withdrawPriv", "disbursePriv"}

ASSUME ModuleAssumption == /\ ModuleOp \in [Module -> ConsumerOp]
                           /\ chunkArity \in 1..B

VARIABLES chunkHashes,       \* per module: batch start |-> the outputs hashed
          kemChunkAccepted   \* per module: the <<batch, chunk>> delivered

chunkVars == <<chunkHashes, kemChunkAccepted>>
allVars   == <<vars, chunkVars>>

chunkCount == (B + chunkArity - 1) \div chunkArity

Batches(module) == DOMAIN chunkHashes[module]

ModuleInit ==
    /\ Init
    /\ chunkHashes = [m \in Module |-> <<>>]
    /\ kemChunkAccepted = [m \in Module |-> {}]

-----------------------------------------------------------------------------
(***************************************************************************)
(* The entry points.  A proof is made under a claimed root, or under the   *)
(* root 0 when it spends nothing; padded nullifiers are stripped before    *)
(* the pool sees them.  Every entry point ends in the pool, which refuses  *)
(* a module it does not know; Through asks it first, to spare TLC the rest.  *)
(***************************************************************************)
Through(m, op) == ModuleOp[m] = op /\ onlyRegisteredModule(m)

_stripZeros(nfs) ==
    LET kept[i \in 0..Len(nfs)] ==
            IF i = 0 THEN <<>>
            ELSE IF nfs[i] = Zero THEN kept[i - 1] ELSE Append(kept[i - 1], nfs[i])
    IN  kept[Len(nfs)]

ProofRoots == ClaimedRoots \cup {NoRoot}
TreeOf(root) == IF root = NoRoot THEN {} ELSE root

Leaves(root, ins, outs) ==
    [root |-> root, nullifiers |-> _stripZeros(Nullifiers(ins)),
     leaves |-> Commitments(outs), subtree |-> <<>>]

depositPriv(m) ==
    /\ Through(m, "depositPriv")
    /\ \E from \in Account, outs \in Outputs(2) :
          /\ ApplyOp(m, Leaves(NoRoot, <<>>, outs))
          /\ CallToken(from, Pool, SlotSum(outs))
    /\ UNCHANGED <<balance, chunkVars>>

TransferThrough(m, op, nIn) ==
    /\ Through(m, op)
    /\ \E root \in ProofRoots :
          \E ins \in ProvedInputs(nIn, TreeOf(root)), outs \in Outputs(2) :
             /\ SlotSum(ins) = SlotSum(outs)
             /\ ApplyOp(m, Leaves(root, ins, outs))
    /\ UNCHANGED <<balance, call, chunkVars>>

transferPriv(m)     == TransferThrough(m, "transferPriv", 2)
transfer10x2Priv(m) == TransferThrough(m, "transfer10x2Priv", TRANSFER10_ARITY)

withdrawPriv(m) ==
    /\ Through(m, "withdrawPriv")
    /\ \E root \in ProofRoots :
          \E ins \in ProvedInputs(2, TreeOf(root)), outs \in Outputs(1), to \in Holder :
             /\ SlotSum(ins) >= SlotSum(outs)
             /\ ApplyOp(m, Leaves(root, ins, outs))
             /\ CallToken(Pool, to, SlotSum(ins) - SlotSum(outs))
    /\ UNCHANGED <<balance, chunkVars>>

\* The sole input is always enabled: a zero nullifier is refused first.
disbursePriv256(m) ==
    /\ Through(m, "disbursePriv")
    /\ \E root \in ProofRoots :
          \E ins \in ProvedInputs(1, TreeOf(root)), outs \in Outputs(B) :
             /\ ins[1].nf # Zero
             /\ SlotSum(ins) = SlotSum(outs)
             /\ ApplyOp(m, [root |-> root, nullifiers |-> Nullifiers(ins),
                            leaves |-> <<>>, subtree |-> Commitments(outs)])
             /\ chunkHashes' = [chunkHashes EXCEPT ![m] =
                   [s \in {BatchStart} \cup DOMAIN @ |->
                       IF s = BatchStart THEN Commitments(outs) ELSE @[s]]]
    /\ UNCHANGED <<balance, call, kemChunkAccepted>>

(***************************************************************************)
(* Anyone delivers a chunk: its bytes must hash to what the batch stored.  *)
(* The pool is not involved: neither its latch nor its registry is asked.  *)
(***************************************************************************)
submitDisburseKemChunk(m, batch, chunk) ==
    /\ batch \in Batches(m)
    /\ chunk \in 0..(chunkCount - 1)
    /\ <<batch, chunk>> \notin kemChunkAccepted[m]
    /\ kemChunkAccepted' = [kemChunkAccepted EXCEPT ![m] = @ \cup {<<batch, chunk>>}]
    /\ UNCHANGED <<vars, chunkHashes>>

ModuleStep(m) ==
    \/ depositPriv(m) \/ transferPriv(m) \/ transfer10x2Priv(m)
    \/ withdrawPriv(m) \/ disbursePriv256(m)
    \/ \E batch \in 0..Capacity, chunk \in 0..chunkCount :
          submitDisburseKemChunk(m, batch, chunk)

ModuleNext == \/ Next /\ UNCHANGED chunkVars
              \/ \E m \in Module : ModuleStep(m)

ModuleSpec == ModuleInit /\ [][ModuleNext]_allVars

-----------------------------------------------------------------------------
(***************************************************************************)
(* A batch is filed under the position it was attached at: the outputs the *)
(* stored hashes speak of are the B leaves from there on, for as long as   *)
(* the pool lives, though the start is known only after padding.           *)
(***************************************************************************)
BatchesNameTheirLeaves ==
    \A m \in Module : \A s \in Batches(m) :
        /\ s % B = 0
        /\ s + B <= nextLeafIndex
        /\ SubSeq(leaves, s + 1, s + B) = chunkHashes[m][s]
=============================================================================
