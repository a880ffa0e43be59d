--------------------------------- MODULE Imt ---------------------------------
(***************************************************************************)
(* The incremental Merkle tree, twice: as BongtuPool.sol keeps it (a       *)
(* frontier, no leaves) and as its off-chain oracle packages/core/src/     *)
(* imt.ts does (the same frontier and a dense record of the leaves).  The  *)
(* two are driven in lockstep by single appends and batch attachments.     *)
(*                                                                         *)
(* Poseidon is taken as injective: the hash of two nodes is the sequence   *)
(* of the leaves below the left one followed by those of the right one, so *)
(* a node of level i is the sequence of its 2^i leaves.                    *)
(***************************************************************************)
EXTENDS Integers, Sequences

CONSTANTS Leaf,    \* the nonzero commitments
          Empty,   \* the zero leaf
          H,       \* levels above the leaves
          LOG_B,   \* the level a batch is attached at
          Batch    \* the batches of commitments tried

ASSUME ImtAssumption == /\ Empty \notin Leaf
                        /\ H \in Nat \ {0}
                        /\ LOG_B \in 0..H
                        /\ Batch \subseteq [1..2^LOG_B -> Leaf \cup {Empty}]

VARIABLES pool,     \* the contract: nextLeafIndex, filledSubtrees, root
          oracle,   \* the same fields of ImtTree
          leaves,   \* ImtTree's dense record
          threw     \* an operation of the oracle has thrown: it is not used again

imtVars == <<pool, oracle, leaves, threw>>

B        == 2^LOG_B
Capacity == 2^H
Level    == 0..(H - 1)

poseidon(l, r) == l \o r

\* zeros[i], the empty subtree of height i.
zeros == [i \in 0..H |-> [k \in 1..2^i |-> Empty]]

Bit(n, i) == (n \div 2^i) % 2

EmptyTree == [nextLeafIndex |-> 0,
              filledSubtrees |-> [i \in Level |-> zeros[i]],
              root |-> zeros[H]]

-----------------------------------------------------------------------------
(***************************************************************************)
(* _insertNode, the same in both: fold node, at level startLevel, up to    *)
(* the root.  It reverts (throws) when the node would pass the last leaf.  *)
(***************************************************************************)
HasRoom(t, startLevel) == t.nextLeafIndex + 2^startLevel <= Capacity

_insertNode(t, node, startLevel) ==
    LET right(i) == Bit(t.nextLeafIndex, i) = 1
        fold[i \in startLevel..H] ==     \* the node the path has at level i
            IF i = startLevel THEN node
            ELSE IF right(i - 1) THEN poseidon(t.filledSubtrees[i - 1], fold[i - 1])
                                 ELSE poseidon(fold[i - 1], zeros[i - 1])
    IN  [nextLeafIndex |-> t.nextLeafIndex + 2^startLevel,
         filledSubtrees |-> [i \in Level |-> IF i >= startLevel /\ ~right(i)
                                             THEN fold[i] ELSE t.filledSubtrees[i]],
         root |-> fold[H]]

\* Mutant of ClosedBlock: the left siblings are taken for empty.
ClosedBlockEmptied(t) == zeros[LOG_B]

\* The contract closes the pending block in LOG_B folds, as one node.
ClosedBlock(t) ==
    LET rem == t.nextLeafIndex % B
        node[i \in 0..LOG_B] ==
            IF i = 0 THEN zeros[0]
            ELSE IF Bit(rem, i - 1) = 1 THEN poseidon(t.filledSubtrees[i - 1], node[i - 1])
                                        ELSE poseidon(node[i - 1], zeros[i - 1])
    IN  node[LOG_B]

_attachSubtree(t, subtreeRoot) ==
    LET rem    == t.nextLeafIndex % B
        start  == [t EXCEPT !.nextLeafIndex = @ - rem]
        closed == IF rem = 0 THEN t ELSE _insertNode(start, ClosedBlock(t), LOG_B)
    IN  _insertNode(closed, subtreeRoot, LOG_B)

\* A batch fits when it does past the block that attaching closes first.
BatchFits(t) == t.nextLeafIndex + ((B - (t.nextLeafIndex % B)) % B) + B <= Capacity

\* The oracle closes the block leaf by leaf.
_padToBlockBoundary(t) ==
    LET pad == (B - (t.nextLeafIndex % B)) % B
        padded[k \in 0..pad] == IF k = 0 THEN t ELSE _insertNode(padded[k - 1], zeros[0], 0)
    IN  padded[pad]

Padding(t) == [k \in 1..((B - (t.nextLeafIndex % B)) % B) |-> Empty]

-----------------------------------------------------------------------------
ImtInit == pool = EmptyTree /\ oracle = EmptyTree /\ leaves = <<>> /\ threw = FALSE

AppendLeaf(leaf) ==
    /\ ~threw /\ HasRoom(pool, 0)
    /\ pool' = _insertNode(pool, <<leaf>>, 0)
    /\ oracle' = _insertNode(oracle, <<leaf>>, 0)
    /\ leaves' = Append(leaves, leaf)
    /\ UNCHANGED threw

\* computeSubtreeRoot(batch) is the batch itself.
Attach(batch) ==
    /\ ~threw /\ BatchFits(pool)
    /\ pool' = _attachSubtree(pool, batch)
    /\ oracle' = _insertNode(_padToBlockBoundary(oracle), batch, LOG_B)
    /\ leaves' = leaves \o Padding(oracle) \o batch
    /\ UNCHANGED threw

\* The contract reverts and changes nothing; the oracle has padded and has
\* recorded the batch by the time it throws.
AttachRefused(batch) ==
    /\ ~threw /\ ~BatchFits(pool)
    /\ oracle' = _padToBlockBoundary(oracle)
    /\ leaves' = leaves \o Padding(oracle) \o batch
    /\ threw' = TRUE
    /\ UNCHANGED pool

ImtNext == \/ \E leaf \in Leaf : AppendLeaf(leaf)
           \/ \E batch \in Batch : Attach(batch) \/ AttachRefused(batch)

ImtSpec == ImtInit /\ [][ImtNext]_imtVars

-----------------------------------------------------------------------------
(***************************************************************************)
(* naiveRoot and merklePath: the tree of the dense record, level by level, *)
(* recomputed with no frontier.                                            *)
(***************************************************************************)
NodeAt(i, k) == [j \in 1..2^i |-> IF k * 2^i + j <= Len(leaves)
                                  THEN leaves[k * 2^i + j] ELSE Empty]
naiveRoot == NodeAt(H, 0)

\* Mutant of merklePath: the sibling is always the one to the right.
merklePathRightward(index) ==
    [i \in Level |-> NodeAt(i, (index \div 2^i) + 1)]

merklePath(index) ==
    [i \in Level |-> LET k == index \div 2^i
                     IN  IF k % 2 = 1 THEN NodeAt(i, k - 1) ELSE NodeAt(i, k + 1)]

foldToRoot(leaf, siblings, index) ==
    LET cur[i \in 0..H] ==
            IF i = 0 THEN <<leaf>>
            ELSE IF Bit(index, i - 1) = 1 THEN poseidon(siblings[i - 1], cur[i - 1])
                                          ELSE poseidon(cur[i - 1], siblings[i - 1])
    IN  cur[H]

(***************************************************************************)
(* As long as nothing threw, the contract's root and index are the         *)
(* oracle's and the root is the Merkle root of every leaf in order: the    *)
(* closing of a block in LOG_B folds and the stale low frontier it leaves  *)
(* behind never show in a root.                                            *)
(***************************************************************************)
RootsAgree ==
    ~threw => /\ pool.root = oracle.root /\ pool.root = naiveRoot
              /\ pool.nextLeafIndex = oracle.nextLeafIndex

(***************************************************************************)
(* Every recorded leaf proves its membership: its merklePath folds back to *)
(* the root the contract has, batches and padding included.                *)
(***************************************************************************)
PathsFoldToTheRoot ==
    ~threw => \A index \in 0..(Len(leaves) - 1) :
        foldToRoot(leaves[index + 1], merklePath(index), index) = pool.root
=============================================================================
