------------------------------- MODULE MCPool -------------------------------
(***************************************************************************)
(* BongtuPool and ConsumerModules on a small instance, of either profile:  *)
(* notes a and b worth 1, c worth 2, one account, a module of every kind.  *)
(***************************************************************************)
EXTENDS ConsumerModules, TLC

CONSTANTS a, b, c, alice, k1, d, t, w, x, z

MCNote   == {a, b, c}
MCValue  == [n \in MCNote |-> IF n = c THEN 2 ELSE 1]
\* a and b have the same value: exchanging them changes nothing.
MCSymmetry == Permutations({a, b})

MCSupply == [y \in Account |-> 3]

\* A tree nobody has: every note at the first position.
MCForged == {{<<0, n>> : n \in MCNote}}

MCModuleOp == [m \in Module |-> CASE m = d -> "depositPriv"
                                  [] m = t -> "transferPriv"
                                  [] m = x -> "transfer10x2Priv"
                                  [] m = w -> "withdrawPriv"
                                  [] m = z -> "disbursePriv"]

\* Bounds: an enterprise pool without modules, or a consumer pool of four leaves with at
\* most two modules at a time, upgraded before its first leaf and without an arbiter.
MCBound == CASE profile = "none"       -> TRUE
             [] profile = "enterprise" -> registeredModules = {}
             [] profile = "consumer"   -> /\ Cardinality(registeredModules) <= 2
                                          /\ arbiterEpochs = <<>>
                                          /\ nextLeafIndex <= 4
                                          /\ leaves # <<>> => version = 3
=============================================================================
