------------------------------ MODULE MCSolana ------------------------------
(* The Solana pool on notes worth 0, 1 and 2; SPL moves at most 2 at once.  *)
EXTENDS SolanaPool, TLC

CONSTANTS a, b, z

MCNote == {a, b, z}
MCValue == a :> 1 @@ b :> 2 @@ z :> 0
MCSupply == [x \in Account |-> 3]
MCForged == {{<<0, n>> : n \in MCNote}}

MCPayloads ==
    {[families |-> P2P \cup Enterprise, key |-> TRUE, B |-> 2],
     [families |-> P2P, key |-> FALSE, B |-> 2]}

MCFundable == {<<"nf", a>>, <<"batch", 2>>, <<"root", {<<0, a>>, <<1, b>>}>>}
=============================================================================
