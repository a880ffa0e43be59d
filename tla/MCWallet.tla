------------------------------ MODULE MCWallet ------------------------------
(* Two pages of one account, the second also a payroll's; merges of three   *)
(* notes stand for merges of ten.                                           *)
EXTENDS Wallet

MCDevice == {"a", "b"}
MCPurses == {<<1, 1, 1, 1>>, <<2, 1>>}

Ask(kind, amount) == [kind |-> kind, amount |-> amount, relayed |-> kind = "withdraw"]

MCAsks == [a |-> {Ask("transfer", 4), Ask("withdraw", 3), Ask("deposit", 2)},
           b |-> {Ask("transfer", 4), Ask("withdraw", 3), Ask("disburse", 3),
                  Ask("depositPriv", 2)}]
==============================================================================
