--------------------------- MODULE ShieldedLedger ---------------------------
(***************************************************************************)
(* What a shielded pool promises, with no tree, proof, root or verifier:   *)
(* coins that are minted against tokens put in a vault, changed for other  *)
(* coins worth no more, and redeemed for tokens of the vault; a coin that  *)
(* has been spent is never minted again.                                   *)
(***************************************************************************)
EXTENDS Integers, FiniteSets, Functions

CONSTANTS Note, Value

VARIABLES coins,   \* the coins that can be spent
          spent,   \* the coins that were
          vault    \* the tokens that back them

ledgerVars == <<coins, spent, vault>>

WorthOf(S) == SumFunctionOnSet(Value, S)

LedgerInit == coins = {} /\ spent = {} /\ vault = 0

\* A coin minted twice is one coin; one that was spent stays spent.
Exchange(used, made) ==
    /\ used \subseteq coins
    /\ spent' = spent \cup used
    /\ coins' = (coins \cup made) \ spent'

Mint(made) ==
    /\ Exchange({}, made)
    /\ vault' \in Nat
    /\ vault' >= vault + WorthOf(made)

Change(used, made) ==
    /\ Exchange(used, made)
    /\ WorthOf(made) <= WorthOf(used)
    /\ UNCHANGED vault

Redeem(used, made) ==
    /\ Exchange(used, made)
    /\ vault' \in Nat
    /\ vault' <= vault
    /\ WorthOf(made) + (vault - vault') <= WorthOf(used)

\* The worth of a set is that of its elements, so a set of notes is finite.
LedgerNext ==
    \E made \in SUBSET Note :
        /\ IsFiniteSet(made)
        /\ \/ Mint(made)
           \/ \E used \in SUBSET coins : Change(used, made) \/ Redeem(used, made)

LedgerSpec == LedgerInit /\ [][LedgerNext]_ledgerVars
=============================================================================
