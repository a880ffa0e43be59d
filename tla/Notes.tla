-------------------------------- MODULE Notes --------------------------------
(***************************************************************************)
(* The shielded notes of bongtu and what a Groth16 proof says about them.  *)
(*                                                                         *)
(* A note is named by its commitment; the commitment binds its value, its  *)
(* owner and its salt, and the nullifier is a hash of the same data, so    *)
(* commitment and nullifier of a note are one name here.  A tree root is   *)
(* the set of the positions it commits to a nonzero leaf at: two trees     *)
(* have the same Merkle root exactly when they agree on that set, an empty *)
(* position and a zero leaf being indistinguishable.                       *)
(***************************************************************************)
EXTENDS Integers, Sequences, FiniteSets, Functions

CONSTANTS Note,    \* the note commitments that can exist
          Value,   \* the value each commitment binds
          Zero     \* the field element 0: an empty leaf, a padded input

ASSUME NoteAssumption == /\ Zero \notin Note
                         /\ Value \in [Note -> Nat]

Commitment == Note \cup {Zero}
Root       == SUBSET (Nat \X Note)

\* The root of the tree whose leaves, from position 0 on, are s.
RootOf(s) == {<<i - 1, s[i]>> : i \in {j \in DOMAIN s : s[j] # Zero}}

Members(r) == {p[2] : p \in r}

(***************************************************************************)
(* One input of a spend as the circuit sees it.  CheckHashes accepts a     *)
(* zero commitment, and CheckNullifiers a zero nullifier, with any value:  *)
(* the witness of a real note n can show either of them as zero.  The      *)
(* padding of an unused slot is the all-zero witness.                      *)
(***************************************************************************)
InputSlot ==
    (UNION {[cm : {n, Zero}, nf : {n, Zero}, value : {Value[n]}] : n \in Note})
        \cup {[cm |-> Zero, nf |-> Zero, value |-> 0]}

\* One output: CheckHashes accepts a zero commitment here too.
OutputSlot == UNION {[cm : {n, Zero}, value : {Value[n]}] : n \in Note}

\* enabled[i] is derived by the contract from the nullifier, never read.
Enabled(slot) == slot.nf # Zero

\* Mutant of InputProved: the belt on a disabled slot's value is missing.
InputProvedUnbelted(slot, r) ==
    Enabled(slot) => slot.cm # Zero /\ slot.cm \in Members(r)

(***************************************************************************)
(* What the proof establishes of one input under root r: a disabled input  *)
(* carries no value, an enabled one is a nonzero leaf of the tree.         *)
(***************************************************************************)
InputProved(slot, r) ==
    IF Enabled(slot) THEN slot.cm # Zero /\ slot.cm \in Members(r)
                     ELSE slot.value = 0

ProvedInputs(k, r) == [1..k -> {s \in InputSlot : InputProved(s, r)}]
Outputs(k)         == [1..k -> OutputSlot]

\* The sum the circuits compute, slot after slot.
SlotSum(slots) ==
    LET sum[i \in 0..Len(slots)] ==
            IF i = 0 THEN 0 ELSE sum[i - 1] + slots[i].value
    IN  sum[Len(slots)]

Commitments(outs) == [i \in DOMAIN outs |-> outs[i].cm]
Nullifiers(ins)   == [i \in DOMAIN ins |-> ins[i].nf]

\* The worth of a set of notes.
Worth(S) == SumFunctionOnSet(Value, S)
=============================================================================
