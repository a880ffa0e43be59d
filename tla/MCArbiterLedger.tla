--------------------------- MODULE MCArbiterLedger ---------------------------
(* Three operations of two owners: plain money movements, batches with all  *)
(* that may be published of them, envelopes nobody can open, and a client   *)
(* that pages through an activity.                                          *)
EXTENDS ArbiterLedger, TLC

MCMixes == {{"deposit", "transfer", "withdraw", "bundled"},
            {"deposit", "disburse"},
            {"deposit", "withdraw", "priv", "spoilt"},
            {"deposit", "withdraw", "paged"}}
MCPublished == {"whole", "junkTail", "noTail"}
Owners == Permutations(Owner)
==============================================================================
