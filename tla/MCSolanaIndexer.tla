--------------------------- MODULE MCSolanaIndexer ---------------------------
(* Three operations, batches of two, two faults and two changes of a file.   *)
EXTENDS SolanaIndexer
=============================================================================
