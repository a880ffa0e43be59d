------------------------------ MODULE MCIndexer ------------------------------
(* One module that comes and goes: on one chain it makes batches and takes  *)
(* their chunks, on the other it bundles its operations with the pool's.    *)
EXTENDS Indexer

MCModule == {"m"}
MCChunk == {0, 1}
MCTraffics == {{"pool", "disburse", "accept", "register", "remove"},
               {"module", "bundle", "disburse", "register", "remove"}}
MCHonest == {"bytes", "undecodable"}
==============================================================================
