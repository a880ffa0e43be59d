-------------------------------- MODULE MCImt --------------------------------
(***************************************************************************)
(* Imt with a tree of 16 (or 8) leaves and batches of 4: a full batch and  *)
(* one of a single note that is not in its first place.                    *)
(***************************************************************************)
EXTENDS Imt

CONSTANTS p, q

MCBatch == {<<p, q, q, p>>, <<Empty, p, Empty, Empty>>}
=============================================================================
