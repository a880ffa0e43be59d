------------------------------- MODULE MCProver -------------------------------
(* Two engines, two requests, two faults.                                    *)
EXTENDS Prover

CONSTANTS d, t

MCBootOrder == <<d, t>>
===============================================================================
