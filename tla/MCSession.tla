------------------------------ MODULE MCSession ------------------------------
(* Two accounts; a key expires after two ticks.                             *)
EXTENDS Session
==============================================================================
