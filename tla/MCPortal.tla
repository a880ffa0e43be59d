------------------------------ MODULE MCPortal ------------------------------
(* Two addresses, two names that may be announced for the same address.     *)
EXTENDS Portal

MCAddress == {"s1", "s2"}
MCLabel == {"ann", "bob"}
MCOneLabel == {"ann"}
==============================================================================
