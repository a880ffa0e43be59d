-------------------------- MODULE MCNameDirectory --------------------------
(* One name, two owners, a rotation of either's keys.                      *)
EXTENDS NameDirectory, TLC

CONSTANTS alice, a, b, m1, m2, p1, p2

MCSymmetry == Permutations({a, b}) \cup Permutations({m1, m2}) \cup Permutations({p1, p2})
=============================================================================
