------------------------------ MODULE MCObjects ------------------------------
(* Objects with two tests, two rules and an action *)
EXTENDS Objects, TLC

CONSTANTS s, t, p, q, a
Alike == Permutations({s, t}) \cup Permutations({p, q})
=============================================================================
