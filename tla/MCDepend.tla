------------------------------ MODULE MCDepend ------------------------------
(* Rules are alike, and components are but for System.                     *)
EXTENDS Depend, TLC

NamesAlike == Permutations(Rules) \cup Permutations(Comps)
=============================================================================
