----------------------------- MODULE MCGarbage -----------------------------
(* Garbage with one test and two actions, one of which is created later.   *)
EXTENDS Garbage, TLC

CONSTANTS s, a, b

MCTests == {s}
MCActions == {a, b}
MCMembers == {<<a, 1>>, <<a, 2>>}
MCLater == {<<b, 0>>, <<a, 2>>}

=============================================================================
