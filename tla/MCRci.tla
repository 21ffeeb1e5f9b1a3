-------------------------------- MODULE MCRci --------------------------------
(* Rci on three rules: one depends on both others; two depend on the third *)
(* one; and they are in a row, the two lower ones in a component that the  *)
(* uppermost depends on.                                                   *)
EXTENDS Rci

CONSTANTS a, b, c, K

(* up[i] depends on down[i] *)
Depends(up, down) ==
    [o \in Objs |-> {down[i] : i \in {j \in DOMAIN up : up[j] = o}}]

Alone(child) ==
    [child |-> child, inside |-> [o \in Objs |-> NoComp],
     top |-> [x \in Comps |-> {}], bottom |-> [x \in Comps |-> {}]]

Both == Alone(Depends(<<a, a>>, <<b, c>>))
Shared == Alone(Depends(<<a, b>>, <<c, c>>))
Boxed ==
    [child |-> Depends(<<a, b>>, <<K, c>>),
     inside |-> [o \in Objs |-> IF o \in {b, c} THEN K ELSE NoComp],
     top |-> [x \in Comps |-> {b}], bottom |-> [x \in Comps |-> {c}]]

MCGraphs == <<Both, Shared, Boxed>>
=============================================================================
