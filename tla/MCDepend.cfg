CONSTANTS
    Rules = {r1, r2}
    Comps = {a, b}
    System = System
    MaxDomains = 2
    MaxCalls = 5
SPECIFICATION Spec
SYMMETRY NamesAlike
INVARIANTS LinksMirrored BoundaryOfMembers LoopsCrossDomains ContainmentEnds
CHECK_DEADLOCK FALSE
