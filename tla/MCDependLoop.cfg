CONSTANTS
    Rules = {r1, r2, r3, r4}
    Comps = {}
    System = System
    MaxDomains = 2
    MaxCalls = 6
SPECIFICATION Spec
SYMMETRY NamesAlike
INVARIANTS NoLoop
CHECK_DEADLOCK FALSE
