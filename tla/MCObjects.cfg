SPECIFICATION Spec
CONSTANTS
    s = s
    t = t
    p = p
    q = q
    a = a
    None = None
    Tests = {s, t}
    Rules = {p, q}
    Actions = {a}
    Configured = {p, q}
    Lives = 2
    Depth = 3
    MaxCalls = 5
SYMMETRY Alike
INVARIANTS TypeOK ChainsFollowInputs InputsEnd UserHasTheLastWord ReadyReachesAll
PROPERTY CreatedStays
CHECK_DEADLOCK FALSE
