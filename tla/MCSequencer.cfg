SPECIFICATION FairSpec
CONSTANTS
    t = t
    u = u
    p = p
    q = q
    g = g
    K = K
    Whole = Whole
    i = i
    j = j
    Base = Base
    None = None
    App = App
    Tests = {t, u}
    Rules = {p, q, g}
    Comps = {K, Whole}
    Insts = {i, j}
    Polled = {u}
    Workers = {1, 2}
    Setups <- MCSetups
    NewTypes <- MCNewTypes
    Full = 3
    Hour = 2
    Byte = 2
    Most = 2
    MaxJobs = 1
    MaxCalls = 1
INVARIANTS
    TypeOK
    CountingFollowsHistory
    GatesFollowInputs
    BaseFollowsMembers
    HealthFollowsRules
    ConfidenceEarned
    ActedOnce
PROPERTY FailureActedOn
