SPECIFICATION FairSpec
CONSTANTS
    a = a
    b = b
    c = c
    K = K
    NoComp = NoComp
    Rules = {a, b, c}
    Comps = {K}
    Notified = {b}
    Graphs <- MCGraphs
    Often = 2
    Touched = {c}
    MaxCalls = 2
INVARIANTS
    RootCauseFails
    PassingCandidateIsRetested
    OneCausePerPath
    FailureExplained
PROPERTY CandidateResolved
