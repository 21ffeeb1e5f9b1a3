SPECIFICATION FairSpec
CONSTANTS
    Workers = {w1, w2}
    Requesters = {r1, r2}
    Jobs = {j1, j2, j3}
    MayStop = FALSE
    None = None
INVARIANTS
    ReleaseNeverFails
    NoJobLost
    NoJobTwice
PROPERTIES
    RefinesJobPool
    AssignedJobRuns
CHECK_DEADLOCK FALSE
