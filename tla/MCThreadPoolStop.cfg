SPECIFICATION FairSpec
CONSTANTS
    Workers = {w1, w2}
    Requesters = {r1, r2}
    Jobs = {j1, j2}
    MayStop = TRUE
    None = None
PROPERTY KilledThreadsDie
CHECK_DEADLOCK FALSE
