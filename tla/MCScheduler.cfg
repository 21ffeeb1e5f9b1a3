CONSTANTS
    Polled = {p}
    Notified = {n, m}
    Members = {m}
    Autopassed = {n, m}
    Autopass = 3
    Fast = 1
    Normal = 7
    Slow = 8
    Periods = {1, 2}
    MayRecreate = FALSE
    MaxCalls = 3
SPECIFICATION FairSpec
INVARIANTS QueuedOnce DeletedNotQueued HeadIsSoonest WakeupArmed PolledIsScheduled
PROPERTIES QueuedIsStarted
