CONSTANTS
    Polled = {p}
    Notified = {n}
    Members = {}
    Autopassed = {n}
    Autopass = 3
    Fast = 1
    Normal = 7
    Slow = 8
    Periods = {1, 2}
    MayRecreate = TRUE
    MaxCalls = 3
SPECIFICATION Spec
INVARIANT QueuedOnce
