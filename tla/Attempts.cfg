\* Two matches and a read of one modem that may be enumerated twice; two writes,
\* a read and an observation of one HiLink router; three calls of the ladder, with
\* a budget of two attempts a tick apart and a power hook on its own actor.
CONSTANTS
    None = None
    Matches = {m1, m2}
    Fetches = {f1}
    Requests <- NetworkRequests
    MaxGeneration = 2
    MaxCalls = 2
    Writes = {w1, w2}
    Reads = {d1}
    Observes = {o1}
    Values = {a, b}
    Offered = {a}
    Runs = {1, 2, 3}
    Allowed = {"reset", "powerCycle"}
    MaxAttempts = 2
    Cooldown = 1
    PowerHook = "private"
    MaxTime = 2
SPECIFICATION MCSpec
INVARIANTS OneLoginPerGeneration WritableIsProven AttemptsAreBudgeted
PROPERTIES WritesEnd
CHECK_DEADLOCK FALSE
