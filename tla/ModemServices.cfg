\* At most Events events of the embedder and the environment, in any order.
CONSTANTS
    UssdCalls = {u1, u2, u3}
    Expiries = {e1, e2}
    SimCalls = {s1, s2}
    MaxPins = 2
    MaxPuks = 1
    Toggles = {g1, g2}
    FixReads = {f1, f2}
    AcquireBound = 1
    FixBound = 1
    Messages = {1, 2, 3}
    Cap = 2
    Events = 4
SPECIFICATION MCSpec
INVARIANTS AttemptsAreSpent InboxConverges
PROPERTIES SessionsEnd RendersEnd
CHECK_DEADLOCK FALSE
