\* Two connections over two interfaces, one call and two readouts at a time.
\* One month of two days and a slot that moves two bytes; the kernel, the
\* mapping and the process change twice.
CONSTANTS
    NoBearer = NoBearer
    Connections = {c1, c2}
    Ifnames = {w0, w1}
    Settings = {a, b}
    Calls = {k1}
    Readouts = {r1, r2}
    New = c1
    Other = c2
    Kept = a
    MaxEvents = 3
    None = None
    Leave = Leave
    MonthLengths <- ShortMonths
    CycleDays = {2}
    DefaultDay = 1
    PersistInterval = 1
    MaxBytes = 2
    MaxChanges = 4
    PassChanges = 1
    SaveChanges = 2
    Rounds = {s1, s2}
    Setters = {p1, p2}
    Thresholds = {1}
SPECIFICATION MCSpec
INVARIANTS UsageIsWitnessed PolicyIsKept
PROPERTIES ExactReadoutsSettle
SYMMETRY Symmetry
CHECK_DEADLOCK FALSE
