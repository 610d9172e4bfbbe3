\* One transition and one run of the ladder, the power hook on the same actor.
CONSTANTS
    Transitions = {t1}
    Modes = {qmi}
    None = None
    Plans = {"catalogApply", "runtime"}
    MaxDrops = 0
    Runs = {r1}
    Allowed = {"mmCycle", "powerCycle"}
    MaxAttempts = 1
    Cooldown = 1
    PowerHook = "shared"
    MaxTime = 0
SPECIFICATION FairSpec
INVARIANTS DisruptionsExclusive StreamsAreSafe
PROPERTIES EveryDisruptionEnds
CHECK_DEADLOCK FALSE
