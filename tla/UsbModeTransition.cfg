\* Two transitions of a modem with two modes, of its two longest plans; it
\* may once leave the bus by itself.
CONSTANTS
    Transitions = {t1, t2}
    Modes = {qmi, mbim}
    None = None
    Plans = {"catalogApply", "runtime"}
    MaxDrops = 1
SPECIFICATION Spec
SYMMETRY Symmetry
INVARIANTS EverythingGivenBack LinkIsRestored
PROPERTIES SuccessIsProved
CHECK_DEADLOCK FALSE
