\* One failed write in a process that goes on.
CONSTANTS
    a1 = a1  a2 = a2  a3 = a3  a4 = a4
    k1 = k1  k2 = k2  m1 = m1
    Appends = {a1, a2, a3, a4}
    Entries <- OneEntry
    Keys = {k1, k2}
    ModemOf <- OneModem
    MaxCrashes = 0
    MaxFaults = 1
SPECIFICATION Spec
INVARIANTS DamageStaysConfined
CHECK_DEADLOCK FALSE
