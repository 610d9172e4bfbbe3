\* Three appends about two operations of one modem, two process deaths, a fault.
CONSTANTS
    a1 = a1  a2 = a2  a3 = a3  a4 = a4
    k1 = k1  k2 = k2  m1 = m1
    Appends = {a1, a2, a3}
    Entries <- MCEntries
    Keys = {k1, k2}
    ModemOf <- OneModem
    MaxCrashes = 2
    MaxFaults = 1
SPECIFICATION FairSpec
INVARIANTS CrashLosesNothing DamageIsBounded FoldMeetsDefinition RecoveryIsTrue
PROPERTIES ReadsOnlyGrow EveryAppendSettles
CHECK_DEADLOCK FALSE
