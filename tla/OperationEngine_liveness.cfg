\* An invocation and a reconciliation of m1, an invocation of m2, which need not answer.
CONSTANTS
    m1 = m1  m2 = m2
    i1 = i1  i2 = i2  i3 = i3
    r1 = r1
    Modems = {m1, m2}
    Invocations = {i1, i3}
    Reconciliations = {r1}
    ModemOf <- TwoModems
    Answering = {m1}
    Descriptors <- LiveDescriptors
    MaxGeneration = 1
    MaxCrashes = 0
SPECIFICATION FairSpec
PROPERTIES EveryCallAnswered
CHECK_DEADLOCK FALSE
