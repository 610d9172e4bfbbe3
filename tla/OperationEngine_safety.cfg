\* Two invocations with every descriptor, a reconciliation and a process death.
CONSTANTS
    m1 = m1  m2 = m2
    i1 = i1  i2 = i2  i3 = i3
    r1 = r1
    Modems = {m1}
    Invocations = {i1, i2}
    Reconciliations = {r1}
    ModemOf <- OneModem
    Answering = {m1}
    Descriptors <- AllDescriptors
    MaxGeneration = 1
    MaxCrashes = 1
SPECIFICATION Spec
SYMMETRY Symmetry
INVARIANTS SingleFlight NoRollbackAfterLostReply JournalKnowsTheUncertain
PROPERTIES DispatchRespectsLostWrites ImplementsMutationGate
CHECK_DEADLOCK FALSE
