SPECIFICATION Spec
CONSTANTS
  Modems = {m1}
  Rules <- MCRules
  MaxFaults = 2
  MaxOwners = 2
  MaxChanges = 2
  AddMatchSettles = TRUE
INVARIANTS HealthyMeansCurrent SubscriptionsSurvive
PROPERTIES RemovedOnlyByOwnEpoch ObserverSettles
CHECK_DEADLOCK FALSE
