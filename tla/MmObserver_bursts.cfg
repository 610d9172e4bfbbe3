\* Messages that are read together: what the file's header says of removals.
SPECIFICATION Spec
CONSTANTS
  Modems = {m1}
  Rules <- MCRules
  MaxFaults = 1
  MaxOwners = 2
  MaxChanges = 1
  AddMatchSettles = TRUE
PROPERTIES RemovalIsEpochScoped
CHECK_DEADLOCK FALSE
