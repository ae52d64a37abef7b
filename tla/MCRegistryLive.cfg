SPECIFICATION FairSpec
CONSTANTS
  Servers = {"s1", "s2"}
  Maps = {"eastern", "kalimdor"}
  Procs = {p1}
  Weights <- MCWeights
  Available <- MCAnyMap
  MaxStarts = 3
  MaxTimeouts = 0
  MaxFailures = 1
  MaxRestarts = 1
CHECK_DEADLOCK FALSE
PROPERTIES  PendingIsConfirmed
