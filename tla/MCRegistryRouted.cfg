SPECIFICATION Spec
CONSTANTS
  Servers = {"s1", "s2", "s3"}
  Maps = {"eastern", "kalimdor", "outland"}
  Procs = {p1}
  Weights <- MCWeights
  Available <- MCAnyMap
  MaxStarts = 3
  MaxTimeouts = 0
  MaxFailures = 0
  MaxRestarts = 0
CHECK_DEADLOCK FALSE
INVARIANT RoutedIsLoaded
