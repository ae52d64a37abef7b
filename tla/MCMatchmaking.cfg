CONSTANTS
  a1 = a1
  a2 = a2
  h1 = h1
  Parties <- MCParties
  Procs = {c1}
  MinPlayers = 1
  MaxPlayers = 2
  MaxBgs = 2
  MaxRequests = 4
  MaxFailures = 1
SPECIFICATION Spec
 
PROPERTIES StartsWithinLimits
CHECK_DEADLOCK FALSE
