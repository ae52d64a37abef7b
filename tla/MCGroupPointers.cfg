SPECIFICATION Spec
CONSTANTS
  Players = {ann, bob, eve}
  Procs = {c1}
  MaxGroupSize = 3
  MaxRaidSize = 4
  Icons = {1, 2}
  Targets = {"boar"}
  MaxGroups = 1
  MaxRequests = 4
  MaxLogins = 0
  MaxFaults = 0
SYMMETRY PlayerSymmetry
CHECK_DEADLOCK FALSE
INVARIANT PointsIntoGroup
