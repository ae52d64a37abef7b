SPECIFICATION Spec
CONSTANTS
  Players = {ann, bob, eve}
  Procs = {c1}
  MaxGroupSize = 3
  MaxRaidSize = 4
  Icons = {1, 2}
  Targets = {"boar"}
  MaxGroups = 2
  MaxRequests = 6
  MaxLogins = 1
  MaxFaults = 1
SYMMETRY PlayerSymmetry
CHECK_DEADLOCK FALSE
INVARIANTS CacheAgreesWithDb LookupFindsGroup
