SPECIFICATION MCSpec
CONSTANTS
  Servers = {"s1", "s2", "s3"}
  Maps = {"eastern", "kalimdor", "outland"}
  Procs = {p1}
  Weights <- MCWeights
  Available <- MCOneClaims
  MaxStarts = 3
  MaxTimeouts = 1
  MaxFailures = 0
  MaxRestarts = 0
  BalancedMaps = {m1, m2, m3, m4}
  BalancedServers = {b1, b2, b3}
  MaxWeight = 3
  Gateways = {g1, g2}
  Chars = {c1, c2}
  Replicas = {r1, r2}
  Fields = {lvl, zone}
  None = None
  Settings <- MCSettings
SYMMETRY Symmetry
CHECK_DEADLOCK FALSE
INVARIANTS MapsAreCovered PendingIsAssigned  EveryMapOnce NobodyGetsTwiceTheShare IndexesAgree NothingForgotten SettledIsTrue
