SPECIFICATION Spec
CONSTANTS
  Keys = {"characters", "items"}
  Sizes = {2}
  ChanCap = 3
  MaxCalls = 7
  MaxFailures = 0
  MaxRestarts = 1
  Callers = {c1, c2, c3}
  Workers = {w1, w2}
  Multiplier = 5
  Retries = 2
  ExistingMax <- MCExistingMax
  None = None
CHECK_DEADLOCK FALSE
SYMMETRY CallerSymmetry
INVARIANTS UniqueGuids IssuedIsReserved PoolIsContiguous
PROPERTY Allocates
