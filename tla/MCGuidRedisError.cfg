SPECIFICATION Spec
CONSTANTS
  Keys = {"characters"}
  Sizes = {2}
  ChanCap = 3
  MaxCalls = 3
  MaxFailures = 1
  MaxRestarts = 0
  Callers = {c1, c2, c3}
  Workers = {w1, w2}
  Multiplier = 5
  Retries = 2
  ExistingMax <- MCExistingMax
  None = None
CHECK_DEADLOCK FALSE
INVARIANT IssuedIsReserved
