SPECIFICATION FairSpec
CONSTANTS
  Keys = {"characters"}
  Sizes = {1, 2}
  ChanCap = 1
  MaxCalls = 3
  MaxFailures = 1
  MaxRestarts = 1
  Callers = {c1, c2}
  Workers = {w1, w2}
  Multiplier = 5
  Retries = 2
  ExistingMax <- MCExistingMax
  None = None
CHECK_DEADLOCK FALSE
INVARIANTS InProcessIsExact NoLostCaller
PROPERTY CallReturns
