SPECIFICATION MCSpec
CONSTANTS
  Objects = {o1, o2}
  Processors = {w1}
  QueueCap = 1
  ResultCap = 1
  Kinds = {"health", "metrics"}
  MaxChanges = 3
  NoOne = NoOne
  MaxLives = 2
  MaxFaults = 1
  Layouts <- MCContiguous
  Pct = 65
  Retries = 2
  MaxGuid = 8
  MaxFailures = 3
  MaxRestarts = 1
CHECK_DEADLOCK FALSE
INVARIANTS InFlightIsAwaited NothingSkippedOrRepeated OneRequestAtATime
PROPERTIES DeadGatewayLeaves ShutsDown BlockedNextReturns
