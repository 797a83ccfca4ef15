SPECIFICATION Spec
CONSTANTS
  Components = {1, 2}
  DefaultComponent = 1
  Count <- MCCount
  MaxRequestRetry = 1
  MaxIndexRetry = 1
  MaxReadWriteRetry = 1
  BatchSize = 1
  Px4Firmware = TRUE
  FailureModes = {"none", "missingAlways", "noListResponse"}
  LinkKinds = {"none", "normal", "highLatency"}
  MaxInFlight = 1
  MaxEvents = 2
INVARIANTS EditsArriveOrFail
PROPERTIES ReadyIsComplete WaitsEnd
CHECK_DEADLOCK FALSE
