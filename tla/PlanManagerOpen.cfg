SPECIFICATION Spec
CONSTANTS
  PlanTypes = {"MISSION", "FENCE"}
  Commands = {"WAYPOINT", "DO_JUMP"}
  OwnType = "MISSION"
  MaxRetryCount = 1
  ApmFirmware = TRUE
  SendsHome = FALSE
  Plans <- MCPlans
  VehicleMessages <- MCMessages
INVARIANTS TransactionIsGuarded ItemsArePartitioned
PROPERTIES ItemsAreCarried OneCompletionEach
