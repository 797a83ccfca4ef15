\* A link that loses and delays, and every failure mode of the vehicle.
SPECIFICATION FairTransferSpec
CONSTANTS
  PlanTypes = {"MISSION"}
  Commands = {"WAYPOINT", "DO_JUMP"}
  OwnType = "MISSION"
  HandlerType = "MISSION"
  ApmFirmware = FALSE
  EmptyItem <- MCEmpty
  SendsHome = FALSE
  MaxRetryCount = 0
  Plans <- HomePlans
  InitialPlan <- OneItem
  FailureModes <- AllFailures
  Started = {"Read", "Write", "RemoveAll"}
  MaxCalls = 3
  MaxLosses = 1

CHECK_DEADLOCK FALSE
INVARIANTS ReadHasVehicleItems PromptPlanIsOnVehicle
PROPERTIES TransactionEnds
