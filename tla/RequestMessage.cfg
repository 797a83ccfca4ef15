\* Requests and other commands, alone and at once, any acks at any moment, a link that comes and goes.
SPECIFICATION FairSpec
CONSTANTS
  Components = {"AUTOPILOT", "GIMBAL", "ALL"}
  AllComponents = "ALL"
  Commands = {"REQUEST_MESSAGE", "MOTOR_TEST"}
  Retried = {"REQUEST_MESSAGE"}
  Duplicable = {"MOTOR_TEST"}
  MaxTries = 2
  AckTimeout = 1
  MaxCalls = 2
  MessageIds = {"VERSION", "METADATA"}
  OtherMessage = "HEARTBEAT"
  MessageTimeout = 1
INVARIANTS EachCallIsAccounted
PROPERTIES NoDelayedCommand OneRightReplyEach EveryCallEnds
