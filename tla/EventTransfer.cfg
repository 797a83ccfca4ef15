\* Events of a vehicle that may reboot, over a link that loses and delays.
SPECIFICATION FairTransferSpec
CONSTANTS
  SeqRange = 16
  TimeMod = 1000
  TimeMargin = 1
  TimeGuard = 6
  MaxPending = 1
  Script <- MCScript
  FirstSeq = 14
  BufferSize = 2
  MaxClock = 3
  MaxUpsets = 2
  MaxInFlight = 2
PROPERTIES GapsAreReported ReportsAreFull CatchesUp
CHECK_DEADLOCK FALSE
