\* Two vehicles whose logs are listed, saved and erased over links that lose and delay.
SPECIFICATION FairTransferSpec
CONSTANTS
  copter = copter
  px4 = px4
  Vehicles = {copter, px4}
  NoVehicle = NoVehicle
  ApmVehicles = {copter}
  TableBins = 2
  ListRetries = 1
  InitialLogs <- MCLogs
  WholeListsOnly = {px4}
  MaxEvents = 3
  MaxLosses = 1
  MaxInFlight = 1
INVARIANTS LogsAreWhole LossIsWatched ListIsTrue
PROPERTIES TransfersEnd
CHECK_DEADLOCK FALSE
