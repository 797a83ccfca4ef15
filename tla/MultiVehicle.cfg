\* Two vehicles, a third object, and two links they share.
SPECIFICATION FairSpec
CONSTANTS
  id1 = id1
  id2 = id2
  a = a
  b = b
  Ids = {id1, id2}
  Links = {a, b}
  MaxVehicles = 3
  MaxTimers = 2
  MultiVehicleEnabled = TRUE
INVARIANTS OnlyLiveVehicles ReferencesAreHeld
PROPERTIES ClosedAreDeletedOnce
