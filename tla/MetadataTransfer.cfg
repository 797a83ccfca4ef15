\* Two vehicles that connect three times in all, and a restart or crash.
SPECIFICATION MetadataSpec
CONSTANTS
  v1 = v1
  v2 = v2
  Vehicles = {v1, v2}
  Gone = Gone
  Torn = Torn
  NoFile = NoFile
  Mixed = Mixed
  General <- MCGeneral
  Firmware <- MCFirmware
  MaxNumFiles = 5
  MaxConnects = 3
  MaxUpsets = 2
INVARIANTS CacheInStep MetadataIsGiven
PROPERTIES LeastRecentlyUsedGoes
CHECK_DEADLOCK FALSE
