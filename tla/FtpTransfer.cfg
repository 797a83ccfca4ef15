SPECIFICATION FairTransferSpec
CONSTANTS
  Files = {"long", "empty"}
  Size <- MCSize
  NoFile = NoFile
  DataSize = 2
  SeqRange = 64
  MaxRetry = 1
  CountMod = 1024
  Starts = {56}
  BurstMax = 3
  ErrModes = {"none", "noSecondResponse"}
  Wanted = {"long", "empty", "absent"}
  MaxEvents = 3
INVARIANTS BytesAccounted
PROPERTIES KeepsPromise LossesAreRepaired DownloadEnds
CHECK_DEADLOCK FALSE
