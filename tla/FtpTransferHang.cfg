SPECIFICATION FairTransferSpec
CONSTANTS
  Files = {"long"}
  Size <- MCSize
  NoFile = NoFile
  DataSize = 2
  SeqRange = 64
  MaxRetry = 1
  CountMod = 1024
  Starts = {0}
  BurstMax = 3
  ErrModes = {"none"}
  Wanted = {"long"}
  MaxEvents = 2
PROPERTY EveryDownloadEnds
CHECK_DEADLOCK FALSE
