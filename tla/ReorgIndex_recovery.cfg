SPECIFICATION RecoverableSpec
CONSTANTS
  BatchSize = 3
  ChannelSize = 1
  MaxSavepoints = 3
  Interval = 2
  TipDistance = 1
  MaxChain = 6
  MaxForks = 2
  MaxFaults = 1
PROPERTIES
  CatchesUp
  ShutdownCompletes
CHECK_DEADLOCK FALSE
