SPECIFICATION RacedSpec
CONSTANTS
  BatchSize = 3
  ChannelSize = 1
  MaxSavepoints = 2
  Interval = 2
  TipDistance = 1
  MaxChain = 7
  MaxForks = 2
  MaxFaults = 1
INVARIANTS
  SavepointHistory
  FullWindowCoversReorg
  ChainLinkedWhenQuiet
PROPERTIES
  DatabaseIsRevertibleLog
CHECK_DEADLOCK FALSE
