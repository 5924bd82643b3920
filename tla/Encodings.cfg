CONSTANTS
  IntegerMax = 65535
  U64Max = 4095
  U32Max = 1023
  Chars <- MCChars
  IndexBase = 4
  MaxDivisibility = 38
  MaxSpacers = 31
  MaxPush = 6
  Letters = 26
  CuneMax = 65535
  NameOfMax <- MCNameOfMax
  Reserved = 18278
  FirstCuneHeight = 5
  Halving = 30
  Lengths = 3
  IndexBytes = 1
  OffsetBytes = 2
  TickBytes = 2
  BaseBits = 11
  RangeBytes = 3
  Addresses <- MCAddresses
  Lowercase <- MCLowercase
  TxidBytes = 3
  NumberBytes = 3
  ChunkBytes = 200
  Table <- MCTable
  Normalised <- MCNormalised
  EpochHeight <- MCEpochHeight
  EpochSubsidy <- MCEpochSubsidy
  EpochSat <- MCEpochSat
  BaseLimit = 2048
  DeltaLimit = 8192
  ScaleMax = 255
  NumScale = 18
  TxidChars = 6
  HrpNames <- MCHrpNames
  MaxRows = 2
SPECIFICATION Spec
INVARIANTS
  CunestonesReadBack
  NamesOpenInOrder
  TextsReadBack
  WalksFindSats
  InscriptionsReadBack
  TablesReadBack
