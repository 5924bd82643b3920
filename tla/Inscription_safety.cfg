SPECIFICATION Spec
CONSTANTS
  EpochHeight <- EpochHeights
  EpochSubsidy <- EpochSubsidies
  EpochSat <- EpochSats
  BaseLimit = 8
  DeltaLimit = 2
  Txid <- Txids
  Options <- SomeOptions
  FirstInscriptionHeight = 2
  Script <- Scripts3
  CoinbaseOutputs <- FewCoinbases
  SpendOutputs <- FewSpends
  MaxHeight = 4
  CommitHeights = {2, 3}
  MaxInputs = 2
  Valueless = FALSE
CHECK_DEADLOCK FALSE
INVARIANTS TablesAgree InscriptionsAreOnUnspent ChainsAreDisjoint ValuesAgree OperationsArePaths OutputsHaveRanges
PROPERTIES MovesOnlyWithItsCoin
