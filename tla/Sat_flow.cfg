SPECIFICATION Spec
CONSTANTS
  EpochHeight <- EpochHeights
  EpochSubsidy <- EpochSubsidies
  EpochSat <- EpochSats
  BaseLimit = 8
  DeltaLimit = 2
  Txid <- Txids
  Options <- OnlySats
  FirstInscriptionHeight = 9
  Script <- Scripts3
  CoinbaseOutputs <- FewCoinbases
  SpendOutputs <- FewSpends
  MaxHeight = 4
  CommitHeights = {2, 3}
  MaxInputs = 2
  Valueless = FALSE
CHECK_DEADLOCK FALSE
PROPERTIES SatsFlow
