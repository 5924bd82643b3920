CONSTANTS
  FirstCuneHeight = 0
  FirstInscriptionHeight = 0
  IndexCunes = TRUE
  IndexSats = TRUE
  IndexTransactions = TRUE
  Db <- MCDb
  CommonHeight = 1
  OwnerOf <- MCOwnerOf
  ValueOf <- MCValueOf
  Content <- MCContent
  Delegate <- MCDelegate
  BlockOf <- MCBlockOf
  InBlock <- MCInBlock
  Inputs <- MCInputs
  MadeBy <- MCMadeBy
  MediaOf <- MCMediaOf
  Hidden = {2}
  ItemsPerPage = 2
  Requests <- MCRequests
SPECIFICATION PagesSpec
INVARIANTS
  SpendableUtxosHoldNoAssets
  RequestsFailOnlyAcrossUpdates
  QuietAnswersAreExact
