CONSTANTS
  OutPoint <- MCOutPoint
  FeeRate <- MCFeeRate
  Kinds <- CommandKind
  Coins <- MCCoins
  Late <- MCLate
  Offsets <- MCOffsets
  RecipientScripts <- MCRecipientScripts
  RevealVbytes = 150
SPECIFICATION Spec
INVARIANTS
  BuildsToASat
  UnmentionedAssetsStay
  CommitIsRecoverable
  RevealKeepsPostage
CHECK_DEADLOCK FALSE
