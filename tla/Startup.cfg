CONSTANTS
  p1 = p1
  p2 = p2
  p3 = p3
  Command = {p1, p2, p3}
  CommandLines <- MCCommandLines
  Port = {22555, 18332}
  Node <- MCNode
  Name = {"ord"}
  OldSchemaAt <- MCOldSchemaAt
  MaxBlocks = 2
  MaxStops = 1
  None = None
SYMMETRY Symmetry
SPECIFICATION Spec
INVARIANTS
  WalletHasOneSeed
  BlocksOfAnIndexAgree
CHECK_DEADLOCK FALSE
