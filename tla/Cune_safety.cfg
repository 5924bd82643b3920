CONSTANTS
  U128Max = 2
  MaxLimit = 1
  Reserved = 5
  Minimum <- MCMinimum
  MaxIndex = 0
  Name <- MCName
  Terms <- MCTerms
  Asked = {0, 1}
  Pointers = {0}
  MaxHeight = 2
  MaxTxs <- MCMaxTxs
  Shapes <- MCShapes
  MaxEdicts = 2
SPECIFICATION Spec
INVARIANTS NamesAreUnique Conserved
PROPERTY MintsFollowTerms
CHECK_DEADLOCK FALSE
