SPECIFICATION Spec
CONSTANTS
  Tick = {t1}
  Script = {a, b}
  Id = {i1, i2, i3, i4}
  MaximumSupply = 2
  MaxAmount = 2
  Options <- WithCunes
  MaxMoves = 2
SYMMETRY Symmetry
INVARIANTS HoldersAreOwners ReservationsAreLive FirstMovePays Conserved
PROPERTY LedgerIsTokenNotes
