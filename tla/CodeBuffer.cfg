\* Three functions, two of which share blocks of four units; six places for blocks.
SPECIFICATION Spec
CONSTANTS
  X64 = TRUE
  Targets <- MCTargets
  Places <- MCPlaces
  BlockSize = 4
  MaxRange = 12
  Size <- MCSize
  Anywhere = Anywhere
  Null = Null
INVARIANTS
  PiecesDisjoint
  PiecesBacked
  WithinReach
