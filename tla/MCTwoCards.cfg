SPECIFICATION Spec
CONSTANTS
  PlayerOrder <- TwoPlayerOrder
  KeyOrder <- TwoKeyOrder
  LastTrick = 2
  SeventhTrick = 1
  Offers <- TwoOffers
  GameFile <- OneDeal
  MaxConns = 3
  MaxDrops = 1
  MaxBlocks = 0
INVARIANTS
  OneCardEach
CHECK_DEADLOCK FALSE
