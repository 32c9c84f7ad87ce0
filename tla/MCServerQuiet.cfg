SPECIFICATION Spec
CONSTANTS
  PlayerOrder <- ThreePlayerOrder
  KeyOrder <- ThreeKeyOrder
  LastTrick = 2
  SeventhTrick = 1
  Offers <- ThreeOffers
  GameFile <- ThreeDeals
  MaxConns = 3
  MaxDrops = 0
  MaxBlocks = 1
INVARIANTS
  OneCardEach
  TurnInStep
  TotalsAddUp
PROPERTIES
  PlaysHearts
CHECK_DEADLOCK FALSE
