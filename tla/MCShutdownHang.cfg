SPECIFICATION FairSpec
CONSTANTS
  PlayerOrder <- TwoPlayerOrder
  KeyOrder <- TwoKeyOrder
  LastTrick = 1
  SeventhTrick = 1
  Offers <- SmallOffers
  GameFile <- SmallDeal
  MaxConns = 3
  MaxDrops = 1
  MaxBlocks = 0
PROPERTIES
  ShutdownEnds
CHECK_DEADLOCK FALSE
