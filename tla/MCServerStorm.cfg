SPECIFICATION Spec
CONSTANTS
  PlayerOrder <- TwoPlayerOrder
  KeyOrder <- TwoKeyOrder
  LastTrick = 1
  SeventhTrick = 1
  Offers <- SmallOffers
  GameFile <- SmallDeals
  MaxConns = 3
  MaxDrops = 2
  MaxBlocks = 1
INVARIANTS
  TypeOK
  CardsConserved
  SeatExclusive
  IteratorValid
CHECK_DEADLOCK FALSE
