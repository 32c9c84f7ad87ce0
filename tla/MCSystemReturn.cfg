SPECIFICATION SystemSpec
CONSTANTS
  PlayerOrder <- TwoPlayerOrder
  KeyOrder <- TwoKeyOrder
  LastTrick = 2
  SeventhTrick = 1
  Offers <- Card
  GameFile <- TwoDeals
  MaxConns = 3
  MaxDrops = 1
  MaxBlocks = 0
  SeatOf <- MCSeatOf
  Automatic <- AllAuto
  Leavers <- MCLeavers
  MaxPending = 1
INVARIANTS
  TricksAgree
  SuccessMeansEnd
CHECK_DEADLOCK FALSE
