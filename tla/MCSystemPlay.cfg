SPECIFICATION FairSystem
CONSTANTS
  PlayerOrder <- TwoPlayerOrder
  KeyOrder <- TwoKeyOrder
  LastTrick = 2
  SeventhTrick = 1
  Offers <- Card
  GameFile <- TwoDeals
  MaxConns = 3
  MaxDrops = 0
  MaxBlocks = 0
  SeatOf <- MCSeatOf
  Automatic <- UserEast
  Leavers <- MCLeavers
  MaxPending = 1
INVARIANTS
  HandsAgree
  AutoNeverWrong
  TricksAgree
  NeverEmptyHanded
  SuccessMeansOver
  PlayersSucceed
PROPERTIES
  GameSucceeds
CHECK_DEADLOCK FALSE
