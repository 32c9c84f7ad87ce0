SPECIFICATION Spec
CONSTANTS
  PlayerOrder <- MCPlayerOrder
  LastTrick = 2
  SeventhTrick = 1
  Deals <- MCDeals
INVARIANTS
  TypeOK
  CardsConserved
  NoRevoke
  HighestTakes
  OneCardEach
  EndsWhenScored
PROPERTIES
  PlaysHearts
  DealEnds
CHECK_DEADLOCK FALSE
