SPECIFICATION FairSpec
CONSTANTS
  Byte <- MCByte
  Writers = {"deal", "player"}
  Scripts <- MCScripts
  Timeouts = {1, 3, 4, 9}
  MaxSize = 3
  Second = 2
  IntSize = 16
  Fine = 2
  Capacity = 2
  MaxBlocks = 2
  MaxAgain = 1
  MaxClock = 3
INVARIANTS
  StreamCut
  MessagesWhole
  NotTooEarly
  NotTooLate
PROPERTIES
  AllArrives
CHECK_DEADLOCK FALSE
