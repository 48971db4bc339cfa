SPECIFICATION FairSpec
CONSTANTS
  SIZE = 4
  WORD = 9
  READ_LEFT = 1
  WRITE_LEFT = 2
  STARTUP = 1
  Keys = {"a", "nl", "erase", "intr"}
  ReadSizes = {2}
  WriteSizes = {1, 4}
  MaxNest = 2
  MaxIn <- Typed
  MaxOut <- Written
  Modes <- Terminals
  NULL = NULL
INVARIANTS
  InputConsistent
  OutputInOrder
PROPERTIES
  ReadEnds
  WriteEnds
CHECK_DEADLOCK FALSE
