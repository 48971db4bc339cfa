SPECIFICATION FairSpec
CONSTANTS
  Reqs = {1, 2}
  Devs = {1, 2}
  Blocks = {1}
  hd <- TwoPartitions
  Sect = 2
  Heads = 2
  NrSectors = 12
  MAX_ERRORS = 3
INVARIANTS
  InStep
  GivenUpAfterMaxErrors
PROPERTIES
  OkMeansTransferred
  WritesStayInside
  CurrentEnds
CHECK_DEADLOCK FALSE
