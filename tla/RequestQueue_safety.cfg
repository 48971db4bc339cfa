SPECIFICATION FairSpec
CONSTANTS
  Blocks = {0, 1, 2, 3, 4, 5}
  NR_REQUEST = 5
INVARIANTS
  ElevatorOrder
PROPERTY EveryRequestServed
