SPECIFICATION FairSpec
CONSTANTS
  Procs = {a, b}
  First = a
  PAGE_SIZE = 4
  Counts = {1, 4}
  Limit = 5
  FaultLimit = 4
  Scenarios = {TRUE, FALSE}
  NULL = NULL
INVARIANTS
  EndsConsistent
  FirstInFirstOut
PROPERTY ClosedEndReturns
CHECK_DEADLOCK FALSE
