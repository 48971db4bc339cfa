SPECIFICATION FairSpec
CONSTANTS
  P = P
  Q = Q
  Procs = {P, Q}
  NB = 2
  Blocks = {0, 1, 2}
  Vals = {x}
  NR_REQUEST = 2
  Ops <- ReadAheadAndWriter
  IOErrors = FALSE
  NULL = NULL
PROPERTIES
  EverySleeperWoken
  RequestQueueSpec
CHECK_DEADLOCK FALSE
