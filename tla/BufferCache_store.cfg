SPECIFICATION Spec
CONSTANTS
  P = P
  Q = Q
  Procs = {P, Q}
  NB = 2
  Blocks = {0, 1, 2}
  Vals = {x, y}
  NR_REQUEST = 2
  Ops <- ReaderAndWriter
  IOErrors = FALSE
  NULL = NULL
INVARIANTS
  CleanIsOnDisk
PROPERTIES
  BlockStoreSpec
SYMMETRY Symmetry
CHECK_DEADLOCK FALSE
