SPECIFICATION Spec
CONSTANTS
  P = P
  Q = Q
  Procs = {P, Q}
  NB = 2
  Blocks = {0, 1, 2}
  Vals = {x}
  NR_REQUEST = 2
  Ops <- ReadAheadSyncAndWriter
  IOErrors = TRUE
  NULL = NULL
INVARIANTS
  HeadsConsistent
  OneBufferPerBlock
  HeldBufferKeepsBlock
CHECK_DEADLOCK FALSE
