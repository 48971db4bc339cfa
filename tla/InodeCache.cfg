SPECIFICATION Spec
CONSTANTS
  a = a
  b = b
  c = c
  Procs = {a, b, c}
  NR_INODE = 3
  Nums = {1, 2}
  Vals = {0, 1}
  Scenarios <- All
INVARIANTS
  TableConsistent
  OneInodePerNumber
  LocksSound
  ChangesKept
CHECK_DEADLOCK FALSE
