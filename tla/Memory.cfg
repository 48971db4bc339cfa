SPECIFICATION Spec
CONSTANTS
  NR_TASKS = 3
  PAGING_PAGES = 14
  Addrs = {"text", "stack"}
  DirOf <- TwoTables
  ExecAddrs = {"text"}
  Stack = "stack"
  Execs = {e}
  Data = {"x", "y"}
  Scenarios <- Mixed
  NULL = NULL
  e = e
INVARIANTS
  PagesCounted
  WritableIsPrivate
  SharingInvisible
CHECK_DEADLOCK FALSE
