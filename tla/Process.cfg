SPECIFICATION FairSpec
CONSTANTS
  NR_TASKS = 4
  MAXPID = 4
  Sigs = {1, 17}
  Masks = {{}, {1, 17}}
  Caught = {17}
  Acts = {"default", "mask"}
  SaMask = {}
  Groups = {2}
  Scenarios <- MCScenarios
  NULL = NULL
INVARIANTS
  FamilyRight
  WaiterIsTold
PROPERTIES
  OrphansCollected
CHECK_DEADLOCK FALSE
