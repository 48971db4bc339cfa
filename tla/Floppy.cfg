SPECIFICATION FairSpec
CONSTANTS
  Drives = {0, 1}
  Tracks = {0, 1}
  Reqs = {1, 2}
  Places <- ThreePlaces
  Procs = {p}
  ChangeDrives = {1}
  MAX_ERRORS = 2
  SPIN = 2
  SETTLE = 1
  OFF = 4
  MaxBusy = 1
  MaxFaults = 1
INVARIANTS
  DriverReady
PROPERTIES
  OkMeansTransferred
  RequestEnds
  ChangeReturns
CHECK_DEADLOCK FALSE
