SPECIFICATION FairSpec
CONSTANTS
  Tasks = {a, b, c}
  UQueues = {u, w}
  IQueues = {i}
  OpenQueues = {w}
  Mortal = {a}
  Readers = {b, c}
  NULL = NULL
INVARIANTS
  TypeOK
  DeadNotAsleep
  NoLostSleeper
PROPERTIES
  WaitSetSpec
  WokenReturns
