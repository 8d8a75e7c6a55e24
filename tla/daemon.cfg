SPECIFICATION DSpec
CONSTANTS
  Cards = {0, 1}
  Ctxs = {0, 1}
  Shows = {"M"}
  Clients = {k}
  Second = {"missing"}
  Devices <- MCDevices
  HeapFailCnt = {1, 3}
  HeapMaxCtx = {2}
  None = None
INVARIANTS
  ResourcesSafe
  ReportsTrue
PROPERTIES
  FollowsCards
\* The process ends.
CHECK_DEADLOCK FALSE
