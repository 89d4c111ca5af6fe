SPECIFICATION FairSession
CONSTANTS
  NumThreads = 1
  MaxDepth = 0
  Locs = {l1}
  Conditional = {}
  MaxActions = 0
  MaxEdits = 0
  MaxStops = 2
  CanHalt = FALSE
  Requests = {"reload"}
  MaxRequests = 1
  ReloadFails = FALSE
PROPERTIES
  AdapterResponds
CHECK_DEADLOCK FALSE
