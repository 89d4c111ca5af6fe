SPECIFICATION FairSpec
CONSTANTS
  NumThreads = 1
  MaxDepth = 0
  Locs = {l1}
  Conditional = {}
  MaxActions = 1
  MaxEdits = 1
  MaxStops = 2
  CanHalt = TRUE
PROPERTIES
  ShutdownEnds
CHECK_DEADLOCK FALSE
