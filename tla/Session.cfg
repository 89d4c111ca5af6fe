SPECIFICATION AnySession
CONSTANTS
  l1 = l1
  NumThreads = 2
  MaxDepth = 0
  Locs = {l1}
  Conditional = {l1}
  MaxActions = 0
  MaxEdits = 0
  MaxStops = 2
  CanHalt = FALSE
  Requests = {"continue", "pause", "next", "stepIn", "stepOut", "setBreakpoints", "disconnect"}
  MaxRequests = 3
  ReloadFails = FALSE
  LinkFails = TRUE
INVARIANTS
  ShownStopsAreTrue
  ReloadKeepsSession
PROPERTIES
  PausesAreShown
  AdaptersRespond
CHECK_DEADLOCK FALSE
