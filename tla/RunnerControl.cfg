SPECIFICATION FairSpec
CONSTANTS
  gr = gr
  RetainGlobals = {gr}
  PlainGlobals = {}
  ProgRetain = {}
  ProgPlain = {}
  Values = {0, 1}
  InitValue = 0
  OutVar = gr
  SafeValue = 0
  NumDrivers = 2
  HasStore = FALSE
  DiskFails = FALSE
  NoInterval = NoInterval
  NoSnap = NoSnap
  Absent = Absent
  Torn = Torn
  HasGate = TRUE
  HasSimulation = TRUE
  RestartCanFail = TRUE
  CanCrash = FALSE
  BootPolicies <- ControlPolicies
  Updates <- ControlUpdates
  ReloadIds = {1}
  NoError = NoError
  MaxTime = 0
  MaxSent = 2
  MaxLaunches = 1
INVARIANTS
  PausedMeansIdle
  FaultIsHandled
  SafeHaltIsSafe
PROPERTIES
  StopEnds
  RequestsTaken
CHECK_DEADLOCK FALSE
