SPECIFICATION Spec
CONSTANTS
  gr = gr
  RetainGlobals = {gr}
  PlainGlobals = {}
  ProgRetain = {}
  ProgPlain = {}
  Values = {0, 1}
  InitValue = 0
  OutVar = gr
  SafeValue = 0
  NumDrivers = 1
  HasStore = TRUE
  DiskFails = FALSE
  NoInterval = NoInterval
  NoSnap = NoSnap
  Absent = Absent
  Torn = Torn
  HasGate = FALSE
  HasSimulation = FALSE
  RestartCanFail = FALSE
  CanCrash = TRUE
  BootPolicies <- DefaultPolicy
  Updates = {}
  ReloadIds = {}
  NoError = NoError
  MaxTime = 1
  MaxSent = 2
  MaxLaunches = 1
PROPERTIES
  FlushedSurvives
CHECK_DEADLOCK FALSE
