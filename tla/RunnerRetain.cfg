SPECIFICATION Spec
CONSTANTS
  gr = gr
  RetainGlobals = {gr}
  PlainGlobals = {}
  ProgRetain = {}
  ProgPlain = {}
  Values = {0, 1}
  InitValue = 0
  OutVar = gr
  SafeValue = 0
  NumDrivers = 1
  HasStore = TRUE
  DiskFails = TRUE
  NoInterval = NoInterval
  NoSnap = NoSnap
  Absent = Absent
  Torn = Torn
  HasGate = FALSE
  HasSimulation = FALSE
  RestartCanFail = FALSE
  CanCrash = TRUE
  BootPolicies <- RetainPolicies
  Updates <- RetainUpdates
  ReloadIds = {1}
  NoError = NoError
  MaxTime = 2
  MaxSent = 2
  MaxLaunches = 2
INVARIANTS
  GracefulStopPersists
  LossIsBounded
CHECK_DEADLOCK FALSE
