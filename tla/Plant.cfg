SPECIFICATION Plant
CONSTANTS
  Names = {"x", "y"}
  Slots = {1, 2}
  Fallible = {"y"}
  MaxVersion = 2
  MaxReloads = 1
  Watched = "a"
  Other = "b"
  Interval = 1
  MaxEntries = 4
  Debounce = 2
  NoCapture = NoCapture
  MaxMoment = 2
  MaxFailures = 2
  Ids = 2
  OnError = "warn"
  MaxOutages = 2
  Couplings = {1, 2}
  Delay <- TwoDelays
  Threshold <- Thresholds
  Levels = {0, 1, 2}
  Disturbances <- Script
  RestartsFault = TRUE
  Horizon = 4
INVARIANTS
  MeshConsistent
  ShownIsKept
  AlertExplained
  AnswersBelong
  WiringIsDelayed
PROPERTIES
  PlantConverges
CHECK_DEADLOCK FALSE
