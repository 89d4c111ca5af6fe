SPECIFICATION CycleSpec
CONSTANTS
  e1 = e1
  e2 = e2
  NumTasks = 4
  Interval <- MixedInterval
  Priority <- MixedPriority
  Single <- MixedSingle
  NoVar = NoVar
  EventVars = {e1, e2}
  RetainEvents = {e1}
  InitEvents = {}
  HasBackground = TRUE
  Restarts = TRUE
  MaxClock = 5
  i0 = i0
  q0 = q0
  q1 = q1
  m0 = m0
  gi = gi
  gm = gm
  pq = pq
  InputCells = {i0}
  OutputCells = {q0, q1}
  MarkerCells = {m0}
  Addresses <- BitAndByte
  Globals = {gi, gm}
  ProgVars = {pq}
  At <- Bound
  Retained = {gi, pq}
  Contents = {0, 1}
  Zero = 0
  Mistyped = Mistyped
  MaxRequests = 2
  MaxRestarts = 1
  PTs <- ManyPT
  Steps = {1, 2}
  CanRestart = TRUE
  Never = Never
  MaxTime = 7
  Cap = 5
  TypeMin <- Lowest
  TypeMax = 2
  Presets <- ManyPreset
  MaxCount = 4
  MaxInt = 3
  MaxText = 4
INVARIANTS
  RunsInOrder
  PaceKept
  ForcedOrDriven
  TonNotEarly
  TimersExact
  CountsEdges
  StringLaws
PROPERTIES
  NoSpuriousEdge
CHECK_DEADLOCK FALSE
