SPECIFICATION Statements
CONSTANTS
  l1 = l1
  l2 = l2
  NumThreads = 2
  MaxDepth = 1
  Locs = {l1, l2}
  Conditional = {l2}
  MaxActions = 3
  MaxEdits = 1
  MaxStops = 1
  CanHalt = TRUE
  Main = Main
  Blk = Blk
  Fun = Fun
  Sub = Sub
  vg = vg
  vm = vm
  vs = vs
  pio = pio
  pout = pout
  psub = psub
  pblk = pblk
  Program = Main
  Block = Blk
  Functions = {Fun, Sub}
  GlobalNames = {vg}
  Members <- TheMembers
  Temps <- NoTemps
  Params <- TheParams
  Direction <- TheDirections
  Scope <- TheScopes
  Callees <- TheCallees
  Data = {0, 1}
  Default = 0
  NoName = NoName
  MaxStatements = 4
INVARIANTS
  HeldIsNotified
  PauseNotLost
  ContextRestored
  InOutByReference
PROPERTIES
  StepsEndInFrame
  DebuggerResponds
CHECK_DEADLOCK FALSE
