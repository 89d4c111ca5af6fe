SPECIFICATION Spec
CONSTANTS
  a = a
  b = b
  x = x
  y = y
  Resources = {a, b}
  First = a
  Shared = {x, y}
  Retained = {y}
  FaultPolicy <- OneOfEach
  Watchdog <- OneOfEach
  Timeout = 0
  CanFail = TRUE
  NoOne = NoOne
  Modulus = 2
  MaxSent = 1
INVARIANTS
  NoLostUpdate
PROPERTIES
  ImplementsCounters
