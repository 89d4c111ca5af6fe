SPECIFICATION ClientsSpec
SYMMETRY ClientSymmetry
CONSTANTS
  CodeTtl = 1
  TokenTtl = 2
  MaxPaired = 1
  MaxClock = 3
  MaxCodes = 3
  R1 = R1
  R2 = R2
  cli = cli
  web = web
  Labels = {1, 2, 3}
  Releases = {R1, R2}
  Writers = {cli, web}
  NoLink = 0
  MaxOps = 3
  WebDeploys = TRUE
  k1 = k1
  k2 = k2
  t1 = t1
  Conns = {k1, k2}
  Nobody = Nobody
  Payloads <- SomeSettings
  NoToken = NoToken
  AuthTokens = {t1}
  RequiresAuth = FALSE
  Readings = {"in", "out"}
  Outside = {"out"}
  HistoryLimit = 3
  MaxRequests = 3
  MaxScans = 2
  c1 = c1
  c2 = c2
  main = main
  old = old
  new = new
  big = big
  torn = torn
  Clients <- TwoClients
  Paths = {main}
  Contents = {old, new, big, torn}
  Large = {big}
  Torn = torn
  Absent = Absent
  None = None
  Ttl = 1
  MaxSessions = 2
  MaxEdits = 1
  MaxTokens = 3
  MaxVersion = 3
  MaxNow = 1
  MaxLaunches = 1
  u1 = u1
  u2 = u2
  x = x
  y = y
  Uris = {u1, u2}
  Texts = {x, y}
  NoText = NoText
  Budget = 1
  EvictTo = 0
  MaxNotes = 3
  MaxIndexings = 1
INVARIANTS
  NoBlindOverwrite
  RevokedStaysRevoked
  SettingsInForce
  AlarmTellsProcess
  CurrentIsWhole
  VersionsAgree
  SourcesFollowDocs
CHECK_DEADLOCK FALSE
