CONSTANTS
  c1 = c1
  c2 = c2
  c3 = c3
  c4 = c4
  k1 = k1
  k2 = k2
  k3 = k3
  FCs = {fc, other}
  NoFc = NoFc
  Calls = {c1, c2, c3, c4}
  Keys = {k1, k2, k3}
  Key <- CallKeys
  Inputs <- Tried
  MaxGil = 2
  MaxRevision = 2
  MaxEntries = 3
  PostFaults = 2
  OutageHorizon = 4
  Requests = {"r1", "r2", "r3"}
  Concurrency = 2
  Attempts = 2
  Spacing = 2
  CooldownBase = 1
  CooldownMax = 2
  RetryAfterMax = 3
  Hints = {0, 4}
  GateHorizon = 5
  None = None
  Tries = {i, j}
  Browsers = {1, 2}
  SessionTokens = {1, 2, 3}
  SessionsPerUser = 2
  SessionIdle = 2
  SessionAbsolute = 3
  SessionTouch = 1
  SignInLimit = 2
  SignInWindow = 2
  SessionHorizon = 3
  ExchangeIds = {"e1", "e2", "e3"}
  ExchangeLimit = 2
  ExchangeWindow = 2
  ExchangeConcurrency = 2
  ExchangeDelays = {1, 3}
  ExchangeHorizon = 4
  PostWorkers = {"w1", "w2"}
  Nobody = "nobody"
  Hold = 1
  Day = 2
  Users = {"u1"}
  Flags = {"member", "guest"}
  Observations <- MCObservations
  Departures = {"d1"}
  Channels = {"a"}
  NoChannel = "no channel"
  BatchSize = 1
  MaxRecords = 3
  MaxJoins = 2
  MaxSettings = 1
  StatusFaults = 1
  MemoFor = 1
  ActorHorizon = 3
  ActorChanges = 2
SYMMETRY Symmetric
SPECIFICATION PartsSpec
INVARIANTS LedgerAddsUp RacesAreAnswered PostsFollowAccount SupersededByNewer NoticesAreTrue AccessIsCurrent
PROPERTIES OutagesAreTold WritesLinkedLedger StartsAreAllowed SignInsAreBounded
CHECK_DEADLOCK FALSE
