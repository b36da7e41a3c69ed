CONSTANTS
  Keys = {notice}
  GuildKeys = {notice}
  Fenced = {}
  Notices = {notice}
  Workers = {w1, w2}
  NoWorker = NoWorker
  Errors = {"waiting", "transient", "blocked", "gone"}
  MaxJobs = 2
  MaxInputs = 2
  MaxAttempts = 2
  MaxFaults = 1
SPECIFICATION FairSpec
INVARIANTS OneActiveRowPerKey KeyHasOneOwner
PROPERTIES KeepsPromise EveryInputSettles
CHECK_DEADLOCK FALSE
