CONSTANTS
  Keys = {notice}
  GuildKeys = {notice}
  Fenced = {}
  Notices = {}
  Workers = {w1}
  NoWorker = NoWorker
  Errors = {"disabled"}
  MaxJobs = 3
  MaxInputs = 3
  MaxAttempts = 1
  MaxFaults = 0
  Resumes = {{"disabled"}, {"disabled", "blocked"}}
  RequeueAttempts = 2
SPECIFICATION ParkedSpec
PROPERTY MovedLinkGainsHolder
CHECK_DEADLOCK FALSE
