CONSTANTS
  Keys = {notice}
  GuildKeys = {notice}
  Fenced = {}
  Notices = {notice}
  Workers = {w1}
  NoWorker = NoWorker
  Errors = {"transient", "gone"}
  MaxJobs = 2
  MaxInputs = 2
  MaxAttempts = 2
  MaxFaults = 0
SPECIFICATION Spec
PROPERTY EndsOnNewestInput
CHECK_DEADLOCK FALSE
