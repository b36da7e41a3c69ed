CONSTANTS
  e1 = e1 e2 = e2 w1 = w1 w2 = w2 None = None
  Prints = {e1, e2}
  Automatic = {e1, e2}
  Workers = {w1, w2}
  IssuesPerDay = 1
  CommentsPerDay = 1
  MaxCount = 2
  MaxClosed = 2
  MaxFaults = 1
SPECIFICATION MCSpec
INVARIANTS RepeatsAddUp CapsHold
PROPERTY EveryReportArrives
CHECK_DEADLOCK FALSE
