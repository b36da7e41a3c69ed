CONSTANTS
  None = None
  Prints = {e1, e2}
  Automatic = {e1, e2}
  Workers = {w1, w2}
  IssuesPerDay = 1
  CommentsPerDay = 1
  MaxCount = 2
  MaxClosed = 2
  MaxFaults = 0
SPECIFICATION Spec
INVARIANT IssuesWithinCap
CHECK_DEADLOCK FALSE
