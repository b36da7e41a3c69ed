CONSTANTS
  Members = {m1}
  Officers = {o1}
  Cases = {k1, k2}
  Messages = {r1}
  Texts = {t1, t2}
  Requests = {s1, s2}
  None = none
  MaxOpen = 1
  MaxMessages = 3
  MaxChanges = 3
SPECIFICATION Spec
INVARIANT TextsAreKept
PROPERTIES CasesEndInSight EventsReach
CHECK_DEADLOCK FALSE
