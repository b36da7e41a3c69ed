CONSTANTS
  a1 = a1  a2 = a2  c1 = c1  c2 = c2  manual = manual  none = none
  Apps = {a1, a2}
  Calls = {c1, c2}
  Manual = manual
  NoApp = none
  Starts <- MCStarts
  MaxChanges = 2
SPECIFICATION Spec
PROPERTY DecisionsStand
PROPERTY AccessSettles
PROPERTY PresenceSettles
PROPERTY ReviewsShowOutcome
CHECK_DEADLOCK FALSE
