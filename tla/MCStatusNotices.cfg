CONSTANTS
  Users = {u1}
  u1 = u1
  u2 = u2
  w1 = w1
  w2 = w2
  d1 = d1
  a = a
  Flags = {"member", "guest"}
  Observations <- MCObservations
  Departures = {d1}
  Channels = {a}
  NoChannel = NoChannel
  Workers = {w1, w2}
  Nobody = Nobody
  BatchSize = 1
  MaxRecords = 3
  MaxJoins = 2
  MaxSettings = 1
  MaxFaults = 1
SPECIFICATION Spec
CHECK_DEADLOCK FALSE
PROPERTY ChangesAreSettled
