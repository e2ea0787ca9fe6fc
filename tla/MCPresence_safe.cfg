SPECIFICATION PresenceSpec
CONSTANTS
  None = None
  c1 = c1
  c2 = c2
  i1 = i1
  i2 = i2
  Conn = {c1, c2}
  Instance = {i1, i2}
  Home <- MCHome
  Sweeping = {i2}
  Observed = {i2}
  MaxTouches = 2
  MaxFaults = 1
INVARIANTS
  PresenceTypeOK
  StatusFollowsLeases
CHECK_DEADLOCK FALSE
PROPERTY ObserversConverge
