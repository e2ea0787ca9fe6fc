SPECIFICATION Spec
CONSTANTS
  None = None
  Gone = Gone
  a = a
  b = b
  Caller = {a, b}
  MaxStarts = 3
  MaxLogins = 1
  MaxFaults = 1
INVARIANTS
  TypeOK
  LivingSessionIsKept
PROPERTY RefreshEnds
CHECK_DEADLOCK FALSE
