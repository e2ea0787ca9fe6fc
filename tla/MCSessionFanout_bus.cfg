SPECIFICATION Spec
CONSTANTS
  d1 = d1
  Sender = {d1}
  SubBuffer = 1
  OutBuffer = 2
  MaxEvents = 2
  MaxOther = 1
INVARIANT BusIsSafe
CHECK_DEADLOCK FALSE
