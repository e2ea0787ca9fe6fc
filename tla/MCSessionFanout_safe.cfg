SPECIFICATION Spec
CONSTANTS
  d1 = d1
  Sender = {d1}
  SubBuffer = 2
  OutBuffer = 2
  MaxEvents = 4
  MaxOther = 2
INVARIANTS
  TypeOK
  ReceivedIsPrefix
  NothingLostWhileConnected
  FanoutNeverWritesAfterClose
PROPERTY SessionEnds
CHECK_DEADLOCK FALSE
