SPECIFICATION Spec
CONSTANTS
  None = None
  colleague = colleague
  Peer = {colleague}
  PageOf <- FirstPage
  LastPage = 1
  Way = {"notify"}
  StampOf <- LeaseExpires
  BufferLimit = 1
  MaxEvents = 2
  MaxVersion = 2
  MaxWrites = 3
  MaxBreaks = 1
  MaxStrangers = 1
  MaxExpired = 1
  MaxUnanswered = 1
INVARIANTS
  TypeOK
  NoGapBelowCursor
  AckedIsStored
  PresenceIsCurrent
PROPERTY CatchesUp
CHECK_DEADLOCK FALSE
