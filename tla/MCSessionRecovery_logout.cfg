SPECIFICATION Spec
CONSTANTS
  None = None
  MaxBreaks = 2
  MaxExpiries = 2
  MaxStrays = 0
  MaxClicks = 0
  MaxEnds = 0
INVARIANT LogoutMeansSessionEnded
CHECK_DEADLOCK FALSE
