SPECIFICATION Spec
CONSTANTS
  None = None
  MaxBreaks = 2
  MaxExpiries = 1
  MaxStrays = 1
  MaxClicks = 1
  MaxEnds = 1
INVARIANTS
  TypeOK
  NeverStranded
  OneRefusalIsSurvived
PROPERTY RecoversWithValidToken
CHECK_DEADLOCK FALSE
