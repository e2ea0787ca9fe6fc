\* Two messages; one of each disturbance, in every order.
SPECIFICATION Spec
CONSTANTS
  m1 = m1
  m2 = m2
  Messages = {m1, m2}
  None = None
  MaxBreaks = 1
  MaxUnsaved = 1
  MaxBadAnswers = 1
  MaxRebootstraps = 1
  MaxReloads = 1
  MaxLogouts = 1
INVARIANTS
  TypeOK
  StoredOnce
  OneWritePerSession
  WrittenIsSaved
  PendingIsKept
PROPERTY
  EveryMessageIsAnswered
\* The user may stop writing.
CHECK_DEADLOCK FALSE
