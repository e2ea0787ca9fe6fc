SPECIFICATION Spec
CONSTANTS
  alice = alice
  bob = bob
  User = {alice, bob}
  Reader = {alice}
  Admin = {alice}
  Kinds = {"dm", "public"}
  Levels = {"all", "mentions"}
  None = None
  MaxSeq = 2
  MaxInFlight = 1
INVARIANTS
  TypeOK
  BadgeIsCurrent
PROPERTY NewIsUnread
CHECK_DEADLOCK FALSE
