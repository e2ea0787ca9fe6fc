SPECIFICATION Spec
CONSTANTS
  alice = alice
  bob = bob
  dm = dm
  channel = channel
  User = {alice, bob}
  Conversation = {dm, channel}
  Direct = {dm}
  Member <- MCMember
  Call = {1, 2}
  ConversationOf <- MCConversationOf
  MaxRaise <- MCMaxRaise
  MaxOverlaps = 1
INVARIANTS
  TypeOK
  InviteIsLive
  LiveCallHasParticipant
  QueueIsAnnounced
  PresenceIsAnnounced
SYMMETRY UserSymmetry
CHECK_DEADLOCK FALSE
