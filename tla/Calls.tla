-------------------------------- MODULE Calls --------------------------------
(***************************************************************************)
(* The call service: calls, participants, invites and their notifications, *)
(* raised hands, and what it announces to the workspace about them.        *)
(*                                                                         *)
(* Every operation is one database transaction that locks the row of its   *)
(* call (SELECT ... FOR UPDATE, or INSERT), and is one step where all it    *)
(* reads and writes is under that lock. It is not where it counts the calls *)
(* of a user: the count is of all calls, the others are not locked, and a   *)
(* transaction sees what others have committed (READ COMMITTED). There the  *)
(* count before the change, the count after it and the commit are three     *)
(* steps: Begin and Recount, in which the transactions differ only in the   *)
(* counts they look at, and the action named for the operation. Webhooks    *)
(* come late, twice and in any order; a user can be in several calls at     *)
(* once. Events are applied in the order of the commits.                    *)
(*                                                                         *)
(* A call_invites row is here only while its state is 'created': nothing   *)
(* reads it in another state. Its expiry changes nothing: AcceptInvite     *)
(* refuses an expired invite and rolls back, and the sweep of ExpireInvites *)
(* fails on its own transaction as soon as it has something to expire.     *)
(***************************************************************************)
EXTENDS Naturals, Sequences, FiniteSets

CONSTANTS
  User,
  Conversation,
  Direct,           \* conversations that are direct messages
  Member,           \* Member[v]: members of conversation v
  Call,             \* calls (and LiveKit rooms) of a behaviour
  ConversationOf,   \* ConversationOf[c]: where call c takes place
  MaxRaise,         \* bound: MaxRaise[c]: hands raised in call c
  MaxOverlaps       \* bound: transactions begun while another one is open

ASSUME CallsAssumption ==
  /\ IsFiniteSet(Call)
  /\ Direct \subseteq Conversation
  /\ Member \in [Conversation -> SUBSET User]
  /\ ConversationOf \in [Call -> Conversation]
  /\ MaxRaise \in [Call -> Nat] /\ MaxOverlaps \in Nat

VARIABLES
  status,     \* calls.status
  seat,       \* call_participants: no row, joined, or left_at is set
  hand,       \* hand_raised_sequence, 0 for NULL
  nextHand,   \* next_hand_raise_sequence
  invited,    \* call_invites in state 'created', as <<call, invitee>>
  ringing,    \* unresolved call_invite notifications, as <<user, conversation>>
  counts,     \* what the transaction holding the lock of a call has counted
  leaving,    \* <<c, u, d>>: u, entering c, has locked d to leave it
  finishing,  \* finishing[c][u]: the count a room_finished of c has read
  told,       \* the count of the user's last user_call_presence_changed
  listed,     \* activeCalls of a client that applied every event so far
  shown,      \* the raised hands it shows
  raced,      \* history: users whose calls changed while they were counted
  overlaps

openVars == <<counts, leaving>>
vars == <<status, seat, hand, nextHand, invited, ringing, openVars, finishing,
          told, listed, shown, raced, overlaps>>

InCall(c) == {u \in User : seat[c][u] = "in"}

(* activeCallCountsForUsersTx *)
ActiveIn(u) == {c \in Call : status[c] = "active" /\ u \in InCall(c)}
ActiveCount(u) == Cardinality(ActiveIn(u))

(* The part of the count that the transaction of c has not locked. *)
Elsewhere(c) ==
  [u \in User |-> Cardinality({d \in ActiveIn(u) : d # c /\ <<c, u, d>> \notin leaving})]
Here(c, u) == IF c \in ActiveIn(u) THEN 1 ELSE 0

Locked(c) == counts[c] # <<>> \/ \E l \in leaving : l[3] = c

(* listCallRaisedHandsTx. The numbered queue is the order of the sequences. *)
RaisedHands(c) == [u \in User |-> IF u \in InCall(c) THEN hand[c][u] ELSE 0]

TypeOK ==
  /\ status \in [Call -> {"none", "active", "ended"}]
  /\ seat \in [Call -> [User -> {"none", "in", "left"}]]
  /\ hand \in [Call -> [User -> Nat]] /\ nextHand \in [Call -> Nat]
  /\ \A c \in Call, u \in User : hand[c][u] <= nextHand[c] /\ nextHand[c] <= MaxRaise[c]
  /\ invited \subseteq Call \X User
  /\ ringing \subseteq User \X Conversation
  /\ counts \in [Call -> Seq([User -> Nat])] /\ \A c \in Call : Len(counts[c]) <= 2
  /\ leaving \subseteq Call \X User \X Call /\ \A l \in leaving : l[1] # l[3]
  /\ finishing = [c \in Call |-> finishing[c]]
  /\ \A c \in Call : /\ DOMAIN finishing[c] \subseteq User
                    /\ finishing[c] \in [DOMAIN finishing[c] -> Nat]
  /\ told \in [User -> Nat]
  /\ listed \subseteq Call
  /\ shown \in [Call -> [User -> Nat]]
  /\ raced \subseteq User
  /\ overlaps \in 0..MaxOverlaps

Nobody == [u \in User |-> 0]
NotFinishing == [u \in {} |-> 0]

Init ==
  /\ status = [c \in Call |-> "none"]
  /\ seat = [c \in Call |-> [u \in User |-> "none"]]
  /\ hand = [c \in Call |-> Nobody]
  /\ nextHand = [c \in Call |-> 0]
  /\ invited = {}
  /\ ringing = {}
  /\ counts = [c \in Call |-> <<>>]
  /\ leaving = {}
  /\ finishing = [c \in Call |-> NotFinishing]
  /\ told = Nobody
  /\ listed = {}
  /\ shown = [c \in Call |-> Nobody]
  /\ raced = {}
  /\ overlaps = 0

-----------------------------------------------------------------------------
(* Parts of the transactions *)

Overlap(another) ==
  IF another THEN overlaps < MaxOverlaps /\ overlaps' = overlaps + 1 ELSE overlaps' = overlaps

(* A transaction locks call c, or inserts it, and counts the users' calls.  *)
Begin(c) ==
  /\ ~Locked(c)
  /\ counts' = [counts EXCEPT ![c] = <<Elsewhere(c)>>]
  /\ Overlap(\E d \in Call : counts[d] # <<>>)
  /\ UNCHANGED <<status, seat, hand, nextHand, invited, ringing, leaving, finishing,
                 told, listed, shown, raced>>

(* leaveOtherActiveCallsForUserTx locks the calls of the user it finds.     *)
LockOthers(c, u) ==
  LET others == {d \in ActiveIn(u) : d # c} IN
  /\ Len(counts[c]) = 1
  /\ <<c, u>> \in invited
  /\ \A l \in leaving : l[1] # c
  /\ others # {} /\ \A d \in others : ~Locked(d)
  /\ leaving' = leaving \cup {<<c, u, d>> : d \in others}
  /\ UNCHANGED <<status, seat, hand, nextHand, invited, ringing, counts, finishing,
                 told, listed, shown, raced, overlaps>>

(* It has changed its call and counts again. *)
Recount(c) ==
  /\ Len(counts[c]) = 1
  /\ counts' = [counts EXCEPT ![c] = Append(@, Elsewhere(c))]
  /\ UNCHANGED <<status, seat, hand, nextHand, invited, ringing, leaving, finishing,
                 told, listed, shown, raced, overlaps>>

Unlock(c) ==
  /\ counts' = [counts EXCEPT ![c] = <<>>]
  /\ leaving' = {l \in leaving : l[1] # c}

(* A transaction fails: refused, chosen to resolve a deadlock, disconnected. *)
Rollback(c) ==
  /\ counts[c] # <<>>
  /\ Unlock(c)
  /\ UNCHANGED <<status, seat, hand, nextHand, invited, ringing, finishing, told,
                 listed, shown, raced, overlaps>>

(* The transaction of call c that commits, and whose others it is leaving. *)
Commits(c) == Len(counts[c]) = 2 /\ Unlock(c)
LeavesNone(c) == \A l \in leaving : l[1] # c

(* What the transaction of c has counted before and after its change.        *)
Before(c, users) == [u \in users |-> counts[c][1][u] + Here(c, u)]
After(c, u) == counts[c][2][u] + Here(c, u)'

(* emitUserCallPresenceIfChangedTx, and the variant for several users: the   *)
(* second count is announced if it is not the first. Raced is a user whose    *)
(* other calls changed after the second count, or after the first when the    *)
(* two agree, or who was overlooked.                                         *)
AnnouncePresence(c, before, overlooked) ==
  LET counted      == DOMAIN before
      announced(u) == u \in counted /\ before[u] # After(c, u)
  IN
  /\ told' = [u \in User |-> IF announced(u) THEN After(c, u) ELSE told[u]]
  /\ raced' = {u \in User :
       \/ u \in counted /\ counts[c][2][u] # Elsewhere(c)[u]
       \/ u \in counted /\ ~announced(u) /\ before[u] # ActiveCount(u)
       \/ u \in overlooked
       \/ u \in raced /\ ~announced(u)}

(* Mutant: a rejoining participant keeps the hand of the last time. *)
SeatKeepingHand(c, u) ==
  /\ seat' = [seat EXCEPT ![c][u] = "in"]
  /\ hand' = hand

(* upsertParticipantTx: joining anew lowers the hand, joining twice does not. *)
Seat(c, u) ==
  /\ seat' = [seat EXCEPT ![c][u] = "in"]
  /\ hand' = IF u \in InCall(c) THEN hand ELSE [hand EXCEPT ![c][u] = 0]

(* rejectOlderActiveInvitesTx, createInviteTx and                           *)
(* createInviteNotificationTx for the invitees of call c.                   *)
Invite(c, users) ==
  /\ invited' = {i \in invited : i[2] \notin users} \cup {<<c, u>> : u \in users}
  /\ ringing' = {r \in ringing : \/ r[1] \notin users
                                 \/ \A i \in invited : i[2] = r[1] => ConversationOf[i[1]] # r[2]}
                \cup {<<u, ConversationOf[c]>> : u \in users}

(* cancelPendingInvitesForEndedCallTx and resolveInviteNotificationTx: the  *)
(* invites are no longer pending, their notifications are resolved.         *)
Close(invites) ==
  /\ invited' = invited \ invites
  /\ ringing' = ringing \ {<<i[2], ConversationOf[i[1]]>> : i \in invites}

PendingOf(calls) == {i \in invited : i[1] \in calls}

(* The client's part of appendCallRaisedHandsChangedTx for the calls: a     *)
(* raised-hands event replaces the queue and lists a call not yet listed.   *)
ShowHands(calls) ==
  shown' = [c \in Call |-> IF c \in calls THEN RaisedHands(c)' ELSE shown[c]]

-----------------------------------------------------------------------------
(* Requests *)

(* At most one active call per conversation: findActiveCallTx, backed by a  *)
(* unique index. In a direct message the peer is invited whatever was asked. *)
CreateCall(c, u, invitees) ==
  LET v == ConversationOf[c] IN
  /\ Commits(c) /\ LeavesNone(c)
  /\ status[c] = "none"
  /\ u \in Member[v]
  /\ \A d \in Call : ConversationOf[d] = v => status[d] # "active"
  /\ invitees \subseteq Member[v] \ {u}
  /\ v \in Direct => invitees = Member[v] \ {u} /\ invitees # {}
  /\ status' = [status EXCEPT ![c] = "active"]
  /\ Seat(c, u)
  /\ AnnouncePresence(c, Before(c, {u}), {})
  /\ Invite(c, invitees)
  /\ listed' = listed \cup {c}
  /\ UNCHANGED <<nextHand, finishing, shown, overlaps>>

(* A member, or an invited outsider who already is in the call, asks for a  *)
(* token. The participant is recorded before the token is used.             *)
JoinCallToken(c, u) ==
  /\ Commits(c) /\ LeavesNone(c)
  /\ status[c] = "active"
  /\ u \in Member[ConversationOf[c]] \cup InCall(c)
  /\ status' = status
  /\ Seat(c, u)
  /\ AnnouncePresence(c, Before(c, {u}), {})
  /\ UNCHANGED <<nextHand, invited, ringing, finishing, listed, shown, overlaps>>

(* Mutant: the sequence is taken without being counted. *)
RaiseHandKeepingCounter(c, u) ==
  /\ ~Locked(c)
  /\ status[c] = "active"
  /\ u \in InCall(c)
  /\ hand[c][u] = 0
  /\ nextHand[c] < MaxRaise[c]
  /\ hand' = [hand EXCEPT ![c][u] = nextHand[c] + 1]
  /\ listed' = listed \cup {c}
  /\ UNCHANGED <<status, seat, overlaps>>
  /\ ShowHands({c})
  /\ UNCHANGED <<nextHand, invited, ringing, openVars, finishing, told, raced, overlaps>>

RaiseHand(c, u) ==
  /\ ~Locked(c)
  /\ status[c] = "active"
  /\ u \in InCall(c)
  /\ hand[c][u] = 0
  /\ nextHand[c] < MaxRaise[c]
  /\ nextHand' = [nextHand EXCEPT ![c] = @ + 1]
  /\ hand' = [hand EXCEPT ![c][u] = nextHand[c] + 1]
  /\ listed' = listed \cup {c}
  /\ UNCHANGED <<status, seat, overlaps>>
  /\ ShowHands({c})
  /\ UNCHANGED <<invited, ringing, openVars, finishing, told, raced, overlaps>>

LowerHand(c, u) ==
  /\ ~Locked(c)
  /\ status[c] = "active"
  /\ u \in InCall(c)
  /\ hand[c][u] > 0
  /\ hand' = [hand EXCEPT ![c][u] = 0]
  /\ listed' = listed \cup {c}
  /\ UNCHANGED <<status, seat, overlaps>>
  /\ ShowHands({c})
  /\ UNCHANGED <<nextHand, invited, ringing, openVars, finishing, told, raced, overlaps>>

(* Someone in the call invites users, members or not; those in the call or  *)
(* already invited to it are skipped.                                       *)
InviteCallMembers(c, u, invitees) ==
  /\ ~Locked(c)
  /\ status[c] = "active"
  /\ u \in InCall(c)
  /\ invitees \subseteq {w \in User \ InCall(c) : <<c, w>> \notin invited}
  /\ invitees # {}
  /\ Invite(c, invitees)
  /\ UNCHANGED <<status, seat, hand, nextHand, openVars, finishing, told, listed, shown, raced, overlaps>>

(* Mutant: leaving the other calls does not look whether anyone is left. *)
NeverEmptied(u, others) == {}

(* leaveOtherActiveCallsForUserTx: the calls its last participant leaves.   *)
Emptied(u, others) == {d \in others : InCall(d) = {u}}

(* The invitee enters the call and, if asked, leaves the others first.      *)
AcceptInvite(c, u) ==
  LET others  == {d \in Call : <<c, u, d>> \in leaving}
      emptied == Emptied(u, others)
      raised  == {d \in others : hand[d][u] > 0}
  IN
  /\ Commits(c) /\ \A l \in leaving : l[1] = c => l[2] = u
  /\ <<c, u>> \in invited
  /\ status[c] = "active"
  /\ status' = [d \in Call |-> IF d \in emptied THEN "ended" ELSE status[d]]
  /\ seat' = [d \in Call |-> CASE d = c -> [seat[d] EXCEPT ![u] = "in"]
                               [] d \in others -> [seat[d] EXCEPT ![u] = "left"]
                               [] OTHER -> seat[d]]
  /\ hand' = IF u \in InCall(c) THEN hand ELSE [hand EXCEPT ![c][u] = 0]
  /\ AnnouncePresence(c, Before(c, {u}), {})
  /\ Close({<<c, u>>} \cup PendingOf(emptied))
  /\ ShowHands(raised)
  /\ listed' = (listed \cup raised) \ emptied
  /\ UNCHANGED <<nextHand, finishing, overlaps>>

(* RejectInvite by the invitee, CancelInvite by the inviter or an admin. *)
EndInvite(c, u) ==
  /\ ~Locked(c)
  /\ <<c, u>> \in invited
  /\ Close({<<c, u>>})
  /\ UNCHANGED <<status, seat, hand, nextHand, openVars, finishing, told, listed, shown, raced, overlaps>>

-----------------------------------------------------------------------------
(* Webhooks of LiveKit. An identity comes from a token, so it has a row. *)

(* The call is found by its room, ended or not. *)
ParticipantJoined(c, u) ==
  /\ Commits(c) /\ LeavesNone(c)
  /\ seat[c][u] # "none"
  /\ status' = status
  /\ Seat(c, u)
  /\ AnnouncePresence(c, Before(c, {u}), {})
  /\ UNCHANGED <<nextHand, invited, ringing, finishing, listed, shown, overlaps>>

(* Mutant: those who remain when the call ends are forgotten. *)
LeaverOnly(c, u, was, ends) == IF was THEN {u} ELSE {}

(* Whose calls are counted when u leaves call c.                            *)
LeaverAndRemaining(c, u, was, ends) ==
  (IF was THEN {u} ELSE {}) \cup (IF ends THEN InCall(c) \ {u} ELSE {})

(* Mutant: the invites of a call that ends this way stay pending. *)
ParticipantLeftKeepingInvites(c, u, emptyRoom) ==
  LET was  == u \in InCall(c)
      ends == status[c] = "active" /\ (InCall(c) \subseteq {u} \/ emptyRoom)
  IN
  /\ Commits(c) /\ LeavesNone(c)
  /\ seat[c][u] # "none"
  /\ seat' = IF was THEN [seat EXCEPT ![c][u] = "left"] ELSE seat
  /\ status' = IF ends THEN [status EXCEPT ![c] = "ended"] ELSE status
  /\ AnnouncePresence(c, Before(c, LeaverAndRemaining(c, u, was, ends)), {})
  /\ hand' = hand
  /\ ShowHands(IF was THEN {c} ELSE {})
  /\ listed' = (IF was THEN listed \cup {c} ELSE listed) \ (IF ends THEN {c} ELSE {})
  /\ UNCHANGED <<invited, ringing, nextHand, finishing, overlaps>>

(* participant_left and participant_connection_aborted: a participant who   *)
(* was there leaves, the queue is announced, and the call ends when nobody  *)
(* is left or the event's room snapshot is empty. Who leaves is counted      *)
(* before those who remain; a user is counted in one of the two pairs.       *)
ParticipantLeft(c, u, emptyRoom) ==
  LET was  == u \in InCall(c)
      ends == status[c] = "active" /\ (InCall(c) \subseteq {u} \/ emptyRoom)
  IN
  /\ Commits(c) /\ LeavesNone(c)
  /\ seat[c][u] # "none"
  /\ seat' = IF was THEN [seat EXCEPT ![c][u] = "left"] ELSE seat
  /\ status' = IF ends THEN [status EXCEPT ![c] = "ended"] ELSE status
  /\ AnnouncePresence(c, Before(c, LeaverAndRemaining(c, u, was, ends)), {})
  /\ Close(IF ends THEN PendingOf({c}) ELSE {})
  /\ hand' = hand
  /\ ShowHands(IF was THEN {c} ELSE {})
  /\ listed' = (IF was THEN listed \cup {c} ELSE listed) \ (IF ends THEN {c} ELSE {})
  /\ UNCHANGED <<nextHand, finishing, overlaps>>

(* room_finished lists the participants and their counts, without a lock. *)
RoomFinishedRead(c) ==
  /\ status[c] = "active"
  /\ finishing[c] = NotFinishing
  /\ Overlap(\E d \in Call : counts[d] # <<>> \/ finishing[d] # NotFinishing)
  /\ finishing' = [finishing EXCEPT ![c] = [u \in InCall(c) |-> ActiveCount(u)]]
  /\ UNCHANGED <<status, seat, hand, nextHand, invited, ringing, openVars, told,
                 listed, shown, raced>>

(* Then its UPDATE locks and ends the call, and it announces the presence of *)
(* those it had listed if it differs from what it had read.                  *)
RoomFinishedEnd(c) ==
  /\ Commits(c) /\ LeavesNone(c)
  /\ finishing[c] # NotFinishing
  /\ finishing' = [finishing EXCEPT ![c] = NotFinishing]
  /\ status[c] = "active"
  /\ status' = [status EXCEPT ![c] = "ended"]
  /\ seat' = seat
  /\ AnnouncePresence(c, finishing[c], InCall(c) \ DOMAIN finishing[c])
  /\ Close(PendingOf({c}))
  /\ listed' = listed \ {c}
  /\ UNCHANGED <<hand, nextHand, shown, overlaps>>

(* Or the UPDATE finds that the call has ended, or the transaction fails. *)
RoomFinishedQuits(c) ==
  /\ finishing[c] # NotFinishing
  /\ finishing' = [finishing EXCEPT ![c] = NotFinishing]
  /\ UNCHANGED <<status, seat, hand, nextHand, invited, ringing, openVars, told,
                 listed, shown, raced, overlaps>>

UserStep(c, u) ==
  \/ \E invitees \in SUBSET User : CreateCall(c, u, invitees)
  \/ \E invitees \in SUBSET User : InviteCallMembers(c, u, invitees)
  \/ JoinCallToken(c, u)
  \/ RaiseHand(c, u)
  \/ LowerHand(c, u)
  \/ LockOthers(c, u)
  \/ AcceptInvite(c, u)
  \/ EndInvite(c, u)
  \/ ParticipantJoined(c, u)
  \/ \E emptyRoom \in BOOLEAN : ParticipantLeft(c, u, emptyRoom)

Next ==
  \E c \in Call :
    \/ Begin(c) \/ Recount(c) \/ Rollback(c)
    \/ RoomFinishedRead(c) \/ RoomFinishedEnd(c) \/ RoomFinishedQuits(c)
    \/ \E u \in User : UserStep(c, u)

Spec == Init /\ [][Next]_vars

-----------------------------------------------------------------------------
(* Properties *)

(* A pending invite leads into a call that is still going on, and a phone   *)
(* that rings in a conversation has such an invite there: whichever of four *)
(* transactions ends a call also closes its invites and notifications.      *)
InviteIsLive ==
  /\ \A i \in invited : status[i[1]] = "active"
  /\ \A r \in ringing : \E i \in invited : i[2] = r[1] /\ ConversationOf[i[1]] = r[2]

(* No call goes on without anyone in it: its conversation could have no     *)
(* other call, and nobody could end this one.                               *)
LiveCallHasParticipant ==
  \A c \in Call : status[c] = "active" => InCall(c) # {}

(* Whoever has applied every event shows an active call with its queue of   *)
(* raised hands: no path changes the queue without announcing it.           *)
QueueIsAnnounced ==
  \A c \in Call : status[c] = "active" => c \in listed /\ shown[c] = RaisedHands(c)

(* The number of calls a user is said to be in is the number of active      *)
(* calls the user is in: what overlapping transactions of two calls, an       *)
(* accepted invite that leaves calls and the ends of calls announce adds up.  *)
(* Excepted is a user whose calls changed between the counts of a transaction *)
(* and its commit (nothing locks them), until the next announcement that was  *)
(* not overtaken.                                                            *)
PresenceIsAnnounced ==
  \A u \in User \ raced : told[u] = ActiveCount(u)
=============================================================================
