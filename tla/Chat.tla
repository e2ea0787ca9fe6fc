---------------------------------- MODULE Chat ----------------------------------
(***************************************************************************)
(* One conversation: its members, messages and threads, what each member   *)
(* has read, the notifications that wait for them, and the unread badge    *)
(* their client shows. Conversations share nothing, so one is enough.      *)
(*                                                                         *)
(* A request is a transaction followed by direct deliveries to sessions.   *)
(* Writing a message locks the channel row until the commit and is one     *)
(* step. UpdateReadCursor locks nothing the others lock: it computes its   *)
(* counter in one step and commits in another. So could an edit, a         *)
(* deletion and a subscription; they are one step here, and the overlap of *)
(* two transactions is that of a read with any other. The counters a       *)
(* transaction computed are delivered after it, by its own handler, in no  *)
(* order with those of other requests; the client replaces what it shows   *)
(* by what arrives. SendMessage checks the membership before it starts.    *)
(*                                                                         *)
(* A message is identified by its channel_seq. Bodies, attachments and the *)
(* durable events are left out, and so is the reply count of a thread.     *)
(* Equal notifications of a user about one message are one here.           *)
(***************************************************************************)
EXTENDS Integers, Sequences, FiniteSets

CONSTANTS
  User,
  Reader,       \* users whose reading is followed; others only write
  Admin,        \* users with the role admin or owner
  Kinds,        \* what the conversation of a behaviour may be
  Levels,       \* notification levels in use
  None,         \* no open UpdateReadCursor
  MaxSeq,       \* bound: messages ever written, membership notices included
  MaxInFlight   \* bound: counters on their way to one user

ASSUME ChatAssumption ==
  /\ IsFiniteSet(User)
  /\ Admin \subseteq User /\ Reader \subseteq User
  /\ Kinds \subseteq {"public", "private", "dm"}
  /\ "all" \in Levels /\ Levels \subseteq {"all", "mentions", "nothing"}
  /\ MaxSeq \in Nat
  /\ MaxInFlight \in Nat
  /\ None \notin [to : 0..MaxSeq, counter : [unread : 0..MaxSeq, thread : BOOLEAN]]

VARIABLES
  kind,        \* channels.kind and visibility
  member,      \* channel_members: no row, active, or is_archived
  level,       \* notification_level of the row
  late,        \* former members whose SendMessage had passed the check before
  messages,    \* messages with their mention rows
  nextSeq,     \* channels.next_seq, the last channel_seq given out
  threadSeq,   \* thread_summaries: next_thread_seq - 1 by root, 0 without a row
  threadRead,  \* thread_reads: last_read_thread_seq by root and user, or NoRow
  cursor,      \* message_reads: last_read_seq, 0 without a row
  reading,     \* an open UpdateReadCursor: the cursor it writes, its counter
  inbox,       \* unresolved mention and thread_reply notifications
  badge,       \* the counter a user's client shows
  sent,        \* counters on their way to a user, in the order of the commits
  stale        \* history: users whose badge the code does not claim to be right

tables == <<kind, member, level, messages, nextSeq, threadSeq, threadRead, cursor, inbox>>
vars == <<tables, late, reading, badge, sent, stale>>

Seqs == 1..MaxSeq
NoRow == -1
Counters == [unread : 0..MaxSeq, thread : BOOLEAN]
Nothing == [unread |-> 0, thread |-> FALSE]

Message == [seq : Seqs, sender : User, root : 0..MaxSeq, tseq : 0..MaxSeq, mentions : SUBSET Reader]
Notification == [user : Reader, msg : 0..MaxSeq, root : 0..MaxSeq, type : {"mention", "thread_reply"}]

TypeOK ==
  /\ kind \in Kinds
  /\ member \in [User -> {"none", "active", "archived"}]
  /\ level \in [Reader -> Levels]
  /\ late \subseteq User
  /\ messages \subseteq Message
  /\ nextSeq \in 0..MaxSeq
  /\ threadSeq \in [Seqs -> 0..MaxSeq]
  /\ threadRead \in [Seqs -> [Reader -> NoRow..MaxSeq]]
  /\ cursor \in [Reader -> 0..MaxSeq]
  /\ reading \in [Reader -> {None} \cup [to : 0..MaxSeq, counter : Counters]]
  /\ inbox \subseteq Notification
  /\ badge \in [Reader -> Counters]
  /\ sent \in [Reader -> Seq(Counters)]
  /\ \A u \in Reader : Len(sent[u]) <= MaxInFlight
  /\ stale \subseteq Reader

Active == {u \in User : member[u] = "active"}
Readers == Reader \cap Active

(* getNotificationLevelTx *)
LevelOf(u) == IF u \in Active THEN level[u] ELSE "all"

Roots == {m \in messages : m.root = 0}
Replies(r) == {m \in messages : m.root = r}

Follows(u, root) ==
  \/ root.sender = u
  \/ \E m \in Replies(root.seq) : m.sender = u
  \/ threadRead[root.seq][u] # NoRow

ThreadReadSeq(u, r) == IF threadRead[r][u] = NoRow THEN 0 ELSE threadRead[r][u]

UnreadThread(u) ==
  \E root \in Roots : Follows(u, root) /\ ThreadReadSeq(u, root.seq) < threadSeq[root.seq]

UnreadMessages(u, last) ==
  {m \in messages : /\ m.seq > last
                    /\ IF LevelOf(u) = "mentions" THEN u \in m.mentions
                                                  ELSE m.root = 0 /\ m.sender # u}

(* buildUnreadCounterTx *)
Counter(u, last) ==
  IF LevelOf(u) = "nothing" THEN Nothing
  ELSE [unread |-> Cardinality(UnreadMessages(u, last)), thread |-> UnreadThread(u)]

Init ==
  /\ kind \in Kinds
  /\ member \in [User -> {"none", "active"}]
  /\ \E u \in User : member[u] = "active"
  /\ kind = "dm" => \A u \in User : member[u] = "active"
  /\ level = [u \in Reader |-> "all"]
  /\ late = {}
  /\ messages = {}
  /\ nextSeq = 0
  /\ threadSeq = [r \in Seqs |-> 0]
  /\ threadRead = [r \in Seqs |-> [u \in Reader |-> NoRow]]
  /\ cursor = [u \in Reader |-> 0]
  /\ reading = [u \in Reader |-> None]
  /\ inbox = {}
  /\ badge = [u \in Reader |-> Nothing]
  /\ sent = [u \in Reader |-> <<>>]
  /\ stale = {}

-----------------------------------------------------------------------------
(* Parts of the transactions *)

Busy(u) == sent[u] # <<>> \/ reading[u] # None

(* buildUnreadRecalcDeliveriesForChannelMembersTx: counters for users, on   *)
(* their way from the commit on. A counter computed while an older one is   *)
(* on its way may be overtaken by it.                                       *)
Announce(users) ==
  /\ \A u \in users : Len(sent[u]) < MaxInFlight
  /\ sent' = [u \in Reader |-> IF u \in users THEN Append(sent[u], Counter(u, cursor[u])')
                                            ELSE sent[u]]
  /\ stale' = (stale \ users) \cup {u \in users : Busy(u)}

(* createMentionNotificationsTx *)
Mention(actor, users, msg, root) ==
  {[user |-> u, msg |-> msg, root |-> root, type |-> "mention"] :
     u \in {w \in users : kind # "dm" /\ w # actor /\ w \in Readers' /\ level[w] # "nothing"}}

(* threadNotificationRecipientsTx and the loop over its result *)
ThreadReply(actor, msg, root) ==
  {[user |-> u, msg |-> msg, root |-> root, type |-> "thread_reply"] :
     u \in {w \in Readers' : /\ w # actor
                             /\ \E m \in messages : m.sender = w /\ root \in {m.seq, m.root}
                             /\ level[w] # "nothing"}}

Write(u, root, mentions) ==
  /\ nextSeq < MaxSeq
  /\ nextSeq' = nextSeq + 1
  /\ threadSeq' = IF root = 0 THEN threadSeq ELSE [threadSeq EXCEPT ![root] = @ + 1]
  /\ messages' = messages \cup
       {[seq |-> nextSeq + 1, sender |-> u, root |-> root, mentions |-> mentions,
         tseq |-> IF root = 0 THEN 0 ELSE threadSeq[root] + 1]}

(* createMembershipChangeNoticeTx: a message of the actor that counts as    *)
(* unread but notifies nobody.                                              *)
Notice(actor) ==
  /\ Write(actor, 0, {})
  /\ Announce(Readers')

(* What the cascades of the schema leave of threads and notifications when  *)
(* the messages with these seqs are gone.                                   *)
Cascade(gone) ==
  /\ threadRead' = [r \in Seqs |-> IF r \in gone THEN [u \in Reader |-> NoRow] ELSE threadRead[r]]
  /\ inbox' = {[n EXCEPT !.msg = IF @ \in gone THEN 0 ELSE @,
                         !.root = IF @ \in gone THEN 0 ELSE @] : n \in inbox}

-----------------------------------------------------------------------------
(* Messages *)

(* In a direct message restoreArchivedDMPeerTx brings the peer back first.  *)
(* Clients open threads on root messages only.                              *)
SendMessage(u, root, mentions) ==
  /\ u \in Active \cup late
  /\ late' = late \ {u}
  /\ root = 0 \/ \E m \in Roots : m.seq = root
  /\ member' = [w \in User |-> IF kind = "dm" /\ w # u /\ member[w] = "archived"
                                 THEN "active" ELSE member[w]]
  /\ Write(u, root, mentions)
  /\ inbox' = inbox \cup Mention(u, mentions, nextSeq', root)
                    \cup IF root = 0 THEN {} ELSE ThreadReply(u, nextSeq', root)
  /\ UNCHANGED <<kind, level, threadRead, cursor, reading, badge>>
  /\ Announce(Readers')

EditMessage(u, m, mentions) ==
  /\ u \in Active /\ m.sender = u
  /\ messages' = (messages \ {m}) \cup {[m EXCEPT !.mentions = mentions]}
  /\ UNCHANGED <<kind, member, level, late, nextSeq, threadSeq, threadRead, cursor,
                 reading, badge>>
  /\ inbox' = inbox \cup Mention(u, mentions \ m.mentions, m.seq, m.root)
  /\ Announce(Readers)

Gone(m) == {m.seq} \cup {d.seq : d \in Replies(m.seq)}

(* Mutant: only the messages are announced, not the counters. *)
DeleteMessageQuietly(u, m) ==
  /\ u \in Active /\ m.sender = u
  /\ messages' = {d \in messages : d.seq \notin Gone(m)}
  /\ threadSeq' = [r \in Seqs |-> IF r \in Gone(m) THEN 0 ELSE threadSeq[r]]
  /\ Cascade(Gone(m))
  /\ UNCHANGED <<kind, member, level, late, nextSeq, cursor, reading, badge, sent, stale>>

(* The replies go with their root. A reply leaves next_thread_seq as it is. *)
DeleteMessage(u, m) ==
  /\ u \in Active /\ m.sender = u
  /\ messages' = {d \in messages : d.seq \notin Gone(m)}
  /\ threadSeq' = [r \in Seqs |-> IF r \in Gone(m) THEN 0 ELSE threadSeq[r]]
  /\ Cascade(Gone(m))
  /\ UNCHANGED <<kind, member, level, late, nextSeq, cursor, reading, badge>>
  /\ Announce(Readers)

(* Mutant: the numbers of the messages start again. *)
ClearDMConversationHistoryFromZero(u) ==
  /\ kind = "dm" /\ u \in Active
  /\ messages' = {}
  /\ nextSeq' = 0
  /\ threadSeq' = [r \in Seqs |-> 0]
  /\ threadRead' = [r \in Seqs |-> [w \in Reader |-> NoRow]]
  /\ inbox' = {}
  /\ UNCHANGED <<kind, member, level, late, cursor, reading, badge>>
  /\ Announce(Readers)

(* The event zeroes the counters of every client that shows the             *)
(* conversation; it travels like a counter. Cursors and next_seq stay.      *)
ClearDMConversationHistory(u) ==
  /\ kind = "dm" /\ u \in Active
  /\ messages' = {}
  /\ threadSeq' = [r \in Seqs |-> 0]
  /\ threadRead' = [r \in Seqs |-> [w \in Reader |-> NoRow]]
  /\ inbox' = {}
  /\ UNCHANGED <<kind, member, level, late, nextSeq, cursor, reading, badge>>
  /\ Announce(Readers)

-----------------------------------------------------------------------------
(* Reading *)

(* UpdateReadCursor up to its commit. The client clears the badge as it     *)
(* asks; to is the seq of a message it was shown.                           *)
UpdateReadCursor(u, to) ==
  LET last == IF to > cursor[u] THEN to ELSE cursor[u] IN
  /\ u \in Readers /\ reading[u] = None
  /\ to <= nextSeq
  /\ reading' = [reading EXCEPT ![u] = [to |-> last, counter |-> Counter(u, last)]]
  /\ badge' = [badge EXCEPT ![u].unread = 0]
  /\ stale' = IF sent[u] = <<>> THEN stale \ {u} ELSE stale \cup {u}
  /\ UNCHANGED <<tables, late, sent>>

(* resolveConversationNotificationsTx takes every notification outside of   *)
(* threads, whatever the cursor.                                            *)
CommitReadCursor(u) ==
  /\ reading[u] # None
  /\ Len(sent[u]) < MaxInFlight
  /\ cursor' = [cursor EXCEPT ![u] = reading[u].to]
  /\ inbox' = {n \in inbox : n.user # u \/ n.root # 0}
  /\ sent' = [sent EXCEPT ![u] = Append(@, reading[u].counter)]
  /\ reading' = [reading EXCEPT ![u] = None]
  /\ UNCHANGED <<kind, member, level, messages, nextSeq, threadSeq, threadRead,
                 late, badge, stale>>

SubscribeThread(u, root) ==
  /\ u \in Readers
  /\ threadRead' = [threadRead EXCEPT ![root.seq][u] =
                      IF @ > threadSeq[root.seq] THEN @ ELSE threadSeq[root.seq]]
  /\ UNCHANGED <<kind, member, level, messages, nextSeq, threadSeq, cursor, inbox,
                 late, reading, badge>>
  /\ Announce({u})

ResolveNotification(n) ==
  /\ n \in inbox
  /\ inbox' = inbox \ {n}
  /\ UNCHANGED <<kind, member, level, messages, nextSeq, threadSeq, threadRead, cursor,
                 late, reading, badge, sent, stale>>

(* No counter is computed for the new level. *)
SetNotificationLevel(u, l) ==
  /\ u \in Readers /\ level[u] # l
  /\ level' = [level EXCEPT ![u] = l]
  /\ stale' = stale \cup {u}
  /\ UNCHANGED <<kind, member, messages, nextSeq, threadSeq, threadRead, cursor, inbox,
                 late, reading, badge, sent>>

(* Mutant: the client adds the counter to the one it shows. *)
DeliverCounterAdding(u, i) ==
  /\ badge' = IF u \in Active
                 THEN [badge EXCEPT ![u] = [unread |-> @.unread + sent[u][i].unread,
                                            thread |-> sent[u][i].thread]]
                 ELSE badge
  /\ sent' = [sent EXCEPT ![u] = SubSeq(@, 1, i - 1) \o SubSeq(@, i + 1, Len(@))]
  /\ UNCHANGED <<tables, late, reading, stale>>

(* applyReadCounterUpdate; a counter for a conversation that is not shown   *)
(* is dropped.                                                              *)
DeliverCounter(u, i) ==
  /\ badge' = IF u \in Active THEN [badge EXCEPT ![u] = sent[u][i]] ELSE badge
  /\ sent' = [sent EXCEPT ![u] = SubSeq(@, 1, i - 1) \o SubSeq(@, i + 1, Len(@))]
  /\ UNCHANGED <<tables, late, reading, stale>>

-----------------------------------------------------------------------------
(* Membership. A client that leaves forgets the counters it showed. *)

(* The member goes; a SendMessage of theirs may be past its check already.  *)
Archive(u) ==
  /\ u \in Active
  /\ member' = [member EXCEPT ![u] = "archived"]
  /\ late' \in {late, late \cup {u}}
  /\ badge' = [w \in Reader |-> IF w = u THEN Nothing ELSE badge[w]]

(* No counter is computed for who joins. *)
JoinPublicChannels(u) ==
  /\ kind = "public" /\ u \notin Active
  /\ member' = [member EXCEPT ![u] = "active"]
  /\ stale' = stale \cup ({u} \cap Reader)
  /\ UNCHANGED <<kind, level, messages, nextSeq, threadSeq, threadRead, cursor, inbox,
                 late, reading, badge, sent>>

(* A direct message with oneself cannot be left. *)
LeaveConversation(u) ==
  /\ kind = "dm" => \E w \in User \ {u} : member[w] # "none"
  /\ Archive(u)
  /\ UNCHANGED <<kind, level, messages, nextSeq, threadSeq, threadRead, cursor, inbox,
                 reading, sent, stale>>

RemoveConversationMember(a, u) ==
  /\ a # u /\ kind # "dm"
  /\ IF kind = "public" THEN a \in Admin ELSE a \in Active
  /\ Archive(u)
  /\ UNCHANGED <<kind, level, threadRead, cursor, inbox, reading>>
  /\ Notice(a)

InviteToChannel(a, u) ==
  /\ a \in Active /\ u \notin Active
  /\ kind # "dm"
  /\ member' = [member EXCEPT ![u] = "active"]
  /\ UNCHANGED <<kind, level, threadRead, cursor, inbox, late, reading, badge>>
  /\ Notice(a)

(* findAndRestoreExistingDirectMessage *)
ReopenDirectMessage(u) ==
  /\ kind = "dm" /\ member[u] # "none"
  /\ \E w \in User : member[w] = "archived"
  /\ member' = [w \in User |-> IF member[w] = "archived" THEN "active" ELSE member[w]]
  /\ stale' = stale \cup {w \in Reader : member[w] = "archived"}
  /\ UNCHANGED <<kind, level, messages, nextSeq, threadSeq, threadRead, cursor, inbox,
                 late, reading, badge, sent>>

Next ==
  \/ \E u \in User :
       \/ \E root \in 0..MaxSeq, mentions \in SUBSET Reader : SendMessage(u, root, mentions)
       \/ \E m \in messages, mentions \in SUBSET Reader : EditMessage(u, m, mentions)
       \/ \E m \in messages : DeleteMessage(u, m)
       \/ ClearDMConversationHistory(u)
       \/ JoinPublicChannels(u)
       \/ LeaveConversation(u)
       \/ \E a \in User : RemoveConversationMember(a, u) \/ InviteToChannel(a, u)
       \/ ReopenDirectMessage(u)
  \/ \E u \in Reader :
       \/ \E to \in Seqs : UpdateReadCursor(u, to)
       \/ CommitReadCursor(u)
       \/ \E root \in Roots : SubscribeThread(u, root)
       \/ \E l \in Levels : SetNotificationLevel(u, l)
       \/ \E i \in 1..Len(sent[u]) : DeliverCounter(u, i)
  \/ \E n \in inbox : ResolveNotification(n)

Spec == Init /\ [][Next]_vars

-----------------------------------------------------------------------------
(* Properties *)

(* A message nobody could have seen is unread for everybody: whatever was   *)
(* read, deleted or cleared before, a new message is above every read       *)
(* cursor, and a new reply above what every reader of its thread has read.  *)
(* (next_seq and next_thread_seq never go back; rebuildThreadSummary keeps  *)
(* the high-watermark when the last reply is deleted.)                      *)
NewIsUnread ==
  [][\A m \in messages', u \in Reader :
       (\A d \in messages : d.seq # m.seq)
         => /\ cursor'[u] < m.seq
            /\ m.root # 0 => ThreadReadSeq(u, m.root)' < m.tseq]_vars

(* The unread badge is that of the database once every counter has arrived, *)
(* unless two of its counters were under way together, or the last change   *)
(* was one the server tells nobody about (joining, reopening, a new         *)
(* notification level). (Every transaction that changes what a member has   *)
(* unread computes the counters of every member it concerns.)               *)
BadgeIsCurrent ==
  \A u \in Readers \ stale : ~Busy(u) => badge[u] = Counter(u, cursor[u])
=============================================================================
