------------------------------ MODULE ChatProofs ------------------------------
(***************************************************************************)
(* Conversations for every set of users and every bound: the types, what a *)
(* read may cover, and the counters a client shows.                        *)
(***************************************************************************)
EXTENDS Chat, FiniteSetTheorems, TLAPS

USE ChatAssumption DEF ChatAssumption

(* The tables, and what is on its way to the clients. *)
Stored ==
  /\ kind \in Kinds
  /\ member \in [User -> {"none", "active", "archived"}]
  /\ level \in [Reader -> Levels]
  /\ late \subseteq User
  /\ messages \subseteq Message
  /\ nextSeq \in 0..MaxSeq
  /\ threadSeq \in [Seqs -> 0..MaxSeq]
  /\ threadRead \in [Seqs -> [Reader -> NoRow..MaxSeq]]
  /\ cursor \in [Reader -> 0..MaxSeq]
  /\ inbox \subseteq Notification

Shown ==
  /\ reading \in [Reader -> {None} \cup [to : 0..MaxSeq, counter : Counters]]
  /\ badge \in [Reader -> Counters]
  /\ sent \in [Reader -> Seq(Counters)]
  /\ \A u \in Reader : Len(sent[u]) <= MaxInFlight
  /\ stale \subseteq Reader

LEMMA TypesAreBoth == TypeOK <=> Stored /\ Shown
  BY DEF TypeOK, Stored, Shown

(* No number is above the one it counts up to, and messages have their own. *)
Numbers ==
  /\ \A u \in Reader : /\ cursor[u] <= nextSeq
                       /\ reading[u] # None => reading[u].to \in 0..nextSeq
  /\ \A r \in Seqs : /\ threadSeq[r] <= nextSeq
                     /\ \A u \in Reader : threadRead[r][u] <= threadSeq[r]
  /\ \A m \in messages : m.seq <= nextSeq
  /\ \A m, n \in messages : m.seq = n.seq => m = n

LEMMA InitIsTyped == Init => Stored /\ Shown /\ Numbers
<1>1. Init => Stored
  BY DEF Init, Stored, Seqs, NoRow, Notification, Message
<1>2. Init => Shown
  <2>1. Nothing \in Counters
    BY DEF Nothing, Counters
  <2>2. <<>> \in Seq(Counters) /\ Len(<<>>) = 0
    OBVIOUS
  <2>3. QED
    BY <2>1, <2>2 DEF Init, Shown
<1>3. Init => Numbers
  BY DEF Init, Numbers, Seqs, NoRow
<1>4. QED
  BY <1>1, <1>2, <1>3

-----------------------------------------------------------------------------
(* Counting *)

LEMMA MessagesAreFew ==
  ASSUME NEW M \in SUBSET Message, \A m, n \in M : m.seq = n.seq => m = n
  PROVE  IsFiniteSet(M) /\ Cardinality(M) \in 0..MaxSeq
<1> DEFINE f == [m \in M |-> m.seq]
<1>1. f \in Injection(M, 1..MaxSeq)
  <2>1. \A m \in M : m.seq \in 1..MaxSeq
    BY DEF Message, Seqs
  <2>2. f \in [M -> 1..MaxSeq]
    BY <2>1
  <2>3. \A m, n \in M : f[m] = f[n] => m = n
    OBVIOUS
  <2>4. QED
    BY <2>2, <2>3 DEF Injection, IsInjective
<1>2. IsFiniteSet(1..MaxSeq) /\ Cardinality(1..MaxSeq) = MaxSeq
  BY FS_Interval
<1>3. IsFiniteSet(M) /\ Cardinality(M) <= MaxSeq
  <2> HIDE DEF f
  <2>1. QED
    BY <1>1, <1>2, FS_Injection
<1>4. QED
  BY <1>3, FS_CardinalityType

LEMMA SomeMessagesAreFew ==
  ASSUME NEW M \in SUBSET Message, \A m, n \in M : m.seq = n.seq => m = n,
         NEW S \in SUBSET M
  PROVE  Cardinality(S) \in 0..MaxSeq
<1>1. S \in SUBSET Message /\ \A m, n \in S : m.seq = n.seq => m = n
  OBVIOUS
<1>2. QED
  BY <1>1, MessagesAreFew

(* A counter counts messages, before a step and after it. *)
LEMMA CounterTypes ==
  ASSUME Stored, Numbers, NEW u \in Reader, NEW last \in 0..MaxSeq
  PROVE  Counter(u, last) \in Counters
<1>1. UnreadMessages(u, last) \in SUBSET messages
  BY DEF UnreadMessages
<1>2. Cardinality(UnreadMessages(u, last)) \in 0..MaxSeq
  BY <1>1, SomeMessagesAreFew DEF Stored, Numbers
<1>3. UnreadThread(u) \in BOOLEAN
  BY DEF UnreadThread
<1>4. QED
  BY <1>2, <1>3 DEF Counter, Counters, Nothing

LEMMA CounterTypesNext ==
  ASSUME Stored', Numbers', NEW u \in Reader
  PROVE  Counter(u, cursor[u])' \in Counters
<1>1. UnreadMessages(u, cursor[u])' \in SUBSET messages'
  BY DEF UnreadMessages
<1>2. Cardinality(UnreadMessages(u, cursor[u])') \in 0..MaxSeq
  BY <1>1, SomeMessagesAreFew DEF Stored, Numbers
<1>3. UnreadThread(u)' \in BOOLEAN
  BY DEF UnreadThread
<1>4. QED
  BY <1>2, <1>3 DEF Counter, Counters, Nothing

-----------------------------------------------------------------------------
(* The tables stay typed and their numbers in order *)

LEMMA WriteKeeps ==
  ASSUME Stored, Numbers, NEW u \in User, NEW root \in 0..MaxSeq, NEW mentions \in SUBSET Reader,
         root = 0 \/ \E m \in Roots : m.seq = root,
         Write(u, root, mentions)
  PROVE  /\ nextSeq' \in 0..MaxSeq /\ nextSeq < nextSeq'
         /\ messages' \subseteq Message
         /\ threadSeq' \in [Seqs -> 0..MaxSeq]
         /\ \A r \in Seqs : threadSeq[r] <= threadSeq'[r] /\ threadSeq'[r] <= nextSeq'
         /\ \A m \in messages' : m.seq <= nextSeq'
         /\ \A m, n \in messages' : m.seq = n.seq => m = n
<1> DEFINE new == [seq |-> nextSeq + 1, sender |-> u, root |-> root, mentions |-> mentions,
                   tseq |-> IF root = 0 THEN 0 ELSE threadSeq[root] + 1]
<1>1. nextSeq \in 0..MaxSeq /\ nextSeq < MaxSeq /\ nextSeq' = nextSeq + 1
  BY DEF Write, Stored
<1>2. root # 0 => root \in Seqs
  BY DEF Stored, Roots, Message
<1>3. threadSeq \in [Seqs -> 0..MaxSeq] /\ \A r \in Seqs : threadSeq[r] <= nextSeq
  BY DEF Stored, Numbers
<1>4. threadSeq' = IF root = 0 THEN threadSeq ELSE [threadSeq EXCEPT ![root] = @ + 1]
  BY DEF Write
<1>5. /\ threadSeq' \in [Seqs -> 0..MaxSeq]
      /\ \A r \in Seqs : threadSeq[r] <= threadSeq'[r] /\ threadSeq'[r] <= nextSeq'
  BY <1>1, <1>2, <1>3, <1>4
<1>6. messages' = messages \cup {new}
  BY DEF Write
<1>7. new \in Message /\ new.seq = nextSeq'
  <2>1. (IF root = 0 THEN 0 ELSE threadSeq[root] + 1) \in 0..MaxSeq
    BY <1>1, <1>2, <1>3
  <2>2. QED
    BY <1>1, <2>1 DEF Message, Seqs
<1> HIDE DEF new
<1>8. /\ messages \subseteq Message
      /\ \A m \in messages : m.seq \in Int /\ m.seq <= nextSeq
      /\ \A m, n \in messages : m.seq = n.seq => m = n
  BY DEF Stored, Numbers, Message, Seqs
<1>9. QED
  BY <1>1, <1>5, <1>6, <1>7, <1>8

(* A read is of messages that are there, and the numbers only grow. *)
LEMMA WritingStep ==
  ASSUME Stored, Numbers, NEW u \in User, NEW root \in 0..MaxSeq, NEW mentions \in SUBSET Reader,
         root = 0 \/ \E m \in Roots : m.seq = root,
         Write(u, root, mentions),
         member' \in [User -> {"none", "active", "archived"}], late' \subseteq User,
         inbox' \subseteq Notification,
         UNCHANGED <<kind, level, threadRead, cursor, reading>>
  PROVE  Stored' /\ Numbers'
<1>1. /\ nextSeq' \in 0..MaxSeq /\ nextSeq < nextSeq'
      /\ messages' \subseteq Message
      /\ threadSeq' \in [Seqs -> 0..MaxSeq]
      /\ \A r \in Seqs : threadSeq[r] <= threadSeq'[r] /\ threadSeq'[r] <= nextSeq'
      /\ \A m \in messages' : m.seq <= nextSeq'
      /\ \A m, n \in messages' : m.seq = n.seq => m = n
  BY WriteKeeps
<1>2. Stored'
  BY <1>1 DEF Stored
<1>3. /\ nextSeq \in Int /\ cursor \in [Reader -> 0..MaxSeq]
      /\ threadSeq \in [Seqs -> 0..MaxSeq] /\ threadRead \in [Seqs -> [Reader -> NoRow..MaxSeq]]
  BY DEF Stored
<1>4. \A w \in Reader : /\ cursor'[w] <= nextSeq'
                        /\ reading'[w] # None => reading'[w].to \in 0..nextSeq'
  BY <1>1, <1>3 DEF Numbers
<1>5. \A r \in Seqs, w \in Reader : threadRead'[r][w] <= threadSeq'[r]
  BY <1>1, <1>3 DEF Numbers, NoRow
<1>6. QED
  BY <1>1, <1>2, <1>4, <1>5 DEF Numbers

(* The last of the numbers are those of what is gone. *)
LEMMA RemovingStep ==
  ASSUME Stored, Numbers, NEW gone \in SUBSET Seqs,
         messages' \subseteq messages,
         threadSeq' = [r \in Seqs |-> IF r \in gone THEN 0 ELSE threadSeq[r]],
         Cascade(gone),
         UNCHANGED <<kind, member, level, late, nextSeq, cursor, reading>>
  PROVE  Stored' /\ Numbers'
<1>1. \A n \in inbox : [n EXCEPT !.msg = IF @ \in gone THEN 0 ELSE @,
                               !.root = IF @ \in gone THEN 0 ELSE @] \in Notification
  <2>1. SUFFICES ASSUME NEW n \in Notification
                 PROVE  [n EXCEPT !.msg = IF @ \in gone THEN 0 ELSE @,
                                  !.root = IF @ \in gone THEN 0 ELSE @] \in Notification
    BY <2>1 DEF Stored
  <2>2. /\ (IF n.msg \in gone THEN 0 ELSE n.msg) \in 0..MaxSeq
        /\ (IF n.root \in gone THEN 0 ELSE n.root) \in 0..MaxSeq
    BY DEF Notification
  <2>3. QED
    BY <2>2 DEF Notification
<1>2. inbox' \subseteq Notification
  BY <1>1 DEF Cascade
<1>3. threadRead' = [r \in Seqs |-> IF r \in gone THEN [u \in Reader |-> NoRow] ELSE threadRead[r]]
  BY DEF Cascade
<1>4. /\ threadSeq' \in [Seqs -> 0..MaxSeq]
      /\ threadRead' \in [Seqs -> [Reader -> NoRow..MaxSeq]]
  BY <1>3 DEF Stored, NoRow
<1>5. Stored'
  BY <1>2, <1>4 DEF Stored
<1>6. \A r \in Seqs, u \in Reader : /\ threadRead'[r][u] <= threadSeq'[r]
                                   /\ threadSeq'[r] <= nextSeq'
  <2>1. SUFFICES ASSUME NEW r \in Seqs, NEW u \in Reader
                 PROVE  threadRead'[r][u] <= threadSeq'[r] /\ threadSeq'[r] <= nextSeq'
    OBVIOUS
  <2>2. nextSeq' = nextSeq /\ nextSeq \in 0..MaxSeq
    BY DEF Stored
  <2>3. CASE r \in gone
    BY <1>3, <2>2, <2>3 DEF NoRow
  <2>4. CASE r \notin gone
    BY <1>3, <2>2, <2>4 DEF Numbers
  <2>5. QED
    BY <2>3, <2>4
<1>7. \A u \in Reader : /\ cursor'[u] <= nextSeq'
                        /\ reading'[u] # None => reading'[u].to \in 0..nextSeq'
  BY DEF Numbers
<1>8. /\ \A m \in messages' : m.seq <= nextSeq'
      /\ \A m, n \in messages' : m.seq = n.seq => m = n
  BY DEF Numbers
<1>9. \A r \in Seqs : threadSeq'[r] <= nextSeq'
  BY DEF Stored, Numbers
<1>10. QED
  BY <1>5, <1>6, <1>7, <1>8, <1>9 DEF Numbers

LEMMA MessageSteps ==
  ASSUME Stored, Numbers, NEW u \in User, NEW mentions \in SUBSET Reader,
         \/ \E root \in 0..MaxSeq : SendMessage(u, root, mentions)
         \/ \E m \in messages : EditMessage(u, m, mentions) \/ DeleteMessage(u, m)
         \/ ClearDMConversationHistory(u)
  PROVE  Stored' /\ Numbers'
<1>1. ASSUME NEW root \in 0..MaxSeq, SendMessage(u, root, mentions)
      PROVE  Stored' /\ Numbers'
  <2>1. /\ Write(u, root, mentions)
        /\ root = 0 \/ \E m \in Roots : m.seq = root
        /\ UNCHANGED <<kind, level, threadRead, cursor, reading>>
    BY <1>1 DEF SendMessage
  <2>2. member' \in [User -> {"none", "active", "archived"}] /\ late' \subseteq User
    BY <1>1 DEF SendMessage, Stored
  <2>3. nextSeq' \in 0..MaxSeq
    BY <2>1, WriteKeeps
  <2>4. inbox' \subseteq inbox \cup Mention(u, mentions, nextSeq', root)
                              \cup ThreadReply(u, nextSeq', root)
    BY <1>1 DEF SendMessage
  <2>5. /\ Mention(u, mentions, nextSeq', root) \subseteq Notification
        /\ ThreadReply(u, nextSeq', root) \subseteq Notification
    BY <2>3 DEF Mention, ThreadReply, Notification, Readers
  <2>6. inbox' \subseteq Notification
    BY <2>4, <2>5 DEF Stored
  <2>7. QED
    BY <2>1, <2>2, <2>6, WritingStep
<1>2. ASSUME NEW m \in messages, EditMessage(u, m, mentions)
      PROVE  Stored' /\ Numbers'
  <2> DEFINE edited == [m EXCEPT !.mentions = mentions]
  <2>1. edited \in Message /\ edited.seq = m.seq
    BY DEF Stored, Message
  <2>2. messages' = (messages \ {m}) \cup {edited}
    BY <1>2 DEF EditMessage
  <2>3. Mention(u, mentions \ m.mentions, m.seq, m.root) \subseteq Notification
    BY DEF Mention, Notification, Readers, Stored, Message, Seqs
  <2>4. /\ inbox' = inbox \cup Mention(u, mentions \ m.mentions, m.seq, m.root)
        /\ UNCHANGED <<kind, member, level, late, nextSeq, threadSeq, threadRead, cursor, reading>>
    BY <1>2 DEF EditMessage
  <2> HIDE DEF edited
  <2>5. Stored'
    BY <2>1, <2>2, <2>3, <2>4 DEF Stored
  <2>6. /\ \A n \in messages' : n.seq <= nextSeq'
        /\ \A n, o \in messages' : n.seq = o.seq => n = o
    BY <2>1, <2>2, <2>4 DEF Numbers
  <2>7. QED
    BY <2>4, <2>5, <2>6 DEF Numbers
<1>3. ASSUME NEW m \in messages, DeleteMessage(u, m)
      PROVE  Stored' /\ Numbers'
  <2>1. Gone(m) \in SUBSET Seqs
    BY DEF Gone, Replies, Stored, Message
  <2>2. QED
    BY <1>3, <2>1, RemovingStep DEF DeleteMessage
<1>4. CASE ClearDMConversationHistory(u)
  BY <1>4 DEF ClearDMConversationHistory, Stored, Numbers, NoRow, Seqs
<1>5. QED
  BY <1>1, <1>2, <1>3, <1>4

LEMMA ReadingSteps ==
  ASSUME Stored, Numbers, NEW u \in Reader,
         \/ \E to \in Seqs : UpdateReadCursor(u, to)
         \/ CommitReadCursor(u)
         \/ \E root \in Roots : SubscribeThread(u, root)
         \/ \E l \in Levels : SetNotificationLevel(u, l)
         \/ \E i \in 1..Len(sent[u]) : DeliverCounter(u, i)
         \/ \E n \in inbox : ResolveNotification(n)
  PROVE  Stored' /\ Numbers'
<1>1. ASSUME NEW to \in Seqs, UpdateReadCursor(u, to)
      PROVE  Stored' /\ Numbers'
  <2>1. \A w \in Reader : reading'[w] # None => reading'[w].to \in 0..nextSeq
    BY <1>1 DEF UpdateReadCursor, Stored, Numbers, Seqs
  <2>2. UNCHANGED <<tables, late>>
    BY <1>1 DEF UpdateReadCursor
  <2>3. QED
    BY <2>1, <2>2 DEF tables, Stored, Numbers
<1>2. CASE CommitReadCursor(u)
  <2>1. \A w \in Reader : /\ cursor'[w] \in 0..nextSeq
                          /\ reading'[w] # None => reading'[w].to \in 0..nextSeq
    BY <1>2 DEF CommitReadCursor, Stored, Numbers
  <2>2. cursor' \in [Reader -> 0..MaxSeq]
    BY <1>2 DEF CommitReadCursor, Stored, Numbers
  <2>3. UNCHANGED <<kind, member, level, messages, nextSeq, threadSeq, threadRead, late>>
        /\ inbox' \subseteq inbox
    BY <1>2 DEF CommitReadCursor
  <2>4. Stored'
    BY <2>2, <2>3 DEF Stored
  <2>5. QED
    BY <2>1, <2>3, <2>4 DEF Numbers, Stored
<1>3. ASSUME NEW root \in Roots, SubscribeThread(u, root)
      PROVE  Stored' /\ Numbers'
  <2>1. root.seq \in Seqs
    BY DEF Stored, Roots, Message
  <2>2. threadRead' = [threadRead EXCEPT ![root.seq][u] =
                         IF @ > threadSeq[root.seq] THEN @ ELSE threadSeq[root.seq]]
    BY <1>3 DEF SubscribeThread
  <2>3. \A r \in Seqs : /\ threadRead'[r] \in [Reader -> NoRow..MaxSeq]
                        /\ \A w \in Reader : threadRead'[r][w] <= threadSeq[r]
    BY <2>1, <2>2 DEF Stored, Numbers, NoRow
  <2>4. threadRead' \in [Seqs -> [Reader -> NoRow..MaxSeq]]
    BY <2>2, <2>3 DEF Stored
  <2>5. UNCHANGED <<kind, member, level, messages, nextSeq, threadSeq, cursor, inbox, late, reading>>
    BY <1>3 DEF SubscribeThread
  <2>6. QED
    BY <2>3, <2>4, <2>5 DEF Stored, Numbers
<1>4. ASSUME NEW l \in Levels, SetNotificationLevel(u, l)
      PROVE  Stored' /\ Numbers'
  BY <1>4 DEF SetNotificationLevel, Stored, Numbers
<1>5. ASSUME NEW i \in 1..Len(sent[u]), DeliverCounter(u, i)
      PROVE  Stored' /\ Numbers'
  BY <1>5 DEF DeliverCounter, tables, Stored, Numbers
<1>6. ASSUME NEW n \in inbox, ResolveNotification(n)
      PROVE  Stored' /\ Numbers'
  BY <1>6 DEF ResolveNotification, Stored, Numbers
<1>7. QED
  BY <1>1, <1>2, <1>3, <1>4, <1>5, <1>6

LEMMA MemberSteps ==
  ASSUME Stored, Numbers, NEW u \in User, NEW a \in User,
         \/ JoinPublicChannels(u)
         \/ LeaveConversation(u)
         \/ RemoveConversationMember(a, u)
         \/ InviteToChannel(a, u)
         \/ ReopenDirectMessage(u)
  PROVE  Stored' /\ Numbers'
<1>1. CASE JoinPublicChannels(u)
  BY <1>1 DEF JoinPublicChannels, Stored, Numbers
<1>2. CASE LeaveConversation(u)
  BY <1>2 DEF LeaveConversation, Archive, Active, Stored, Numbers
<1>3. CASE RemoveConversationMember(a, u)
  <2>1. /\ member' \in [User -> {"none", "active", "archived"}] /\ late' \subseteq User
        /\ Write(a, 0, {}) /\ inbox' \subseteq Notification
        /\ UNCHANGED <<kind, level, threadRead, cursor, reading>>
    BY <1>3 DEF RemoveConversationMember, Archive, Active, Notice, Stored
  <2>2. QED
    BY <2>1, WritingStep
<1>4. CASE InviteToChannel(a, u)
  <2>1. /\ member' \in [User -> {"none", "active", "archived"}] /\ late' \subseteq User
        /\ Write(a, 0, {}) /\ inbox' \subseteq Notification
        /\ UNCHANGED <<kind, level, threadRead, cursor, reading>>
    BY <1>4 DEF InviteToChannel, Active, Notice, Stored
  <2>2. QED
    BY <2>1, WritingStep
<1>5. CASE ReopenDirectMessage(u)
  BY <1>5 DEF ReopenDirectMessage, Stored, Numbers
<1>6. QED
  BY <1>1, <1>2, <1>3, <1>4, <1>5

LEMMA StepKeepsNumbers ==
  ASSUME Stored, Numbers, [Next]_vars
  PROVE  Stored' /\ Numbers'
<1>1. CASE Next
  BY <1>1, MessageSteps, ReadingSteps, MemberSteps DEF Next, Stored, Notification
<1>2. CASE UNCHANGED vars
  BY <1>2 DEF vars, tables, Stored, Numbers
<1>3. QED
  BY <1>1, <1>2

-----------------------------------------------------------------------------
(* What is new is unread *)

New(m) == m \in messages' /\ \A d \in messages : d.seq # m.seq

LEMMA WrittenIsUnread ==
  ASSUME Stored, Numbers, NEW u \in User, NEW root \in 0..MaxSeq, NEW mentions \in SUBSET Reader,
         root = 0 \/ \E r \in Roots : r.seq = root,
         Write(u, root, mentions), UNCHANGED <<cursor, threadRead>>,
         NEW m, New(m), NEW w \in Reader
  PROVE  cursor'[w] < m.seq /\ (m.root # 0 => ThreadReadSeq(w, m.root)' < m.tseq)
<1>1. m = [seq |-> nextSeq + 1, sender |-> u, root |-> root, mentions |-> mentions,
           tseq |-> IF root = 0 THEN 0 ELSE threadSeq[root] + 1]
  BY DEF Write, New
<1>2. cursor'[w] < m.seq
  BY <1>1 DEF Stored, Numbers
<1>3. ASSUME root # 0 PROVE ThreadReadSeq(w, root)' < m.tseq
  <2>1. root \in Seqs
    BY <1>3 DEF Stored, Roots, Message
  <2>2. threadRead'[root][w] \in NoRow..threadSeq[root] /\ threadSeq[root] \in Nat
    BY <2>1 DEF Stored, Numbers, NoRow
  <2>3. QED
    BY <1>1, <1>3, <2>2 DEF ThreadReadSeq, NoRow
<1>4. QED
  BY <1>1, <1>2, <1>3

LEMMA StepIsUnread ==
  ASSUME Stored, Numbers, Next, NEW m, New(m), NEW w \in Reader
  PROVE  cursor'[w] < m.seq /\ (m.root # 0 => ThreadReadSeq(w, m.root)' < m.tseq)
<1>1. ASSUME NEW u \in User, NEW root \in 0..MaxSeq, NEW mentions \in SUBSET Reader,
             SendMessage(u, root, mentions)
      PROVE  cursor'[w] < m.seq /\ (m.root # 0 => ThreadReadSeq(w, m.root)' < m.tseq)
  <2>1. /\ Write(u, root, mentions) /\ UNCHANGED <<cursor, threadRead>>
        /\ root = 0 \/ \E r \in Roots : r.seq = root
    BY <1>1 DEF SendMessage
  <2>2. QED
    BY <2>1, WrittenIsUnread
<1>2. ASSUME NEW u \in User, NEW a \in User,
             RemoveConversationMember(a, u) \/ InviteToChannel(a, u)
      PROVE  cursor'[w] < m.seq /\ (m.root # 0 => ThreadReadSeq(w, m.root)' < m.tseq)
  <2>1. Write(a, 0, {}) /\ UNCHANGED <<cursor, threadRead>>
    BY <1>2 DEF RemoveConversationMember, InviteToChannel, Notice
  <2>2. QED
    BY <2>1, WrittenIsUnread
<1>3. ASSUME NEW u \in User, NEW d \in messages, NEW mentions \in SUBSET Reader,
             EditMessage(u, d, mentions)
      PROVE  FALSE
  <2>1. [d EXCEPT !.mentions = mentions].seq = d.seq
    BY DEF Stored, Message
  <2>2. QED
    BY <1>3, <2>1 DEF EditMessage, New
<1>4. ASSUME messages' \subseteq messages
      PROVE  FALSE
  BY <1>4 DEF New
<1>5. QED
  BY <1>1, <1>2, <1>3, <1>4
     DEF Next, DeleteMessage, ClearDMConversationHistory, JoinPublicChannels, LeaveConversation,
         ReopenDirectMessage, UpdateReadCursor, CommitReadCursor, SubscribeThread,
         SetNotificationLevel, DeliverCounter, ResolveNotification, tables

(* A message nobody could have seen is unread for everybody (SendMessage and *)
(* the membership notices, whatever was read, deleted or cleared before).   *)
THEOREM NewMessagesAreUnread == Spec => NewIsUnread
<1>1. Stored /\ Numbers /\ [Next]_vars
        => [\A m \in messages', u \in Reader :
              (\A d \in messages : d.seq # m.seq)
                => /\ cursor'[u] < m.seq
                   /\ m.root # 0 => ThreadReadSeq(u, m.root)' < m.tseq]_vars
  BY StepIsUnread DEF New
<1>2. Stored /\ Numbers /\ [Next]_vars => (Stored /\ Numbers)'
  BY StepKeepsNumbers
<1>3. QED
  BY <1>1, <1>2, InitIsTyped, PTL DEF Spec, NewIsUnread

-----------------------------------------------------------------------------
(* The counters on their way stay typed *)

LEMMA AnnounceTypes ==
  ASSUME Shown, Stored', Numbers', NEW users \in SUBSET Reader, Announce(users),
         reading' = reading, badge' \in [Reader -> Counters]
  PROVE  Shown'
<1>1. sent' = [u \in Reader |-> IF u \in users THEN Append(sent[u], Counter(u, cursor[u])')
                                             ELSE sent[u]]
  BY DEF Announce
<1>2. \A u \in users : Len(sent[u]) < MaxInFlight
  BY DEF Announce
<1>3. ASSUME NEW u \in Reader
      PROVE  sent'[u] \in Seq(Counters) /\ Len(sent'[u]) <= MaxInFlight
  <2>1. Counter(u, cursor[u])' \in Counters
    BY CounterTypesNext
  <2>2. sent[u] \in Seq(Counters) /\ Len(sent[u]) <= MaxInFlight
    BY DEF Shown
  <2>3. sent'[u] = IF u \in users THEN Append(sent[u], Counter(u, cursor[u])') ELSE sent[u]
    BY <1>1
  <2> DEFINE c == Counter(u, cursor[u])'
  <2>4. Append(sent[u], c) \in Seq(Counters) /\ Len(Append(sent[u], c)) = Len(sent[u]) + 1
    <3> HIDE DEF c
    <3>1. c \in Counters
      BY <2>1 DEF c
    <3>2. QED
      BY <2>2, <3>1
  <2> HIDE DEF c
  <2>5. sent'[u] = IF u \in users THEN Append(sent[u], c) ELSE sent[u]
    BY <2>3 DEF c
  <2>6. Len(sent[u]) \in Nat
    BY <2>2
  <2>7. QED
    BY <1>2, <2>2, <2>4, <2>5, <2>6
<1>4. sent' \in [Reader -> Seq(Counters)] /\ \A u \in Reader : Len(sent'[u]) <= MaxInFlight
  BY <1>1, <1>3
<1>5. stale' \subseteq Reader
  BY DEF Announce, Shown
<1>6. QED
  BY <1>4, <1>5 DEF Shown

LEMMA StepKeepsShown ==
  ASSUME Stored, Numbers, Shown, Stored', Numbers', Next
  PROVE  Shown'
<1>0. Nothing \in Counters
  BY DEF Nothing, Counters
<1>1. Readers \subseteq Reader /\ Readers' \subseteq Reader
  BY DEF Readers
<1>2. ASSUME NEW u \in User, NEW root \in 0..MaxSeq, NEW mentions \in SUBSET Reader,
             SendMessage(u, root, mentions)
      PROVE  Shown'
  BY <1>1, <1>2, AnnounceTypes DEF SendMessage, Shown
<1>3. ASSUME NEW u \in User, NEW m \in messages, NEW mentions \in SUBSET Reader,
             EditMessage(u, m, mentions) \/ DeleteMessage(u, m)
      PROVE  Shown'
  BY <1>1, <1>3, AnnounceTypes DEF EditMessage, DeleteMessage, Shown
<1>4. ASSUME NEW u \in User, ClearDMConversationHistory(u)
      PROVE  Shown'
  BY <1>1, <1>4, AnnounceTypes DEF ClearDMConversationHistory, Shown
<1>5. ASSUME NEW u \in User, NEW a \in User, RemoveConversationMember(a, u)
      PROVE  Shown'
  <2>1. badge' \in [Reader -> Counters]
    BY <1>0, <1>5 DEF RemoveConversationMember, Archive, Shown
  <2>2. Announce(Readers') /\ reading' = reading
    BY <1>5 DEF RemoveConversationMember, Notice
  <2>3. QED
    BY <1>1, <2>1, <2>2, AnnounceTypes
<1>6. ASSUME NEW u \in User, NEW a \in User, InviteToChannel(a, u)
      PROVE  Shown'
  BY <1>1, <1>6, AnnounceTypes DEF InviteToChannel, Notice, Shown
<1>7. ASSUME NEW u \in User, JoinPublicChannels(u) \/ ReopenDirectMessage(u)
      PROVE  Shown'
  BY <1>7 DEF JoinPublicChannels, ReopenDirectMessage, Shown
<1>8. ASSUME NEW u \in User, LeaveConversation(u)
      PROVE  Shown'
  BY <1>0, <1>8 DEF LeaveConversation, Archive, Shown
<1>9. ASSUME NEW u \in Reader, NEW to \in Seqs, UpdateReadCursor(u, to)
      PROVE  Shown'
  <2> DEFINE last == IF to > cursor[u] THEN to ELSE cursor[u]
             new  == [to |-> last, counter |-> Counter(u, last)]
  <2>1. last \in 0..MaxSeq
    BY DEF Stored, Seqs
  <2>2. Counter(u, last) \in Counters
    <3> HIDE DEF last
    <3>1. QED
      BY <2>1, CounterTypes
  <2>3. reading' = [reading EXCEPT ![u] = new]
    BY <1>9 DEF UpdateReadCursor
  <2>4. badge' = [badge EXCEPT ![u].unread = 0] /\ sent' = sent /\ stale' \subseteq Reader
    BY <1>9 DEF UpdateReadCursor, Shown
  <2>5. badge' \in [Reader -> Counters]
    <3>1. badge[u] \in Counters
      BY DEF Shown
    <3>2. [badge[u] EXCEPT !.unread = 0] \in Counters
      BY <3>1 DEF Counters
    <3>3. badge' = [badge EXCEPT ![u] = [badge[u] EXCEPT !.unread = 0]]
      BY <2>4
    <3>4. QED
      BY <3>2, <3>3 DEF Shown
  <2>6. new \in [to : 0..MaxSeq, counter : Counters]
    <3> HIDE DEF last
    <3>1. QED
      BY <2>1, <2>2
  <2> HIDE DEF new
  <2>7. QED
    BY <2>3, <2>4, <2>5, <2>6 DEF Shown
<1>10. ASSUME NEW u \in Reader, CommitReadCursor(u)
       PROVE  Shown'
  <2>1. reading[u].counter \in Counters
    BY <1>10 DEF CommitReadCursor, Shown
  <2>2. sent' = [sent EXCEPT ![u] = Append(@, reading[u].counter)] /\ Len(sent[u]) < MaxInFlight
    BY <1>10 DEF CommitReadCursor
  <2>3. /\ sent' \in [Reader -> Seq(Counters)]
        /\ \A w \in Reader : Len(sent'[w]) <= MaxInFlight
    BY <2>1, <2>2 DEF Shown
  <2>4. reading' = [reading EXCEPT ![u] = None] /\ badge' = badge /\ stale' = stale
    BY <1>10 DEF CommitReadCursor
  <2>5. QED
    BY <2>3, <2>4 DEF Shown
<1>11. ASSUME NEW u \in Reader, NEW root \in Roots, SubscribeThread(u, root)
       PROVE  Shown'
  BY <1>11, AnnounceTypes DEF SubscribeThread, Shown
<1>12. ASSUME NEW u \in Reader, NEW i \in 1..Len(sent[u]), DeliverCounter(u, i)
       PROVE  Shown'
  <2>1. sent[u] \in Seq(Counters) /\ Len(sent[u]) \in Nat /\ sent[u][i] \in Counters
    BY DEF Shown
  <2> DEFINE before == SubSeq(sent[u], 1, i - 1)
             after  == SubSeq(sent[u], i + 1, Len(sent[u]))
  <2>2. /\ before \in Seq(Counters) /\ Len(before) = i - 1
        /\ after \in Seq(Counters) /\ Len(after) = Len(sent[u]) - i
    BY <2>1
  <2>3. sent' = [sent EXCEPT ![u] = before \o after]
    BY <1>12 DEF DeliverCounter
  <2> HIDE DEF before, after
  <2>4. before \o after \in Seq(Counters) /\ Len(before \o after) < Len(sent[u])
    BY <2>1, <2>2
  <2>5. /\ sent' \in [Reader -> Seq(Counters)]
        /\ \A w \in Reader : Len(sent'[w]) <= MaxInFlight
    BY <2>1, <2>3, <2>4 DEF Shown
  <2>6. badge' \in [Reader -> Counters] /\ reading' = reading /\ stale' = stale
    BY <1>12, <2>1 DEF DeliverCounter, Shown
  <2>7. QED
    BY <2>5, <2>6 DEF Shown
<1>13. ASSUME NEW u \in Reader, NEW l \in Levels, SetNotificationLevel(u, l)
       PROVE  Shown'
  BY <1>13 DEF SetNotificationLevel, Shown
<1>14. ASSUME NEW n \in inbox, ResolveNotification(n)
       PROVE  Shown'
  BY <1>14 DEF ResolveNotification, Shown
<1>15. QED
  BY <1>2, <1>3, <1>4, <1>5, <1>6, <1>7, <1>8, <1>9, <1>10, <1>11, <1>12, <1>13, <1>14 DEF Next

Typed == Stored /\ Numbers /\ Shown

LEMMA StepKeepsTypes == Typed /\ [Next]_vars => Typed'
<1>1. CASE UNCHANGED vars
  BY <1>1, StepKeepsNumbers DEF Typed, vars, tables, Shown
<1>2. CASE Next
  BY <1>2, StepKeepsNumbers, StepKeepsShown DEF Typed
<1>3. QED
  BY <1>1, <1>2

(* The types of the tables, of what is on its way and of what is shown.     *)
THEOREM ChatTypeCorrect == Spec => []TypeOK
  BY InitIsTyped, StepKeepsTypes, TypesAreBoth, PTL DEF Spec, Typed

-----------------------------------------------------------------------------
(* The badge. Of a reader the code answers for, at most one counter is      *)
(* under way, computed or not yet committed, and it is the right one.       *)

Matching ==
  /\ \A u \in Reader \ stale : sent[u] = <<>> \/ (Len(sent[u]) = 1 /\ reading[u] = None)
  /\ \A u \in Readers \ stale :
       /\ ~Busy(u) => badge[u] = Counter(u, cursor[u])
       /\ reading[u] # None => reading[u].counter = Counter(u, reading[u].to)
       /\ sent[u] # <<>> => sent[u][1] = Counter(u, cursor[u])

LEMMA SameCounter ==
  ASSUME NEW u \in Reader, UNCHANGED <<messages, threadSeq, threadRead, cursor>>,
         level'[u] = level[u],
         u \in Active <=> u \in Active'
  PROVE  Counter(u, cursor[u])' = Counter(u, cursor[u])
<1>1. LevelOf(u)' = LevelOf(u)
  BY DEF LevelOf
<1>2. UnreadMessages(u, cursor[u])' = UnreadMessages(u, cursor[u])
  BY <1>1 DEF UnreadMessages
<1>3. UnreadThread(u)' = UnreadThread(u)
  BY DEF UnreadThread, Roots, Follows, Replies, ThreadReadSeq
<1>4. QED
  BY <1>1, <1>2, <1>3 DEF Counter

LEMMA SamePromise ==
  ASSUME NEW u \in Reader, UNCHANGED <<messages, threadSeq, threadRead, reading>>,
         level'[u] = level[u],
         u \in Active <=> u \in Active'
  PROVE  Counter(u, reading[u].to)' = Counter(u, reading[u].to)
<1>1. LevelOf(u)' = LevelOf(u)
  BY DEF LevelOf
<1>2. UnreadMessages(u, reading[u].to)' = UnreadMessages(u, reading[u].to)
  BY <1>1 DEF UnreadMessages
<1>3. UnreadThread(u)' = UnreadThread(u)
  BY DEF UnreadThread, Roots, Follows, Replies, ThreadReadSeq
<1>4. QED
  BY <1>1, <1>2, <1>3 DEF Counter

(* A counter computed for everybody concerned is right for those who had    *)
(* none under way.                                                          *)
LEMMA AnnounceMatches ==
  ASSUME Typed, Matching, NEW users \in SUBSET Reader, Announce(users), reading' = reading,
         \A u \in Readers' \ users :
            /\ u \in Readers /\ badge'[u] = badge[u]
            /\ Counter(u, cursor[u])' = Counter(u, cursor[u])
            /\ Counter(u, reading[u].to)' = Counter(u, reading[u].to)
  PROVE  Matching'
<1>1. /\ sent' = [u \in Reader |-> IF u \in users THEN Append(sent[u], Counter(u, cursor[u])')
                                                ELSE sent[u]]
      /\ stale' = (stale \ users) \cup {u \in users : Busy(u)}
  BY DEF Announce
<1>2. ASSUME NEW u \in users, u \notin stale'
      PROVE  /\ sent'[u] # <<>> /\ Len(sent'[u]) = 1 /\ reading'[u] = None
             /\ sent'[u][1] = Counter(u, cursor[u])'
  <2>1. sent[u] = <<>> /\ reading[u] = None
    BY <1>1, <1>2 DEF Busy
  <2>2. sent'[u] = Append(<<>>, Counter(u, cursor[u])')
    BY <1>1, <2>1
  <2> DEFINE c == Counter(u, cursor[u])'
  <2>3. /\ Append(<<>>, c) # <<>> /\ Len(Append(<<>>, c)) = 1
        /\ Append(<<>>, c)[1] = c
    <3> HIDE DEF c
    <3>1. <<>> \in Seq({c}) /\ c \in {c}
      OBVIOUS
    <3>2. QED
      BY <3>1
  <2>4. QED
    BY <2>1, <2>2, <2>3
<1>3. ASSUME NEW u \in Reader, u \notin users, u \notin stale'
      PROVE  u \notin stale /\ sent'[u] = sent[u] /\ reading'[u] = reading[u]
  BY <1>1, <1>3
<1>4. \A u \in Reader \ stale' : sent'[u] = <<>> \/ (Len(sent'[u]) = 1 /\ reading'[u] = None)
  BY <1>2, <1>3 DEF Matching
<1>5. ASSUME NEW u \in Readers', u \notin stale'
      PROVE  /\ ~Busy(u)' => badge'[u] = Counter(u, cursor[u])'
             /\ reading'[u] # None => reading'[u].counter = Counter(u, reading[u].to)'
             /\ sent'[u] # <<>> => sent'[u][1] = Counter(u, cursor[u])'
  <2>1. u \in Reader
    BY DEF Readers
  <2>2. CASE u \in users
    BY <1>2, <1>5, <2>2 DEF Busy
  <2>3. CASE u \notin users
    <3>1. u \in Readers \ stale /\ sent'[u] = sent[u] /\ reading'[u] = reading[u]
      BY <1>3, <1>5, <2>1, <2>3
    <3>2. /\ badge'[u] = badge[u]
          /\ Counter(u, cursor[u])' = Counter(u, cursor[u])
          /\ Counter(u, reading[u].to)' = Counter(u, reading[u].to)
      BY <2>3
    <3>3. Busy(u)' <=> Busy(u)
      BY <3>1 DEF Busy
    <3>4. QED
      BY <3>1, <3>2, <3>3 DEF Matching
  <2>4. QED
    BY <2>2, <2>3
<1>6. QED
  BY <1>4, <1>5 DEF Matching

(* What changes no counter, or only those the code does not answer for.     *)
LEMMA QuietMatches ==
  ASSUME Typed, Matching,
         UNCHANGED <<messages, threadSeq, threadRead, cursor, reading, sent>>,
         stale \subseteq stale',
         \A u \in Readers' \ stale' : u \in Readers /\ level'[u] = level[u] /\ badge'[u] = badge[u]
  PROVE  Matching'
<1>1. \A u \in Reader \ stale' : sent'[u] = <<>> \/ (Len(sent'[u]) = 1 /\ reading'[u] = None)
  BY DEF Matching
<1>2. ASSUME NEW u \in Readers', u \notin stale'
      PROVE  /\ ~Busy(u)' => badge'[u] = Counter(u, cursor[u])'
             /\ reading'[u] # None => reading'[u].counter = Counter(u, reading[u].to)'
             /\ sent'[u] # <<>> => sent'[u][1] = Counter(u, cursor[u])'
  <2>1. /\ u \in Readers \ stale /\ u \in Reader /\ level'[u] = level[u] /\ badge'[u] = badge[u]
        /\ u \in Active /\ u \in Active'
    BY <1>2 DEF Readers
  <2>2. /\ Counter(u, cursor[u])' = Counter(u, cursor[u])
        /\ Counter(u, reading[u].to)' = Counter(u, reading[u].to)
    BY <2>1, SameCounter, SamePromise
  <2>3. Busy(u)' <=> Busy(u)
    BY DEF Busy
  <2>4. QED
    BY <2>1, <2>2, <2>3 DEF Matching
<1>3. QED
  BY <1>1, <1>2 DEF Matching

LEMMA AnnouncingSteps ==
  ASSUME Typed, Matching, NEW u \in User, NEW a \in User, NEW mentions \in SUBSET Reader,
         \/ \E root \in 0..MaxSeq : SendMessage(u, root, mentions)
         \/ \E m \in messages : EditMessage(u, m, mentions) \/ DeleteMessage(u, m)
         \/ ClearDMConversationHistory(u)
         \/ RemoveConversationMember(a, u)
         \/ InviteToChannel(a, u)
  PROVE  Matching'
<1>1. Readers' \in SUBSET Reader
  BY DEF Readers
<1>2. Announce(Readers') /\ reading' = reading
  <2>1. CASE \E root \in 0..MaxSeq : SendMessage(u, root, mentions)
    BY <2>1 DEF SendMessage
  <2>2. CASE \/ \E m \in messages : EditMessage(u, m, mentions) \/ DeleteMessage(u, m)
             \/ ClearDMConversationHistory(u)
    <3>1. Announce(Readers) /\ reading' = reading /\ member' = member
      BY <2>2 DEF EditMessage, DeleteMessage, ClearDMConversationHistory
    <3>2. Readers' = Readers
      BY <3>1 DEF Readers, Active
    <3>3. QED
      BY <3>1, <3>2
  <2>3. CASE RemoveConversationMember(a, u) \/ InviteToChannel(a, u)
    BY <2>3 DEF RemoveConversationMember, InviteToChannel, Notice
  <2>4. QED
    BY <2>1, <2>2, <2>3
<1>3. QED
  BY <1>1, <1>2, AnnounceMatches

LEMMA QuietSteps ==
  ASSUME Typed, Matching, NEW u \in User,
         \/ JoinPublicChannels(u)
         \/ LeaveConversation(u)
         \/ ReopenDirectMessage(u)
         \/ u \in Reader /\ \E l \in Levels : SetNotificationLevel(u, l)
         \/ \E n \in inbox : ResolveNotification(n)
  PROVE  Matching'
<1>0. /\ member \in [User -> {"none", "active", "archived"}] /\ level \in [Reader -> Levels]
      /\ badge \in [Reader -> Counters]
  BY DEF Typed, Stored, Shown
<1>1. CASE JoinPublicChannels(u)
  BY <1>0, <1>1, QuietMatches DEF JoinPublicChannels, Readers, Active
<1>2. CASE LeaveConversation(u)
  BY <1>0, <1>2, QuietMatches DEF LeaveConversation, Archive, Readers, Active
<1>3. CASE ReopenDirectMessage(u)
  BY <1>0, <1>3, QuietMatches DEF ReopenDirectMessage, Readers, Active
<1>4. ASSUME u \in Reader, NEW l \in Levels, SetNotificationLevel(u, l)
      PROVE  Matching'
  BY <1>0, <1>4, QuietMatches DEF SetNotificationLevel, Readers, Active
<1>5. CASE \E n \in inbox : ResolveNotification(n)
  BY <1>5, QuietMatches DEF ResolveNotification, Readers, Active
<1>6. QED
  BY <1>1, <1>2, <1>3, <1>4, <1>5

(* The badge is cleared as the read is asked for, and the counter of the    *)
(* read is the one to come.                                                 *)
LEMMA UpdateReadCursorMatches ==
  ASSUME Typed, Matching, NEW u \in Reader, NEW to \in Seqs, UpdateReadCursor(u, to)
  PROVE  Matching'
<1> DEFINE last == IF to > cursor[u] THEN to ELSE cursor[u]
           new  == [to |-> last, counter |-> Counter(u, last)]
<1>1. /\ reading' = [reading EXCEPT ![u] = new] /\ reading[u] = None
      /\ UNCHANGED <<messages, threadSeq, threadRead, cursor, sent, level, member>>
      /\ badge' = [badge EXCEPT ![u].unread = 0]
      /\ stale' = IF sent[u] = <<>> THEN stale \ {u} ELSE stale \cup {u}
  BY DEF UpdateReadCursor, tables
<1>2. /\ DOMAIN reading = Reader /\ DOMAIN badge = Reader
      /\ reading' \in [Reader -> {None} \cup [to : 0..MaxSeq, counter : Counters]]
  BY StepKeepsTypes DEF Typed, Shown, Next
<1>3. reading'[u] = new /\ new # None
  <2>1. last \in 0..MaxSeq /\ Counter(u, last) \in Counters
    <3>1. last \in 0..MaxSeq
      BY DEF Typed, Stored, Seqs
    <3> HIDE DEF last
    <3>2. QED
      BY <3>1, CounterTypes DEF Typed
  <2>2. new \in [to : 0..MaxSeq, counter : Counters]
    <3> HIDE DEF last
    <3>1. QED
      BY <2>1
  <2>3. None \notin [to : 0..MaxSeq, counter : Counters]
    BY DEF Counters
  <2> HIDE DEF new
  <2>4. QED
    BY <1>1, <1>2, <2>2, <2>3
<1>4. new.to = last /\ new.counter = Counter(u, last)
  OBVIOUS
<1>5. Counter(u, last)' = Counter(u, last)
  <2>1. /\ LevelOf(u)' = LevelOf(u) /\ last' = last
    BY <1>1 DEF LevelOf, Active
  <2>2. UnreadMessages(u, last)' = UnreadMessages(u, last)
    BY <1>1, <2>1 DEF UnreadMessages
  <2>3. UnreadThread(u)' = UnreadThread(u)
    BY <1>1 DEF UnreadThread, Roots, Follows, Replies, ThreadReadSeq
  <2>4. QED
    BY <2>1, <2>2, <2>3 DEF Counter
<1> HIDE DEF new, last
<1>6. Counter(u, reading[u].to)' = Counter(u, last)'
  <2>1. reading'[u].to = last'
    BY <1>1, <1>3, <1>4 DEF last
  <2>2. QED
    BY <2>1 DEF Counter, UnreadMessages, LevelOf, UnreadThread
<1>7. ASSUME NEW w \in Reader \ stale'
      PROVE  /\ sent'[w] = <<>> \/ (Len(sent'[w]) = 1 /\ reading'[w] = None)
             /\ w \in Readers' =>
                  /\ ~Busy(w)' => badge'[w] = Counter(w, cursor[w])'
                  /\ reading'[w] # None => reading'[w].counter = Counter(w, reading[w].to)'
                  /\ sent'[w] # <<>> => sent'[w][1] = Counter(w, cursor[w])'
  <2>1. CASE w = u
    <3>1. sent'[w] = <<>>
      BY <1>1, <1>7, <2>1
    <3>2. QED
      BY <1>3, <1>4, <1>5, <1>6, <2>1, <3>1 DEF Busy
  <2>2. CASE w # u
    <3>1. /\ w \notin stale /\ sent'[w] = sent[w] /\ reading'[w] = reading[w]
          /\ badge'[w] = badge[w]
      BY <1>1, <1>2, <1>7, <2>2
    <3>2. Readers' = Readers /\ (w \in Active <=> w \in Active')
      BY <1>1 DEF Readers, Active
    <3>3. Counter(w, cursor[w])' = Counter(w, cursor[w])
      BY <1>1, <3>2, SameCounter
    <3>4. Counter(w, reading[w].to)' = Counter(w, reading[w].to)
      <4>1. LevelOf(w)' = LevelOf(w)
        BY <1>1 DEF LevelOf, Active
      <4>2. UnreadMessages(w, reading[w].to)' = UnreadMessages(w, reading[w].to)
        BY <1>1, <3>1, <4>1 DEF UnreadMessages
      <4>3. UnreadThread(w)' = UnreadThread(w)
        BY <1>1 DEF UnreadThread, Roots, Follows, Replies, ThreadReadSeq
      <4>4. QED
        BY <4>1, <4>2, <4>3 DEF Counter
    <3>5. Busy(w)' <=> Busy(w)
      BY <3>1 DEF Busy
    <3>6. QED
      BY <3>1, <3>2, <3>3, <3>4, <3>5 DEF Matching
  <2>3. QED
    BY <2>1, <2>2
<1>8. \A w \in Readers' : w \in Reader
  BY DEF Readers
<1>9. QED
  BY <1>7, <1>8 DEF Matching

(* Nothing has come between: the counter of the read is right at its commit. *)
LEMMA CommitReadCursorMatches ==
  ASSUME Typed, Matching, NEW u \in Reader, CommitReadCursor(u)
  PROVE  Matching'
<1>1. /\ reading[u] # None
      /\ cursor' = [cursor EXCEPT ![u] = reading[u].to]
      /\ sent' = [sent EXCEPT ![u] = Append(@, reading[u].counter)]
      /\ reading' = [reading EXCEPT ![u] = None]
      /\ UNCHANGED <<member, level, messages, threadSeq, threadRead, badge, stale>>
  BY DEF CommitReadCursor
<1>2. DOMAIN cursor = Reader /\ DOMAIN sent = Reader /\ DOMAIN reading = Reader
  BY DEF Typed, Stored, Shown
<1>3. Readers' = Readers /\ (\A w \in Reader : w \in Active <=> w \in Active')
  BY <1>1 DEF Readers, Active
<1>4. ASSUME NEW w \in Reader \ stale
      PROVE  /\ sent'[w] = <<>> \/ (Len(sent'[w]) = 1 /\ reading'[w] = None)
             /\ w \in Readers =>
                  /\ ~Busy(w)' => badge'[w] = Counter(w, cursor[w])'
                  /\ reading'[w] # None => reading'[w].counter = Counter(w, reading[w].to)'
                  /\ sent'[w] # <<>> => sent'[w][1] = Counter(w, cursor[w])'
  <2>1. CASE w = u
    <3> DEFINE c == reading[u].counter
    <3>1. sent[u] = <<>>
      BY <1>1, <1>4, <2>1 DEF Matching
    <3>2. sent'[u] = Append(<<>>, c) /\ reading'[u] = None /\ cursor'[u] = reading[u].to
      BY <1>1, <1>2, <3>1
    <3>3. Append(<<>>, c) # <<>> /\ Len(Append(<<>>, c)) = 1 /\ Append(<<>>, c)[1] = c
      <4> HIDE DEF c
      <4>1. <<>> \in Seq({c}) /\ c \in {c}
        OBVIOUS
      <4>2. QED
        BY <4>1
    <3>4. Counter(u, cursor[u])' = Counter(u, reading[u].to)
      <4>1. LevelOf(u)' = LevelOf(u)
        BY <1>1 DEF LevelOf, Active
      <4>2. UnreadMessages(u, cursor[u])' = UnreadMessages(u, reading[u].to)
        BY <1>1, <3>2, <4>1 DEF UnreadMessages
      <4>3. UnreadThread(u)' = UnreadThread(u)
        BY <1>1 DEF UnreadThread, Roots, Follows, Replies, ThreadReadSeq
      <4>4. QED
        BY <4>1, <4>2, <4>3 DEF Counter
    <3>5. u \in Readers => c = Counter(u, reading[u].to)
      BY <1>1, <1>4, <2>1 DEF Matching
    <3>6. QED
      BY <2>1, <3>2, <3>3, <3>4, <3>5 DEF Busy
  <2>2. CASE w # u
    <3>1. sent'[w] = sent[w] /\ reading'[w] = reading[w] /\ cursor'[w] = cursor[w]
      BY <1>1, <1>2, <2>2
    <3>2. LevelOf(w)' = LevelOf(w)
      BY <1>1 DEF LevelOf, Active
    <3>3. UnreadThread(w)' = UnreadThread(w)
      BY <1>1 DEF UnreadThread, Roots, Follows, Replies, ThreadReadSeq
    <3>4. /\ Counter(w, cursor[w])' = Counter(w, cursor[w])
          /\ Counter(w, reading[w].to)' = Counter(w, reading[w].to)
      <4>1. /\ UnreadMessages(w, cursor[w])' = UnreadMessages(w, cursor[w])
            /\ UnreadMessages(w, reading[w].to)' = UnreadMessages(w, reading[w].to)
        BY <1>1, <3>1, <3>2 DEF UnreadMessages
      <4>2. QED
        BY <3>2, <3>3, <4>1 DEF Counter
    <3>5. Busy(w)' <=> Busy(w)
      BY <3>1 DEF Busy
    <3>6. QED
      BY <1>1, <3>1, <3>4, <3>5 DEF Matching
  <2>3. QED
    BY <2>1, <2>2
<1>5. Readers \subseteq Reader
  BY DEF Readers
<1>6. QED
  BY <1>1, <1>3, <1>4, <1>5 DEF Matching

LEMMA DeliverCounterMatches ==
  ASSUME Typed, Matching, NEW u \in Reader, NEW i \in 1..Len(sent[u]), DeliverCounter(u, i)
  PROVE  Matching'
<1>1. /\ badge' = IF u \in Active THEN [badge EXCEPT ![u] = sent[u][i]] ELSE badge
      /\ sent' = [sent EXCEPT ![u] = SubSeq(@, 1, i - 1) \o SubSeq(@, i + 1, Len(@))]
      /\ UNCHANGED <<member, level, messages, threadSeq, threadRead, cursor, reading, stale>>
  BY DEF DeliverCounter, tables
<1>2. /\ DOMAIN badge = Reader /\ sent \in [Reader -> Seq(Counters)]
  BY DEF Typed, Shown
<1>3. Readers' = Readers /\ Readers \subseteq Active /\ Readers \subseteq Reader
      /\ (\A w \in Reader : w \in Active <=> w \in Active')
  BY <1>1 DEF Readers, Active
<1>4. \A w \in Reader : /\ Counter(w, cursor[w])' = Counter(w, cursor[w])
                        /\ Counter(w, reading[w].to)' = Counter(w, reading[w].to)
  BY <1>1, <1>3, SameCounter, SamePromise
<1>5. ASSUME NEW w \in Reader \ stale
      PROVE  /\ sent'[w] = <<>> \/ (Len(sent'[w]) = 1 /\ reading'[w] = None)
             /\ w \in Readers =>
                  /\ ~Busy(w)' => badge'[w] = Counter(w, cursor[w])'
                  /\ reading'[w] # None => reading'[w].counter = Counter(w, reading[w].to)'
                  /\ sent'[w] # <<>> => sent'[w][1] = Counter(w, cursor[w])'
  <2>1. CASE w = u
    <3>1. sent[u] \in Seq(Counters) /\ Len(sent[u]) \in Nat
      BY <1>2
    <3>2. Len(sent[u]) = 1 /\ reading[u] = None /\ i = 1 /\ sent[u] # <<>>
      <4>1. sent[u] = <<>> \/ (Len(sent[u]) = 1 /\ reading[u] = None)
        BY <1>5, <2>1 DEF Matching
      <4>2. ASSUME sent[u] = <<>> PROVE FALSE
        <5>1. Len(<<>>) = 0
          OBVIOUS
        <5>2. i \in 1..0
          BY <4>2, <5>1
        <5>3. QED
          BY <5>2
      <4>3. Len(sent[u]) = 1 /\ reading[u] = None
        BY <4>1, <4>2
      <4>4. i = 1
        BY <4>3
      <4>5. QED
        BY <4>2, <4>3, <4>4
    <3>3. sent'[u] = SubSeq(sent[u], 1, 0) \o SubSeq(sent[u], 2, 1)
      BY <1>1, <1>2, <3>2
    <3>4. sent'[u] = <<>>
      BY <3>1, <3>2, <3>3
    <3>5. u \in Readers => badge'[u] = sent[u][1]
      BY <1>1, <1>2, <1>3, <3>2
    <3>6. u \in Readers => sent[u][1] = Counter(u, cursor[u])
      BY <1>5, <2>1, <3>2 DEF Matching
    <3>7. reading'[u] = None
      BY <1>1, <3>2
    <3>8. QED
      BY <1>4, <2>1, <3>4, <3>5, <3>6, <3>7
  <2>2. CASE w # u
    <3>1. sent'[w] = sent[w] /\ reading'[w] = reading[w] /\ badge'[w] = badge[w]
      BY <1>1, <1>2, <2>2
    <3>2. Busy(w)' <=> Busy(w)
      BY <3>1 DEF Busy
    <3>3. QED
      BY <1>4, <3>1, <3>2 DEF Matching
  <2>3. QED
    BY <2>1, <2>2
<1>6. stale' = stale /\ Readers' = Readers /\ Readers \subseteq Reader
  BY <1>1, <1>3
<1>7. QED
  BY <1>5, <1>6 DEF Matching

LEMMA SubscribeThreadMatches ==
  ASSUME Typed, Matching, NEW u \in Reader, NEW root \in Roots, SubscribeThread(u, root)
  PROVE  Matching'
<1>1. /\ threadRead' = [threadRead EXCEPT ![root.seq][u] =
                           IF @ > threadSeq[root.seq] THEN @ ELSE threadSeq[root.seq]]
      /\ UNCHANGED <<member, level, messages, threadSeq, cursor, reading, badge>>
      /\ Announce({u})
  BY DEF SubscribeThread
<1>2. Readers' = Readers /\ Readers \subseteq Reader
  BY <1>1 DEF Readers, Active
<1>3. ASSUME NEW w \in Reader \ {u}
      PROVE  /\ Counter(w, cursor[w])' = Counter(w, cursor[w])
             /\ Counter(w, reading[w].to)' = Counter(w, reading[w].to)
  <2>1. LevelOf(w)' = LevelOf(w)
    BY <1>1 DEF LevelOf, Active
  <2>2. \A r \in Seqs : threadRead'[r][w] = threadRead[r][w]
    BY <1>1 DEF Typed, Stored
  <2>3. \A m \in messages : m.seq \in Seqs
    BY DEF Typed, Stored, Message
  <2>4. UnreadThread(w)' <=> UnreadThread(w)
    BY <1>1, <2>2, <2>3 DEF UnreadThread, Roots, Follows, Replies, ThreadReadSeq
  <2>5. /\ UnreadMessages(w, cursor[w])' = UnreadMessages(w, cursor[w])
        /\ UnreadMessages(w, reading[w].to)' = UnreadMessages(w, reading[w].to)
    BY <1>1, <2>1 DEF UnreadMessages
  <2>6. UnreadThread(w)' = UnreadThread(w)
    <3>1. UnreadThread(w) \in BOOLEAN /\ UnreadThread(w)' \in BOOLEAN
      BY DEF UnreadThread
    <3>2. QED
      BY <2>4, <3>1
  <2>7. QED
    BY <2>1, <2>5, <2>6 DEF Counter
<1>4. {u} \in SUBSET Reader
  OBVIOUS
<1>5. QED
  BY <1>1, <1>2, <1>3, <1>4, AnnounceMatches

LEMMA StepKeepsMatching == Typed /\ Matching /\ [Next]_vars => Matching'
<1>1. ASSUME Typed, Matching, UNCHANGED vars PROVE Matching'
  BY <1>1, QuietMatches DEF vars, tables, Readers, Active
<1>2. ASSUME Typed, Matching, Next PROVE Matching'
  <2>1. ASSUME NEW u \in User, NEW a \in User,
               \/ ClearDMConversationHistory(u)
               \/ RemoveConversationMember(a, u)
               \/ InviteToChannel(a, u)
        PROVE  Matching'
    <3>1. {} \in SUBSET Reader
      OBVIOUS
    <3>2. QED
      BY <1>2, <2>1, <3>1, AnnouncingSteps
  <2>2. ASSUME NEW u \in User, NEW mentions \in SUBSET Reader,
               \/ \E root \in 0..MaxSeq : SendMessage(u, root, mentions)
               \/ \E m \in messages : EditMessage(u, m, mentions)
        PROVE  Matching'
    BY <1>2, <2>2, AnnouncingSteps
  <2>3. ASSUME NEW u \in User, NEW m \in messages, DeleteMessage(u, m)
        PROVE  Matching'
    <3>1. {} \in SUBSET Reader
      OBVIOUS
    <3>2. QED
      BY <1>2, <2>3, <3>1, AnnouncingSteps
  <2>4. ASSUME NEW u \in User,
               \/ JoinPublicChannels(u)
               \/ LeaveConversation(u)
               \/ ReopenDirectMessage(u)
        PROVE  Matching'
    BY <1>2, <2>4, QuietSteps
  <2>5. ASSUME NEW n \in inbox, ResolveNotification(n) PROVE Matching'
    BY <1>2, <2>5, QuietMatches DEF ResolveNotification, Readers, Active
  <2>6. ASSUME NEW u \in Reader, NEW l \in Levels, SetNotificationLevel(u, l) PROVE Matching'
    BY <1>2, <2>6, QuietSteps
  <2>7. ASSUME NEW u \in Reader,
               \/ \E to \in Seqs : UpdateReadCursor(u, to)
               \/ CommitReadCursor(u)
               \/ \E root \in Roots : SubscribeThread(u, root)
               \/ \E i \in 1..Len(sent[u]) : DeliverCounter(u, i)
        PROVE  Matching'
    BY <1>2, <2>7, UpdateReadCursorMatches, CommitReadCursorMatches,
       DeliverCounterMatches, SubscribeThreadMatches
  <2>8. QED
    BY <1>2, <2>1, <2>2, <2>3, <2>4, <2>5, <2>6, <2>7 DEF Next
<1>3. QED
  BY <1>1, <1>2

LEMMA InitMatches == Init => Matching
<1> SUFFICES ASSUME Init PROVE Matching
  OBVIOUS
<1>1. /\ messages = {} /\ cursor = [u \in Reader |-> 0] /\ reading = [u \in Reader |-> None]
      /\ badge = [u \in Reader |-> Nothing] /\ sent = [u \in Reader |-> <<>>]
  BY DEF Init
<1>2. ASSUME NEW u \in Readers PROVE Counter(u, cursor[u]) = Nothing
  <2>1. UnreadMessages(u, cursor[u]) = {} /\ UnreadThread(u) = FALSE
    BY <1>1 DEF UnreadMessages, UnreadThread, Roots
  <2>2. Cardinality({}) = 0
    BY FS_EmptySet
  <2>3. QED
    BY <2>1, <2>2 DEF Counter, Nothing
<1>3. QED
  BY <1>1, <1>2 DEF Matching, Readers

(* The badge of a client is that of the database once every counter has     *)
(* arrived, whatever was written, edited, deleted, cleared or read, unless  *)
(* two counters were under way together or nobody was told of the change.   *)
THEOREM BadgesAreCurrent == Spec => []BadgeIsCurrent
<1>1. Typed /\ Matching => BadgeIsCurrent
  BY DEF Matching, BadgeIsCurrent
<1>2. QED
  BY <1>1, InitIsTyped, InitMatches, StepKeepsTypes, StepKeepsMatching, PTL DEF Spec, Typed
===============================================================================
