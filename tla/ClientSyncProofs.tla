--------------------------- MODULE ClientSyncProofs ---------------------------
(***************************************************************************)
(* For any number of events, pages, peers, breaks and reloads: the types;   *)
(* that no acknowledgement is ahead of what local storage holds; that a live *)
(* client has no gap below its cursor but what its full buffer discarded;    *)
(* and that the presence it shows is the present one, unless deliveries that *)
(* were lost or have crossed misled it.                                      *)
(***************************************************************************)
EXTENDS ClientSync, FiniteSetTheorems, WellFoundedInduction, TLAPS

LEMMA BoundsAreNat ==
  /\ LastPage \in Nat /\ PageOf \in [Peer -> 0..LastPage]
  /\ StampOf \in [Peer -> [0..MaxVersion -> Nat]]
  /\ BufferLimit \in Nat \ {0}
  /\ MaxEvents \in Nat /\ MaxVersion \in Nat /\ MaxWrites \in Nat /\ MaxBreaks \in Nat /\ MaxStrangers \in Nat
  /\ MaxUnanswered \in Nat /\ MaxExpired \in Nat
  BY ClientAssumption DEF ClientAssumption

-----------------------------------------------------------------------------
(* Least and greatest numbers *)

LEMMA LeastExists ==
  ASSUME NEW S \in SUBSET Nat, S # {}
  PROVE  \E x \in S : \A y \in S : x <= y
<1>1. PICK x \in S : \A y \in S : ~(<<y, x>> \in OpToRel(<, Nat))
  BY NatLessThanWellFounded, WFMin
<1>2. ASSUME NEW y \in S PROVE x <= y
  <2>1. ~(y < x)
    <3>1. SUFFICES ASSUME y < x PROVE FALSE
      OBVIOUS
    <3>2. <<y, x>> \in OpToRel(<, Nat)
      BY <3>1 DEF OpToRel
    <3>3. QED
      BY <1>1, <3>2
  <2>2. QED
    BY <2>1
<1>3. QED
  BY <1>2

LEMMA MinIsLeast ==
  ASSUME NEW S \in SUBSET Nat, S # {}
  PROVE  Min(S) \in S /\ \A y \in S : Min(S) <= y
  BY LeastExists DEF Min

LEMMA MaxIsGreatest ==
  ASSUME NEW b \in Nat, NEW S \in SUBSET (0..b), S # {}
  PROVE  Max(S) \in S /\ \A y \in S : y <= Max(S)
<1> DEFINE T == {b - x : x \in S}
<1>1. T \in SUBSET Nat /\ T # {}
  <2>1. \A x \in S : b - x \in Nat
    OBVIOUS
  <2>2. QED
    BY <2>1
<1>2. PICK t \in T : \A u \in T : t <= u
  BY <1>1, LeastExists
<1>3. PICK x \in S : t = b - x
  BY <1>2
<1>4. ASSUME NEW y \in S PROVE x >= y
  <2>1. b - y \in T
    OBVIOUS
  <2>2. t <= b - y
    BY <1>2, <2>1
  <2>3. QED
    BY <1>3, <2>2
<1>5. Max(S) \in S /\ \A y \in S : Max(S) >= y
  BY <1>4 DEF Max
<1>6. QED
  BY <1>5

-----------------------------------------------------------------------------
(* The invariants *)

(* The types, in parts. *)
PageJob == [page : Page, snapshot : 0..MaxEvents, values : Versions, read : BOOLEAN]
Snapshot == [snapshot : 0..MaxEvents, values : Versions]

ServerTyped ==
  /\ committed \in 0..MaxEvents /\ published \in 0..committed
  /\ value \in [Peer -> Version] /\ pending \subseteq Announcement
  /\ session \in {"closed", "authenticated", "serving"}
  /\ cursor \in 0..MaxEvents /\ misled \subseteq Peer
  /\ strangers \in 0..MaxStrangers /\ expired \in 0..MaxExpired

WireTyped ==
  /\ job \in {None} \cup PageJob
  /\ up \in Seq(Request) /\ down \in Seq(Frame)

ViewTyped ==
  /\ wsState \in {"DISCONNECTED", "CONNECTING", "BOOTSTRAPPING", "LIVE_SYNCED"}
  /\ stage \in {None} \cup Snapshot
  /\ overlay \in Versions /\ shown \in [Peer -> Version]
  /\ breaks \in 0..MaxBreaks

BufferTyped ==
  /\ buffered \subseteq Event /\ IsFiniteSet(buffered) /\ Cardinality(buffered) <= BufferLimit
  /\ dropped \subseteq Event

CursorTyped ==
  /\ reflected \subseteq Event
  /\ lastApplied \in 0..MaxEvents /\ persisted \in 0..MaxEvents /\ lastAcked \in 0..MaxEvents

FlagsTyped == ackDue \in BOOLEAN /\ ackInFlight \in BOOLEAN

Typed == ServerTyped /\ WireTyped /\ ViewTyped /\ BufferTyped /\ CursorTyped /\ FlagsTyped

(* At most one answer of a bootstrap is under way, and none to a client that  *)
(* is not bootstrapping: the next page is asked for when the last has come.   *)
Without(s, kind) == \A k \in DOMAIN s : s[k].kind # kind
AtMostOne(s, kind) ==
  \A k, l \in DOMAIN s : s[k].kind = kind /\ s[l].kind = kind => k = l

NoneUnderWay == Without(up, "bootstrap") /\ Without(down, "page") /\ job = None

OneAnswer ==
  /\ AtMostOne(up, "bootstrap") /\ AtMostOne(down, "page")
  /\ job # None => Without(up, "bootstrap") /\ Without(down, "page")
  /\ Without(up, "bootstrap") \/ Without(down, "page")
  /\ ~Bootstrapping => NoneUnderWay

(* A client begins a bootstrap once per connection, and again only when live. *)
AuthOnce == \A k \in DOMAIN down :
              down[k].kind = "auth" => k = 1 /\ wsState = "CONNECTING"

(* Nothing is ahead of the database. *)
Published ==
  /\ \A k \in DOMAIN down : down[k].kind = "event" => down[k].seq <= published
  /\ \A e \in buffered : e <= published
  /\ lastApplied <= committed

(* A snapshot under way is not older than what the client has applied.        *)
Current(s) == lastApplied <= s /\ s <= committed
SnapshotsCurrent ==
  /\ job # None => Current(job.snapshot)
  /\ \A k \in DOMAIN up : up[k].kind = "bootstrap" /\ up[k].page > 0 => Current(up[k].snapshot)
  /\ \A k \in DOMAIN down : down[k].kind = "page" => Current(down[k].snapshot)

CursorOrder == AckedIsStored /\ persisted <= lastApplied

(* The events on the wire ascend, and what is buffered came before them.      *)
InOrder ==
  /\ \A k, l \in DOMAIN down :
       down[k].kind = "event" /\ down[l].kind = "event" /\ k < l => down[k].seq < down[l].seq
  /\ \A b \in buffered, k \in DOMAIN down : down[k].kind = "event" => b < down[k].seq

Coming(e) == \E k \in DOMAIN down : down[k].kind = "event" /\ down[k].seq = e

(* Every published event above a number that a client starts from is on its  *)
(* way or buffered, or the full buffer has discarded it.                       *)
Kept(e) == e \in buffered \cup dropped
Covers(s) ==
  session = "serving" /\ \A e \in Event : s < e /\ e <= published => Kept(e) \/ Coming(e)
SnapshotsCover ==
  /\ job # None => Covers(job.snapshot)
  /\ \A k \in DOMAIN up : up[k].kind = "bootstrap" /\ up[k].page > 0 => Covers(up[k].snapshot)
  /\ \A k \in DOMAIN down : down[k].kind = "page" => Covers(down[k].snapshot)
LiveCovers == Live => Covers(lastApplied) /\ buffered = {}

AckInv == OneAnswer /\ AuthOnce /\ Published /\ SnapshotsCurrent /\ CursorOrder
GapInv == InOrder /\ SnapshotsCover /\ LiveCovers /\ NoGapBelowCursor

-----------------------------------------------------------------------------
(* Requests, frames and snapshots *)

LEMMA RequestsTyped ==
  /\ \A p \in Page, n \in 0..MaxEvents :
       /\ BootstrapRequest(p, n) \in Request /\ BootstrapRequest(p, n).kind = "bootstrap"
       /\ BootstrapRequest(p, n).page = p /\ BootstrapRequest(p, n).snapshot = n
  /\ \A n \in 0..MaxEvents :
       Ack(n) \in Request /\ Ack(n).kind = "ack" /\ Ack(n).seq = n
  BY DEF BootstrapRequest, Ack, Request

LEMMA RequestIsEither ==
  ASSUME NEW r \in Request
  PROVE  \/ r.kind = "bootstrap" /\ r.page \in Page /\ r.snapshot \in 0..MaxEvents
         \/ r.kind = "ack" /\ r.seq \in 0..MaxEvents
  BY DEF Request

LEMMA FramesTyped ==
  /\ AuthFrame \in Frame /\ AuthFrame.kind = "auth"
  /\ StrangerFrame \in Frame /\ StrangerFrame.kind = "stranger"
  /\ ErrorFrame \in Frame /\ ErrorFrame.kind = "error"
  /\ \A e \in Event :
       EventFrame(e) \in Frame /\ EventFrame(e).kind = "event" /\ EventFrame(e).seq = e
  /\ \A n \in 0..MaxEvents : Ack(n) \in Frame
  /\ \A i \in Peer, v \in Version :
       /\ DirectFrame(i, v) \in Frame /\ DirectFrame(i, v).kind = "direct"
       /\ DirectFrame(i, v).peer = i /\ DirectFrame(i, v).version = v
  /\ \A p \in Page, n \in 0..MaxEvents, v \in Versions :
       /\ PageFrame(p, n, v) \in Frame /\ PageFrame(p, n, v).kind = "page"
       /\ PageFrame(p, n, v).page = p /\ PageFrame(p, n, v).snapshot = n
       /\ PageFrame(p, n, v).values = v
<1> USE DEF Frame
<1>1. /\ AuthFrame \in Frame /\ AuthFrame.kind = "auth"
      /\ StrangerFrame \in Frame /\ StrangerFrame.kind = "stranger"
      /\ ErrorFrame \in Frame /\ ErrorFrame.kind = "error"
  BY DEF AuthFrame, StrangerFrame, ErrorFrame
<1>2. \A e \in Event :
        EventFrame(e) \in Frame /\ EventFrame(e).kind = "event" /\ EventFrame(e).seq = e
  BY DEF EventFrame
<1>3. \A n \in 0..MaxEvents : Ack(n) \in Frame
  BY DEF Ack
<1>4. \A i \in Peer, v \in Version :
        /\ DirectFrame(i, v) \in Frame /\ DirectFrame(i, v).kind = "direct"
        /\ DirectFrame(i, v).peer = i /\ DirectFrame(i, v).version = v
  BY DEF DirectFrame
<1>5. \A p \in Page, n \in 0..MaxEvents, v \in Versions :
        /\ PageFrame(p, n, v) \in Frame /\ PageFrame(p, n, v).kind = "page"
        /\ PageFrame(p, n, v).page = p /\ PageFrame(p, n, v).snapshot = n
        /\ PageFrame(p, n, v).values = v
  BY DEF PageFrame
<1>6. QED
  BY <1>1, <1>2, <1>3, <1>4, <1>5

LEMMA FrameOfKind ==
  ASSUME NEW f \in Frame
  PROVE  /\ f.kind = "event" => f.seq \in Event
         /\ f.kind = "ack" => f.seq \in 0..MaxEvents
         /\ f.kind = "direct" => f.peer \in Peer /\ f.version \in Version
         /\ f.kind = "page" => f.page \in Page /\ f.snapshot \in 0..MaxEvents
                              /\ f.values \in Versions
  BY DEF Frame, AuthFrame, StrangerFrame, ErrorFrame

(* Versions are partial functions from peers. *)
LEMMA VersionsIntro ==
  ASSUME NEW I \in SUBSET Peer, NEW v \in [I -> Version]
  PROVE  v \in Versions
  BY DEF Versions

LEMMA VersionsElim ==
  ASSUME NEW v \in Versions
  PROVE  /\ DOMAIN v \in SUBSET Peer /\ v \in [DOMAIN v -> Version]
         /\ \A i \in DOMAIN v : v[i] \in Version
  BY DEF Versions

LEMMA NothingIsTyped == NothingShown \in Versions /\ DOMAIN NothingShown = {}
<1>1. NothingShown \in [{} -> Version]
  BY DEF NothingShown
<1>2. QED
  BY <1>1, VersionsIntro

LEMMA NewerIsTyped ==
  ASSUME NEW i, NEW x \in Version, NEW y \in Version
  PROVE  NewerPresence(i, x, y) \in Version
  BY DEF NewerPresence

(* A page and a stage make a stage. *)
LEMMA StagedIsTyped ==
  ASSUME Typed, down # <<>>, Head(down).kind = "page", ~StrayPage
  PROVE  Staged \in Snapshot /\ Head(down).snapshot \in 0..MaxEvents
         /\ Head(down).page \in Page
<1> DEFINE page == Head(down)
           before == IF page.page = 0 THEN NothingShown ELSE stage.values
           values == [i \in DOMAIN before \cup DOMAIN page.values |->
                       IF i \in DOMAIN page.values THEN page.values[i] ELSE before[i]]
<1>1. page \in Frame
  BY DEF Typed, WireTyped
<1>2. page.page \in Page /\ page.snapshot \in 0..MaxEvents /\ page.values \in Versions
  BY <1>1, FrameOfKind
<1>3. page.page # 0 => stage \in Snapshot
  BY DEF StrayPage, Typed, ViewTyped
<1>4. before \in Versions
  BY <1>3, NothingIsTyped DEF Snapshot
<1>5. values \in Versions
  <2> HIDE DEF before
  <2>1. values \in [(DOMAIN before \cup DOMAIN page.values) -> Version]
    BY <1>2, <1>4, VersionsElim
  <2>2. (DOMAIN before \cup DOMAIN page.values) \in SUBSET Peer
    BY <1>2, <1>4, VersionsElim
  <2>3. QED
    BY <2>1, <2>2, VersionsIntro
<1>6. (IF page.page = 0 THEN page.snapshot ELSE stage.snapshot) \in 0..MaxEvents
  BY <1>2, <1>3 DEF Snapshot
<1>7. Staged = [snapshot |-> IF page.page = 0 THEN page.snapshot ELSE stage.snapshot,
                values |-> values]
  BY DEF Staged
<1>8. Staged \in Snapshot
  BY <1>5, <1>6, <1>7 DEF Snapshot
<1>9. QED
  BY <1>2, <1>8

(* The receipt of a frame. *)
LEMMA ReceivedIsHead ==
  ASSUME Typed, NEW kind, Receive(kind)
  PROVE  /\ down # <<>> /\ Head(down) \in Frame /\ Head(down).kind = kind
         /\ down' = Tail(down) /\ down' \in Seq(Frame)
  BY DEF Receive, Typed, WireTyped

(* The delivery of an announcement. *)
LEMMA DirectIsDelivered ==
  ASSUME Typed, DeliverDirect
  PROVE  \E d \in pending, x \in Frame :
           /\ d.peer \in Peer /\ d.version \in Version /\ pending' = pending \ {d}
           /\ x.kind = "direct" /\ x.peer = d.peer /\ x.version = d.version
           /\ session = "serving" =>
                /\ down' = Append(down, x)
                /\ misled' = IF Overtaken(d) THEN misled \cup {d.peer}
                             ELSE IF d.version = value[d.peer] THEN misled \ {d.peer}
                             ELSE misled
           /\ session # "serving" => UNCHANGED <<down, misled>>
<1>1. PICK d \in pending :
        /\ pending' = pending \ {d}
        /\ session = "serving" =>
             /\ down' = Append(down, DirectFrame(d.peer, d.version))
             /\ misled' = IF Overtaken(d) THEN misled \cup {d.peer}
                          ELSE IF d.version = value[d.peer] THEN misled \ {d.peer}
                          ELSE misled
        /\ session # "serving" => UNCHANGED <<down, misled>>
  BY DEF DeliverDirect
<1>2. d.peer \in Peer /\ d.version \in Version
  BY DEF Typed, ServerTyped, Announcement
<1>3. PICK x \in Frame : /\ x = DirectFrame(d.peer, d.version) /\ x.kind = "direct"
                         /\ x.peer = d.peer /\ x.version = d.version
  BY <1>2, FramesTyped
<1>4. QED
  BY <1>1, <1>2, <1>3

LEMMA NewestIsTyped ==
  ASSUME BufferTyped, NEW e \in Event
  PROVE  LET new == Newest(buffered \cup {e})
         IN  /\ new \subseteq buffered \cup {e} /\ IsFiniteSet(new)
             /\ Cardinality(new) <= BufferLimit
<1> DEFINE all == buffered \cup {e}
<1>1. /\ IsFiniteSet(all) /\ Cardinality(all) \in Nat
      /\ Cardinality(all) <= Cardinality(buffered) + 1 /\ Cardinality(buffered) \in Nat
  <2>1. IsFiniteSet(buffered) /\ Cardinality(buffered) \in Nat
    BY FS_CardinalityType DEF BufferTyped
  <2>2. /\ IsFiniteSet(all)
        /\ Cardinality(all) = IF e \in buffered THEN Cardinality(buffered)
                             ELSE Cardinality(buffered) + 1
    BY <2>1, FS_AddElement
  <2>3. QED
    BY <2>1, <2>2
<1>2. BufferLimit \in Nat
  BY BoundsAreNat
<1>3. CASE Cardinality(all) <= BufferLimit
  BY <1>1, <1>3 DEF Newest
<1>4. CASE ~(Cardinality(all) <= BufferLimit)
  <2>1. all \in SUBSET Nat /\ all # {}
    BY BoundsAreNat DEF BufferTyped, Event
  <2>2. Min(all) \in all
    BY <2>1, MinIsLeast
  <2>3. Newest(all) = all \ {Min(all)}
    BY <1>4 DEF Newest
  <2>4. IsFiniteSet(all \ {Min(all)}) /\ Cardinality(all \ {Min(all)}) = Cardinality(all) - 1
    BY <1>1, <2>2, FS_RemoveElement
  <2>5. Cardinality(all) - 1 <= BufferLimit
    BY <1>1, <1>2 DEF BufferTyped
  <2>6. QED
    BY <2>3, <2>4, <2>5
<1>5. QED
  BY <1>3, <1>4

-----------------------------------------------------------------------------
(* Types *)

LEMMA TypedIsTypeOK == Typed => TypeOK
<1> SUFFICES ASSUME Typed PROVE TypeOK
  OBVIOUS
<1>1. (\A k \in DOMAIN up : up[k] \in Request) /\ (\A k \in DOMAIN down : down[k] \in Frame)
  BY DEF Typed, WireTyped
<1>2. /\ published \in 0..committed /\ committed \in 0..MaxEvents
      /\ value \in [Peer -> Version] /\ pending \subseteq Announcement
      /\ session \in {"closed", "authenticated", "serving"}
      /\ cursor \in 0..MaxEvents /\ misled \subseteq Peer
      /\ strangers \in 0..MaxStrangers /\ expired \in 0..MaxExpired
  BY DEF Typed, ServerTyped
<1>3. /\ job \in {None} \cup [page : Page, snapshot : 0..MaxEvents, values : Versions, read : BOOLEAN]
      /\ wsState \in {"DISCONNECTED", "CONNECTING", "BOOTSTRAPPING", "LIVE_SYNCED"}
      /\ stage \in {None} \cup [snapshot : 0..MaxEvents, values : Versions]
      /\ overlay \in Versions /\ shown \in [Peer -> Version] /\ breaks \in 0..MaxBreaks
  BY DEF Typed, WireTyped, ViewTyped, PageJob, Snapshot
<1>4. /\ buffered \subseteq Event /\ Cardinality(buffered) <= BufferLimit /\ dropped \subseteq Event
      /\ reflected \subseteq Event
      /\ {lastApplied, persisted, lastAcked} \subseteq 0..MaxEvents
      /\ ackDue \in BOOLEAN /\ ackInFlight \in BOOLEAN
  BY DEF Typed, BufferTyped, CursorTyped, FlagsTyped
<1>5. QED
  BY <1>1, <1>2, <1>3, <1>4 DEF TypeOK

LEMMA InitIsTyped == Init => Typed
<1> SUFFICES ASSUME Init PROVE Typed
  OBVIOUS
<1> USE DEF Init
<1>1. ServerTyped
  BY BoundsAreNat DEF ServerTyped, Version
<1>2. WireTyped
  BY DEF WireTyped
<1>3. ViewTyped
  BY BoundsAreNat, NothingIsTyped DEF ViewTyped, Version
<1>4. BufferTyped
  BY BoundsAreNat, FS_EmptySet DEF BufferTyped
<1>5. CursorTyped
  BY BoundsAreNat DEF CursorTyped
<1>6. FlagsTyped
  BY DEF FlagsTyped
<1>7. QED
  BY <1>1, <1>2, <1>3, <1>4, <1>5, <1>6 DEF Typed

LEMMA FlagsStayTyped ==
  ASSUME Typed, [Next]_vars
  PROVE  FlagsTyped'
<1> USE DEF Typed, FlagsTyped
<1>1. CASE UNCHANGED <<ackDue, ackInFlight>>
  BY <1>1
<1>2. CASE Reload \/ StartRealtimeFlow \/ HandleStranger \/ ApplyEvent \/ FinishBootstrap
           \/ FlushAck \/ HandleAckResponse \/ AckTimeout
  BY <1>2 DEF Reload, StartRealtimeFlow, HandleStranger, StartBootstrap, ApplyEvent,
              FinishBootstrap, FlushAck, HandleAckResponse, AckTimeout
<1>3. QED
  BY <1>1, <1>2 DEF Next, Server, Handle, CommitEvent, ChangePresence, LoseDirect, NotifyStranger,
     RefuseContinuation, PublishEvent, DeliverDirect, Serve, BeginBootstrapPage, ReadPage,
     ReplyPage, AckCursor, Connect, LoseConnection, HandlePresenceEvent, BufferEvent,
     ReceiveMiddlePage, PersistCursor, HandleProtocolError, vars, ackVars

LEMMA ServerStaysTyped ==
  ASSUME Typed, [Next]_vars
  PROVE  ServerTyped'
<1> USE DEF Typed
<1>1. CASE UNCHANGED <<committed, published, value, pending, session, cursor, misled, strangers, expired>>
  BY <1>1 DEF ServerTyped
<1>2. CASE CommitEvent \/ PublishEvent
  BY <1>2, BoundsAreNat DEF CommitEvent, PublishEvent, ServerTyped, sessionVars
<1>3. CASE \E i \in Peer : ChangePresence(i)
  <2>1. PICK i \in Peer : ChangePresence(i)
    BY <1>3
  <2>2. value' \in [Peer -> Version]
    BY <2>1, BoundsAreNat DEF ChangePresence, LoseDirect, ServerTyped, Version
  <2>3. value[i] + 1 \in Version
    BY <2>1, BoundsAreNat DEF ChangePresence, LoseDirect, ServerTyped, Version
  <2>4. PICK ways \in SUBSET Way :
          pending' = pending \cup {[peer |-> i, version |-> value[i] + 1, by |-> w] : w \in ways}
    BY <2>1 DEF ChangePresence
  <2>5. pending' \subseteq Announcement
    BY <2>3, <2>4 DEF ServerTyped, Announcement
  <2>6. QED
    BY <2>1, <2>2, <2>5 DEF ChangePresence, LoseDirect, ServerTyped, sessionVars
<1>4. CASE Serve \/ Connect \/ LoseConnection \/ Reload
  BY <1>4 DEF Serve, Connect, LoseConnection, Reload, ServerTyped, serverVars, sessionVars
<1>9. CASE DeliverDirect \/ LoseDirect
  <2>1. PICK d \in pending : /\ pending' = pending \ {d}
                             /\ misled' = misled \/ misled' = misled \cup {d.peer}
                                \/ misled' = misled \ {d.peer}
    BY <1>9 DEF DeliverDirect, LoseDirect
  <2>2. d.peer \in Peer
    BY DEF ServerTyped, Announcement
  <2>3. QED
    BY <1>9, <2>1, <2>2 DEF DeliverDirect, LoseDirect, ServerTyped
<1>5. CASE NotifyStranger \/ RefuseContinuation
  <2>1. CASE NotifyStranger
    BY <2>1, BoundsAreNat DEF NotifyStranger, ServerTyped, serverVars, sessionVars
  <2>2. CASE RefuseContinuation
    BY <2>2, BoundsAreNat DEF RefuseContinuation, ServerTyped, serverVars, sessionVars
  <2>3. QED
    BY <1>5, <2>1, <2>2
<1>6. CASE AckCursor
  <2>1. Head(up) \in Request
    BY <1>6 DEF AckCursor, WireTyped
  <2>2. Head(up).seq \in 0..MaxEvents
    BY <1>6, <2>1, RequestIsEither DEF AckCursor
  <2>3. {cursor, Head(up).seq} \in SUBSET (0..MaxEvents) /\ {cursor, Head(up).seq} # {}
    BY <2>2 DEF ServerTyped
  <2>4. cursor' \in 0..MaxEvents
    <3>1. Max({cursor, Head(up).seq}) \in {cursor, Head(up).seq}
      BY <2>3, MaxIsGreatest, BoundsAreNat
    <3>2. QED
      BY <1>6, <2>3, <3>1 DEF AckCursor
  <2>5. QED
    BY <1>6, <2>4 DEF AckCursor, ServerTyped, serverVars
<1>7. CASE BeginBootstrapPage \/ ReadPage \/ ReplyPage \/ Handle \/ PersistCursor \/ FlushAck
           \/ AckTimeout \/ UNCHANGED vars
  BY <1>1, <1>7 DEF BeginBootstrapPage, ReadPage, ReplyPage, Handle, StartRealtimeFlow,
     HandleStranger, HandlePresenceEvent, BufferEvent, ApplyEvent, ReceiveMiddlePage,
     FinishBootstrap, HandleAckResponse, HandleProtocolError, PersistCursor, FlushAck,
     AckTimeout, vars, serverVars, sessionVars
<1>8. QED
  BY <1>2, <1>3, <1>4, <1>5, <1>6, <1>7, <1>9 DEF Next, Server

LEMMA WireStaysTyped ==
  ASSUME Typed, [Next]_vars
  PROVE  WireTyped'
<1> USE DEF Typed, WireTyped
<1>1. CASE UNCHANGED <<job, up, down>>
  BY <1>1
<1>2. CASE PublishEvent
  <2>1. published + 1 \in Event
    BY <1>2, BoundsAreNat DEF PublishEvent, ServerTyped, Event
  <2>2. EventFrame(published + 1) \in Frame
    BY <2>1, FramesTyped
  <2>3. QED
    BY <1>2, <2>2 DEF PublishEvent, sessionVars
<1>3. CASE DeliverDirect
  <2>1. down' = down \/ \E x \in Frame : down' = Append(down, x)
    BY <1>3, DirectIsDelivered
  <2>2. QED
    BY <1>3, <2>1 DEF DeliverDirect
<1>4. CASE NotifyStranger
  BY <1>4, FramesTyped DEF NotifyStranger, sessionVars
<1>5. CASE RefuseContinuation
  BY <1>5, FramesTyped DEF RefuseContinuation, sessionVars
<1>6. CASE BeginBootstrapPage
  <2>1. Head(up) \in Request /\ Tail(up) \in Seq(Request) /\ Head(up).kind = "bootstrap"
    BY <1>6 DEF BeginBootstrapPage
  <2>2. Head(up).page \in Page /\ Head(up).snapshot \in 0..MaxEvents
    BY <2>1, RequestIsEither
  <2>3. (IF Head(up).page = 0 THEN committed ELSE Head(up).snapshot) \in 0..MaxEvents
    BY <2>2 DEF ServerTyped
  <2>4. job' \in PageJob
    BY <1>6, <2>2, <2>3, NothingIsTyped DEF BeginBootstrapPage, PageJob
  <2>5. QED
    BY <1>6, <2>1, <2>4 DEF BeginBootstrapPage
<1>7. CASE ReadPage
  <2>1. job \in PageJob
    BY <1>7 DEF ReadPage
  <2>2. [i \in OnPage(job.page) |-> value[i]] \in Versions
    <3>1. OnPage(job.page) \in SUBSET Peer
      BY DEF OnPage
    <3>2. [i \in OnPage(job.page) |-> value[i]] \in [OnPage(job.page) -> Version]
      BY <3>1 DEF ServerTyped
    <3>3. QED
      BY <3>1, <3>2, VersionsIntro
  <2>3. PICK v \in Versions : v = [i \in OnPage(job.page) |-> value[i]]
    BY <2>2
  <2>4. job' = [job EXCEPT !.values = v, !.read = TRUE]
    BY <1>7, <2>3 DEF ReadPage
  <2>5. job' \in PageJob
    BY <2>1, <2>4 DEF PageJob
  <2>6. QED
    BY <1>7, <2>5 DEF ReadPage
<1>8. CASE ReplyPage
  <2>1. job.page \in Page /\ job.snapshot \in 0..MaxEvents /\ job.values \in Versions
    BY <1>8 DEF ReplyPage, PageJob
  <2>2. PageFrame(job.page, job.snapshot, job.values) \in Frame
    BY <2>1, FramesTyped
  <2>3. QED
    BY <1>8, <2>2 DEF ReplyPage
<1>9. CASE AckCursor
  <2>1. Ack(cursor') \in Frame
    BY <1>9, ServerStaysTyped, FramesTyped DEF ServerTyped
  <2>2. QED
    BY <1>9, <2>1 DEF AckCursor
<1>10. CASE Connect \/ LoseConnection \/ Reload
  <2>1. <<AuthFrame>> \in Seq(Frame) /\ <<>> \in Seq(Frame) /\ <<>> \in Seq(Request)
    BY FramesTyped
  <2>2. job' = None /\ up' = <<>> /\ down' \in {<<AuthFrame>>, <<>>}
    BY <1>10 DEF Connect, LoseConnection, Reload
  <2>3. QED
    BY <2>1, <2>2
<1>11. CASE StartRealtimeFlow \/ HandleStranger
  <2>1. BootstrapRequest(0, 0) \in Request
    BY RequestsTyped, BoundsAreNat DEF Page
  <2>2. up' \in Seq(Request)
    <3>1. up' = up \/ up' = Append(up, BootstrapRequest(0, 0))
      BY <1>11 DEF StartRealtimeFlow, HandleStranger, StartBootstrap
    <3>2. QED
      BY <2>1, <3>1
  <2>3. down' \in Seq(Frame)
    BY <1>11, ReceivedIsHead DEF StartRealtimeFlow, HandleStranger
  <2>4. QED
    BY <1>11, <2>2, <2>3 DEF StartRealtimeFlow, HandleStranger, sessionVars
<1>12. CASE ReceiveMiddlePage
  <2>1. down' \in Seq(Frame) /\ down # <<>> /\ Head(down).kind = "page"
    BY <1>12, ReceivedIsHead DEF ReceiveMiddlePage
  <2>2. CASE StrayPage
    BY <1>12, <2>1, <2>2 DEF ReceiveMiddlePage, sessionVars
  <2>3. CASE ~StrayPage
    <3>1. Head(down).page \in Page /\ Head(down).snapshot \in 0..MaxEvents
          /\ Head(down).page < LastPage
      BY <1>12, <2>1, <2>3, StagedIsTyped DEF ReceiveMiddlePage
    <3>2. Head(down).page + 1 \in Page
      BY <3>1, BoundsAreNat DEF Page
    <3>3. BootstrapRequest(Head(down).page + 1, Head(down).snapshot) \in Request
      BY <3>1, <3>2, RequestsTyped
    <3>4. PICK r \in Request : up' = Append(up, r)
      BY <1>12, <2>3, <3>3 DEF ReceiveMiddlePage
    <3>5. job' = job
      BY <1>12 DEF ReceiveMiddlePage, sessionVars
    <3>6. up' \in Seq(Request)
      BY <3>4
    <3>7. QED
      BY <2>1, <3>5, <3>6
  <2>4. QED
    BY <2>2, <2>3
<1>13. CASE HandlePresenceEvent \/ BufferEvent \/ ApplyEvent \/ FinishBootstrap
            \/ HandleAckResponse \/ HandleProtocolError
  <2>1. down' \in Seq(Frame)
    BY <1>13, ReceivedIsHead DEF HandlePresenceEvent, BufferEvent, ApplyEvent, FinishBootstrap,
                                HandleAckResponse, HandleProtocolError
  <2>2. UNCHANGED <<job, up>>
    BY <1>13 DEF HandlePresenceEvent, BufferEvent, ApplyEvent, FinishBootstrap,
                 HandleAckResponse, HandleProtocolError, sessionVars
  <2>3. QED
    BY <2>1, <2>2
<1>14. CASE FlushAck
  <2>1. Ack(lastApplied) \in Request
    BY RequestsTyped DEF CursorTyped
  <2>2. QED
    BY <1>14, <2>1 DEF FlushAck, sessionVars
<1>15. CASE CommitEvent \/ (\E i \in Peer : ChangePresence(i)) \/ LoseDirect \/ Serve \/ PersistCursor
            \/ AckTimeout \/ UNCHANGED vars
  BY <1>1, <1>15 DEF CommitEvent, ChangePresence, LoseDirect, Serve, PersistCursor, AckTimeout,
     vars, sessionVars
<1>16. QED
  BY <1>2, <1>3, <1>4, <1>5, <1>6, <1>7, <1>8, <1>9, <1>10, <1>11, <1>12, <1>13, <1>14, <1>15
  DEF Next, Server, Handle

LEMMA ViewStaysTyped ==
  ASSUME Typed, [Next]_vars
  PROVE  ViewTyped'
<1> USE DEF Typed, ViewTyped
<1>1. CASE UNCHANGED <<wsState, stage, overlay, shown, breaks>>
  BY <1>1
<1>2. CASE Connect \/ LoseConnection \/ Reload
  <2>1. breaks' \in 0..MaxBreaks
    BY <1>2, BoundsAreNat DEF Connect, LoseConnection, Reload
  <2>2. /\ stage' \in {None} \cup Snapshot /\ overlay' \in Versions
        /\ wsState' \in {"DISCONNECTED", "CONNECTING", "BOOTSTRAPPING", "LIVE_SYNCED"}
    BY <1>2, NothingIsTyped DEF Connect, LoseConnection, Reload, viewVars
  <2>3. shown' \in [Peer -> Version]
    <3>1. shown' = shown \/ shown' = [i \in Peer |-> 0]
      BY <1>2 DEF Connect, LoseConnection, Reload, viewVars
    <3>2. 0 \in Version
      BY BoundsAreNat DEF Version
    <3>3. QED
      BY <3>1, <3>2
  <2>4. QED
    BY <2>1, <2>2, <2>3
<1>3. CASE StartRealtimeFlow \/ HandleStranger
  BY <1>3, NothingIsTyped DEF StartRealtimeFlow, HandleStranger, StartBootstrap
<1>4. CASE HandlePresenceEvent
  <2>1. Head(down) \in Frame /\ Head(down).kind = "direct"
    BY <1>4, ReceivedIsHead DEF HandlePresenceEvent
  <2>2. Head(down).peer \in Peer /\ Head(down).version \in Version
    BY <2>1, FrameOfKind
  <2>3. PICK i \in Peer, v \in Version : i = Head(down).peer /\ v = Head(down).version
    BY <2>2
  <2>4. shown' = [shown EXCEPT ![i] = NewerPresence(i, shown[i], v)]
    BY <1>4, <2>3 DEF HandlePresenceEvent
  <2>5. shown' \in [Peer -> Version]
    BY <2>4, NewerIsTyped
  <2>6. overlay' \in Versions
    <3>1. CASE overlay' = overlay
      BY <3>1
    <3>2. CASE overlay' # overlay
      <4>1. overlay' = [j \in DOMAIN overlay \cup {i} |->
                          IF j # i THEN overlay[j]
                          ELSE IF i \in DOMAIN overlay THEN NewerPresence(i, overlay[i], v) ELSE v]
        BY <1>4, <2>3, <3>2 DEF HandlePresenceEvent
      <4>2. /\ DOMAIN overlay \cup {i} \in SUBSET Peer
            /\ \A j \in DOMAIN overlay : overlay[j] \in Version
        BY VersionsElim
      <4>3. overlay' \in [(DOMAIN overlay \cup {i}) -> Version]
        BY <4>1, <4>2, NewerIsTyped
      <4>4. QED
        BY <4>2, <4>3, VersionsIntro
    <3>3. QED
      BY <3>1, <3>2
  <2>7. QED
    BY <1>4, <2>5, <2>6 DEF HandlePresenceEvent
<1>5. CASE ReceiveMiddlePage
  <2>1. CASE StrayPage
    BY <1>5, <2>1 DEF ReceiveMiddlePage
  <2>2. CASE ~StrayPage
    <3>1. down # <<>> /\ Head(down).kind = "page"
      BY <1>5, ReceivedIsHead DEF ReceiveMiddlePage
    <3>2. Staged \in Snapshot
      BY <2>2, <3>1, StagedIsTyped
    <3>3. QED
      BY <1>5, <2>2, <3>2 DEF ReceiveMiddlePage
  <2>3. QED
    BY <2>1, <2>2
<1>6. CASE FinishBootstrap
  <2>1. down # <<>> /\ Head(down).kind = "page" /\ ~StrayPage
    BY <1>6, ReceivedIsHead DEF FinishBootstrap
  <2>2. Staged \in Snapshot
    BY <2>1, StagedIsTyped
  <2>3. ASSUME NEW i \in Peer PROVE SnapshotShown(i) \in Version
    <3>1. Staged.values \in Versions
      BY <2>2 DEF Snapshot
    <3>2. /\ \A j \in DOMAIN Staged.values : Staged.values[j] \in Version
          /\ \A j \in DOMAIN overlay : overlay[j] \in Version
          /\ 0 \in Version
      BY <3>1, VersionsElim, BoundsAreNat DEF Version
    <3>3. QED
      BY <3>2, NewerIsTyped DEF SnapshotShown
  <2>4. shown' \in [Peer -> Version]
    BY <1>6, <2>3 DEF FinishBootstrap
  <2>5. QED
    BY <1>6, <2>2, <2>4, NothingIsTyped DEF FinishBootstrap
<1>7. CASE LoseDirect
  <2>1. breaks' \in 0..MaxBreaks
    BY <1>7, BoundsAreNat DEF LoseDirect
  <2>2. UNCHANGED <<wsState, stage, overlay, shown>>
    BY <1>7 DEF LoseDirect, viewVars
  <2>3. QED
    BY <2>1, <2>2
<1>8. CASE CommitEvent \/ (\E i \in Peer : ChangePresence(i)) \/ NotifyStranger
           \/ RefuseContinuation \/ Server \/ PersistCursor \/ FlushAck \/ AckTimeout
           \/ BufferEvent \/ ApplyEvent \/ HandleAckResponse \/ HandleProtocolError
           \/ UNCHANGED vars
  BY <1>1, <1>8 DEF CommitEvent, ChangePresence, NotifyStranger, RefuseContinuation, Server,
     PublishEvent, DeliverDirect, Serve, BeginBootstrapPage, ReadPage, ReplyPage, AckCursor,
     PersistCursor, FlushAck, AckTimeout, BufferEvent, ApplyEvent, HandleAckResponse,
     HandleProtocolError, vars, viewVars
<1>9. QED
  BY <1>2, <1>3, <1>4, <1>5, <1>6, <1>7, <1>8 DEF Next, Handle

LEMMA BufferStaysTyped ==
  ASSUME Typed, [Next]_vars
  PROVE  BufferTyped'
<1>1. CASE UNCHANGED <<buffered, dropped>>
  BY <1>1 DEF Typed, BufferTyped
<1>2. CASE buffered' = {} /\ dropped' \in {{}, dropped}
  BY <1>2, FS_EmptySet, BoundsAreNat DEF Typed, BufferTyped
<1>3. CASE BufferEvent
  <2>1. Head(down) \in Frame /\ Head(down).kind = "event"
    BY <1>3, ReceivedIsHead DEF BufferEvent
  <2>2. Head(down).seq \in Event
    BY <2>1, FrameOfKind
  <2>3. buffered' = Newest(buffered \cup {Head(down).seq})
    BY <1>3 DEF BufferEvent
  <2>4. dropped' \subseteq dropped \cup buffered \cup {Head(down).seq}
    BY <1>3 DEF BufferEvent
  <2>5. QED
    BY <2>2, <2>3, <2>4, NewestIsTyped DEF Typed, BufferTyped
<1>4. QED
  BY <1>1, <1>2, <1>3 DEF Next, CommitEvent, ChangePresence, LoseDirect, NotifyStranger, RefuseContinuation,
     Server, PublishEvent, DeliverDirect, Serve, BeginBootstrapPage, ReadPage, ReplyPage, AckCursor,
     Connect, LoseConnection, Reload, Handle, StartRealtimeFlow, HandleStranger, StartBootstrap,
     HandlePresenceEvent, ApplyEvent, ReceiveMiddlePage, FinishBootstrap, HandleAckResponse,
     HandleProtocolError, PersistCursor, FlushAck, AckTimeout, vars, viewVars

LEMMA CursorStaysTyped ==
  ASSUME Typed, [Next]_vars
  PROVE  CursorTyped'
<1> USE DEF Typed, CursorTyped
<1>1. CASE UNCHANGED <<reflected, lastApplied, persisted, lastAcked>>
  BY <1>1
<1>2. CASE Reload
  BY <1>2, BoundsAreNat DEF Reload
<1>3. CASE ApplyEvent
  <2>1. Head(down) \in Frame /\ Head(down).kind = "event"
    BY <1>3, ReceivedIsHead DEF ApplyEvent
  <2>2. Head(down).seq \in Event /\ Head(down).seq \in 0..MaxEvents
    BY <2>1, FrameOfKind, BoundsAreNat DEF Event
  <2>3. reflected' \subseteq Event /\ lastApplied' \in 0..MaxEvents
    BY <1>3, <2>2 DEF ApplyEvent
  <2>4. QED
    BY <1>3, <2>3 DEF ApplyEvent
<1>4. CASE FinishBootstrap
  <2> DEFINE snapshot == Head(down).snapshot
             fresh == {e \in buffered : e > snapshot}
  <2>1. down # <<>> /\ Head(down).kind = "page" /\ ~StrayPage
    BY <1>4, ReceivedIsHead DEF FinishBootstrap
  <2>2. snapshot \in 0..MaxEvents
    BY <2>1, StagedIsTyped
  <2>3. fresh \subseteq Event /\ ({snapshot} \cup fresh) \in SUBSET (0..MaxEvents)
    <3>1. buffered \subseteq Event /\ Event \subseteq 0..MaxEvents
      BY BoundsAreNat DEF BufferTyped, Event
    <3>2. fresh \subseteq buffered
      OBVIOUS
    <3>3. QED
      BY <2>2, <3>1, <3>2
  <2>4. Max({snapshot} \cup fresh) \in {snapshot} \cup fresh
    BY <2>3, MaxIsGreatest, BoundsAreNat
  <2>5. lastApplied' \in 0..MaxEvents
    BY <1>4, <2>3, <2>4 DEF FinishBootstrap
  <2>6. 1..snapshot \subseteq Event
    BY <2>2, BoundsAreNat DEF Event
  <2>7. reflected' \subseteq Event
    BY <1>4, <2>3, <2>6 DEF FinishBootstrap
  <2>8. persisted' \in 0..MaxEvents /\ lastAcked' = lastAcked
    BY <1>4, <2>2 DEF FinishBootstrap
  <2>9. QED
    BY <2>5, <2>7, <2>8
<1>5. CASE PersistCursor \/ FlushAck
  BY <1>5 DEF PersistCursor, FlushAck, viewVars
<1>6. CASE HandleAckResponse
  <2>1. Head(down) \in Frame /\ Head(down).kind = "ack"
    BY <1>6, ReceivedIsHead DEF HandleAckResponse
  <2>2. Head(down).seq \in 0..MaxEvents
    BY <2>1, FrameOfKind
  <2>3. QED
    BY <1>6, <2>2 DEF HandleAckResponse, viewVars
<1>7. CASE ~(Reload \/ ApplyEvent \/ FinishBootstrap \/ PersistCursor \/ FlushAck \/ HandleAckResponse)
  BY <1>1, <1>7 DEF Next, CommitEvent, ChangePresence, LoseDirect, NotifyStranger,
     RefuseContinuation, Server,
     PublishEvent, DeliverDirect, Serve, BeginBootstrapPage, ReadPage, ReplyPage, AckCursor,
     Connect, LoseConnection, Handle, StartRealtimeFlow, HandleStranger, HandlePresenceEvent,
     BufferEvent, ReceiveMiddlePage, HandleProtocolError, AckTimeout, vars, viewVars, ackVars
<1>8. QED
  BY <1>2, <1>3, <1>4, <1>5, <1>6, <1>7

LEMMA StepKeepsTypes ==
  ASSUME Typed, [Next]_vars
  PROVE  Typed'
  BY ServerStaysTyped, WireStaysTyped, ViewStaysTyped, BufferStaysTyped, CursorStaysTyped,
     FlagsStayTyped DEF Typed

(* What goes up and down the connection, what the client keeps, and the      *)
(* numbers it counts events with have their types; the buffer keeps its limit. *)
THEOREM ClientTypeCorrect == Spec => []TypeOK
<1>1. Init => Typed
  BY InitIsTyped
<1>2. Typed /\ [Next]_vars => Typed'
  BY StepKeepsTypes
<1>3. Typed => TypeOK
  BY TypedIsTypeOK
<1>4. QED
  BY <1>1, <1>2, <1>3, PTL DEF Spec

-----------------------------------------------------------------------------
(* Sequences of frames *)

LEMMA WithoutLemma ==
  ASSUME NEW S, NEW s \in Seq(S), NEW kind
  PROVE  /\ Without(s, kind) => AtMostOne(s, kind)
         /\ \A x \in S : Without(s, kind) /\ x.kind # kind => Without(Append(s, x), kind)
         /\ \A x \in S : AtMostOne(s, kind) /\ x.kind # kind => AtMostOne(Append(s, x), kind)
         /\ \A x \in S : Without(s, kind) => AtMostOne(Append(s, x), kind)
         /\ s # <<>> /\ Without(s, kind) => Without(Tail(s), kind)
         /\ s # <<>> /\ AtMostOne(s, kind) => AtMostOne(Tail(s), kind)
         /\ s # <<>> /\ AtMostOne(s, kind) /\ Head(s).kind = kind => Without(Tail(s), kind)
<1> USE DEF Without, AtMostOne
<1>1. Without(s, kind) => AtMostOne(s, kind)
  OBVIOUS
<1>2. ASSUME NEW x \in S
      PROVE  /\ Without(s, kind) /\ x.kind # kind => Without(Append(s, x), kind)
             /\ AtMostOne(s, kind) /\ x.kind # kind => AtMostOne(Append(s, x), kind)
             /\ Without(s, kind) => AtMostOne(Append(s, x), kind)
  <2>1. /\ DOMAIN Append(s, x) = 1..(Len(s) + 1) /\ DOMAIN s = 1..Len(s) /\ Len(s) \in Nat
        /\ Append(s, x)[Len(s) + 1] = x
        /\ \A k \in 1..Len(s) : Append(s, x)[k] = s[k]
    OBVIOUS
  <2>2. \A k \in DOMAIN Append(s, x) : k \in DOMAIN s \/ k = Len(s) + 1
    BY <2>1
  <2>3. QED
    BY <2>1, <2>2
<1>3. ASSUME s # <<>>
      PROVE  /\ Without(s, kind) => Without(Tail(s), kind)
             /\ AtMostOne(s, kind) => AtMostOne(Tail(s), kind)
             /\ AtMostOne(s, kind) /\ Head(s).kind = kind => Without(Tail(s), kind)
  <2>1. /\ DOMAIN Tail(s) = 1..(Len(s) - 1) /\ DOMAIN s = 1..Len(s) /\ Len(s) \in Nat \ {0}
        /\ Head(s) = s[1] /\ 1 \in DOMAIN s
        /\ \A k \in 1..(Len(s) - 1) : Tail(s)[k] = s[k + 1]
    BY <1>3
  <2>2. \A k \in DOMAIN Tail(s) : k \in Nat /\ k + 1 \in DOMAIN s /\ k + 1 # 1
    BY <2>1
  <2>3. QED
    BY <2>1, <2>2
<1>4. QED
  BY <1>1, <1>2, <1>3

-----------------------------------------------------------------------------
(* One answer at a time *)

(* Frames of other kinds come and go. *)
LEMMA OneAnswerKept ==
  ASSUME Typed, OneAnswer, Typed', UNCHANGED wsState,
         job' = job \/ job # None,
         \/ up' = up
         \/ up # <<>> /\ up' = Tail(up)
         \/ \E r \in Request : r.kind # "bootstrap" /\ up' = Append(up, r),
         \/ down' = down
         \/ down # <<>> /\ down' = Tail(down)
         \/ \E x \in Frame : x.kind # "page" /\ down' = Append(down, x)
  PROVE  OneAnswer'
<1>1. up \in Seq(Request) /\ down \in Seq(Frame)
  BY DEF Typed, WireTyped
<1>2. (Without(up, "bootstrap") => Without(up, "bootstrap")')
      /\ (AtMostOne(up, "bootstrap") => AtMostOne(up, "bootstrap")')
  <2>1. CASE up' = up
    BY <2>1 DEF Without, AtMostOne
  <2>2. CASE up # <<>> /\ up' = Tail(up)
    <3>1. /\ Without(up, "bootstrap") => Without(Tail(up), "bootstrap")
          /\ AtMostOne(up, "bootstrap") => AtMostOne(Tail(up), "bootstrap")
      BY <1>1, <2>2, WithoutLemma
    <3>2. QED
      BY <2>2, <3>1 DEF Without, AtMostOne
  <2>3. CASE \E r \in Request : r.kind # "bootstrap" /\ up' = Append(up, r)
    <3>1. PICK r \in Request : r.kind # "bootstrap" /\ up' = Append(up, r)
      BY <2>3
    <3>2. /\ Without(up, "bootstrap") => Without(Append(up, r), "bootstrap")
          /\ AtMostOne(up, "bootstrap") => AtMostOne(Append(up, r), "bootstrap")
      BY <1>1, <3>1, WithoutLemma
    <3>3. QED
      BY <3>1, <3>2 DEF Without, AtMostOne
  <2>4. QED
    BY <2>1, <2>2, <2>3
<1>3. (Without(down, "page") => Without(down, "page")')
      /\ (AtMostOne(down, "page") => AtMostOne(down, "page")')
  <2>1. CASE down' = down
    BY <2>1 DEF Without, AtMostOne
  <2>2. CASE down # <<>> /\ down' = Tail(down)
    <3>1. /\ Without(down, "page") => Without(Tail(down), "page")
          /\ AtMostOne(down, "page") => AtMostOne(Tail(down), "page")
      BY <1>1, <2>2, WithoutLemma
    <3>2. QED
      BY <2>2, <3>1 DEF Without, AtMostOne
  <2>3. CASE \E x \in Frame : x.kind # "page" /\ down' = Append(down, x)
    <3>1. PICK x \in Frame : x.kind # "page" /\ down' = Append(down, x)
      BY <2>3
    <3>2. /\ Without(down, "page") => Without(Append(down, x), "page")
          /\ AtMostOne(down, "page") => AtMostOne(Append(down, x), "page")
      BY <1>1, <3>1, WithoutLemma
    <3>3. QED
      BY <3>1, <3>2 DEF Without, AtMostOne
  <2>4. QED
    BY <2>1, <2>2, <2>3
<1>4. QED
  BY <1>2, <1>3 DEF OneAnswer, NoneUnderWay, Bootstrapping

(* A bootstrap begins. *)
LEMMA OneAnswerBegins ==
  ASSUME Typed, OneAnswer, ~Bootstrapping, StartBootstrap, UNCHANGED job,
         down # <<>>, down' = Tail(down)
  PROVE  OneAnswer'
<1>1. Without(up, "bootstrap") /\ Without(down, "page") /\ job = None
  BY DEF OneAnswer, NoneUnderWay
<1>2. up \in Seq(Request) /\ down \in Seq(Frame) /\ BootstrapRequest(0, 0) \in Request
  BY RequestsTyped, BoundsAreNat DEF Typed, WireTyped, Page
<1>3. up' = Append(up, BootstrapRequest(0, 0)) /\ Bootstrapping'
  BY DEF StartBootstrap, Bootstrapping
<1>4. AtMostOne(Append(up, BootstrapRequest(0, 0)), "bootstrap")
  BY <1>1, <1>2, WithoutLemma
<1>5. Without(Tail(down), "page") /\ AtMostOne(Tail(down), "page")
  BY <1>1, <1>2, WithoutLemma
<1>6. AtMostOne(up, "bootstrap")' /\ Without(down, "page")' /\ AtMostOne(down, "page")'
  BY <1>3, <1>4, <1>5 DEF Without, AtMostOne
<1>7. QED
  BY <1>1, <1>3, <1>6 DEF OneAnswer

LEMMA OneAnswerCleared ==
  ASSUME up' = <<>>, down' = <<>> \/ down' = <<AuthFrame>>, job' = None
  PROVE  OneAnswer'
<1>1. /\ DOMAIN up' = {} /\ \A k \in DOMAIN down' : k = 1 /\ down'[k] = AuthFrame
  OBVIOUS
<1>2. AuthFrame.kind # "page"
  BY FramesTyped
<1>3. Without(up, "bootstrap")' /\ Without(down, "page")'
  BY <1>1, <1>2 DEF Without
<1>4. AtMostOne(up, "bootstrap")' /\ AtMostOne(down, "page")'
  BY <1>3 DEF Without, AtMostOne
<1>5. QED
  BY <1>3, <1>4 DEF OneAnswer, NoneUnderWay

(* AuthOnce says that only a client that is not bootstrapping is told to begin. *)
LEMMA OneAnswerStep ==
  ASSUME Typed, Typed', OneAnswer, AuthOnce, [Next]_vars
  PROVE  OneAnswer'
<1> USE DEF sessionVars, viewVars
<1>1. up \in Seq(Request) /\ down \in Seq(Frame)
  BY DEF Typed, WireTyped
<1>2. CASE CommitEvent \/ (\E i \in Peer : ChangePresence(i)) \/ LoseDirect \/ Serve \/ PersistCursor
           \/ AckTimeout \/ UNCHANGED vars
  BY <1>2, OneAnswerKept DEF CommitEvent, ChangePresence, LoseDirect, Serve, PersistCursor, AckTimeout, vars
<1>3. CASE PublishEvent \/ DeliverDirect \/ NotifyStranger
  <2>1. \/ down' = down
        \/ \E x \in Frame : x.kind # "page" /\ down' = Append(down, x)
    <3>1. CASE PublishEvent
      <4>1. published + 1 \in Event
        BY <3>1, BoundsAreNat DEF PublishEvent, Typed, ServerTyped, Event
      <4>2. EventFrame(published + 1) \in Frame /\ EventFrame(published + 1).kind = "event"
        BY <4>1, FramesTyped
      <4>3. QED
        BY <3>1, <4>2 DEF PublishEvent
    <3>2. CASE DeliverDirect
      <4>1. down' = down \/ \E x \in Frame : x.kind = "direct" /\ down' = Append(down, x)
        BY <3>2, DirectIsDelivered
      <4>2. QED
        BY <4>1
    <3>3. CASE NotifyStranger
      BY <3>3, FramesTyped DEF NotifyStranger
    <3>4. QED
      BY <1>3, <3>1, <3>2, <3>3
  <2>2. UNCHANGED <<wsState, job, up>>
    BY <1>3 DEF PublishEvent, DeliverDirect, NotifyStranger
  <2>3. QED
    BY <2>1, <2>2, OneAnswerKept
<1>4. CASE RefuseContinuation \/ AckCursor
  <2>1. \E x \in Frame : x.kind # "page" /\ down' = Append(down, x)
    <3>1. CASE RefuseContinuation
      BY <3>1, FramesTyped DEF RefuseContinuation
    <3>2. CASE AckCursor
      <4>1. cursor' \in 0..MaxEvents
        BY DEF Typed, ServerTyped
      <4>2. Ack(cursor') \in Frame /\ Ack(cursor').kind = "ack"
        BY <4>1, FramesTyped, RequestsTyped
      <4>3. QED
        BY <3>2, <4>2 DEF AckCursor
    <3>3. QED
      BY <1>4, <3>1, <3>2
  <2>2. UNCHANGED <<wsState, job>> /\ up # <<>> /\ up' = Tail(up)
    BY <1>4 DEF RefuseContinuation, AckCursor
  <2>3. QED
    BY <2>1, <2>2, OneAnswerKept
<1>5. CASE BeginBootstrapPage
  <2>1. up # <<>> /\ Head(up).kind = "bootstrap" /\ up' = Tail(up) /\ job = None
        /\ UNCHANGED <<wsState, down>>
    BY <1>5 DEF BeginBootstrapPage
  <2>2. 1 \in DOMAIN up /\ up[1] = Head(up)
    BY <1>1, <2>1
  <2>3. ~Without(up, "bootstrap")
    BY <2>1, <2>2 DEF Without
  <2>4. Without(down, "page") /\ AtMostOne(up, "bootstrap") /\ Bootstrapping
    BY <2>3 DEF OneAnswer, NoneUnderWay
  <2>5. Without(Tail(up), "bootstrap")
    BY <1>1, <2>1, <2>4, WithoutLemma
  <2>6. AtMostOne(down, "page") /\ AtMostOne(Tail(up), "bootstrap")
    BY <1>1, <2>1, <2>4, <2>5 DEF OneAnswer, AtMostOne, Without
  <2>7. QED
    BY <2>1, <2>4, <2>5, <2>6 DEF OneAnswer, Bootstrapping, Without, AtMostOne
<1>6. CASE ReadPage
  BY <1>6, OneAnswerKept DEF ReadPage
<1>7. CASE ReplyPage
  <2>1. job # None /\ job' = None /\ UNCHANGED <<wsState, up>>
        /\ down' = Append(down, PageFrame(job.page, job.snapshot, job.values))
    BY <1>7 DEF ReplyPage
  <2>2. Without(up, "bootstrap") /\ Without(down, "page") /\ Bootstrapping
    BY <2>1 DEF OneAnswer, NoneUnderWay
  <2>3. PageFrame(job.page, job.snapshot, job.values) \in Frame
    <3>1. job.page \in Page /\ job.snapshot \in 0..MaxEvents /\ job.values \in Versions
      BY <2>1 DEF Typed, WireTyped, PageJob
    <3>2. QED
      BY <3>1, FramesTyped
  <2>4. AtMostOne(down', "page") /\ AtMostOne(up, "bootstrap")
    BY <1>1, <2>1, <2>2, <2>3, WithoutLemma
  <2>5. QED
    BY <2>1, <2>2, <2>4 DEF OneAnswer, Bootstrapping, Without, AtMostOne
<1>8. CASE Connect \/ LoseConnection \/ Reload
  BY <1>8, OneAnswerCleared DEF Connect, LoseConnection, Reload
<1>9. CASE StartRealtimeFlow
  <2>1. down # <<>> /\ Head(down).kind = "auth" /\ down' = Tail(down)
    BY <1>9 DEF StartRealtimeFlow, Receive
  <2>2. 1 \in DOMAIN down /\ down[1] = Head(down)
    BY <1>1, <2>1
  <2>3. ~Bootstrapping
    BY <2>1, <2>2 DEF AuthOnce, Bootstrapping
  <2>4. QED
    BY <1>9, <2>1, <2>3, OneAnswerBegins DEF StartRealtimeFlow
<1>10. CASE HandleStranger
  <2>1. down # <<>> /\ down' = Tail(down) /\ UNCHANGED job
    BY <1>10 DEF HandleStranger, Receive
  <2>2. CASE wsState = "LIVE_SYNCED"
    BY <1>10, <2>1, <2>2, OneAnswerBegins DEF HandleStranger, Bootstrapping
  <2>3. CASE wsState # "LIVE_SYNCED"
    BY <1>10, <2>1, <2>3, OneAnswerKept DEF HandleStranger
  <2>4. QED
    BY <2>2, <2>3
<1>11. CASE HandlePresenceEvent \/ BufferEvent \/ ApplyEvent \/ HandleAckResponse
            \/ HandleProtocolError
  <2>1. down # <<>> /\ down' = Tail(down) /\ UNCHANGED <<job, up, wsState>>
    BY <1>11 DEF HandlePresenceEvent, BufferEvent, ApplyEvent, HandleAckResponse,
                 HandleProtocolError, Receive
  <2>2. QED
    BY <2>1, OneAnswerKept
<1>12. CASE ReceiveMiddlePage \/ FinishBootstrap
  <2>1. down # <<>> /\ Head(down).kind = "page" /\ down' = Tail(down) /\ UNCHANGED job
    BY <1>12 DEF ReceiveMiddlePage, FinishBootstrap, Receive
  <2>2. 1 \in DOMAIN down /\ down[1] = Head(down)
    BY <1>1, <2>1
  <2>3. ~Without(down, "page")
    BY <2>1, <2>2 DEF Without
  <2>4. Without(up, "bootstrap") /\ job = None /\ Bootstrapping /\ AtMostOne(down, "page")
    BY <2>3 DEF OneAnswer, NoneUnderWay
  <2>5. Without(Tail(down), "page")
    BY <1>1, <2>1, <2>4, WithoutLemma
  <2>6. Without(down, "page")'
    BY <2>1, <2>5 DEF Without
  <2>7. AtMostOne(down, "page")' /\ AtMostOne(up, "bootstrap")
    BY <2>4, <2>6 DEF AtMostOne, Without
  <2>8. CASE UNCHANGED up
    <3>1. Without(up, "bootstrap")' /\ AtMostOne(up, "bootstrap")'
      BY <2>4, <2>7, <2>8 DEF Without, AtMostOne
    <3>2. QED
      BY <2>1, <2>4, <2>6, <2>7, <3>1 DEF OneAnswer, NoneUnderWay
  <2>9. CASE up' # up
    <3>1. /\ up' = Append(up, BootstrapRequest(Head(down).page + 1, Head(down).snapshot))
          /\ UNCHANGED wsState /\ ~StrayPage /\ Head(down).page < LastPage
      BY <1>12, <2>9 DEF ReceiveMiddlePage, FinishBootstrap
    <3>2. Head(down).page \in Page /\ Head(down).snapshot \in 0..MaxEvents
      BY <2>1, <3>1, StagedIsTyped
    <3>3. Head(down).page + 1 \in Page
      BY <3>1, <3>2, BoundsAreNat DEF Page
    <3>4. BootstrapRequest(Head(down).page + 1, Head(down).snapshot) \in Request
      BY <3>2, <3>3, RequestsTyped
    <3>5. AtMostOne(up', "bootstrap")
      BY <1>1, <2>4, <3>1, <3>4, WithoutLemma
    <3>6. AtMostOne(up, "bootstrap")'
      BY <3>5 DEF AtMostOne
    <3>7. QED
      BY <2>1, <2>4, <2>6, <2>7, <3>1, <3>6 DEF OneAnswer, Bootstrapping
  <2>10. QED
    BY <2>8, <2>9
<1>13. CASE FlushAck
  <2>1. Ack(lastApplied) \in Request /\ Ack(lastApplied).kind # "bootstrap"
    BY RequestsTyped DEF Typed, CursorTyped
  <2>2. QED
    BY <1>13, <2>1, OneAnswerKept DEF FlushAck
<1>14. QED
  BY <1>2, <1>3, <1>4, <1>5, <1>6, <1>7, <1>8, <1>9, <1>10, <1>11, <1>12, <1>13
  DEF Next, Server, Handle

-----------------------------------------------------------------------------
(* What a step does to the two directions of the connection *)

Cleared == up' = <<>> /\ (down' = <<>> \/ down' = <<AuthFrame>>) /\ ~Bootstrapping' /\ ~Live'

Appended(x) ==
  /\ down' = Append(down, x)
  /\ UNCHANGED <<wsState, lastApplied, buffered, session, committed>>
  /\ \/ x.kind \notin {"auth", "page", "event", "direct"} /\ published' = published
     \/ x.kind = "direct" /\ DeliverDirect /\ published' = published
     \/ x.kind = "page" /\ ReplyPage /\ x.snapshot = job.snapshot
     \/ x.kind = "event" /\ PublishEvent /\ x.seq = published + 1

LEMMA DownStep ==
  ASSUME Typed, Typed', [Next]_vars
  PROVE  \/ down' = down /\ UNCHANGED wsState
         \/ down # <<>> /\ down' = Tail(down) /\ Handle
         \/ (Connect \/ LoseConnection \/ Reload) /\ Cleared
         \/ \E x \in Frame : Appended(x)
<1> USE DEF sessionVars, serverVars, viewVars
<1>1. CASE PublishEvent
  <2>1. published + 1 \in Event
    BY <1>1, BoundsAreNat DEF PublishEvent, Typed, ServerTyped, Event
  <2>2. PICK x \in Frame : x = EventFrame(published + 1) /\ x.kind = "event" /\ x.seq = published + 1
    BY <2>1, FramesTyped
  <2>3. CASE session = "serving"
    BY <1>1, <2>2, <2>3 DEF PublishEvent, Appended
  <2>4. CASE session # "serving"
    BY <1>1, <2>4 DEF PublishEvent
  <2>5. QED
    BY <2>3, <2>4
<1>2. CASE DeliverDirect
  <2>1. down' = down \/ \E x \in Frame : x.kind = "direct" /\ down' = Append(down, x)
    BY <1>2, DirectIsDelivered
  <2>2. UNCHANGED <<wsState, lastApplied, buffered, session, committed, published>>
    BY <1>2 DEF DeliverDirect
  <2>3. QED
    BY <1>2, <2>1, <2>2 DEF Appended
<1>3. CASE NotifyStranger
  BY <1>3, FramesTyped DEF NotifyStranger, Appended
<1>4. CASE RefuseContinuation
  BY <1>4, FramesTyped DEF RefuseContinuation, Appended
<1>5. CASE AckCursor
  <2>1. cursor' \in 0..MaxEvents
    BY DEF Typed, ServerTyped
  <2>2. PICK x \in Frame : x = Ack(cursor') /\ x.kind = "ack"
    BY <2>1, FramesTyped, RequestsTyped
  <2>3. QED
    BY <1>5, <2>2 DEF AckCursor, Appended
<1>6. CASE ReplyPage
  <2>1. job.page \in Page /\ job.snapshot \in 0..MaxEvents /\ job.values \in Versions
    BY <1>6 DEF ReplyPage, Typed, WireTyped, PageJob
  <2>2. PICK x \in Frame : /\ x = PageFrame(job.page, job.snapshot, job.values)
                           /\ x.kind = "page" /\ x.snapshot = job.snapshot
    BY <2>1, FramesTyped
  <2>3. QED
    BY <1>6, <2>2 DEF ReplyPage, Appended
<1>7. CASE Connect \/ LoseConnection \/ Reload
  BY <1>7 DEF Connect, LoseConnection, Reload, Cleared, Bootstrapping, Live
<1>8. CASE Handle
  BY <1>8 DEF Handle, StartRealtimeFlow, HandleStranger, HandlePresenceEvent, BufferEvent,
     ApplyEvent, ReceiveMiddlePage, FinishBootstrap, HandleAckResponse, HandleProtocolError, Receive
<1>9. CASE CommitEvent \/ (\E i \in Peer : ChangePresence(i)) \/ LoseDirect \/ Serve \/ BeginBootstrapPage
           \/ ReadPage \/ PersistCursor \/ FlushAck \/ AckTimeout \/ UNCHANGED vars
  BY <1>9 DEF CommitEvent, ChangePresence, LoseDirect, Serve, BeginBootstrapPage, ReadPage, PersistCursor,
              FlushAck, AckTimeout, vars
<1>10. QED
  BY <1>1, <1>2, <1>3, <1>4, <1>5, <1>6, <1>7, <1>8, <1>9 DEF Next, Server

Requested(r) ==
  /\ up' = Append(up, r)
  /\ \/ r.kind = "ack" /\ FlushAck /\ r.seq = lastApplied
     \/ r.kind = "bootstrap" /\ r.page = 0 /\ (StartRealtimeFlow \/ HandleStranger)
     \/ /\ r.kind = "bootstrap" /\ ReceiveMiddlePage
        /\ down # <<>> /\ Head(down).kind = "page" /\ r.snapshot = Head(down).snapshot

LEMMA UpStep ==
  ASSUME Typed, [Next]_vars
  PROVE  \/ up' = up
         \/ up # <<>> /\ up' = Tail(up)
         \/ Cleared
         \/ \E r \in Request : Requested(r)
<1> USE DEF sessionVars, serverVars, viewVars
<1>1. CASE StartRealtimeFlow \/ HandleStranger
  <2>1. PICK r \in Request : r = BootstrapRequest(0, 0) /\ r.kind = "bootstrap" /\ r.page = 0
    BY RequestsTyped, BoundsAreNat DEF Page
  <2>2. up' = up \/ up' = Append(up, r)
    BY <1>1, <2>1 DEF StartRealtimeFlow, HandleStranger, StartBootstrap
  <2>3. QED
    BY <1>1, <2>1, <2>2 DEF Requested
<1>2. CASE ReceiveMiddlePage
  <2>1. down # <<>> /\ Head(down).kind = "page"
    BY <1>2, ReceivedIsHead DEF ReceiveMiddlePage
  <2>2. CASE StrayPage
    BY <1>2, <2>2 DEF ReceiveMiddlePage
  <2>3. CASE ~StrayPage
    <3>1. /\ Head(down).page \in Page /\ Head(down).snapshot \in 0..MaxEvents
          /\ Head(down).page < LastPage
      BY <1>2, <2>1, <2>3, StagedIsTyped DEF ReceiveMiddlePage
    <3>2. Head(down).page + 1 \in Page
      BY <3>1, BoundsAreNat DEF Page
    <3>3. PICK r \in Request : /\ r = BootstrapRequest(Head(down).page + 1, Head(down).snapshot)
                               /\ r.kind = "bootstrap" /\ r.snapshot = Head(down).snapshot
      BY <3>1, <3>2, RequestsTyped
    <3>4. up' = Append(up, r)
      BY <1>2, <2>3, <3>3 DEF ReceiveMiddlePage
    <3>5. QED
      BY <1>2, <2>1, <3>3, <3>4 DEF Requested
  <2>4. QED
    BY <2>2, <2>3
<1>3. CASE FlushAck
  <2>1. PICK r \in Request : r = Ack(lastApplied) /\ r.kind = "ack" /\ r.seq = lastApplied
    BY RequestsTyped DEF Typed, CursorTyped
  <2>2. QED
    BY <1>3, <2>1 DEF FlushAck, Requested
<1>4. CASE Connect \/ LoseConnection \/ Reload
  BY <1>4 DEF Connect, LoseConnection, Reload, Cleared, Bootstrapping, Live
<1>5. CASE CommitEvent \/ (\E i \in Peer : ChangePresence(i)) \/ LoseDirect \/ NotifyStranger
           \/ RefuseContinuation \/ Server \/ HandlePresenceEvent \/ BufferEvent \/ ApplyEvent
           \/ FinishBootstrap \/ HandleAckResponse \/ HandleProtocolError \/ PersistCursor
           \/ AckTimeout \/ UNCHANGED vars
  BY <1>5 DEF CommitEvent, ChangePresence, LoseDirect, NotifyStranger,
     RefuseContinuation, Server, PublishEvent,
     DeliverDirect, Serve, BeginBootstrapPage, ReadPage, ReplyPage, AckCursor, HandlePresenceEvent,
     BufferEvent, ApplyEvent, FinishBootstrap, HandleAckResponse, HandleProtocolError, PersistCursor,
     AckTimeout, vars
<1>6. QED
  BY <1>1, <1>2, <1>3, <1>4, <1>5 DEF Next, Handle

(* What is left of a sequence, and what is added to it. *)
LEMMA TailLemma ==
  ASSUME NEW S, NEW s \in Seq(S), s # <<>>
  PROVE  /\ 1 \in DOMAIN s /\ s[1] = Head(s) /\ Head(s) \in S
         /\ \A k \in DOMAIN Tail(s) :
              k \in Nat /\ k >= 1 /\ k + 1 \in DOMAIN s /\ Tail(s)[k] = s[k + 1]
         /\ \A k \in DOMAIN s : k = 1 \/ (k - 1 \in DOMAIN Tail(s) /\ Tail(s)[k - 1] = s[k])
  OBVIOUS

LEMMA AppendLemma ==
  ASSUME NEW S, NEW s \in Seq(S), NEW x \in S
  PROVE  /\ Len(s) + 1 \in DOMAIN Append(s, x) /\ Append(s, x)[Len(s) + 1] = x
         /\ \A k \in DOMAIN s : k \in DOMAIN Append(s, x) /\ Append(s, x)[k] = s[k]
                               /\ k \in Nat /\ k < Len(s) + 1
         /\ \A k \in DOMAIN Append(s, x) : k \in DOMAIN s \/ k = Len(s) + 1
  OBVIOUS

LEMMA AuthOnceStep ==
  ASSUME Typed, Typed', AuthOnce, [Next]_vars
  PROVE  AuthOnce'
<1>1. down \in Seq(Frame)
  BY DEF Typed, WireTyped
<1>2. CASE down' = down /\ UNCHANGED wsState
  BY <1>2 DEF AuthOnce
<1>3. CASE down # <<>> /\ down' = Tail(down)
  <2>1. ASSUME NEW k \in DOMAIN Tail(down) PROVE Tail(down)[k].kind # "auth"
    <3>1. k \in Nat /\ k >= 1 /\ k + 1 \in DOMAIN down /\ Tail(down)[k] = down[k + 1]
      BY <1>1, <1>3, TailLemma
    <3>2. k + 1 # 1
      BY <3>1
    <3>3. QED
      BY <3>1, <3>2 DEF AuthOnce
  <2>2. QED
    BY <1>3, <2>1 DEF AuthOnce
<1>4. CASE Connect \/ LoseConnection \/ Reload
  <2>1. \/ down' = <<AuthFrame>> /\ wsState' = "CONNECTING"
        \/ down' = <<>>
    BY <1>4 DEF Connect, LoseConnection, Reload
  <2>2. QED
    BY <2>1 DEF AuthOnce
<1>5. CASE \E x \in Frame : Appended(x)
  <2>1. PICK x \in Frame : Appended(x)
    BY <1>5
  <2>2. x.kind # "auth" /\ down' = Append(down, x) /\ UNCHANGED wsState
    BY <2>1 DEF Appended
  <2>3. ASSUME NEW k \in DOMAIN Append(down, x), Append(down, x)[k].kind = "auth"
        PROVE  k = 1 /\ wsState = "CONNECTING"
    BY <1>1, <2>2, <2>3, AppendLemma DEF AuthOnce
  <2>4. QED
    BY <2>2, <2>3 DEF AuthOnce
<1>6. QED
  BY <1>2, <1>3, <1>4, <1>5, DownStep

-----------------------------------------------------------------------------
(* Acknowledgements *)

LEMMA NumbersAreNat ==
  ASSUME Typed
  PROVE  /\ committed \in Nat /\ published \in Nat /\ published <= committed
         /\ lastApplied \in Nat /\ persisted \in Nat /\ cursor \in Nat
         /\ \A e \in Event : e \in Nat /\ e >= 1
  BY BoundsAreNat DEF Typed, ServerTyped, CursorTyped, Event

LEMMA LogGrows ==
  ASSUME Typed, Typed', [Next]_vars
  PROVE  /\ committed <= committed' /\ published <= published'
         /\ committed' \in Nat /\ published' \in Nat /\ published' <= committed'
         /\ lastApplied' \in Nat /\ persisted' \in Nat
<1>1. committed' = committed \/ committed' = committed + 1
  BY DEF Next, CommitEvent, ChangePresence, LoseDirect, NotifyStranger,
     RefuseContinuation, Server,
     PublishEvent, DeliverDirect, Serve, BeginBootstrapPage, ReadPage, ReplyPage, AckCursor, Connect,
     LoseConnection, Reload, Handle, StartRealtimeFlow, HandleStranger, HandlePresenceEvent,
     BufferEvent, ApplyEvent, ReceiveMiddlePage, FinishBootstrap, HandleAckResponse,
     HandleProtocolError, PersistCursor, FlushAck, AckTimeout, vars, serverVars
<1>2. published' = published \/ published' = published + 1
  BY DEF Next, CommitEvent, ChangePresence, LoseDirect, NotifyStranger,
     RefuseContinuation, Server,
     PublishEvent, DeliverDirect, Serve, BeginBootstrapPage, ReadPage, ReplyPage, AckCursor, Connect,
     LoseConnection, Reload, Handle, StartRealtimeFlow, HandleStranger, HandlePresenceEvent,
     BufferEvent, ApplyEvent, ReceiveMiddlePage, FinishBootstrap, HandleAckResponse,
     HandleProtocolError, PersistCursor, FlushAck, AckTimeout, vars, serverVars
<1>3. /\ committed' \in Nat /\ published' \in Nat /\ published' <= committed'
      /\ lastApplied' \in Nat /\ persisted' \in Nat
  BY BoundsAreNat DEF Typed, ServerTyped, CursorTyped
<1>4. QED
  BY <1>1, <1>2, <1>3, NumbersAreNat

(* The client handles one frame; only these handlers move its cursor.        *)
LEMMA CursorMoves ==
  ASSUME [Next]_vars
  PROVE  \/ lastApplied' = lastApplied
         \/ Reload \/ FinishBootstrap
         \/ ApplyEvent /\ lastApplied' = Head(down).seq /\ Head(down).seq > lastApplied
  BY DEF Next, CommitEvent, ChangePresence, LoseDirect, NotifyStranger,
     RefuseContinuation, Server,
     PublishEvent, DeliverDirect, Serve, BeginBootstrapPage, ReadPage, ReplyPage, AckCursor, Connect,
     LoseConnection, Handle, StartRealtimeFlow, HandleStranger, HandlePresenceEvent,
     BufferEvent, ApplyEvent, ReceiveMiddlePage, HandleAckResponse,
     HandleProtocolError, PersistCursor, FlushAck, AckTimeout, vars

LEMMA BufferMoves ==
  ASSUME [Next]_vars
  PROVE  buffered' = buffered \/ buffered' = {} \/ BufferEvent
  BY DEF Next, CommitEvent, ChangePresence, LoseDirect, NotifyStranger,
     RefuseContinuation, Server,
     PublishEvent, DeliverDirect, Serve, BeginBootstrapPage, ReadPage, ReplyPage, AckCursor, Connect,
     LoseConnection, Reload, Handle, StartRealtimeFlow, HandleStranger, StartBootstrap,
     HandlePresenceEvent, ApplyEvent, ReceiveMiddlePage, FinishBootstrap, HandleAckResponse,
     HandleProtocolError, PersistCursor, FlushAck, AckTimeout, vars, viewVars

(* The end of a bootstrap: the new cursor is the snapshot's or a buffered     *)
(* event's, and the greatest of them.                                         *)
LEMMA FinishMoves ==
  ASSUME Typed, SnapshotsCurrent, FinishBootstrap
  PROVE  LET snapshot == Head(down).snapshot
         IN  /\ snapshot \in Nat /\ lastApplied <= snapshot /\ snapshot <= committed
             /\ lastApplied' = snapshot \/ lastApplied' \in buffered
             /\ snapshot <= lastApplied'
             /\ \A b \in buffered : b > snapshot => b <= lastApplied'
             /\ 1 \in DOMAIN down /\ down[1] = Head(down) /\ Head(down).kind = "page"
<1> DEFINE snapshot == Head(down).snapshot
           fresh == {e \in buffered : e > snapshot}
<1>1. down # <<>> /\ Head(down).kind = "page" /\ ~StrayPage
  BY ReceivedIsHead DEF FinishBootstrap
<1>2. snapshot \in 0..MaxEvents
  BY <1>1, StagedIsTyped
<1>3. 1 \in DOMAIN down /\ down[1] = Head(down)
  BY <1>1, TailLemma DEF Typed, WireTyped
<1>4. lastApplied <= snapshot /\ snapshot <= committed
  BY <1>1, <1>3 DEF SnapshotsCurrent, Current
<1>5. ({snapshot} \cup fresh) \in SUBSET (0..MaxEvents)
  <2>1. buffered \subseteq Event /\ Event \subseteq 0..MaxEvents
    BY BoundsAreNat DEF Typed, BufferTyped, Event
  <2>2. fresh \subseteq buffered
    OBVIOUS
  <2>3. QED
    BY <1>2, <2>1, <2>2
<1>6. /\ Max({snapshot} \cup fresh) \in {snapshot} \cup fresh
      /\ \A y \in {snapshot} \cup fresh : y <= Max({snapshot} \cup fresh)
  BY <1>5, MaxIsGreatest, BoundsAreNat
<1>7. lastApplied' = Max({snapshot} \cup fresh)
  BY DEF FinishBootstrap
<1>8. QED
  BY <1>1, <1>2, <1>3, <1>4, <1>6, <1>7

LEMMA PublishedStep ==
  ASSUME Typed, Typed', Published, CursorOrder, SnapshotsCurrent, [Next]_vars
  PROVE  Published'
<1>1. down \in Seq(Frame)
  BY DEF Typed, WireTyped
<1>2. (\A k \in DOMAIN down : down[k].kind = "event" => down[k].seq <= published)'
  <2>1. \A f \in Frame : f.kind = "event" => f.seq \in Nat
    BY FrameOfKind, NumbersAreNat
  <2>2. \A k \in DOMAIN down : down[k] \in Frame
    BY <1>1
  <2>3. \A k \in DOMAIN down : down[k].kind = "event" => down[k].seq <= published'
    <3>1. published \in Nat /\ published' \in Nat /\ published <= published'
      BY NumbersAreNat, LogGrows
    <3>2. QED
      BY <2>1, <2>2, <3>1 DEF Published
  <2>4. CASE down' = down
    BY <2>3, <2>4
  <2>5. CASE down # <<>> /\ down' = Tail(down)
    BY <1>1, <2>3, <2>5, TailLemma
  <2>6. CASE Cleared
    <3>1. \A k \in DOMAIN down' : down'[k] = AuthFrame
      BY <2>6 DEF Cleared
    <3>2. QED
      BY <3>1, FramesTyped
  <2>7. CASE \E x \in Frame : Appended(x)
    <3>1. PICK x \in Frame : Appended(x)
      BY <2>7
    <3>2. x.kind = "event" => x.seq <= published'
      BY <3>1, NumbersAreNat DEF Appended, PublishEvent
    <3>3. \A k \in DOMAIN Append(down, x) :
            Append(down, x)[k].kind = "event" => Append(down, x)[k].seq <= published'
      BY <1>1, <2>3, <3>2, AppendLemma
    <3>4. QED
      BY <3>1, <3>3 DEF Appended
  <2>8. QED
    BY <2>4, <2>5, <2>6, <2>7, DownStep
<1>3. (\A e \in buffered : e <= published)'
  <2>1. published \in Nat /\ published' \in Nat /\ published <= published'
    BY NumbersAreNat, LogGrows
  <2>2. \A e \in buffered : e <= published'
    <3>1. \A e \in buffered : e \in Nat
      BY NumbersAreNat DEF Typed, BufferTyped
    <3>2. QED
      BY <2>1, <3>1 DEF Published
  <2>3. CASE BufferEvent
    <3>1. 1 \in DOMAIN down /\ down[1] = Head(down) /\ Head(down).kind = "event"
          /\ Head(down) \in Frame
      BY <1>1, <2>3, TailLemma DEF BufferEvent, Receive
    <3>2. Head(down).seq \in Event /\ Head(down).seq <= published
      BY <3>1, FrameOfKind DEF Published
    <3>3. Head(down).seq <= published'
      BY <2>1, <3>2, NumbersAreNat
    <3>4. buffered' \subseteq buffered \cup {Head(down).seq}
      BY <2>3, <3>2, NewestIsTyped DEF BufferEvent, Typed
    <3>5. QED
      BY <2>2, <3>3, <3>4
  <2>4. QED
    BY <2>2, <2>3, BufferMoves
<1>4. (lastApplied <= committed)'
  <2>1. /\ committed \in Nat /\ committed' \in Nat /\ committed <= committed'
        /\ lastApplied \in Nat /\ persisted \in Nat /\ published \in Nat
        /\ published <= committed /\ lastApplied' \in Nat
    BY NumbersAreNat, LogGrows
  <2>2. CASE lastApplied' = lastApplied
    BY <2>1, <2>2 DEF Published
  <2>3. CASE Reload
    <3>1. lastApplied' = persisted /\ persisted <= lastApplied /\ lastApplied <= committed
      BY <2>3 DEF Reload, CursorOrder, Published
    <3>2. QED
      BY <2>1, <3>1
  <2>4. CASE FinishBootstrap
    <3>1. /\ Head(down).snapshot <= committed /\ Head(down).snapshot \in Nat
          /\ lastApplied' = Head(down).snapshot \/ lastApplied' \in buffered
      BY <2>4, FinishMoves
    <3>2. CASE lastApplied' \in buffered
      BY <2>1, <3>2 DEF Published
    <3>3. QED
      BY <2>1, <3>1, <3>2
  <2>5. CASE ApplyEvent /\ lastApplied' = Head(down).seq
    <3>1. 1 \in DOMAIN down /\ down[1] = Head(down) /\ Head(down).kind = "event"
      BY <1>1, <2>5, TailLemma DEF ApplyEvent, Receive
    <3>2. Head(down).seq <= published
      BY <3>1 DEF Published
    <3>3. QED
      BY <2>1, <2>5, <3>2
  <2>6. QED
    BY <2>2, <2>3, <2>4, <2>5, CursorMoves
<1>5. QED
  BY <1>2, <1>3, <1>4 DEF Published

(* Outside of a bootstrap there is no snapshot under way (OneAnswer'), and    *)
(* during one the cursor does not move.                                        *)
LEMMA CursorRests ==
  ASSUME [Next]_vars, Bootstrapping'
  PROVE  lastApplied' = lastApplied
<1>1. ~(Reload \/ FinishBootstrap \/ ApplyEvent)
  BY DEF Reload, FinishBootstrap, ApplyEvent, Bootstrapping
<1>2. QED
  BY <1>1, CursorMoves

(* Where a snapshot comes from: the log as it is, or its previous carrier.    *)
LEMMA SnapshotMoves ==
  ASSUME Typed, Typed', [Next]_vars, Bootstrapping'
  PROVE  /\ job' # None =>
              \/ job # None /\ job'.snapshot = job.snapshot
              \/ job'.snapshot = committed /\ BeginBootstrapPage
              \/ \E k \in DOMAIN up : /\ up[k].kind = "bootstrap" /\ up[k].page > 0
                                     /\ job'.snapshot = up[k].snapshot
         /\ \A k \in DOMAIN up' : up'[k].kind = "bootstrap" /\ up'[k].page > 0 =>
              \/ \E l \in DOMAIN up : up'[k] = up[l]
              \/ \E l \in DOMAIN down : down[l].kind = "page" /\ up'[k].snapshot = down[l].snapshot
         /\ \A k \in DOMAIN down' : down'[k].kind = "page" =>
              \/ \E l \in DOMAIN down : down'[k] = down[l]
              \/ job # None /\ down'[k].snapshot = job.snapshot
<1>1. up \in Seq(Request) /\ down \in Seq(Frame)
  BY DEF Typed, WireTyped
<1>2. ASSUME job' # None
      PROVE  \/ job # None /\ job'.snapshot = job.snapshot
             \/ job'.snapshot = committed /\ BeginBootstrapPage
             \/ \E k \in DOMAIN up : /\ up[k].kind = "bootstrap" /\ up[k].page > 0
                                    /\ job'.snapshot = up[k].snapshot
  <2>1. CASE BeginBootstrapPage
    <3>1. up # <<>> /\ Head(up).kind = "bootstrap"
          /\ job'.snapshot = IF Head(up).page = 0 THEN committed ELSE Head(up).snapshot
      BY <2>1 DEF BeginBootstrapPage
    <3>2. 1 \in DOMAIN up /\ up[1] = Head(up) /\ Head(up) \in Request
      BY <1>1, <3>1, TailLemma
    <3>3. Head(up).page \in Nat
      BY <3>1, <3>2, RequestIsEither, BoundsAreNat DEF Page
    <3>4. QED
      BY <2>1, <3>1, <3>2, <3>3
  <2>2. CASE ReadPage
    <3>1. job # None /\ job \in PageJob
      BY <2>2 DEF ReadPage, Typed, WireTyped
    <3>2. job'.snapshot = job.snapshot
      BY <2>2, <3>1 DEF ReadPage, PageJob
    <3>3. QED
      BY <3>1, <3>2
  <2>3. job' = job \/ job' = None \/ BeginBootstrapPage \/ ReadPage
    BY DEF Next, CommitEvent, ChangePresence, LoseDirect, NotifyStranger,
     RefuseContinuation, Server,
       PublishEvent, DeliverDirect, Serve, ReplyPage, AckCursor, Connect,
       LoseConnection, Reload, Handle, StartRealtimeFlow, HandleStranger, HandlePresenceEvent,
       BufferEvent, ApplyEvent, ReceiveMiddlePage, FinishBootstrap, HandleAckResponse,
       HandleProtocolError, PersistCursor, FlushAck, AckTimeout, vars, sessionVars
  <2>4. QED
    BY <1>2, <2>1, <2>2, <2>3
<1>3. ASSUME NEW k \in DOMAIN up', up'[k].kind = "bootstrap", up'[k].page > 0
      PROVE  \/ \E l \in DOMAIN up : up'[k] = up[l]
             \/ \E l \in DOMAIN down : down[l].kind = "page" /\ up'[k].snapshot = down[l].snapshot
  <2>1. CASE up' = up
    BY <2>1
  <2>2. CASE up # <<>> /\ up' = Tail(up)
    BY <1>1, <2>2, TailLemma
  <2>3. CASE Cleared
    BY <2>3 DEF Cleared
  <2>4. CASE \E r \in Request : Requested(r)
    <3>1. PICK r \in Request : Requested(r)
      BY <2>4
    <3>2. up' = Append(up, r)
      BY <3>1 DEF Requested
    <3>3. (k \in DOMAIN up /\ up'[k] = up[k]) \/ up'[k] = r
      BY <1>1, <3>2, AppendLemma
    <3>4. CASE up'[k] = r
      <4>1. down # <<>> /\ Head(down).kind = "page" /\ r.snapshot = Head(down).snapshot
        BY <1>3, <3>1, <3>4 DEF Requested
      <4>2. 1 \in DOMAIN down /\ down[1] = Head(down)
        BY <1>1, <4>1, TailLemma
      <4>3. QED
        BY <3>4, <4>1, <4>2
    <3>5. QED
      BY <3>3, <3>4
  <2>5. QED
    BY <2>1, <2>2, <2>3, <2>4, UpStep
<1>4. ASSUME NEW k \in DOMAIN down', down'[k].kind = "page"
      PROVE  \/ \E l \in DOMAIN down : down'[k] = down[l]
             \/ job # None /\ down'[k].snapshot = job.snapshot
  <2>1. CASE down' = down
    BY <2>1
  <2>2. CASE down # <<>> /\ down' = Tail(down)
    BY <1>1, <2>2, TailLemma
  <2>3. CASE Cleared
    BY <2>3 DEF Cleared
  <2>4. CASE \E x \in Frame : Appended(x)
    <3>1. PICK x \in Frame : Appended(x)
      BY <2>4
    <3>2. down' = Append(down, x)
      BY <3>1 DEF Appended
    <3>3. (k \in DOMAIN down /\ down'[k] = down[k]) \/ down'[k] = x
      BY <1>1, <3>2, AppendLemma
    <3>4. CASE down'[k] = x
      BY <1>4, <3>1, <3>4 DEF Appended, ReplyPage
    <3>5. QED
      BY <3>3, <3>4
  <2>5. QED
    BY <2>1, <2>2, <2>3, <2>4, DownStep
<1>5. QED
  BY <1>2, <1>3, <1>4

LEMMA SnapshotsCurrentStep ==
  ASSUME Typed, Typed', SnapshotsCurrent, Published, OneAnswer', [Next]_vars
  PROVE  SnapshotsCurrent'
<1>1. CASE ~Bootstrapping'
  <2>1. NoneUnderWay'
    BY <1>1 DEF OneAnswer
  <2>2. QED
    BY <2>1 DEF NoneUnderWay, Without, SnapshotsCurrent
<1>2. CASE Bootstrapping'
  <2>1. /\ lastApplied' = lastApplied /\ committed \in Nat /\ committed' \in Nat
        /\ committed <= committed' /\ lastApplied <= committed
    BY <1>2, CursorRests, LogGrows, NumbersAreNat DEF Published
  <2>2. ASSUME NEW n \in Nat, Current(n) PROVE lastApplied' <= n /\ n <= committed'
    BY <2>1, <2>2, NumbersAreNat DEF Current
  <2>3. lastApplied' <= committed /\ committed <= committed'
    BY <2>1
  <2>4. ASSUME job' # None PROVE lastApplied' <= job'.snapshot /\ job'.snapshot <= committed'
    <3>1. job'.snapshot \in Nat
      BY <2>4, BoundsAreNat DEF Typed, WireTyped, PageJob
    <3>2. Current(job'.snapshot) \/ job'.snapshot = committed
      BY <1>2, <2>4, SnapshotMoves DEF SnapshotsCurrent
    <3>3. QED
      BY <2>2, <2>3, <3>1, <3>2
  <2>5. ASSUME NEW k \in DOMAIN up', up'[k].kind = "bootstrap", up'[k].page > 0
        PROVE  lastApplied' <= up'[k].snapshot /\ up'[k].snapshot <= committed'
    <3>1. up'[k].snapshot \in Nat
      <4>1. up'[k] \in Request
        BY DEF Typed, WireTyped
      <4>2. QED
        BY <2>5, <4>1, RequestIsEither, BoundsAreNat
    <3>2. Current(up'[k].snapshot)
      BY <1>2, <2>5, SnapshotMoves DEF SnapshotsCurrent
    <3>3. QED
      BY <2>2, <3>1, <3>2
  <2>6. ASSUME NEW k \in DOMAIN down', down'[k].kind = "page"
        PROVE  lastApplied' <= down'[k].snapshot /\ down'[k].snapshot <= committed'
    <3>1. down'[k].snapshot \in Nat
      <4>1. down'[k] \in Frame
        BY DEF Typed, WireTyped
      <4>2. QED
        BY <2>6, <4>1, FrameOfKind, BoundsAreNat
    <3>2. Current(down'[k].snapshot)
      BY <1>2, <2>6, SnapshotMoves DEF SnapshotsCurrent
    <3>3. QED
      BY <2>2, <3>1, <3>2
  <2>7. QED
    BY <2>4, <2>5, <2>6 DEF SnapshotsCurrent, Current
<1>3. QED
  BY <1>1, <1>2

(* Local storage is never set back: neither a snapshot nor the timer brings   *)
(* an older number than the one it holds.                                      *)
LEMMA PersistedMoves ==
  ASSUME Typed, Typed', CursorOrder, SnapshotsCurrent, [Next]_vars
  PROVE  persisted <= persisted' /\ persisted' <= lastApplied'
<1>1. /\ lastApplied \in Nat /\ persisted \in Nat /\ lastApplied' \in Nat /\ persisted' \in Nat
      /\ persisted <= lastApplied
  BY NumbersAreNat, LogGrows DEF CursorOrder
<1>2. CASE FinishBootstrap
  <2>1. /\ Head(down).snapshot \in Nat /\ lastApplied <= Head(down).snapshot
        /\ Head(down).snapshot <= lastApplied'
    BY <1>2, FinishMoves
  <2>2. persisted' = Head(down).snapshot \/ persisted' = persisted
    BY <1>2 DEF FinishBootstrap
  <2>3. QED
    BY <1>1, <2>1, <2>2
<1>3. CASE PersistCursor \/ FlushAck
  BY <1>1, <1>3 DEF PersistCursor, FlushAck
<1>4. CASE Reload
  BY <1>1, <1>4 DEF Reload
<1>5. CASE ApplyEvent
  <2>1. persisted' = persisted
    BY <1>5 DEF ApplyEvent
  <2>2. CASE lastApplied' = lastApplied
    BY <1>1, <2>1, <2>2
  <2>3. CASE lastApplied' = Head(down).seq /\ Head(down).seq > lastApplied
    BY <1>1, <2>1, <2>3
  <2>4. QED
    BY <1>2, <1>4, <2>2, <2>3, CursorMoves
<1>6. CASE UNCHANGED <<persisted, lastApplied>>
  BY <1>1, <1>6
<1>7. QED
  BY <1>2, <1>3, <1>4, <1>5, <1>6
  DEF Next, CommitEvent, ChangePresence, LoseDirect, NotifyStranger,
     RefuseContinuation, Server,
      PublishEvent, DeliverDirect, Serve, BeginBootstrapPage, ReadPage, ReplyPage, AckCursor, Connect,
      LoseConnection, Handle, StartRealtimeFlow, HandleStranger, HandlePresenceEvent,
      BufferEvent, ReceiveMiddlePage, HandleAckResponse, HandleProtocolError, AckTimeout, vars, ackVars

LEMMA CursorOrderStep ==
  ASSUME Typed, Typed', CursorOrder, SnapshotsCurrent, [Next]_vars
  PROVE  CursorOrder'
<1>1. persisted <= persisted' /\ persisted' <= lastApplied'
  BY PersistedMoves
<1>2. /\ persisted \in Nat /\ persisted' \in Nat /\ cursor \in Nat /\ lastApplied \in Nat
      /\ cursor <= persisted /\ up \in Seq(Request)
  BY NumbersAreNat, LogGrows DEF CursorOrder, AckedIsStored, Typed, WireTyped
<1>3. \A r \in Request : r.kind = "ack" => r.seq \in Nat
  BY RequestIsEither, BoundsAreNat
<1>4. \A k \in DOMAIN up : up[k].kind = "ack" => up[k].seq <= persisted'
  <2>1. \A k \in DOMAIN up : up[k] \in Request
    BY <1>2
  <2>2. QED
    BY <1>1, <1>2, <1>3, <2>1 DEF CursorOrder, AckedIsStored
<1>5. cursor' <= persisted'
  <2>1. CASE cursor' = cursor
    BY <1>1, <1>2, <2>1
  <2>2. CASE AckCursor
    <3>1. up # <<>> /\ Head(up).kind = "ack" /\ cursor' = Max({cursor, Head(up).seq})
      BY <2>2 DEF AckCursor
    <3>2. 1 \in DOMAIN up /\ up[1] = Head(up) /\ Head(up) \in Request
      BY <1>2, <3>1, TailLemma
    <3>3. Head(up).seq \in 0..MaxEvents /\ Head(up).seq <= persisted'
      BY <1>4, <3>1, <3>2, RequestIsEither
    <3>4. {cursor, Head(up).seq} \in SUBSET (0..MaxEvents) /\ {cursor, Head(up).seq} # {}
      BY <3>3 DEF Typed, ServerTyped
    <3>5. cursor' \in {cursor, Head(up).seq}
      BY <3>1, <3>4, MaxIsGreatest, BoundsAreNat
    <3>6. QED
      BY <1>1, <1>2, <3>3, <3>5
  <2>3. QED
    BY <2>1, <2>2 DEF Next, CommitEvent, ChangePresence, LoseDirect, NotifyStranger,
     RefuseContinuation, Server,
       PublishEvent, DeliverDirect, Serve, BeginBootstrapPage, ReadPage, ReplyPage, Connect,
       LoseConnection, Reload, Handle, StartRealtimeFlow, HandleStranger, HandlePresenceEvent,
       BufferEvent, ApplyEvent, ReceiveMiddlePage, FinishBootstrap, HandleAckResponse,
       HandleProtocolError, PersistCursor, FlushAck, AckTimeout, vars, sessionVars
<1>6. (\A k \in DOMAIN up : up[k].kind = "ack" => up[k].seq <= persisted)'
  <2>1. CASE up' = up
    BY <1>4, <2>1
  <2>2. CASE up # <<>> /\ up' = Tail(up)
    BY <1>2, <1>4, <2>2, TailLemma
  <2>3. CASE Cleared
    BY <2>3 DEF Cleared
  <2>4. CASE \E r \in Request : Requested(r)
    <3>1. PICK r \in Request : Requested(r)
      BY <2>4
    <3>2. r.kind = "ack" => r.seq <= persisted'
      BY <1>2, <3>1 DEF Requested, FlushAck
    <3>3. \A k \in DOMAIN Append(up, r) :
            Append(up, r)[k].kind = "ack" => Append(up, r)[k].seq <= persisted'
      BY <1>2, <1>4, <3>2, AppendLemma
    <3>4. QED
      BY <3>1, <3>3 DEF Requested
  <2>5. QED
    BY <2>1, <2>2, <2>3, <2>4, UpStep
<1>7. QED
  BY <1>1, <1>5, <1>6 DEF CursorOrder, AckedIsStored

LEMMA AckInit == Init => AckInv
  BY BoundsAreNat DEF Init, AckInv, OneAnswer, NoneUnderWay, Without, AtMostOne, AuthOnce, Published,
     SnapshotsCurrent, CursorOrder, AckedIsStored, Bootstrapping

LEMMA AckStep ==
  ASSUME Typed, Typed', AckInv, [Next]_vars
  PROVE  AckInv'
<1>1. OneAnswer' /\ AuthOnce'
  BY OneAnswerStep, AuthOnceStep DEF AckInv
<1>2. Published' /\ SnapshotsCurrent' /\ CursorOrder'
  BY <1>1, PublishedStep, SnapshotsCurrentStep, CursorOrderStep DEF AckInv
<1>3. QED
  BY <1>1, <1>2 DEF AckInv

(* "Event cursors are durably persisted before the matching server            *)
(* acknowledgement is sent", through restarts of a bootstrap, lost connections *)
(* and reloads: a snapshot's number never sets the stored one back.            *)
THEOREM AcksAreStored == Spec => []AckedIsStored
<1>1. Init => Typed /\ AckInv
  BY InitIsTyped, AckInit
<1>2. (Typed /\ AckInv) /\ [Next]_vars => (Typed /\ AckInv)'
  BY StepKeepsTypes, AckStep
<1>3. AckInv => AckedIsStored
  BY DEF AckInv, CursorOrder
<1>4. QED
  BY <1>1, <1>2, <1>3, PTL DEF Spec

-----------------------------------------------------------------------------
(* No gap *)

LEMMA EventHandlers ==
  ASSUME Typed, Handle, Head(down).kind = "event"
  PROVE  BufferEvent \/ ApplyEvent
  BY DEF Handle, StartRealtimeFlow, HandleStranger, HandlePresenceEvent, ReceiveMiddlePage,
         FinishBootstrap, HandleAckResponse, HandleProtocolError, Receive

(* What arrives in a bootstrap is kept or discarded, in their order. *)
LEMMA BufferGrows ==
  ASSUME Typed, BufferEvent
  PROVE  /\ 1 \in DOMAIN down /\ down[1] = Head(down) /\ down # <<>> /\ down' = Tail(down)
         /\ Head(down).kind = "event" /\ Head(down).seq \in Event
         /\ buffered' \subseteq buffered \cup {Head(down).seq}
         /\ buffered' \cup dropped' = buffered \cup dropped \cup {Head(down).seq}
<1>1. down # <<>> /\ Head(down) \in Frame /\ Head(down).kind = "event" /\ down' = Tail(down)
  BY ReceivedIsHead DEF BufferEvent
<1>2. 1 \in DOMAIN down /\ down[1] = Head(down)
  BY <1>1, TailLemma DEF Typed, WireTyped
<1>3. Head(down).seq \in Event
  BY <1>1, FrameOfKind
<1>4. buffered' \subseteq buffered \cup {Head(down).seq}
  BY <1>3, NewestIsTyped DEF BufferEvent, Typed
<1>5. buffered' \cup dropped' = buffered \cup dropped \cup {Head(down).seq}
  BY <1>4 DEF BufferEvent
<1>6. QED
  BY <1>1, <1>2, <1>3, <1>4, <1>5

LEMMA InOrderStep ==
  ASSUME Typed, Typed', InOrder, Published, [Next]_vars
  PROVE  InOrder'
<1>1. down \in Seq(Frame) /\ published \in Nat
  BY NumbersAreNat DEF Typed, WireTyped
<1>2. \A k \in DOMAIN down : down[k].kind = "event" => down[k].seq \in Nat
  <2>1. \A k \in DOMAIN down : down[k] \in Frame
    BY <1>1
  <2>2. QED
    BY <2>1, FrameOfKind, NumbersAreNat
<1>3. \A b \in buffered : b \in Nat
  BY NumbersAreNat DEF Typed, BufferTyped
<1>4. CASE BufferEvent
  <2>1. /\ 1 \in DOMAIN down /\ down[1] = Head(down) /\ down # <<>> /\ down' = Tail(down)
        /\ Head(down).kind = "event" /\ buffered' \subseteq buffered \cup {Head(down).seq}
    BY <1>4, BufferGrows
  <2>2. \A k \in DOMAIN Tail(down) :
          k \in Nat /\ k >= 1 /\ k + 1 \in DOMAIN down /\ Tail(down)[k] = down[k + 1]
    BY <1>1, <2>1, TailLemma
  <2>3. ASSUME NEW k \in DOMAIN Tail(down), NEW l \in DOMAIN Tail(down), k < l,
               Tail(down)[k].kind = "event", Tail(down)[l].kind = "event"
        PROVE  Tail(down)[k].seq < Tail(down)[l].seq
    <3>1. k + 1 < l + 1
      BY <2>2, <2>3
    <3>2. QED
      BY <2>2, <2>3, <3>1 DEF InOrder
  <2>4. ASSUME NEW b \in buffered', NEW k \in DOMAIN Tail(down), Tail(down)[k].kind = "event"
        PROVE  b < Tail(down)[k].seq
    <3>1. 1 < k + 1
      BY <2>2
    <3>2. CASE b \in buffered
      BY <2>2, <2>4, <3>2 DEF InOrder
    <3>3. CASE b = Head(down).seq
      BY <2>1, <2>2, <2>4, <3>1, <3>3 DEF InOrder
    <3>4. QED
      BY <2>1, <3>2, <3>3
  <2>5. QED
    BY <2>1, <2>3, <2>4 DEF InOrder
<1>5. CASE ~BufferEvent
  <2>1. buffered' \subseteq buffered
    BY <1>5, BufferMoves
  <2>2. CASE down' = down
    BY <2>1, <2>2 DEF InOrder
  <2>3. CASE down # <<>> /\ down' = Tail(down)
    <3>1. \A k \in DOMAIN Tail(down) :
            k \in Nat /\ k >= 1 /\ k + 1 \in DOMAIN down /\ Tail(down)[k] = down[k + 1]
      BY <1>1, <2>3, TailLemma
    <3>2. ASSUME NEW k \in DOMAIN Tail(down), NEW l \in DOMAIN Tail(down), k < l,
                 Tail(down)[k].kind = "event", Tail(down)[l].kind = "event"
          PROVE  Tail(down)[k].seq < Tail(down)[l].seq
      <4>1. k + 1 < l + 1
        BY <3>1, <3>2
      <4>2. QED
        BY <3>1, <3>2, <4>1 DEF InOrder
    <3>3. ASSUME NEW b \in buffered', NEW k \in DOMAIN Tail(down), Tail(down)[k].kind = "event"
          PROVE  b < Tail(down)[k].seq
      BY <2>1, <3>1, <3>3 DEF InOrder
    <3>4. QED
      BY <2>3, <3>2, <3>3 DEF InOrder
  <2>4. CASE Cleared
    <3>1. \A k \in DOMAIN down' : down'[k] = AuthFrame
      BY <2>4 DEF Cleared
    <3>2. \A k \in DOMAIN down' : down'[k].kind # "event"
      BY <3>1, FramesTyped
    <3>3. QED
      BY <3>2 DEF InOrder
  <2>5. CASE \E x \in Frame : Appended(x)
    <3>1. PICK x \in Frame : Appended(x)
      BY <2>5
    <3>2. down' = Append(down, x) /\ (x.kind = "event" => x.seq = published + 1)
      BY <3>1 DEF Appended
    <3>3. \A k \in DOMAIN Append(down, x) :
            \/ k \in DOMAIN down /\ Append(down, x)[k] = down[k] /\ k \in Nat /\ k < Len(down) + 1
            \/ k = Len(down) + 1 /\ Append(down, x)[k] = x
      BY <1>1, AppendLemma
    <3>4. ASSUME NEW k \in DOMAIN Append(down, x), NEW l \in DOMAIN Append(down, x), k < l,
                 Append(down, x)[k].kind = "event", Append(down, x)[l].kind = "event"
          PROVE  Append(down, x)[k].seq < Append(down, x)[l].seq
      <4>1. k \in DOMAIN down /\ Append(down, x)[k] = down[k]
        BY <1>1, <3>3, <3>4
      <4>2. CASE l \in DOMAIN down /\ Append(down, x)[l] = down[l]
        BY <3>4, <4>1, <4>2 DEF InOrder
      <4>3. CASE Append(down, x)[l] = x
        <5>1. down[k].seq <= published /\ down[k].seq \in Nat
          BY <1>2, <3>4, <4>1 DEF Published
        <5>2. QED
          BY <1>1, <3>2, <3>4, <4>1, <4>3, <5>1
      <4>4. QED
        BY <3>3, <4>2, <4>3
    <3>5. ASSUME NEW b \in buffered', NEW k \in DOMAIN Append(down, x),
                 Append(down, x)[k].kind = "event"
          PROVE  b < Append(down, x)[k].seq
      <4>1. b \in buffered /\ b <= published /\ b \in Nat
        BY <1>3, <2>1 DEF Published
      <4>2. CASE k \in DOMAIN down /\ Append(down, x)[k] = down[k]
        BY <3>5, <4>1, <4>2 DEF InOrder
      <4>3. CASE Append(down, x)[k] = x
        BY <1>1, <3>2, <3>5, <4>1, <4>3
      <4>4. QED
        BY <3>3, <4>2, <4>3
    <3>6. QED
      BY <3>2, <3>4, <3>5 DEF InOrder
  <2>6. QED
    BY <2>2, <2>3, <2>4, <2>5, DownStep
<1>6. QED
  BY <1>4, <1>5

(* An event on its way comes, stays buffered, or has been passed by m: what a *)
(* number n covered, m covers now.                                             *)
LEMMA CoversKept ==
  ASSUME Typed, Typed', [Next]_vars, ~(Connect \/ LoseConnection \/ Reload),
         NEW n \in Nat, NEW m \in Nat, n <= m, Covers(n),
         \A e : Kept(e) => Kept(e)' \/ e <= m,
         Handle /\ Head(down).kind = "event" =>
           Head(down).seq \in buffered' \cup dropped' \/ Head(down).seq <= m
  PROVE  session' = "serving" /\ \A e \in Event : m < e /\ e <= published' => Kept(e)' \/ Coming(e)'
<1>1. session' = "serving"
  BY DEF Covers, Next, CommitEvent, ChangePresence, LoseDirect, NotifyStranger,
     RefuseContinuation, Server,
     PublishEvent, DeliverDirect, Serve, BeginBootstrapPage, ReadPage, ReplyPage, AckCursor,
     Handle, StartRealtimeFlow, HandleStranger, HandlePresenceEvent,
     BufferEvent, ApplyEvent, ReceiveMiddlePage, FinishBootstrap, HandleAckResponse,
     HandleProtocolError, PersistCursor, FlushAck, AckTimeout, vars, sessionVars
<1>2. down \in Seq(Frame) /\ published \in Nat
  BY NumbersAreNat DEF Typed, WireTyped
<1>3. ASSUME NEW e \in Event, m < e, e <= published'
      PROVE  \/ e \in buffered' \cup dropped'
             \/ \E k \in DOMAIN down' : down'[k].kind = "event" /\ down'[k].seq = e
  <2>1. e \in Nat /\ n < e
    BY <1>3, NumbersAreNat
  <2>2. CASE e <= published
    <3>1. Kept(e) \/ Coming(e)
      BY <2>1, <2>2 DEF Covers
    <3>2. CASE Kept(e)
      BY <1>3, <2>1, <3>2 DEF Kept
    <3>3. CASE Coming(e)
      <4>1. PICK k \in DOMAIN down : down[k].kind = "event" /\ down[k].seq = e
        BY <3>3 DEF Coming
      <4>2. CASE down' = down
        BY <4>1, <4>2
      <4>3. CASE down # <<>> /\ down' = Tail(down) /\ Handle
        <5>1. k = 1 \/ (k - 1 \in DOMAIN Tail(down) /\ Tail(down)[k - 1] = down[k])
          BY <1>2, <4>3, TailLemma
        <5>2. CASE k = 1
          <6>1. Head(down).kind = "event" /\ Head(down).seq = e
            BY <1>2, <4>1, <4>3, <5>2, TailLemma
          <6>2. QED
            BY <1>3, <2>1, <4>3, <6>1
        <5>3. QED
          BY <4>1, <4>3, <5>1, <5>2
      <4>4. CASE \E x \in Frame : Appended(x)
        BY <1>2, <4>1, <4>4, AppendLemma DEF Appended
      <4>5. QED
        BY <4>2, <4>3, <4>4, DownStep
    <3>4. QED
      BY <3>1, <3>2, <3>3
  <2>3. CASE ~(e <= published)
    <3>1. PublishEvent /\ published' = published + 1
      <4>1. published' = published \/ PublishEvent
        BY DEF Next, CommitEvent, ChangePresence, LoseDirect, NotifyStranger,
     RefuseContinuation, Server,
           DeliverDirect, Serve, BeginBootstrapPage, ReadPage, ReplyPage, AckCursor,
           Handle, StartRealtimeFlow, HandleStranger, HandlePresenceEvent,
           BufferEvent, ApplyEvent, ReceiveMiddlePage, FinishBootstrap, HandleAckResponse,
           HandleProtocolError, PersistCursor, FlushAck, AckTimeout, vars, serverVars
      <4>2. QED
        BY <1>3, <2>3, <4>1 DEF PublishEvent
    <3>2. e = published + 1
      BY <1>2, <1>3, <2>1, <2>3, <3>1
    <3>3. PICK x \in Frame : x = EventFrame(published + 1) /\ x.kind = "event" /\ x.seq = published + 1
      BY <3>2, FramesTyped
    <3>4. down' = Append(down, x)
      BY <3>1, <3>3 DEF PublishEvent, Covers
    <3>5. QED
      BY <1>2, <3>2, <3>3, <3>4, AppendLemma
  <2>4. QED
    BY <2>2, <2>3
<1>4. QED
  BY <1>1, <1>3 DEF Coming, Kept

(* During a bootstrap only arrivals change the buffer. *)
LEMMA BufferKept ==
  ASSUME Typed, AuthOnce, Bootstrapping, Bootstrapping', [Next]_vars
  PROVE  /\ ~(Connect \/ LoseConnection \/ Reload)
         /\ \A e : Kept(e) => Kept(e)'
         /\ Handle /\ Head(down).kind = "event" => Head(down).seq \in buffered' \cup dropped'
<1>1. ~(Connect \/ LoseConnection \/ Reload)
  BY DEF Connect, LoseConnection, Reload, Bootstrapping
<1>2. ~StartRealtimeFlow
  <2>1. SUFFICES ASSUME StartRealtimeFlow PROVE FALSE
    OBVIOUS
  <2>2. down # <<>> /\ Head(down).kind = "auth"
    BY <2>1 DEF StartRealtimeFlow, Receive
  <2>3. 1 \in DOMAIN down /\ down[1] = Head(down)
    BY <2>2, TailLemma DEF Typed, WireTyped
  <2>4. QED
    BY <2>2, <2>3 DEF AuthOnce, Bootstrapping
<1>3. CASE BufferEvent
  BY <1>1, <1>3, BufferGrows DEF Kept
<1>4. CASE ~BufferEvent
  <2>1. ~FinishBootstrap /\ ~ApplyEvent
    BY DEF FinishBootstrap, ApplyEvent, Bootstrapping
  <2>2. HandleStranger => buffered' = buffered /\ dropped' = dropped
    BY DEF HandleStranger, Bootstrapping
  <2>3. buffered' = buffered /\ dropped' = dropped
    BY <1>1, <1>2, <1>4, <2>1, <2>2
    DEF Next, CommitEvent, ChangePresence, LoseDirect, NotifyStranger,
     RefuseContinuation, Server,
        PublishEvent, DeliverDirect, Serve, BeginBootstrapPage, ReadPage, ReplyPage, AckCursor,
        Handle, HandlePresenceEvent, ReceiveMiddlePage, HandleAckResponse,
        HandleProtocolError, PersistCursor, FlushAck, AckTimeout, vars, viewVars
  <2>4. ~(Handle /\ Head(down).kind = "event")
    BY <1>4, <2>1, EventHandlers
  <2>5. QED
    BY <1>1, <2>3, <2>4 DEF Kept
<1>5. QED
  BY <1>3, <1>4

LEMMA SnapshotsCoverStep ==
  ASSUME Typed, Typed', AckInv, AckInv', SnapshotsCover, [Next]_vars
  PROVE  SnapshotsCover'
<1>1. CASE ~Bootstrapping'
  <2>1. NoneUnderWay'
    BY <1>1 DEF AckInv, OneAnswer
  <2>2. QED
    BY <2>1 DEF NoneUnderWay, Without, SnapshotsCover
<1>2. CASE Bootstrapping'
  <2> DEFINE CoversNow(n) ==
        session' = "serving" /\ \A e \in Event : n < e /\ e <= published' => Kept(e)' \/ Coming(e)'
  <2>1. ASSUME NEW n \in Nat, Covers(n), Bootstrapping PROVE CoversNow(n)
    <3>1. /\ ~(Connect \/ LoseConnection \/ Reload)
          /\ \A e : Kept(e) => Kept(e)'
          /\ Handle /\ Head(down).kind = "event" => Head(down).seq \in buffered' \cup dropped'
      BY <1>2, <2>1, BufferKept DEF AckInv
    <3>2. n <= n
      OBVIOUS
    <3>3. QED
      BY <2>1, <3>1, <3>2, CoversKept
  <2>2. ASSUME NEW n \in Nat, n = committed, BeginBootstrapPage PROVE CoversNow(n)
    <3>1. session' = "serving" /\ published' = published
      BY <2>2 DEF BeginBootstrapPage, serverVars
    <3>2. \A e \in Event : ~(n < e /\ e <= published)
      BY <2>2, NumbersAreNat
    <3>3. QED
      BY <3>1, <3>2
  <2> HIDE DEF CoversNow
  <2>3. job # None => Bootstrapping
    BY DEF AckInv, OneAnswer, NoneUnderWay
  <2>4. \A k \in DOMAIN up : up[k].kind = "bootstrap" => Bootstrapping
    BY DEF AckInv, OneAnswer, NoneUnderWay, Without
  <2>5. \A k \in DOMAIN down : down[k].kind = "page" => Bootstrapping
    BY DEF AckInv, OneAnswer, NoneUnderWay, Without
  <2>6. ASSUME job' # None PROVE CoversNow(job'.snapshot)
    <3>1. job'.snapshot \in Nat
      BY <2>6, BoundsAreNat DEF Typed, WireTyped, PageJob
    <3>2. \/ Bootstrapping /\ Covers(job'.snapshot)
          \/ job'.snapshot = committed /\ BeginBootstrapPage
      BY <1>2, <2>3, <2>4, <2>6, SnapshotMoves DEF SnapshotsCover
    <3>3. QED
      BY <2>1, <2>2, <3>1, <3>2
  <2>7. ASSUME NEW k \in DOMAIN up', up'[k].kind = "bootstrap", up'[k].page > 0
        PROVE  CoversNow(up'[k].snapshot)
    <3>1. up'[k].snapshot \in Nat
      <4>1. up'[k] \in Request
        BY DEF Typed, WireTyped
      <4>2. QED
        BY <2>7, <4>1, RequestIsEither, BoundsAreNat
    <3>2. Bootstrapping /\ Covers(up'[k].snapshot)
      BY <1>2, <2>4, <2>5, <2>7, SnapshotMoves DEF SnapshotsCover
    <3>3. QED
      BY <2>1, <3>1, <3>2
  <2>8. ASSUME NEW k \in DOMAIN down', down'[k].kind = "page"
        PROVE  CoversNow(down'[k].snapshot)
    <3>1. down'[k].snapshot \in Nat
      <4>1. down'[k] \in Frame
        BY DEF Typed, WireTyped
      <4>2. QED
        BY <2>8, <4>1, FrameOfKind, BoundsAreNat
    <3>2. Bootstrapping /\ Covers(down'[k].snapshot)
      BY <1>2, <2>3, <2>5, <2>8, SnapshotMoves DEF SnapshotsCover
    <3>3. QED
      BY <2>1, <3>1, <3>2
  <2>9. QED
    BY <2>6, <2>7, <2>8 DEF SnapshotsCover, Covers, CoversNow
<1>3. QED
  BY <1>1, <1>2

(* The client stays live, or becomes so at the end of a bootstrap. *)
LEMMA LiveMoves ==
  ASSUME [Next]_vars, Live'
  PROVE  \/ FinishBootstrap
         \/ Live /\ ~(Connect \/ LoseConnection \/ Reload)
  BY DEF Live, Next, CommitEvent, ChangePresence, LoseDirect, NotifyStranger,
     RefuseContinuation, Server,
     PublishEvent, DeliverDirect, Serve, BeginBootstrapPage, ReadPage, ReplyPage, AckCursor,
     Connect, LoseConnection, Reload, Handle, StartRealtimeFlow, HandleStranger, StartBootstrap,
     HandlePresenceEvent, BufferEvent, ApplyEvent, ReceiveMiddlePage, FinishBootstrap,
     HandleAckResponse, HandleProtocolError, PersistCursor, FlushAck, AckTimeout, vars

LEMMA LiveCoversStep ==
  ASSUME Typed, Typed', AckInv, AckInv', SnapshotsCover, LiveCovers, [Next]_vars, Live'
  PROVE  Covers(lastApplied)' /\ buffered' = {}
<1>1. lastApplied \in Nat /\ lastApplied' \in Nat /\ \A b \in buffered : b \in Nat
  BY NumbersAreNat, LogGrows DEF Typed, BufferTyped
<1>2. CASE FinishBootstrap
  <2>1. LET snapshot == Head(down).snapshot
        IN  /\ snapshot \in Nat /\ snapshot <= lastApplied'
            /\ \A b \in buffered : b > snapshot => b <= lastApplied'
            /\ 1 \in DOMAIN down /\ down[1] = Head(down) /\ Head(down).kind = "page"
    BY <1>2, FinishMoves DEF AckInv
  <2>2. PICK n \in Nat : n = Head(down).snapshot
    BY <2>1
  <2>3. Covers(n)
    BY <2>1, <2>2 DEF SnapshotsCover
  <2>4. \A e : Kept(e) => Kept(e)' \/ e <= lastApplied'
    <3>1. dropped' = dropped
      BY <1>2 DEF FinishBootstrap
    <3>2. \A b \in buffered : b <= lastApplied'
      BY <1>1, <2>1, <2>2
    <3>3. QED
      BY <3>1, <3>2 DEF Kept
  <2>5. ~(Connect \/ LoseConnection \/ Reload)
    BY DEF Live, Connect, LoseConnection, Reload
  <2>6. Covers(lastApplied)'
    BY <1>1, <2>1, <2>2, <2>3, <2>4, <2>5, CoversKept DEF Covers
  <2>7. QED
    BY <1>2, <2>6 DEF FinishBootstrap
<1>3. CASE Live /\ ~(Connect \/ LoseConnection \/ Reload) /\ ~FinishBootstrap
  <2>1. buffered = {} /\ Covers(lastApplied) /\ ~BufferEvent
    BY <1>3 DEF LiveCovers, BufferEvent, Bootstrapping, Live
  <2>2. buffered' = {} /\ \A e : Kept(e) => Kept(e)'
    <3>1. dropped' = dropped
      BY <1>3, <2>1 DEF Next, CommitEvent, ChangePresence, LoseDirect, NotifyStranger,
         RefuseContinuation, Server, PublishEvent, DeliverDirect, Serve, BeginBootstrapPage,
         ReadPage, ReplyPage, AckCursor, Handle, StartRealtimeFlow, HandleStranger, StartBootstrap,
         HandlePresenceEvent, ApplyEvent, ReceiveMiddlePage, HandleAckResponse,
         HandleProtocolError, PersistCursor, FlushAck, AckTimeout, Live, vars, viewVars
    <3>2. QED
      BY <2>1, <3>1, BufferMoves DEF Kept
  <2>3. lastApplied <= lastApplied'
    BY <1>1, <1>3, CursorMoves
  <2>4. Handle /\ Head(down).kind = "event" => Head(down).seq <= lastApplied'
    <3>1. SUFFICES ASSUME ApplyEvent PROVE Head(down).seq <= lastApplied'
      BY <2>1, EventHandlers
    <3>2. Head(down) \in Frame /\ Head(down).kind = "event"
      BY <3>1, ReceivedIsHead DEF ApplyEvent
    <3>3. Head(down).seq \in Nat
      BY <3>2, FrameOfKind, NumbersAreNat
    <3>4. \/ Head(down).seq > lastApplied /\ lastApplied' = Head(down).seq
          \/ ~(Head(down).seq > lastApplied) /\ lastApplied' = lastApplied
      BY <3>1 DEF ApplyEvent
    <3>5. QED
      BY <1>1, <3>3, <3>4
  <2>5. Covers(lastApplied)'
    BY <1>1, <1>3, <2>1, <2>2, <2>3, <2>4, CoversKept DEF Covers
  <2>6. QED
    BY <2>2, <2>5
<1>4. QED
  BY <1>2, <1>3, LiveMoves

(* What the last page shows reaches to the new cursor without a gap.          *)
LEMMA NoGapAtTheEnd ==
  ASSUME Typed, Typed', AckInv, InOrder, SnapshotsCover, FinishBootstrap
  PROVE  1..lastApplied' \subseteq reflected' \cup dropped'
<1>1. LET snapshot == Head(down).snapshot
      IN  /\ snapshot \in Nat
          /\ lastApplied' = snapshot \/ lastApplied' \in buffered
          /\ 1 \in DOMAIN down /\ down[1] = Head(down) /\ Head(down).kind = "page"
  BY FinishMoves DEF AckInv
<1>2. PICK n \in Nat : n = Head(down).snapshot
  BY <1>1
<1>3. Covers(n)
  BY <1>1, <1>2 DEF SnapshotsCover
<1>4. reflected' = 1..n \cup {e \in buffered : e > n} /\ dropped' = dropped
  BY <1>2 DEF FinishBootstrap
<1>5. published \in Nat /\ lastApplied' \in 0..MaxEvents /\ MaxEvents \in Nat
  BY NumbersAreNat, BoundsAreNat DEF Typed, CursorTyped
<1>6. ASSUME NEW e \in 1..lastApplied', n < e PROVE Kept(e)
  <2>1. e \in Event /\ e \in Nat /\ e <= lastApplied'
    BY <1>5 DEF Event
  <2>2. lastApplied' \in buffered
    BY <1>1, <1>2, <1>6, <2>1
  <2>3. lastApplied' <= published
    BY <2>2 DEF AckInv, Published
  <2>4. e <= published
    BY <1>5, <2>1, <2>3
  <2>5. Kept(e) \/ Coming(e)
    BY <1>3, <1>6, <2>1, <2>4 DEF Covers
  <2>6. ~Coming(e)
    <3>1. SUFFICES ASSUME NEW k \in DOMAIN down, down[k].kind = "event", down[k].seq = e
                   PROVE  FALSE
      BY DEF Coming
    <3>2. lastApplied' < e
      BY <2>2, <3>1 DEF InOrder
    <3>3. QED
      BY <1>5, <2>1, <3>2
  <2>7. QED
    BY <2>5, <2>6
<1>7. ASSUME NEW e \in 1..lastApplied' PROVE e \in reflected' \cup dropped'
  <2>1. e \in Nat /\ e >= 1
    OBVIOUS
  <2>2. CASE n < e
    <3>1. e \in buffered \/ e \in dropped
      BY <1>6, <2>2 DEF Kept
    <3>2. QED
      BY <1>2, <1>4, <2>1, <2>2, <3>1
  <2>3. CASE ~(n < e)
    BY <1>2, <1>4, <2>1, <2>3
  <2>4. QED
    BY <2>2, <2>3
<1>8. QED
  BY <1>7

(* A live client applies the next event, which is one above its cursor.       *)
LEMMA NoGapWhenApplied ==
  ASSUME Typed, Typed', AckInv, InOrder, LiveCovers, NoGapBelowCursor, Live,
         ApplyEvent, lastApplied' = Head(down).seq, Head(down).seq > lastApplied
  PROVE  1..lastApplied' \subseteq reflected' \cup dropped'
<1> DEFINE h == Head(down).seq
<1>1. Head(down) \in Frame /\ Head(down).kind = "event" /\ down # <<>>
  BY ReceivedIsHead DEF ApplyEvent
<1>2. h \in Event /\ h \in Nat
  BY <1>1, FrameOfKind, NumbersAreNat
<1>3. 1 \in DOMAIN down /\ down[1] = Head(down)
  BY <1>1, TailLemma DEF Typed, WireTyped
<1>4. h <= published
  BY <1>1, <1>3 DEF AckInv, Published
<1>5. published \in Nat /\ lastApplied \in Nat
  BY NumbersAreNat
<1>6. down \in Seq(Frame)
  BY DEF Typed, WireTyped
<1>7. reflected' = reflected \cup {h} /\ dropped' = dropped
  BY DEF ApplyEvent
<1> HIDE DEF h
<1>8. ASSUME NEW e \in 1..h, lastApplied < e, e # h PROVE e \in dropped
  <2>1. e \in Nat /\ e <= published /\ e < h
    BY <1>2, <1>4, <1>5, <1>8
  <2>2. e \in Event
    BY <1>2, <2>1, <1>8, BoundsAreNat DEF Event
  <2>3. e \in dropped \/ Coming(e)
    BY <1>8, <2>1, <2>2 DEF LiveCovers, Covers, Kept
  <2>4. SUFFICES ASSUME NEW k \in DOMAIN down, down[k].kind = "event", down[k].seq = e
                 PROVE  FALSE
    BY <2>3 DEF Coming
  <2>5. k # 1
    BY <1>3, <1>8, <2>4 DEF h
  <2>6. 1 < k
    BY <1>6, <2>5
  <2>7. h < e
    BY <1>1, <1>3, <2>4, <2>6 DEF InOrder, h
  <2>8. QED
    BY <1>2, <2>1, <2>7
<1>9. ASSUME NEW e \in 1..h PROVE e \in reflected' \cup dropped'
  <2>1. CASE e = h
    BY <1>7, <2>1
  <2>2. CASE ~(lastApplied < e)
    <3>1. e \in 1..lastApplied
      BY <1>2, <1>5, <2>2
    <3>2. QED
      BY <1>7, <3>1 DEF NoGapBelowCursor
  <2>3. QED
    BY <1>7, <1>8, <2>1, <2>2
<1>10. QED
  BY <1>9 DEF h

LEMMA NoGapStep ==
  ASSUME Typed, Typed', AckInv, InOrder, SnapshotsCover, LiveCovers, NoGapBelowCursor, [Next]_vars
  PROVE  NoGapBelowCursor'
<1>1. SUFFICES ASSUME Live' PROVE 1..lastApplied' \subseteq reflected' \cup dropped'
  BY DEF NoGapBelowCursor
<1>2. CASE FinishBootstrap
  BY <1>2, NoGapAtTheEnd
<1>3. CASE Live /\ ~Reload /\ ~FinishBootstrap
  <2>1. CASE lastApplied' = lastApplied
    <3>1. reflected \subseteq reflected' /\ dropped \subseteq dropped'
      BY <1>1, <1>3
      DEF Live, StartBootstrap, Next, CommitEvent, ChangePresence, LoseDirect,
          NotifyStranger, RefuseContinuation, Server,
          PublishEvent, DeliverDirect, Serve, BeginBootstrapPage, ReadPage, ReplyPage, AckCursor,
          Connect, LoseConnection, Handle, StartRealtimeFlow, HandleStranger, HandlePresenceEvent,
          BufferEvent, ApplyEvent, ReceiveMiddlePage, HandleAckResponse,
          HandleProtocolError, PersistCursor, FlushAck, AckTimeout, vars, viewVars
    <3>2. QED
      BY <1>3, <2>1, <3>1 DEF NoGapBelowCursor
  <2>2. CASE ApplyEvent /\ lastApplied' = Head(down).seq /\ Head(down).seq > lastApplied
    BY <1>3, <2>2, NoGapWhenApplied
  <2>3. QED
    BY <1>3, <2>1, <2>2, CursorMoves
<1>4. QED
  BY <1>1, <1>2, <1>3, LiveMoves

LEMMA GapInit == Init => GapInv
  BY DEF Init, GapInv, InOrder, SnapshotsCover, LiveCovers, NoGapBelowCursor, Live

LEMMA GapStep ==
  ASSUME Typed, Typed', AckInv, AckInv', GapInv, [Next]_vars
  PROVE  GapInv'
<1>1. InOrder'
  BY InOrderStep DEF GapInv, AckInv
<1>2. SnapshotsCover'
  BY SnapshotsCoverStep DEF GapInv
<1>3. LiveCovers'
  BY LiveCoversStep DEF GapInv, LiveCovers
<1>4. NoGapBelowCursor'
  BY NoGapStep DEF GapInv
<1>5. QED
  BY <1>1, <1>2, <1>3, <1>4 DEF GapInv

(* A live client has missed none of the events below its cursor, through lost *)
(* connections, reloads and bootstraps started over, but those that its last   *)
(* bootstrap had no room to keep.                                              *)
THEOREM NoGapForLiveClient == Spec => []NoGapBelowCursor
<1>1. Init => Typed /\ AckInv /\ GapInv
  BY InitIsTyped, AckInit, GapInit
<1>2. (Typed /\ AckInv /\ GapInv) /\ [Next]_vars => (Typed /\ AckInv /\ GapInv)'
  BY StepKeepsTypes, AckStep, GapStep
<1>3. GapInv => NoGapBelowCursor
  BY DEF GapInv
<1>4. QED
  BY <1>1, <1>2, <1>3, PTL DEF Spec

-----------------------------------------------------------------------------
(* The presence of peers: the invariant                                      *)

Wire     == {down[k] : k \in DOMAIN down}
Requests == {up[k] : k \in DOMAIN up}

(* The present value of i is going to be delivered directly. *)
Announced(i) == \E d \in pending : d.peer = i /\ d.version = value[i]
Told(i) ==
  \/ Announced(i)
  \/ \E f \in Wire : f.kind = "direct" /\ f.peer = i /\ f.version = value[i]

(* The stamps of i tell its values apart, and none was lost or has crossed.   *)
Trusted(i) == i \notin misled /\ ~StampWentBack(i)

(* A value that does not displace the present one. *)
Earlier(i, v)  == StampOf[i][v] < StampOf[i][value[i]]
Harmless(i, v) == v = value[i] \/ Earlier(i, v)

(* What the page of i has been read to say. *)
Carries(values, i, v) == i \in DOMAIN values /\ values[i] = v
Said(i, v) ==
  \/ job # None /\ Carries(job.values, i, v)
  \/ \E f \in Wire : f.kind = "page" /\ Carries(f.values, i, v)
  \/ stage # None /\ Carries(stage.values, i, v)

(* Nobody has heard of a value that does not exist yet. *)
NotNewer ==
  \A i \in Peer :
    /\ shown[i] <= value[i]
    /\ i \in DOMAIN overlay => overlay[i] <= value[i]
    /\ \A f \in Wire : f.kind = "direct" /\ f.peer = i => f.version <= value[i]
    /\ \A v \in Version : Said(i, v) => v <= value[i]
    /\ \A d \in pending : d.peer = i => d.version <= value[i]

(* Before the session is registered for deliveries nothing has been read.    *)
NotYetServed ==
  session # "serving" =>
    /\ ~Live /\ job = None /\ Wire \subseteq {AuthFrame}
    /\ Bootstrapping => overlay = NothingShown /\ stage = None

(* Every page comes with its peers, and finds those of the pages before it.  *)
AskedFor(p) ==
  \/ job # None /\ job.page = p
  \/ \E r \in Requests : r.kind = "bootstrap" /\ r.page = p
  \/ \E f \in Wire : f.kind = "page" /\ f.page = p
PagesFit ==
  /\ job # None => DOMAIN job.values = IF job.read THEN OnPage(job.page) ELSE {}
  /\ \A f \in Wire : f.kind = "page" => DOMAIN f.values = OnPage(f.page)
  /\ \A p \in Page : AskedFor(p) /\ p > 0 /\ stage # None =>
       DOMAIN stage.values = {i \in Peer : PageOf[i] < p}

(* What would displace the present value is followed by it. *)
Followed ==
  \A k \in DOMAIN down :
    /\ down[k].kind = "direct" /\ down[k].peer \notin misled
    /\ ~Announced(down[k].peer) /\ ~Harmless(down[k].peer, down[k].version)
    => \E l \in DOMAIN down : /\ k < l /\ down[l].kind = "direct"
                             /\ down[l].peer = down[k].peer
                             /\ down[l].version = value[down[k].peer]

(* Unless it is going to be told, a live client shows the present value, and *)
(* one that bootstraps will: the overlay has it, or whatever has been read   *)
(* has it and the overlay does not displace that.                            *)
Settled(i) ==
  /\ Live => shown[i] = value[i]
  /\ Bootstrapping =>
       \/ i \in DOMAIN overlay /\ overlay[i] = value[i]
       \/ /\ i \in DOMAIN overlay => Earlier(i, overlay[i])
          /\ \A v \in Version : Said(i, v) => v = value[i]
UpToDate ==
  session = "serving" => \A i \in Peer : Trusted(i) => Told(i) \/ Settled(i)

PresenceInv ==
  NotNewer /\ NotYetServed /\ PagesFit /\ UpToDate

-----------------------------------------------------------------------------
(* The presence of peers: frames come and go                                 *)

LEMMA WireIsTyped ==
  ASSUME Typed
  PROVE  Wire \subseteq Frame /\ Requests \subseteq Request
  BY DEF Wire, Requests, Typed, WireTyped

LEMMA WireGrows ==
  ASSUME Typed, NEW x \in Frame, down' = Append(down, x)
  PROVE  Wire' = Wire \cup {x}
<1>1. down \in Seq(Frame)
  BY DEF Typed, WireTyped
<1>2. \A y : y \in Wire' <=> y \in Wire \cup {x}
  <2>1. ASSUME NEW y \in Wire' PROVE y \in Wire \cup {x}
    <3>1. PICK k \in DOMAIN Append(down, x) : y = Append(down, x)[k]
      BY DEF Wire
    <3>2. QED
      BY <1>1, <3>1, AppendLemma DEF Wire
  <2>2. ASSUME NEW y \in Wire PROVE y \in Wire'
    <3>1. PICK k \in DOMAIN down : y = down[k]
      BY DEF Wire
    <3>2. k \in DOMAIN down' /\ down'[k] = y
      BY <1>1, <3>1, AppendLemma
    <3>3. QED
      BY <3>2 DEF Wire
  <2>3. x \in Wire'
    <3>1. Len(down) + 1 \in DOMAIN down' /\ down'[Len(down) + 1] = x
      BY <1>1, AppendLemma
    <3>2. QED
      BY <3>1 DEF Wire
  <2>4. QED
    BY <2>1, <2>2, <2>3
<1>3. QED
  BY <1>2

LEMMA WireShrinks ==
  ASSUME Typed, down # <<>>, down' = Tail(down)
  PROVE  /\ Head(down) \in Wire /\ Wire' \subseteq Wire
         /\ Wire \subseteq Wire' \cup {Head(down)}
<1>1. down \in Seq(Frame)
  BY DEF Typed, WireTyped
<1>2. Head(down) \in Wire
  BY <1>1, TailLemma DEF Wire
<1>3. ASSUME NEW y \in Wire' PROVE y \in Wire
  <2>1. PICK k \in DOMAIN Tail(down) : y = Tail(down)[k]
    BY DEF Wire
  <2>2. k + 1 \in DOMAIN down /\ down[k + 1] = y
    BY <1>1, <2>1, TailLemma
  <2>3. QED
    BY <2>2 DEF Wire
<1>4. ASSUME NEW y \in Wire PROVE y \in Wire' \cup {Head(down)}
  <2>1. PICK k \in DOMAIN down : y = down[k]
    BY DEF Wire
  <2>2. k = 1 \/ (k - 1 \in DOMAIN down' /\ down'[k - 1] = y)
    BY <1>1, <2>1, TailLemma
  <2>3. QED
    BY <1>1, <2>1, <2>2, TailLemma DEF Wire
<1>5. QED
  BY <1>2, <1>3, <1>4

LEMMA RequestsMove ==
  ASSUME Typed
  PROVE  /\ up # <<>> /\ up' = Tail(up) => Head(up) \in Requests /\ Requests' \subseteq Requests
         /\ \A r \in Request : up' = Append(up, r) => Requests' = Requests \cup {r}
<1>1. up \in Seq(Request)
  BY DEF Typed, WireTyped
<1>2. ASSUME up # <<>>, up' = Tail(up)
      PROVE  Head(up) \in Requests /\ Requests' \subseteq Requests
  <2>1. Head(up) \in Requests
    BY <1>1, <1>2, TailLemma DEF Requests
  <2>2. ASSUME NEW y \in Requests' PROVE y \in Requests
    <3>1. PICK k \in DOMAIN Tail(up) : y = Tail(up)[k]
      BY <1>2 DEF Requests
    <3>2. k + 1 \in DOMAIN up /\ up[k + 1] = y
      BY <1>1, <1>2, <3>1, TailLemma
    <3>3. QED
      BY <3>2 DEF Requests
  <2>3. QED
    BY <2>1, <2>2
<1>3. ASSUME NEW r \in Request, up' = Append(up, r)
      PROVE  Requests' = Requests \cup {r}
  <2>1. ASSUME NEW y \in Requests' PROVE y \in Requests \cup {r}
    <3>1. PICK k \in DOMAIN Append(up, r) : y = Append(up, r)[k]
      BY <1>3 DEF Requests
    <3>2. QED
      BY <1>1, <3>1, AppendLemma DEF Requests
  <2>2. ASSUME NEW y \in Requests PROVE y \in Requests'
    <3>1. PICK k \in DOMAIN up : y = up[k]
      BY DEF Requests
    <3>2. k \in DOMAIN up' /\ up'[k] = y
      BY <1>1, <1>3, <3>1, AppendLemma
    <3>3. QED
      BY <3>2 DEF Requests
  <2>3. r \in Requests'
    <3>1. Len(up) + 1 \in DOMAIN up' /\ up'[Len(up) + 1] = r
      BY <1>1, <1>3, AppendLemma
    <3>2. QED
      BY <3>1 DEF Requests
  <2>4. QED
    BY <2>1, <2>2, <2>3
<1>4. QED
  BY <1>2, <1>3

(* Without a bootstrap under way the wire has no page, and nothing is asked. *)
LEMMA NothingAsked ==
  ASSUME NoneUnderWay
  PROVE  /\ job = None /\ \A f \in Wire : f.kind # "page"
         /\ \A r \in Requests : r.kind # "bootstrap"
  BY DEF NoneUnderWay, Without, Wire, Requests

(* Of two values of a peer that with the later stamp wins, else the second.  *)
LEMMA LaterWins ==
  ASSUME NEW i \in Peer, NEW x \in Version, NEW y \in Version
  PROVE  /\ StampOf[i][x] \in Nat /\ StampOf[i][y] \in Nat
         /\ NewerPresence(i, x, y) \in {x, y}
         /\ StampOf[i][x] <= StampOf[i][y] => NewerPresence(i, x, y) = y
         /\ StampOf[i][y] < StampOf[i][x] => NewerPresence(i, x, y) = x
  BY BoundsAreNat DEF NewerPresence, Version

(* A peer's earlier values have no later stamp. *)
LEMMA StampsAscend ==
  ASSUME NEW i \in Peer, ~StampWentBack(i), NEW v \in Version, v <= value[i],
         value[i] \in Version
  PROVE  StampOf[i][v] <= StampOf[i][value[i]]
<1>1. v \in 0..value[i]
  BY BoundsAreNat DEF Version
<1>2. ~(StampOf[i][v] > StampOf[i][value[i]])
  BY <1>1 DEF StampWentBack
<1>3. StampOf[i][v] \in Nat /\ StampOf[i][value[i]] \in Nat
  BY BoundsAreNat DEF Version
<1>4. QED
  BY <1>2, <1>3

LEMMA VersionsAreNat ==
  ASSUME Typed
  PROVE  /\ \A v \in Version : v \in Nat
         /\ \A i \in Peer : value[i] \in Version /\ shown[i] \in Version
         /\ \A i \in DOMAIN overlay : i \in Peer /\ overlay[i] \in Version
<1>1. \A v \in Version : v \in Nat
  BY BoundsAreNat DEF Version
<1>2. \A i \in Peer : value[i] \in Version /\ shown[i] \in Version
  BY DEF Typed, ServerTyped, ViewTyped
<1>3. overlay \in Versions
  BY DEF Typed, ViewTyped
<1>4. QED
  BY <1>1, <1>2, <1>3, VersionsElim

-----------------------------------------------------------------------------
(* The presence of peers: the steps                                          *)

(* Steps that neither read nor deliver a presence. *)
LEMMA PresenceKept ==
  ASSUME PresenceInv,
         UNCHANGED <<value, pending, misled, shown, overlay, stage, job, wsState, session>>,
         \A f \in Wire' : f \in Wire \/ f.kind \notin {"direct", "page"},
         \A f \in Wire : f.kind = "direct" => f \in Wire', Wire \subseteq Frame,
         session # "serving" => Wire' \subseteq Wire,
         \A r \in Requests' : r \in Requests \/ r.kind # "bootstrap"
  PROVE  PresenceInv'
<1>1. \A i \in Peer, v \in Version : Said(i, v)' => Said(i, v)
  BY DEF Said
<1>2. \A i \in Peer : (Told(i) => Told(i)') /\ (Trusted(i)' <=> Trusted(i))
  BY DEF Told, Announced, Trusted, StampWentBack
<1>3. NotNewer'
  BY <1>1 DEF PresenceInv, NotNewer
<1>4. NotYetServed'
  BY DEF PresenceInv, NotYetServed, Live, Bootstrapping
<1>5. PagesFit'
  <2>1. \A p \in Page : AskedFor(p)' => AskedFor(p)
    BY DEF AskedFor
  <2>2. QED
    BY <2>1 DEF PresenceInv, PagesFit
<1>6. UpToDate'
  <2>1. \A i \in Peer : Settled(i) => Settled(i)'
    BY <1>1 DEF Settled, Earlier, Live, Bootstrapping
  <2>2. QED
    BY <1>2, <2>1 DEF PresenceInv, UpToDate
<1>7. QED
  BY <1>3, <1>4, <1>5, <1>6 DEF PresenceInv

(* A presence changes, and its announcement is due. *)
LEMMA ChangeKeepsPresence ==
  ASSUME Typed, PresenceInv, NEW i \in Peer, ChangePresence(i)
  PROVE  PresenceInv'
<1>1. /\ value' = [value EXCEPT ![i] = @ + 1]
      /\ UNCHANGED <<misled, shown, overlay, stage, job, wsState, session, up, down>>
  BY DEF ChangePresence, sessionVars, viewVars
<1>2. Wire' = Wire /\ Requests' = Requests
  BY <1>1 DEF Wire, Requests
<1>3. /\ \A j \in Peer : value[j] <= value'[j] /\ value[j] \in Nat /\ value'[j] \in Nat
      /\ \A j \in Peer : j # i => value'[j] = value[j]
      /\ value'[i] = value[i] + 1
  BY <1>1, VersionsAreNat DEF Typed, ServerTyped
<1>4. /\ pending \subseteq pending' /\ \E d \in pending' : d.peer = i /\ d.version = value'[i]
      /\ \A d \in pending' : d \in pending \/ (d.peer = i /\ d.version = value'[i])
  <2>1. PICK ways \in (SUBSET Way) \ {{}} :
          pending' = pending \cup {[peer |-> i, version |-> value[i] + 1, by |-> w] : w \in ways}
    BY DEF ChangePresence
  <2>2. PICK w \in ways : TRUE
    BY <2>1
  <2>3. [peer |-> i, version |-> value[i] + 1, by |-> w] \in pending'
    BY <2>1, <2>2
  <2>4. QED
    BY <1>3, <2>1, <2>3
<1>5. \A j \in Peer, v \in Version : Said(j, v)' <=> Said(j, v)
  BY <1>1, <1>2 DEF Said
<1>6. Told(i)'
  BY <1>4 DEF Told, Announced
<1>7. NotNewer'
  <2>1. ASSUME NEW j \in Peer
        PROVE  /\ shown'[j] <= value'[j]
               /\ j \in DOMAIN overlay' => overlay'[j] <= value'[j]
               /\ \A v \in Version : Said(j, v)' => v <= value'[j]
    BY <1>1, <1>3, <1>5, VersionsAreNat DEF PresenceInv, NotNewer
  <2>2. ASSUME NEW j \in Peer, NEW f \in Wire', f.kind = "direct", f.peer = j
        PROVE  f.version <= value'[j]
    <3>1. f.version \in Nat
      BY <1>2, <2>2, WireIsTyped, FrameOfKind, VersionsAreNat
    <3>2. QED
      BY <1>2, <1>3, <2>2, <3>1 DEF PresenceInv, NotNewer
  <2>3. ASSUME NEW j \in Peer, NEW d \in pending', d.peer = j
        PROVE  d.version <= value'[j]
    <3>1. CASE d \in pending
      <4>1. d.version \in Nat
        BY <3>1, VersionsAreNat DEF Typed, ServerTyped, Announcement
      <4>2. QED
        BY <1>3, <2>3, <3>1, <4>1 DEF PresenceInv, NotNewer
    <3>2. CASE d.peer = i /\ d.version = value'[i]
      BY <1>3, <2>3, <3>2
    <3>3. QED
      BY <1>4, <3>1, <3>2
  <2>4. QED
    BY <2>1, <2>2, <2>3 DEF NotNewer
<1>8. NotYetServed'
  BY <1>1, <1>2 DEF PresenceInv, NotYetServed, Live, Bootstrapping
<1>9. PagesFit'
  BY <1>1, <1>2 DEF PresenceInv, PagesFit, AskedFor
<1>10. UpToDate'
  <2>1. ASSUME NEW j \in Peer, j # i
        PROVE  /\ Trusted(j)' <=> Trusted(j)
               /\ Told(j) => Told(j)'
               /\ Settled(j) => Settled(j)'
    <3>1. value'[j] = value[j]
      BY <1>3, <2>1
    <3>2. Trusted(j)' <=> Trusted(j)
      BY <1>1, <3>1 DEF Trusted, StampWentBack
    <3>3. Told(j) => Told(j)'
      BY <1>2, <1>4, <3>1 DEF Told, Announced
    <3>4. Settled(j) => Settled(j)'
      BY <1>1, <1>5, <3>1 DEF Settled, Earlier, Live, Bootstrapping
    <3>5. QED
      BY <3>2, <3>3, <3>4
  <2>2. QED
    BY <1>1, <1>6, <2>1 DEF PresenceInv, UpToDate
<1>11. QED
  BY <1>7, <1>8, <1>9, <1>10 DEF PresenceInv

(* A change is delivered, if the session is registered. *)
LEMMA DeliveryKeepsPresence ==
  ASSUME Typed, PresenceInv, DeliverDirect
  PROVE  PresenceInv'
<1>1. UNCHANGED <<value, shown, overlay, stage, job, wsState, session, up>>
  BY DEF DeliverDirect, viewVars
<1>2. PICK d \in pending, x \in Frame :
        /\ d.peer \in Peer /\ d.version \in Version /\ pending' = pending \ {d}
        /\ x.kind = "direct" /\ x.peer = d.peer /\ x.version = d.version
        /\ session = "serving" =>
             /\ down' = Append(down, x)
             /\ misled' = IF Overtaken(d) THEN misled \cup {d.peer}
                          ELSE IF d.version = value[d.peer] THEN misled \ {d.peer}
                          ELSE misled
        /\ session # "serving" => UNCHANGED <<down, misled>>
  BY DirectIsDelivered
<1>3. Requests' = Requests
  BY <1>1 DEF Requests
<1>4. CASE session = "serving"
  <2>1. Wire' = Wire \cup {x}
    BY <1>2, <1>4, WireGrows
  <2>2. \A j \in Peer, v \in Version : Said(j, v)' => Said(j, v)
    BY <1>1, <1>2, <2>1 DEF Said
  <2>3. NotNewer'
    <3>1. x.version <= value[d.peer]
      BY <1>2 DEF PresenceInv, NotNewer
    <3>2. QED
      BY <1>1, <1>2, <2>1, <2>2, <3>1 DEF PresenceInv, NotNewer
  <2>4. NotYetServed'
    BY <1>1, <1>4 DEF NotYetServed
  <2>5. PagesFit'
    BY <1>1, <1>2, <1>3, <2>1 DEF PresenceInv, PagesFit, AskedFor
  <2>6. ASSUME NEW j \in Peer, Trusted(j)' PROVE Told(j)' \/ Settled(j)'
    <3>1. j \notin misled' /\ ~StampWentBack(j)
      BY <1>1, <2>6 DEF Trusted, StampWentBack
    <3>2. CASE d.peer = j /\ d.version = value[j]
      BY <1>1, <1>2, <2>1, <3>2 DEF Told
    <3>3. CASE ~(d.peer = j /\ d.version = value[j])
      <4>1. j \notin misled
        BY <1>2, <1>4, <3>1, <3>3
      <4>2. Told(j) \/ Settled(j)
        BY <1>4, <3>1, <4>1 DEF PresenceInv, UpToDate, Trusted
      <4>3. Told(j) => Told(j)'
        BY <1>1, <1>2, <2>1, <3>3 DEF Told, Announced
      <4>4. Settled(j) => Settled(j)'
        BY <1>1, <2>2 DEF Settled, Earlier, Live, Bootstrapping
      <4>5. QED
        BY <4>2, <4>3, <4>4
    <3>4. QED
      BY <3>2, <3>3
  <2>7. UpToDate'
    BY <2>6 DEF UpToDate
  <2>8. QED
    BY <2>3, <2>4, <2>5, <2>7 DEF PresenceInv
<1>5. CASE session # "serving"
  <2>1. Wire' = Wire
    BY <1>2, <1>5 DEF Wire
  <2>2. \A j \in Peer, v \in Version : Said(j, v)' <=> Said(j, v)
    BY <1>1, <2>1 DEF Said
  <2>3. NotNewer' /\ PagesFit' /\ NotYetServed'
    BY <1>1, <1>2, <1>3, <2>1, <2>2
    DEF PresenceInv, NotNewer, PagesFit, AskedFor, NotYetServed, Live, Bootstrapping
  <2>4. UpToDate'
    BY <1>1, <1>5 DEF UpToDate
  <2>5. QED
    BY <2>3, <2>4 DEF PresenceInv
<1>6. QED
  BY <1>4, <1>5

(* An announcement that is lost misleads if it was the present one. *)
LEMMA LossKeepsPresence ==
  ASSUME Typed, PresenceInv, LoseDirect
  PROVE  PresenceInv'
<1>1. UNCHANGED <<value, shown, overlay, stage, job, wsState, session, up, down>>
  BY DEF LoseDirect, viewVars
<1>2. PICK d \in pending :
        /\ pending' = pending \ {d}
        /\ misled' = IF d.version = value[d.peer] THEN misled \cup {d.peer} ELSE misled
  BY DEF LoseDirect
<1>3. Wire' = Wire /\ Requests' = Requests
  BY <1>1 DEF Wire, Requests
<1>4. \A j \in Peer, v \in Version : Said(j, v)' <=> Said(j, v)
  BY <1>1, <1>3 DEF Said
<1>5. NotNewer' /\ PagesFit' /\ NotYetServed'
  BY <1>1, <1>2, <1>3, <1>4
  DEF PresenceInv, NotNewer, PagesFit, AskedFor, NotYetServed, Live, Bootstrapping
<1>6. ASSUME NEW j \in Peer, session = "serving", Trusted(j)' PROVE Told(j)' \/ Settled(j)'
  <2>1. /\ j \notin misled /\ ~StampWentBack(j)
        /\ ~(d.peer = j /\ d.version = value[j])
    BY <1>1, <1>2, <1>6 DEF Trusted, StampWentBack
  <2>2. Told(j) \/ Settled(j)
    BY <1>6, <2>1 DEF PresenceInv, UpToDate, Trusted
  <2>3. Told(j) => Told(j)'
    BY <1>1, <1>2, <1>3, <2>1 DEF Told, Announced
  <2>4. Settled(j) => Settled(j)'
    BY <1>1, <1>4 DEF Settled, Earlier, Live, Bootstrapping
  <2>5. QED
    BY <2>2, <2>3, <2>4
<1>7. UpToDate'
  BY <1>1, <1>6 DEF UpToDate
<1>8. QED
  BY <1>5, <1>7 DEF PresenceInv

(* The session is registered: what was changed before will be read.          *)
LEMMA ServeKeepsPresence ==
  ASSUME PresenceInv, Serve
  PROVE  PresenceInv'
<1>1. /\ session = "authenticated" /\ session' = "serving"
      /\ UNCHANGED <<value, pending, misled, shown, overlay, stage, job, wsState, up, down>>
  BY DEF Serve, serverVars, viewVars
<1>2. Wire' = Wire /\ Requests' = Requests
  BY <1>1 DEF Wire, Requests
<1>3. /\ ~Live /\ job = None /\ \A f \in Wire : f.kind \notin {"direct", "page"}
      /\ Bootstrapping => overlay = NothingShown /\ stage = None
  BY <1>1, FramesTyped DEF PresenceInv, NotYetServed
<1>4. \A j \in Peer, v \in Version : Said(j, v)' <=> Said(j, v)
  BY <1>1, <1>2 DEF Said
<1>5. NotNewer' /\ PagesFit' /\ NotYetServed'
  BY <1>1, <1>2, <1>4 DEF PresenceInv, NotNewer, PagesFit, AskedFor, NotYetServed
<1>6. UpToDate'
  <2>1. ASSUME NEW i \in Peer PROVE Settled(i)'
    <3>1. ~Live' /\ (Bootstrapping' => Bootstrapping)
      BY <1>1, <1>3 DEF Live, Bootstrapping
    <3>2. Bootstrapping => i \notin DOMAIN overlay' /\ \A v \in Version : ~Said(i, v)'
      BY <1>1, <1>3, <1>4, NothingIsTyped DEF Said
    <3>3. QED
      BY <3>1, <3>2 DEF Settled
  <2>2. QED
    BY <2>1 DEF UpToDate
<1>7. QED
  BY <1>5, <1>6 DEF PresenceInv

(* The handler of a page takes its request, reads and answers.               *)
LEMMA HandlerKeepsPresence ==
  ASSUME Typed, PresenceInv, BeginBootstrapPage \/ ReadPage \/ ReplyPage
  PROVE  PresenceInv'
<1>1. UNCHANGED <<value, pending, misled, shown, overlay, stage, wsState, session>>
  BY DEF BeginBootstrapPage, ReadPage, ReplyPage, serverVars, viewVars
<1>2. /\ Wire \subseteq Wire' /\ \A f \in Wire' : f.kind = "direct" => f \in Wire
      /\ \A f \in Wire' : f.kind = "page" =>
           f \in Wire \/ (job # None /\ job.read /\ f.page = job.page /\ f.values = job.values)
      /\ Requests' \subseteq Requests
  <2>1. CASE BeginBootstrapPage
    BY <2>1, RequestsMove DEF BeginBootstrapPage, Wire
  <2>2. CASE ReadPage
    BY <2>2 DEF ReadPage, Wire, Requests
  <2>3. CASE ReplyPage
    <3>1. job # None /\ job.read /\ up' = up
          /\ down' = Append(down, PageFrame(job.page, job.snapshot, job.values))
      BY <2>3 DEF ReplyPage
    <3>2. job.page \in Page /\ job.snapshot \in 0..MaxEvents /\ job.values \in Versions
      BY <3>1 DEF Typed, WireTyped, PageJob
    <3>3. PICK x \in Frame : /\ x = PageFrame(job.page, job.snapshot, job.values)
                             /\ x.kind = "page" /\ x.page = job.page /\ x.values = job.values
      BY <3>2, FramesTyped
    <3>4. Wire' = Wire \cup {x}
      BY <3>1, <3>3, WireGrows
    <3>5. QED
      BY <3>1, <3>3, <3>4 DEF Requests
  <2>4. QED
    BY <2>1, <2>2, <2>3
<1>3. job' # None =>
        \/ /\ ReadPage /\ job # None /\ job'.read /\ job'.page = job.page
           /\ job'.values = [i \in OnPage(job.page) |-> value[i]]
        \/ /\ BeginBootstrapPage /\ ~job'.read /\ job'.values = NothingShown
           /\ \E r \in Requests : r.kind = "bootstrap" /\ r.page = job'.page
  <2>1. CASE BeginBootstrapPage
    BY <2>1, RequestsMove DEF BeginBootstrapPage
  <2>2. CASE ReadPage
    BY <2>2 DEF ReadPage, Typed, WireTyped, PageJob
  <2>3. CASE ReplyPage
    BY <2>3 DEF ReplyPage
  <2>4. QED
    BY <2>1, <2>2, <2>3
<1>4. session = "serving"
  BY DEF BeginBootstrapPage, ReadPage, ReplyPage, PresenceInv, NotYetServed
<1>5. ASSUME NEW i \in Peer, NEW v \in Version, Said(i, v)'
      PROVE  Said(i, v) \/ v = value[i]
  <2>1. CASE job' # None /\ Carries(job'.values, i, v)
    BY <1>3, <2>1, NothingIsTyped DEF Carries
  <2>2. CASE \E f \in Wire' : f.kind = "page" /\ Carries(f.values, i, v)
    BY <1>2, <2>2 DEF Said, Carries
  <2>3. CASE stage' # None /\ Carries(stage'.values, i, v)
    BY <1>1, <2>3 DEF Said, Carries
  <2>4. QED
    BY <1>5, <2>1, <2>2, <2>3 DEF Said
<1>6. NotNewer'
  <2>1. \A i \in Peer : value[i] \in Nat
    BY VersionsAreNat
  <2>2. \A i \in Peer, v \in Version : Said(i, v)' => v <= value[i]
    BY <1>5, <2>1 DEF PresenceInv, NotNewer
  <2>3. QED
    BY <1>1, <1>2, <2>2 DEF PresenceInv, NotNewer
<1>7. PagesFit'
  <2>1. job' # None => DOMAIN job'.values = IF job'.read THEN OnPage(job'.page) ELSE {}
    BY <1>3, NothingIsTyped
  <2>2. \A f \in Wire' : f.kind = "page" => DOMAIN f.values = OnPage(f.page)
    BY <1>2 DEF PresenceInv, PagesFit
  <2>3. \A p \in Page : AskedFor(p)' => AskedFor(p)
    BY <1>2, <1>3 DEF AskedFor
  <2>4. QED
    BY <1>1, <2>1, <2>2, <2>3 DEF PresenceInv, PagesFit
<1>8. UpToDate'
  <2>1. \A i \in Peer : Settled(i) => Settled(i)'
    BY <1>1, <1>5 DEF Settled, Earlier, Live, Bootstrapping
  <2>2. \A i \in Peer : (Told(i) => Told(i)') /\ (Trusted(i)' <=> Trusted(i))
    BY <1>1, <1>2 DEF Told, Announced, Trusted, StampWentBack
  <2>3. QED
    BY <1>1, <2>1, <2>2 DEF PresenceInv, UpToDate
<1>9. NotYetServed'
  BY <1>1, <1>4 DEF NotYetServed
<1>10. QED
  BY <1>6, <1>7, <1>8, <1>9 DEF PresenceInv

(* A connection is lost or set up. *)
LEMMA BreakKeepsPresence ==
  ASSUME Typed, PresenceInv, Connect \/ LoseConnection \/ Reload
  PROVE  PresenceInv'
<1>1. /\ session' # "serving" /\ job' = None /\ up' = <<>>
      /\ down' = <<>> \/ down' = <<AuthFrame>>
      /\ wsState' \in {"DISCONNECTED", "CONNECTING"} /\ UNCHANGED <<value, pending>>
      /\ \/ UNCHANGED <<shown, overlay, stage>>
         \/ shown' = [i \in Peer |-> 0] /\ overlay' = NothingShown /\ stage' = None
  BY DEF Connect, LoseConnection, Reload, serverVars, viewVars
<1>2. Wire' \subseteq {AuthFrame} /\ Requests' = {}
  BY <1>1 DEF Wire, Requests
<1>3. \A f \in Wire' : f.kind \notin {"direct", "page"}
  BY <1>2, FramesTyped
<1>4. \A i \in Peer, v \in Version : Said(i, v)' => Said(i, v)
  BY <1>1, <1>3 DEF Said
<1>5. NotNewer'
  <2>1. \A i \in Peer : value[i] \in Nat
    BY VersionsAreNat
  <2>2. \A i \in Peer : shown'[i] <= value[i] /\ (i \in DOMAIN overlay' => overlay'[i] <= value[i])
    BY <1>1, <2>1, NothingIsTyped DEF PresenceInv, NotNewer
  <2>3. QED
    BY <1>1, <1>3, <1>4, <2>2 DEF PresenceInv, NotNewer
<1>6. NotYetServed'
  BY <1>1, <1>2 DEF NotYetServed, Live, Bootstrapping
<1>7. PagesFit' /\ UpToDate'
  BY <1>1, <1>2, <1>3 DEF PagesFit, AskedFor, UpToDate
<1>8. QED
  BY <1>5, <1>6, <1>7 DEF PresenceInv

(* A bootstrap begins: everything will be read. *)
LEMMA BeginningKeepsPresence ==
  ASSUME Typed, PresenceInv, OneAnswer, ~Bootstrapping, StartBootstrap,
         down # <<>>, down' = Tail(down), Head(down).kind # "direct",
         UNCHANGED <<value, pending, misled, shown, job, session>>
  PROVE  PresenceInv'
<1>1. /\ stage' = None /\ overlay' = NothingShown /\ ~Live' /\ Bootstrapping'
      /\ up' = Append(up, BootstrapRequest(0, 0))
  BY DEF StartBootstrap, Live, Bootstrapping
<1>2. NoneUnderWay
  BY DEF OneAnswer
<1>3. /\ Wire' \subseteq Wire /\ \A f \in Wire : f.kind = "direct" => f \in Wire'
      /\ job = None /\ \A f \in Wire : f.kind # "page"
      /\ \A r \in Requests : r.kind # "bootstrap"
  BY <1>2, WireShrinks, NothingAsked
<1>4. PICK r \in Request : r = BootstrapRequest(0, 0) /\ r.kind = "bootstrap" /\ r.page = 0
  BY RequestsTyped, BoundsAreNat DEF Page
<1>5. Requests' = Requests \cup {r}
  BY <1>1, <1>4, RequestsMove
<1>6. \A i \in Peer, v \in Version : ~Said(i, v)'
  BY <1>1, <1>3 DEF Said
<1>7. NotNewer'
  BY <1>1, <1>3, <1>6, NothingIsTyped DEF PresenceInv, NotNewer
<1>8. NotYetServed'
  BY <1>1, <1>3 DEF PresenceInv, NotYetServed
<1>9. PagesFit'
  BY <1>1, <1>3 DEF PagesFit, AskedFor
<1>10. UpToDate'
  BY <1>1, <1>6, NothingIsTyped DEF UpToDate, Settled
<1>11. QED
  BY <1>7, <1>8, <1>9, <1>10 DEF PresenceInv

(* A delivered change is shown, and kept for the snapshot.                   *)
LEMMA HandlingKeepsPresence ==
  ASSUME Typed, PresenceInv, Followed, HandlePresenceEvent
  PROVE  PresenceInv'
<1>1. /\ down # <<>> /\ Head(down) \in Frame /\ Head(down).kind = "direct"
      /\ down' = Tail(down)
      /\ UNCHANGED <<value, pending, misled, stage, job, wsState, session, up>>
  BY ReceivedIsHead DEF HandlePresenceEvent, serverVars, sessionVars
<1>2. PICK i \in Peer, w \in Version : i = Head(down).peer /\ w = Head(down).version
  BY <1>1, FrameOfKind
<1>3. /\ Head(down) \in Wire /\ Wire' \subseteq Wire /\ Wire \subseteq Wire' \cup {Head(down)}
      /\ Requests' = Requests
  BY <1>1, WireShrinks DEF Requests
<1>4. w <= value[i]
  BY <1>1, <1>2, <1>3 DEF PresenceInv, NotNewer
<1>5. i \notin misled /\ ~Harmless(i, w) => Told(i)'
  <2>1. SUFFICES ASSUME i \notin misled, ~Harmless(i, w), ~Announced(i) PROVE Told(i)'
    BY <1>1 DEF Told, Announced
  <2>2. 1 \in DOMAIN down /\ down[1] = Head(down)
    BY <1>1, TailLemma DEF Typed, WireTyped
  <2>3. PICK l \in DOMAIN down : /\ 1 < l /\ down[l].kind = "direct"
                                 /\ down[l].peer = i /\ down[l].version = value[i]
    BY <1>1, <1>2, <2>1, <2>2 DEF Followed
  <2>4. l - 1 \in DOMAIN Tail(down) /\ Tail(down)[l - 1] = down[l]
    <3>1. l # 1
      BY <2>3
    <3>2. QED
      BY <1>1, <3>1, TailLemma DEF Typed, WireTyped
  <2>5. down[l] \in Wire'
    BY <1>1, <2>4 DEF Wire
  <2>6. QED
    BY <1>1, <2>3, <2>5 DEF Told
<1>6. /\ shown' = [shown EXCEPT ![i] = NewerPresence(i, shown[i], w)]
      /\ overlay' = IF ~Bootstrapping THEN overlay
                    ELSE [j \in DOMAIN overlay \cup {i} |->
                            IF j # i THEN overlay[j]
                            ELSE IF i \in DOMAIN overlay
                                 THEN NewerPresence(i, overlay[i], w) ELSE w]
  BY <1>2 DEF HandlePresenceEvent
<1>7. /\ \A j \in Peer : shown'[j] = IF j = i THEN NewerPresence(i, shown[i], w) ELSE shown[j]
      /\ \A j \in Peer : j # i => (j \in DOMAIN overlay' <=> j \in DOMAIN overlay)
      /\ \A j \in DOMAIN overlay' : j # i => overlay'[j] = overlay[j]
      /\ Bootstrapping => i \in DOMAIN overlay'
      /\ i \in DOMAIN overlay' /\ ~Bootstrapping => overlay' = overlay /\ i \in DOMAIN overlay
      /\ i \in DOMAIN overlay' /\ Bootstrapping =>
           overlay'[i] = IF i \in DOMAIN overlay THEN NewerPresence(i, overlay[i], w) ELSE w
  <2>1. shown \in [Peer -> Version]
    BY DEF Typed, ViewTyped
  <2>2. QED
    BY <1>6, <2>1
<1>8. \A j \in Peer, v \in Version : Said(j, v)' => Said(j, v)
  BY <1>1, <1>3 DEF Said
<1>9. session = "serving"
  BY <1>1, <1>3, FramesTyped DEF PresenceInv, NotYetServed
<1>10. \A j \in Peer : Told(j) /\ (j # i \/ w # value[i]) => Told(j)'
  BY <1>1, <1>2, <1>3 DEF Told, Announced
<1>11. value[i] \in Version /\ shown[i] \in Version /\ (i \in DOMAIN overlay => overlay[i] \in Version)
  BY VersionsAreNat
<1>12. NotNewer'
  <2>1. \A j \in Peer : shown'[j] <= value[j] /\ (j \in DOMAIN overlay' => overlay'[j] <= value[j])
    <3>1. shown'[i] <= value[i]
      BY <1>4, <1>7, <1>11, LaterWins DEF PresenceInv, NotNewer
    <3>2. i \in DOMAIN overlay' => overlay'[i] <= value[i]
      BY <1>4, <1>7, <1>11, LaterWins DEF PresenceInv, NotNewer
    <3>3. QED
      BY <1>7, <3>1, <3>2 DEF PresenceInv, NotNewer
  <2>2. QED
    BY <1>1, <1>3, <1>8, <2>1 DEF PresenceInv, NotNewer
<1>13. NotYetServed'
  BY <1>1, <1>9 DEF NotYetServed
<1>14. PagesFit'
  BY <1>1, <1>3 DEF PresenceInv, PagesFit, AskedFor
<1>15. UpToDate'
  <2>1. ASSUME w = value[i], Trusted(i) PROVE Settled(i)'
    <3>1. StampOf[i][shown[i]] <= StampOf[i][w]
      BY <1>11, <2>1, StampsAscend DEF PresenceInv, NotNewer, Trusted
    <3>2. i \in DOMAIN overlay => StampOf[i][overlay[i]] <= StampOf[i][w]
      BY <1>11, <2>1, StampsAscend DEF PresenceInv, NotNewer, Trusted
    <3>3. shown'[i] = value'[i] /\ (Bootstrapping => overlay'[i] = value'[i])
      BY <1>1, <1>7, <1>11, <2>1, <3>1, <3>2, LaterWins
    <3>4. QED
      BY <1>1, <1>7, <3>3 DEF Settled, Bootstrapping
  <2>2. ASSUME Earlier(i, w), Settled(i) PROVE Settled(i)'
    <3>1. Live => shown'[i] = value[i]
      BY <1>7, <1>11, <2>2, LaterWins DEF Settled, Earlier
    <3>2. ASSUME Bootstrapping, i \in DOMAIN overlay, overlay[i] = value[i]
          PROVE  i \in DOMAIN overlay' /\ overlay'[i] = value[i]
      BY <1>7, <1>11, <2>2, <3>2, LaterWins DEF Earlier
    <3>3. ASSUME Bootstrapping, i \in DOMAIN overlay => Earlier(i, overlay[i])
          PROVE  Earlier(i, overlay'[i])
      BY <1>7, <1>11, <2>2, <3>3, LaterWins DEF Earlier
    <3>4. Earlier(i, overlay'[i]) => Earlier(i, overlay[i])'
      BY <1>1 DEF Earlier
    <3>5. QED
      BY <1>1, <1>8, <2>2, <3>1, <3>2, <3>3, <3>4 DEF Settled, Live, Bootstrapping
  <2>3. ASSUME NEW j \in Peer, j # i, Settled(j) PROVE Settled(j)'
    BY <1>1, <1>7, <1>8, <2>3 DEF Settled, Earlier, Live, Bootstrapping
  <2>4. \A j \in Peer : Trusted(j)' <=> Trusted(j)
    BY <1>1 DEF Trusted, StampWentBack
  <2>5. Trusted(i) => Told(i)' \/ Settled(i)'
    BY <1>5, <1>9, <1>10, <2>1, <2>2 DEF PresenceInv, UpToDate, Trusted, Harmless
  <2>6. QED
    BY <1>9, <1>10, <2>3, <2>4, <2>5 DEF PresenceInv, UpToDate
<1>16. QED
  BY <1>12, <1>13, <1>14, <1>15 DEF PresenceInv

(* The page that is received is the only answer, and completes the stage up  *)
(* to its peers; the stage says what the pages said.                         *)
LEMMA PageReceived ==
  ASSUME Typed, PresenceInv, OneAnswer, Receive("page"), ~StrayPage
  PROVE  /\ Bootstrapping /\ session = "serving" /\ job = None
         /\ Wire' \subseteq Wire /\ \A f \in Wire : f.kind = "direct" => f \in Wire'
         /\ \A f \in Wire' : f.kind # "page"
         /\ \A r \in Requests : r.kind # "bootstrap"
         /\ Head(down).page \in Page
         /\ DOMAIN Staged.values = {i \in Peer : PageOf[i] < Head(down).page + 1}
         /\ \A i \in DOMAIN Staged.values :
              Staged.values[i] \in Version /\ Said(i, Staged.values[i])
<1>1. down # <<>> /\ Head(down) \in Frame /\ Head(down).kind = "page" /\ down' = Tail(down)
  BY ReceivedIsHead
<1>2. /\ Head(down) \in Wire /\ Wire' \subseteq Wire
      /\ \A f \in Wire : f.kind = "direct" => f \in Wire'
  BY <1>1, WireShrinks
<1>3. 1 \in DOMAIN down /\ down[1] = Head(down) /\ down \in Seq(Frame)
  BY <1>1, TailLemma DEF Typed, WireTyped
<1>4. ~Without(down, "page") /\ Without(Tail(down), "page")
  <2>1. AtMostOne(down, "page")
    BY DEF OneAnswer
  <2>2. QED
    BY <1>1, <1>3, <2>1, WithoutLemma DEF Without
<1>5. Without(up, "bootstrap") /\ job = None /\ Bootstrapping
  BY <1>4 DEF OneAnswer, NoneUnderWay
<1>6. /\ \A f \in Wire' : f.kind # "page"
      /\ \A r \in Requests : r.kind # "bootstrap"
  BY <1>1, <1>4, <1>5 DEF Without, Wire, Requests
<1>7. session = "serving"
  BY <1>1, <1>2, FramesTyped DEF PresenceInv, NotYetServed
<1>8. Head(down).page \in Page /\ Staged.values \in Versions
  BY <1>1, StagedIsTyped DEF Snapshot
<1> DEFINE page == Head(down)
           before == IF page.page = 0 THEN NothingShown ELSE stage.values
<1>9. /\ DOMAIN Staged.values = DOMAIN before \cup DOMAIN page.values
      /\ \A i \in DOMAIN Staged.values :
           Staged.values[i] = IF i \in DOMAIN page.values THEN page.values[i] ELSE before[i]
  BY DEF Staged
<1>10. page.page \in Nat
  BY <1>8, BoundsAreNat DEF Page
<1>11. \A i \in Peer : PageOf[i] \in Nat
  BY BoundsAreNat
<1>12. DOMAIN page.values = {i \in Peer : PageOf[i] = page.page}
  BY <1>1, <1>2 DEF PresenceInv, PagesFit, OnPage
<1>13. DOMAIN before = {i \in Peer : PageOf[i] < page.page}
  <2>1. CASE page.page = 0
    BY <1>11, <2>1, NothingIsTyped
  <2>2. CASE page.page # 0
    <3>1. stage # None /\ page.page > 0 /\ AskedFor(page.page)
      BY <1>1, <1>2, <1>10, <2>2 DEF StrayPage, AskedFor
    <3>2. QED
      BY <1>8, <2>2, <3>1 DEF PresenceInv, PagesFit
  <2>3. QED
    BY <2>1, <2>2
<1>14. DOMAIN Staged.values = {i \in Peer : PageOf[i] < page.page + 1}
  <2>1. \A i \in Peer : PageOf[i] < page.page + 1 <=> PageOf[i] < page.page \/ PageOf[i] = page.page
    BY <1>10, <1>11
  <2>2. QED
    BY <1>9, <1>12, <1>13, <2>1
<1>15. ASSUME NEW i \in DOMAIN Staged.values
       PROVE  Staged.values[i] \in Version /\ Said(i, Staged.values[i])
  <2>1. PICK v \in Version : v = Staged.values[i]
    BY <1>8, VersionsElim
  <2>2. CASE i \in DOMAIN page.values
    <3>1. Carries(page.values, i, v)
      BY <1>9, <2>1, <2>2 DEF Carries
    <3>2. Said(i, v)
      BY <1>1, <1>2, <3>1 DEF Said
    <3>3. QED
      BY <2>1, <3>2
  <2>3. CASE i \notin DOMAIN page.values
    <3>1. i \in DOMAIN before /\ Staged.values[i] = before[i]
      BY <1>9, <2>3
    <3>2. page.page # 0
      BY <3>1, NothingIsTyped
    <3>3. stage # None /\ Carries(stage.values, i, v)
      BY <2>1, <3>1, <3>2 DEF StrayPage, Carries
    <3>4. Said(i, v)
      BY <3>3 DEF Said
    <3>5. QED
      BY <2>1, <3>4
  <2>4. QED
    BY <2>1, <2>2, <2>3
<1>16. QED
  BY <1>2, <1>5, <1>6, <1>7, <1>8, <1>14, <1>15

LEMMA PageKeepsPresence ==
  ASSUME Typed, PresenceInv, OneAnswer, ReceiveMiddlePage \/ FinishBootstrap, ~StrayPage
  PROVE  PresenceInv'
<1>1. /\ Receive("page") /\ stage' = Staged /\ UNCHANGED <<value, pending, misled, job, session>>
  BY DEF ReceiveMiddlePage, FinishBootstrap, serverVars, sessionVars
<1>2. /\ Bootstrapping /\ session = "serving" /\ job = None
      /\ Wire' \subseteq Wire /\ \A f \in Wire : f.kind = "direct" => f \in Wire'
      /\ \A f \in Wire' : f.kind # "page"
      /\ \A r \in Requests : r.kind # "bootstrap"
      /\ Head(down).page \in Page
      /\ DOMAIN Staged.values = {i \in Peer : PageOf[i] < Head(down).page + 1}
      /\ \A i \in DOMAIN Staged.values :
           Staged.values[i] \in Version /\ Said(i, Staged.values[i])
  BY <1>1, PageReceived
<1>3. Head(down).page \in Nat /\ \A i \in Peer : PageOf[i] \in 0..LastPage
  BY <1>2, BoundsAreNat DEF Page
<1>4. \A i \in Peer, v \in Version : Said(i, v)' => Said(i, v)
  <2>1. ASSUME NEW i \in Peer, NEW v \in Version, Said(i, v)' PROVE Said(i, v)
    <3>1. Carries(Staged.values, i, v)
      BY <1>1, <1>2, <2>1 DEF Said
    <3>2. QED
      BY <1>2, <3>1 DEF Carries
  <2>2. QED
    BY <2>1
<1>5. \A i \in Peer : (Told(i) => Told(i)') /\ (Trusted(i)' <=> Trusted(i))
  BY <1>1, <1>2 DEF Told, Announced, Trusted, StampWentBack
<1>7. NotYetServed'
  BY <1>1, <1>2 DEF NotYetServed
<1>8. CASE ReceiveMiddlePage
  <2>1. UNCHANGED <<shown, overlay, wsState>>
        /\ up' = Append(up, BootstrapRequest(Head(down).page + 1, Head(down).snapshot))
        /\ Head(down).page < LastPage
    BY <1>8 DEF ReceiveMiddlePage
  <2>2. Head(down).page + 1 \in Page /\ Head(down).snapshot \in 0..MaxEvents
    BY <1>1, <1>3, <2>1, ReceivedIsHead, StagedIsTyped, BoundsAreNat DEF Page
  <2>3. PICK r \in Request : /\ r = BootstrapRequest(Head(down).page + 1, Head(down).snapshot)
                             /\ r.kind = "bootstrap" /\ r.page = Head(down).page + 1
    BY <2>2, RequestsTyped
  <2>4. Requests' = Requests \cup {r}
    BY <2>1, <2>3, RequestsMove
  <2>5. PagesFit'
    BY <1>1, <1>2, <2>3, <2>4 DEF PagesFit, AskedFor
  <2>6. NotNewer'
    BY <1>1, <1>2, <1>4, <2>1 DEF PresenceInv, NotNewer
  <2>7. UpToDate'
    <3>1. \A i \in Peer : Settled(i) => Settled(i)'
      BY <1>1, <1>4, <2>1 DEF Settled, Earlier, Live, Bootstrapping
    <3>2. QED
      BY <1>1, <1>5, <3>1 DEF PresenceInv, UpToDate
  <2>8. QED
    BY <1>7, <2>5, <2>6, <2>7 DEF PresenceInv
<1>9. CASE FinishBootstrap
  <2>1. /\ shown' = [i \in Peer |-> SnapshotShown(i)] /\ overlay' = NothingShown
        /\ wsState' = "LIVE_SYNCED" /\ up' = up /\ Head(down).page = LastPage
    BY <1>9 DEF FinishBootstrap
  <2>2. PagesFit'
    BY <1>1, <1>2, <2>1 DEF PagesFit, AskedFor, Requests
  <2>3. ASSUME NEW i \in Peer
        PROVE  shown'[i] <= value[i] /\ (Settled(i) /\ Trusted(i) => shown'[i] = value[i])
    <3>1. PageOf[i] < Head(down).page + 1
      BY <1>3, <2>1
    <3>2. i \in DOMAIN Staged.values
      BY <1>2, <3>1
    <3>3. PICK v \in Version : v = Staged.values[i] /\ Said(i, v)
      BY <1>2, <3>2
    <3>4. shown'[i] = IF i \in DOMAIN overlay THEN NewerPresence(i, v, overlay[i]) ELSE v
      BY <2>1, <3>2, <3>3 DEF SnapshotShown
    <3>5. v <= value[i] /\ (i \in DOMAIN overlay => overlay[i] <= value[i])
      BY <3>3 DEF PresenceInv, NotNewer
    <3>6. value[i] \in Version /\ (i \in DOMAIN overlay => overlay[i] \in Version)
      BY VersionsAreNat
    <3>7. shown'[i] <= value[i]
      BY <3>4, <3>5, <3>6, LaterWins
    <3>8. ASSUME Settled(i), Trusted(i) PROVE shown'[i] = value[i]
      <4>1. \/ i \in DOMAIN overlay /\ overlay[i] = value[i]
            \/ v = value[i] /\ (i \in DOMAIN overlay => Earlier(i, overlay[i]))
        BY <1>2, <3>3, <3>8 DEF Settled
      <4>2. StampOf[i][v] <= StampOf[i][value[i]]
        BY <3>5, <3>6, <3>8, StampsAscend DEF Trusted
      <4>3. QED
        BY <3>4, <3>6, <4>1, <4>2, LaterWins DEF Earlier
    <3>9. QED
      BY <3>7, <3>8
  <2>4. NotNewer'
    BY <1>1, <1>2, <1>4, <2>1, <2>3, NothingIsTyped DEF PresenceInv, NotNewer
  <2>5. UpToDate'
    <3>1. \A i \in Peer : Settled(i) /\ Trusted(i) => Settled(i)'
      BY <1>1, <2>1, <2>3 DEF Settled, Bootstrapping
    <3>2. QED
      BY <1>1, <1>5, <3>1 DEF PresenceInv, UpToDate
  <2>6. QED
    BY <1>7, <2>2, <2>4, <2>5 DEF PresenceInv
<1>10. QED
  BY <1>8, <1>9

(* Frames that are not presences do not change what follows what. *)
LEMMA FollowedKept ==
  ASSUME Typed, Followed, UNCHANGED <<value, pending, misled>>,
         \/ down' = down
         \/ down # <<>> /\ down' = Tail(down)
         \/ \E x \in Frame : x.kind # "direct" /\ down' = Append(down, x)
  PROVE  Followed'
<1>1. down \in Seq(Frame)
  BY DEF Typed, WireTyped
<1> DEFINE Shadowed(s, k) ==
             /\ s[k].kind = "direct" /\ s[k].peer \notin misled
             /\ ~Announced(s[k].peer) /\ ~Harmless(s[k].peer, s[k].version)
           Healed(s, k) ==
             \E l \in DOMAIN s : /\ k < l /\ s[l].kind = "direct" /\ s[l].peer = s[k].peer
                                 /\ s[l].version = value[s[k].peer]
<1>2. \A k \in DOMAIN down : Shadowed(down, k) => Healed(down, k)
  BY DEF Followed
<1>3. SUFFICES \A k \in DOMAIN down' : Shadowed(down', k) => Healed(down', k)
  BY DEF Followed, Announced, Harmless, Earlier
<1> HIDE DEF Shadowed, Healed
<1>4. CASE down' = down
  BY <1>2, <1>4
<1>5. CASE down # <<>> /\ down' = Tail(down)
  <2>1. ASSUME NEW k \in DOMAIN Tail(down), Shadowed(Tail(down), k) PROVE Healed(Tail(down), k)
    <3>1. k \in Nat /\ k >= 1 /\ k + 1 \in DOMAIN down /\ Tail(down)[k] = down[k + 1]
      BY <1>1, <1>5, TailLemma
    <3>2. Healed(down, k + 1)
      BY <1>2, <2>1, <3>1 DEF Shadowed
    <3>3. PICK l \in DOMAIN down : /\ k + 1 < l /\ down[l].kind = "direct"
                                   /\ down[l].peer = Tail(down)[k].peer
                                   /\ down[l].version = value[Tail(down)[k].peer]
      BY <3>1, <3>2 DEF Healed
    <3>4. l - 1 \in DOMAIN Tail(down) /\ Tail(down)[l - 1] = down[l] /\ l \in Nat
      <4>1. l # 1 /\ l \in Nat
        BY <1>1, <3>1, <3>3
      <4>2. QED
        BY <1>1, <1>5, <4>1, TailLemma
    <3>5. k < l - 1
      BY <3>1, <3>3, <3>4
    <3>6. QED
      BY <3>3, <3>4, <3>5 DEF Healed
  <2>2. QED
    BY <1>5, <2>1
<1>6. CASE \E x \in Frame : x.kind # "direct" /\ down' = Append(down, x)
  <2>1. PICK x \in Frame : x.kind # "direct" /\ down' = Append(down, x)
    BY <1>6
  <2>2. \A k \in DOMAIN Append(down, x) :
          \/ k \in DOMAIN down /\ Append(down, x)[k] = down[k]
          \/ Append(down, x)[k] = x
    BY <1>1, AppendLemma
  <2>3. \A k \in DOMAIN down : k \in DOMAIN Append(down, x) /\ Append(down, x)[k] = down[k]
    BY <1>1, AppendLemma
  <2>4. ASSUME NEW k \in DOMAIN Append(down, x), Shadowed(Append(down, x), k)
        PROVE  Healed(Append(down, x), k)
    <3>1. k \in DOMAIN down /\ Append(down, x)[k] = down[k]
      BY <2>1, <2>2, <2>4 DEF Shadowed
    <3>2. Healed(down, k)
      BY <1>2, <2>4, <3>1 DEF Shadowed
    <3>3. QED
      BY <2>3, <3>1, <3>2 DEF Healed
  <2>5. QED
    BY <2>1, <2>4
<1>7. QED
  BY <1>4, <1>5, <1>6

(* The delivery of the present value heals what came before it; that of a    *)
(* value that displaces it misleads.                                         *)
LEMMA DeliveryIsFollowed ==
  ASSUME Typed, PresenceInv, Followed, DeliverDirect
  PROVE  Followed'
<1>1. down \in Seq(Frame) /\ value' = value /\ session' = session
  BY DEF Typed, WireTyped, DeliverDirect
<1>2. PICK d \in pending, x \in Frame :
        /\ d.peer \in Peer /\ d.version \in Version /\ pending' = pending \ {d}
        /\ x.kind = "direct" /\ x.peer = d.peer /\ x.version = d.version
        /\ session = "serving" =>
             /\ down' = Append(down, x)
             /\ misled' = IF Overtaken(d) THEN misled \cup {d.peer}
                          ELSE IF d.version = value[d.peer] THEN misled \ {d.peer}
                          ELSE misled
        /\ session # "serving" => UNCHANGED <<down, misled>>
  BY DirectIsDelivered
<1>3. CASE session # "serving"
  <2>1. \A k \in DOMAIN down' : down'[k].kind # "direct"
    BY <1>2, <1>3, FramesTyped DEF PresenceInv, NotYetServed, Wire
  <2>2. QED
    BY <2>1 DEF Followed
<1>4. CASE session = "serving"
  <2>1. \A k \in DOMAIN Append(down, x) :
          \/ k \in DOMAIN down /\ Append(down, x)[k] = down[k] /\ k < Len(down) + 1
          \/ Append(down, x)[k] = x
    BY <1>1, AppendLemma
  <2>2. /\ \A k \in DOMAIN down : k \in DOMAIN Append(down, x) /\ Append(down, x)[k] = down[k]
        /\ Len(down) + 1 \in DOMAIN Append(down, x) /\ Append(down, x)[Len(down) + 1] = x
    BY <1>1, AppendLemma
  <2>3. ASSUME NEW k \in DOMAIN Append(down, x), NEW i, NEW v,
               i = Append(down, x)[k].peer, v = Append(down, x)[k].version,
               Append(down, x)[k].kind = "direct", i \notin misled',
               ~(\E e \in pending' : e.peer = i /\ e.version = value[i]), ~Harmless(i, v)
        PROVE  \E l \in DOMAIN Append(down, x) :
                 /\ k < l /\ Append(down, x)[l].kind = "direct"
                 /\ Append(down, x)[l].peer = i /\ Append(down, x)[l].version = value[i]
    <3>1. Append(down, x)[k] # x
      <4>1. SUFFICES ASSUME i = d.peer, v = d.version PROVE FALSE
        BY <1>2, <2>3
      <4>2. ~Overtaken(d)
        BY <1>2, <1>4, <2>3, <4>1
      <4>3. value[i] \in Version /\ v \in Version /\ i \in Peer
        BY <1>2, <4>1, VersionsAreNat
      <4>4. QED
        BY <2>3, <4>1, <4>2, <4>3, LaterWins DEF Overtaken, Harmless, Earlier
    <3>2. k \in DOMAIN down /\ Append(down, x)[k] = down[k] /\ k < Len(down) + 1
      BY <2>1, <3>1
    <3>3. CASE d.peer = i /\ d.version = value[i]
      BY <1>2, <2>2, <3>2, <3>3
    <3>4. CASE ~(d.peer = i /\ d.version = value[i])
      <4>1. i \notin misled
        BY <1>2, <1>4, <2>3, <3>4
      <4>2. ~Announced(i)
        BY <1>2, <2>3, <3>4 DEF Announced
      <4>3. PICK l \in DOMAIN down : /\ k < l /\ down[l].kind = "direct"
                                     /\ down[l].peer = i /\ down[l].version = value[i]
        BY <2>3, <3>2, <4>1, <4>2 DEF Followed
      <4>4. QED
        BY <2>2, <4>3
    <3>5. QED
      BY <3>3, <3>4
  <2>4. down' = Append(down, x)
    BY <1>2, <1>4
  <2>5. QED
    BY <1>1, <2>3, <2>4 DEF Followed, Announced, Harmless, Earlier
<1>5. QED
  BY <1>3, <1>4

LEMMA FollowedStep ==
  ASSUME Typed, Typed', PresenceInv, Followed, [Next]_vars
  PROVE  Followed'
<1>1. CASE DeliverDirect
  BY <1>1, DeliveryIsFollowed
<1>2. CASE LoseDirect
  <2>1. UNCHANGED <<value, down>>
    BY <1>2 DEF LoseDirect
  <2>2. PICK d \in pending :
          /\ pending' = pending \ {d}
          /\ misled' = IF d.version = value[d.peer] THEN misled \cup {d.peer} ELSE misled
    BY <1>2 DEF LoseDirect
  <2>3. \A i : i \notin misled' /\ ~Announced(i)' => i \notin misled /\ ~Announced(i)
    BY <2>1, <2>2 DEF Announced
  <2>4. QED
    BY <2>1, <2>3 DEF Followed, Harmless, Earlier
<1>3. CASE \E i \in Peer : ChangePresence(i)
  <2>1. PICK i \in Peer : ChangePresence(i)
    BY <1>3
  <2>2. /\ UNCHANGED <<misled, down>> /\ value' = [value EXCEPT ![i] = @ + 1]
        /\ value \in [Peer -> Version]
    BY <2>1 DEF ChangePresence, sessionVars, Typed, ServerTyped
  <2>3. Announced(i)' /\ \A j \in Peer : Announced(j) /\ j # i => Announced(j)'
    <3>1. PICK ways \in (SUBSET Way) \ {{}} :
            pending' = pending \cup {[peer |-> i, version |-> value[i] + 1, by |-> w] : w \in ways}
      BY <2>1 DEF ChangePresence
    <3>2. PICK w \in ways : TRUE
      BY <3>1
    <3>3. [peer |-> i, version |-> value[i] + 1, by |-> w] \in pending'
      BY <3>1, <3>2
    <3>4. value'[i] = value[i] + 1 /\ \A j \in Peer : j # i => value'[j] = value[j]
      BY <2>2
    <3>5. QED
      BY <3>1, <3>3, <3>4 DEF Announced
  <2>4. \A k \in DOMAIN down : down[k].kind = "direct" => down[k].peer \in Peer
    BY FrameOfKind DEF Typed, WireTyped
  <2>5. \A j \in Peer : j # i => value'[j] = value[j]
    BY <2>2
  <2>6. ASSUME NEW k \in DOMAIN down, NEW j \in Peer, j = down[k].peer,
               down[k].kind = "direct", j \notin misled,
               ~Announced(j)', ~(down[k].version = value'[j] \/
                                 StampOf[j][down[k].version] < StampOf[j][value'[j]])
        PROVE  \E l \in DOMAIN down : /\ k < l /\ down[l].kind = "direct" /\ down[l].peer = j
                                      /\ down[l].version = value'[j]
    BY <2>3, <2>5, <2>6 DEF Followed, Harmless, Earlier
  <2>7. QED
    BY <2>2, <2>4, <2>6 DEF Followed, Harmless, Earlier
<1>4. CASE Connect \/ LoseConnection \/ Reload
  <2>1. down' = <<>> \/ down' = <<AuthFrame>>
    BY <1>4 DEF Connect, LoseConnection, Reload
  <2>2. \A k \in DOMAIN down' : down'[k].kind # "direct"
    BY <2>1, FramesTyped
  <2>3. QED
    BY <2>2 DEF Followed
<1>5. CASE ~(\/ DeliverDirect \/ LoseDirect \/ (\E i \in Peer : ChangePresence(i))
             \/ Connect \/ LoseConnection \/ Reload)
  <2>1. UNCHANGED <<value, pending, misled>>
    BY <1>5 DEF Next, CommitEvent, NotifyStranger, RefuseContinuation, Server, PublishEvent, Serve,
       BeginBootstrapPage, ReadPage, ReplyPage, AckCursor, Handle, StartRealtimeFlow,
       HandleStranger, HandlePresenceEvent, BufferEvent, ApplyEvent, ReceiveMiddlePage,
       FinishBootstrap, HandleAckResponse, HandleProtocolError, PersistCursor, FlushAck,
       AckTimeout, vars, serverVars, sessionVars
  <2>2. \/ down' = down
        \/ down # <<>> /\ down' = Tail(down)
        \/ \E x \in Frame : x.kind # "direct" /\ down' = Append(down, x)
    BY <1>5, DownStep DEF Appended
  <2>3. QED
    BY <2>1, <2>2, FollowedKept
<1>6. QED
  BY <1>1, <1>2, <1>3, <1>4, <1>5

LEMMA PresenceStep ==
  ASSUME Typed, Typed', OneAnswer, AuthOnce, PresenceInv, Followed, [Next]_vars
  PROVE  PresenceInv'
<1> USE DEF serverVars, sessionVars, viewVars
<1>1. Wire \subseteq Frame /\ Requests \subseteq Request
  BY WireIsTyped
<1>2. CASE CommitEvent \/ Serve \/ PersistCursor \/ AckTimeout \/ UNCHANGED vars
  <2>1. CASE Serve
    BY <2>1, ServeKeepsPresence
  <2>2. CASE CommitEvent \/ PersistCursor \/ AckTimeout \/ UNCHANGED vars
    <3>1. UNCHANGED <<value, pending, misled, shown, overlay, stage, job, wsState, session, up, down>>
      BY <2>2 DEF CommitEvent, PersistCursor, AckTimeout, vars
    <3>2. Wire' = Wire /\ Requests' = Requests
      BY <3>1 DEF Wire, Requests
    <3>3. QED
      BY <1>1, <3>1, <3>2, PresenceKept
  <2>3. QED
    BY <1>2, <2>1, <2>2
<1>3. CASE \E i \in Peer : ChangePresence(i)
  BY <1>3, ChangeKeepsPresence
<1>4. CASE DeliverDirect
  BY <1>4, DeliveryKeepsPresence
<1>15. CASE LoseDirect
  BY <1>15, LossKeepsPresence
<1>5. CASE BeginBootstrapPage \/ ReadPage \/ ReplyPage
  BY <1>5, HandlerKeepsPresence
<1>6. CASE Connect \/ LoseConnection \/ Reload
  BY <1>6, BreakKeepsPresence
<1>7. CASE PublishEvent \/ NotifyStranger \/ RefuseContinuation \/ AckCursor
  <2>1. /\ UNCHANGED <<value, pending, misled, shown, overlay, stage, job, wsState, session>>
        /\ session # "serving" => down' = down
        /\ up' = up \/ (up # <<>> /\ up' = Tail(up))
    BY <1>7 DEF PublishEvent, NotifyStranger, RefuseContinuation, AckCursor
  <2>2. Requests' \subseteq Requests
    BY <2>1, RequestsMove DEF Requests
  <2>3. down' = down \/ \E x \in Frame : x.kind \notin {"direct", "page"} /\ down' = Append(down, x)
    <3>1. CASE PublishEvent
      <4>1. published + 1 \in Event
        BY <3>1, BoundsAreNat DEF PublishEvent, Typed, ServerTyped, Event
      <4>2. EventFrame(published + 1) \in Frame /\ EventFrame(published + 1).kind = "event"
        BY <4>1, FramesTyped
      <4>3. QED
        BY <3>1, <4>2 DEF PublishEvent
    <3>2. CASE AckCursor
      <4>1. cursor' \in 0..MaxEvents
        BY DEF Typed, ServerTyped
      <4>2. Ack(cursor') \in Frame /\ Ack(cursor').kind = "ack"
        BY <4>1, FramesTyped, RequestsTyped
      <4>3. QED
        BY <3>2, <4>2 DEF AckCursor
    <3>3. CASE NotifyStranger \/ RefuseContinuation
      BY <3>3, FramesTyped DEF NotifyStranger, RefuseContinuation
    <3>4. QED
      BY <1>7, <3>1, <3>2, <3>3
  <2>4. /\ \A f \in Wire' : f \in Wire \/ f.kind \notin {"direct", "page"}
        /\ \A f \in Wire : f \in Wire'
    <3>1. CASE down' = down
      BY <3>1 DEF Wire
    <3>2. CASE \E x \in Frame : x.kind \notin {"direct", "page"} /\ down' = Append(down, x)
      BY <3>2, WireGrows
    <3>3. QED
      BY <2>3, <3>1, <3>2
  <2>5. session # "serving" => Wire' \subseteq Wire
    BY <2>1 DEF Wire
  <2>6. QED
    BY <1>1, <2>1, <2>2, <2>4, <2>5, PresenceKept
<1>8. CASE StartRealtimeFlow
  <2>1. down # <<>> /\ Head(down).kind = "auth" /\ down' = Tail(down)
    BY <1>8 DEF StartRealtimeFlow, Receive
  <2>2. 1 \in DOMAIN down /\ down[1] = Head(down)
    BY <2>1, TailLemma DEF Typed, WireTyped
  <2>3. ~Bootstrapping
    BY <2>1, <2>2 DEF AuthOnce, Bootstrapping
  <2>4. QED
    BY <1>8, <2>1, <2>3, BeginningKeepsPresence DEF StartRealtimeFlow
<1>9. CASE HandleStranger /\ wsState = "LIVE_SYNCED"
  BY <1>9, BeginningKeepsPresence DEF HandleStranger, Receive, Bootstrapping
<1>10. CASE \/ HandleStranger /\ wsState # "LIVE_SYNCED"
            \/ BufferEvent \/ ApplyEvent \/ HandleAckResponse \/ HandleProtocolError
            \/ ReceiveMiddlePage /\ StrayPage
  <2>1. /\ UNCHANGED <<value, pending, misled, shown, overlay, stage, job, wsState, session, up>>
        /\ down # <<>> /\ Head(down).kind # "direct" /\ down' = Tail(down)
    BY <1>10 DEF HandleStranger, BufferEvent, ApplyEvent, HandleAckResponse, HandleProtocolError,
                 ReceiveMiddlePage, Receive
  <2>2. Wire' \subseteq Wire /\ Wire \subseteq Wire' \cup {Head(down)} /\ Requests' = Requests
    BY <2>1, WireShrinks DEF Requests
  <2>3. QED
    BY <1>1, <2>1, <2>2, PresenceKept
<1>11. CASE HandlePresenceEvent
  BY <1>11, HandlingKeepsPresence
<1>12. CASE FinishBootstrap \/ (ReceiveMiddlePage /\ ~StrayPage)
  BY <1>12, PageKeepsPresence DEF FinishBootstrap
<1>13. CASE FlushAck
  <2>1. PICK r \in Request : r = Ack(lastApplied) /\ r.kind = "ack"
    BY RequestsTyped DEF Typed, CursorTyped
  <2>2. /\ UNCHANGED <<value, pending, misled, shown, overlay, stage, job, wsState, session, down>>
        /\ up' = Append(up, r)
    BY <1>13, <2>1 DEF FlushAck
  <2>3. Wire' = Wire /\ Requests' = Requests \cup {r}
    BY <2>2, RequestsMove DEF Wire
  <2>4. QED
    BY <1>1, <2>1, <2>2, <2>3, PresenceKept
<1>14. QED
  BY <1>2, <1>3, <1>4, <1>5, <1>6, <1>7, <1>8, <1>9, <1>10, <1>11, <1>12, <1>13,
     <1>15
  DEF Next, Server, Handle

LEMMA PresenceStart == Init => PresenceInv /\ Followed
<1> SUFFICES ASSUME Init PROVE PresenceInv /\ Followed
  OBVIOUS
<1>1. Wire = {} /\ Requests = {} /\ \A i \in Peer, v \in Version : ~Said(i, v)
  BY DEF Init, Wire, Requests, Said
<1>2. NotNewer /\ NotYetServed /\ PagesFit /\ UpToDate
  BY <1>1, NothingIsTyped DEF Init, NotNewer, NotYetServed, PagesFit, AskedFor,
     UpToDate, Live, Bootstrapping
<1>3. Followed
  BY DEF Init, Followed
<1>4. QED
  BY <1>2, <1>3 DEF PresenceInv

(* When nothing is on its way a live client shows the present value of every *)
(* peer, however snapshot, overlay and announcements overtake each other,    *)
(* unless this session was misled about it: its announcement was lost, or an *)
(* older value arrived after it that its stamp does not tell from it, or its *)
(* stamp itself is earlier than an older value's.                            *)
THEOREM ShownPresenceIsCurrent == Spec => []PresenceIsCurrent
<1> DEFINE Inv == Typed /\ OneAnswer /\ AuthOnce /\ PresenceInv /\ Followed
<1>1. Init => Inv
  BY InitIsTyped, AckInit, PresenceStart DEF AckInv
<1>2. Inv /\ [Next]_vars => Inv'
  BY StepKeepsTypes, OneAnswerStep, AuthOnceStep, PresenceStep, FollowedStep
<1>3. Inv => PresenceIsCurrent
  <2> SUFFICES ASSUME Inv, Quiet, NEW i \in Peer, i \notin misled, ~StampWentBack(i)
               PROVE  shown[i] = value[i]
    BY DEF PresenceIsCurrent
  <2>1. Wire = {} /\ pending = {}
    BY DEF Quiet, Wire
  <2>2. ~Told(i) /\ Trusted(i)
    BY <2>1 DEF Told, Announced, Trusted
  <2>3. QED
    BY <2>2 DEF Quiet, PresenceInv, UpToDate, Settled
<1>4. QED
  BY <1>1, <1>2, <1>3, PTL DEF Spec
=============================================================================
