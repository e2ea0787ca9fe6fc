----------------------------- MODULE ClientSync -----------------------------
(***************************************************************************)
(* How a web client keeps its state equal to the server's: it subscribes,   *)
(* bootstraps a paged snapshot, buffers the sequenced events that arrive     *)
(* meanwhile, goes live, acknowledges what it has stored, and starts again   *)
(* after a lost connection or a reload.                                      *)
(*                                                                           *)
(* The log is EventFeed's: events 1, 2, ... committed and published in order, *)
(* every one visible to this user. Some state is not in the log and is only   *)
(* delivered directly. The presence of the user's peers is such state, and    *)
(* the only one the client reconciles with a snapshot; its value is a version *)
(* number, with the time stamp last_active_at. (Counters, notifications and   *)
(* the list of conversations simply take what arrives last, a snapshot that   *)
(* was read earlier included.)                                                *)
(*                                                                           *)
(* RECOVERING_GAP is not a state here: sendSyncSince is called only on a      *)
(* SyncSinceResponse, so a client never sends the first one.                  *)
(***************************************************************************)
EXTENDS Naturals, Sequences, FiniteSets, FiniteSetsExt

CONSTANTS
  None,         \* no peer, no page, no stage
  Peer,         \* peers of the user
  PageOf,       \* the bootstrap page that carries the presence of a peer
  LastPage,     \* MaxPageIndex of the bootstrap session
  Way,          \* ways of an announcement to the client's instance
  StampOf,      \* StampOf[i][v]: last_active_at with which peer i got value v
  BufferLimit,  \* MAX_BUFFERED_SERVER_EVENTS
  MaxEvents,    \* bound: events committed
  MaxVersion,   \* bound: changes of a peer's presence
  MaxWrites,    \* bound: events and changes, together
  MaxBreaks,    \* bound: connections lost, reloads, announcements lost
  MaxStrangers, \* bound: notifications of unknown conversations
  MaxExpired,   \* bound: bootstrap sessions that expire
  MaxUnanswered \* bound: acks and their responses on the way

ASSUME ClientAssumption ==
  /\ IsFiniteSet(Peer) /\ None \notin Peer
  /\ LastPage \in Nat /\ PageOf \in [Peer -> 0..LastPage]
  /\ StampOf \in [Peer -> [0..MaxVersion -> Nat]]
  /\ BufferLimit \in Nat \ {0}
  /\ MaxEvents \in Nat /\ MaxVersion \in Nat /\ MaxWrites \in Nat /\ MaxBreaks \in Nat /\ MaxStrangers \in Nat
  /\ MaxUnanswered \in Nat /\ MaxExpired \in Nat

VARIABLES
  committed,  \* events in workspace_events
  published,  \* events the Bus has published
  value,      \* value[i]: presence of peer i in the database
  pending,    \* announcements of committed changes under way
  session,    \* the server's session of this client
  job,        \* the bootstrap page its handler is building
  cursor,     \* user_sync_cursors: the acknowledged event number
  misled,     \* history: peers whose announcements failed this session
  up, down,   \* frames from and to the client
  wsState,    \* ws.state
  stage,      \* bootstrapStage
  overlay,    \* bootstrapPresenceOverlay
  buffered,   \* bufferedServerEvents
  dropped,    \* history: events this bootstrap's full buffer discarded
  shown,      \* shown[i]: presence of peer i the user sees
  reflected,  \* history: events the user's view reflects
  lastApplied, persisted, lastAcked,
  ackDue,     \* an ack timer is set
  ackInFlight,
  breaks, strangers, expired

serverVars == <<committed, published, value, pending>>
sessionVars == <<session, job, cursor, misled>>
viewVars == <<stage, overlay, buffered, dropped, shown, reflected>>
ackVars == <<persisted, lastAcked, ackDue, ackInFlight>>
vars == <<serverVars, sessionVars, up, down, wsState, viewVars, lastApplied,
          ackVars, breaks, strangers, expired>>

Page == 0..LastPage
Event == 1..MaxEvents
Version == 0..MaxVersion
Versions == UNION {[I -> Version] : I \in SUBSET Peer}
Announcement == [peer : Peer, version : Version, by : Way]
NothingShown == [i \in {} |-> 0]
OnPage(p) == {i \in Peer : PageOf[i] = p}

BootstrapRequest(page, snapshot) ==
  [kind |-> "bootstrap", page |-> page, snapshot |-> snapshot]
Ack(seq) == [kind |-> "ack", seq |-> seq]
AuthFrame == [kind |-> "auth"]
StrangerFrame == [kind |-> "stranger"]
ErrorFrame == [kind |-> "error"]
EventFrame(e) == [kind |-> "event", seq |-> e]
DirectFrame(i, v) == [kind |-> "direct", peer |-> i, version |-> v]
PageFrame(page, snapshot, values) ==
  [kind |-> "page", page |-> page, snapshot |-> snapshot, values |-> values]

Request ==
  [kind : {"bootstrap"}, page : Page, snapshot : 0..MaxEvents]
    \cup [kind : {"ack"}, seq : 0..MaxEvents]
Frame ==
  {AuthFrame, StrangerFrame, ErrorFrame} \cup [kind : {"event"}, seq : Event]
    \cup [kind : {"ack"}, seq : 0..MaxEvents]
    \cup [kind : {"direct"}, peer : Peer, version : Version]
    \cup [kind : {"page"}, page : Page, snapshot : 0..MaxEvents, values : Versions]

TypeOK ==
  /\ published \in 0..committed /\ committed \in 0..MaxEvents
  /\ value \in [Peer -> Version] /\ pending \subseteq Announcement
  /\ session \in {"closed", "authenticated", "serving"}
  /\ job \in {None} \cup [page : Page, snapshot : 0..MaxEvents, values : Versions, read : BOOLEAN]
  /\ cursor \in 0..MaxEvents /\ misled \subseteq Peer
  /\ \A k \in DOMAIN up : up[k] \in Request
  /\ \A k \in DOMAIN down : down[k] \in Frame
  /\ wsState \in {"DISCONNECTED", "CONNECTING", "BOOTSTRAPPING", "LIVE_SYNCED"}
  /\ stage \in {None} \cup [snapshot : 0..MaxEvents, values : Versions]
  /\ overlay \in Versions
  /\ buffered \subseteq Event /\ Cardinality(buffered) <= BufferLimit
  /\ dropped \subseteq Event
  /\ shown \in [Peer -> Version] /\ reflected \subseteq Event
  /\ {lastApplied, persisted, lastAcked} \subseteq 0..MaxEvents
  /\ ackDue \in BOOLEAN /\ ackInFlight \in BOOLEAN
  /\ breaks \in 0..MaxBreaks /\ strangers \in 0..MaxStrangers
  /\ expired \in 0..MaxExpired

Init ==
  /\ committed = 0 /\ published = 0
  /\ value = [i \in Peer |-> 0] /\ pending = {} /\ misled = {}
  /\ session = "closed" /\ job = None /\ cursor = 0
  /\ up = <<>> /\ down = <<>>
  /\ wsState = "DISCONNECTED" /\ stage = None /\ overlay = NothingShown
  /\ buffered = {} /\ dropped = {} /\ shown = [i \in Peer |-> 0] /\ reflected = {}
  /\ lastApplied = 0 /\ persisted = 0 /\ lastAcked = 0
  /\ ackDue = FALSE /\ ackInFlight = FALSE
  /\ breaks = 0 /\ strangers = 0 /\ expired = 0

-----------------------------------------------------------------------------
(* The server *)

Writes == committed + Cardinality({c \in Peer \X Version : 0 < c[2] /\ c[2] <= value[c[1]]})

CommitEvent ==
  /\ committed < MaxEvents /\ Writes < MaxWrites
  /\ committed' = committed + 1
  /\ UNCHANGED <<published, value, pending, sessionVars, up, down, wsState,
                 viewVars, lastApplied, ackVars, breaks, strangers, expired>>

(* The Bus hands the event to the sessions subscribed at this moment. *)
PublishEvent ==
  /\ published < committed
  /\ published' = published + 1
  /\ down' = IF session = "serving" THEN Append(down, EventFrame(published + 1)) ELSE down
  /\ UNCHANGED <<committed, value, pending, sessionVars, up, wsState, viewVars,
                 lastApplied, ackVars, breaks, strangers, expired>>

(* A recompute changes a peer's presence. broadcastPresence announces the     *)
(* value it wrote after the commit: by NOTIFY, which the client's instance     *)
(* hears in any case, and before that to the sessions of its own instance.    *)
ChangePresence(i) ==
  /\ value[i] < MaxVersion /\ Writes < MaxWrites
  /\ value' = [value EXCEPT ![i] = @ + 1]
  /\ \E ways \in (SUBSET Way) \ {{}} :
       pending' = pending \cup {[peer |-> i, version |-> value[i] + 1, by |-> w] : w \in ways}
  /\ UNCHANGED <<committed, published, sessionVars, up, down, wsState, viewVars,
                 lastApplied, ackVars, breaks, strangers, expired>>

(* Nothing orders the announcements of two recomputes. A session that gets an *)
(* older value after the present one is misled if the stamps do not tell.     *)
Overtaken(d) ==
  d.version # value[d.peer] /\ StampOf[d.peer][d.version] >= StampOf[d.peer][value[d.peer]]

DeliverDirect ==
  /\ \E d \in pending :
       /\ pending' = pending \ {d}
       /\ IF session = "serving"
          THEN /\ down' = Append(down, DirectFrame(d.peer, d.version))
               /\ misled' = IF Overtaken(d) THEN misled \cup {d.peer}
                            ELSE IF d.version = value[d.peer] THEN misled \ {d.peer}
                            ELSE misled
          ELSE UNCHANGED <<down, misled>>
  /\ UNCHANGED <<committed, published, value, session, job, cursor, up, wsState, viewVars,
                 lastApplied, ackVars, breaks, strangers, expired>>

(* An announcement that fails is logged and not repeated. (Without a session  *)
(* that is what a delivery is, too.)                                          *)
LoseDirect ==
  /\ session = "serving"
  /\ breaks < MaxBreaks
  /\ breaks' = breaks + 1
  /\ \E d \in pending :
       /\ pending' = pending \ {d}
       /\ misled' = IF d.version = value[d.peer] THEN misled \cup {d.peer} ELSE misled
  /\ UNCHANGED <<committed, published, value, session, job, cursor, up, down, wsState,
                 viewVars, lastApplied, ackVars, strangers, expired>>

(* A notification for a conversation the client does not list. *)
NotifyStranger ==
  /\ session = "serving"
  /\ strangers < MaxStrangers
  /\ strangers' = strangers + 1
  /\ down' = Append(down, StrangerFrame)
  /\ UNCHANGED <<serverVars, sessionVars, up, wsState, viewVars, lastApplied,
                 ackVars, breaks, expired>>

(* After the AuthResponse is queued the session is registered for direct     *)
(* deliveries and subscribed to the Bus, then the next request is read.      *)
Serve ==
  /\ session = "authenticated"
  /\ session' = "serving"
  /\ UNCHANGED <<serverVars, job, cursor, misled, up, down, wsState, viewVars,
                 lastApplied, ackVars, breaks, strangers, expired>>

(* bootstrapFirstPage reads the latest event number, alone; a continuation   *)
(* takes it from the bootstrap session.                                      *)
BeginBootstrapPage ==
  /\ session = "serving" /\ job = None
  /\ up # <<>> /\ Head(up).kind = "bootstrap"
  /\ job' = [page |-> Head(up).page,
             snapshot |-> IF Head(up).page = 0 THEN committed ELSE Head(up).snapshot,
             values |-> NothingShown, read |-> FALSE]
  /\ up' = Tail(up)
  /\ UNCHANGED <<serverVars, session, cursor, misled, down, wsState, viewVars,
                 lastApplied, ackVars, breaks, strangers, expired>>

(* A continuation of an expired bootstrap session is refused. *)
RefuseContinuation ==
  /\ session = "serving" /\ job = None
  /\ up # <<>> /\ Head(up).kind = "bootstrap" /\ Head(up).page > 0
  /\ expired < MaxExpired
  /\ expired' = expired + 1
  /\ down' = Append(down, ErrorFrame)
  /\ up' = Tail(up)
  /\ UNCHANGED <<serverVars, sessionVars, wsState, viewVars, lastApplied, ackVars,
                 breaks, strangers>>

(* buildResponse reads the page's rows as they are now ... *)
ReadPage ==
  /\ job # None /\ ~job.read
  /\ job' = [job EXCEPT !.values = [i \in OnPage(job.page) |-> value[i]], !.read = TRUE]
  /\ UNCHANGED <<serverVars, session, cursor, misled, up, down, wsState, viewVars,
                 lastApplied, ackVars, breaks, strangers, expired>>

(* ... and the handler enqueues the response. *)
ReplyPage ==
  /\ job # None /\ job.read
  /\ down' = Append(down, PageFrame(job.page, job.snapshot, job.values))
  /\ job' = None
  /\ UNCHANGED <<serverVars, session, cursor, misled, up, wsState, viewVars,
                 lastApplied, ackVars, breaks, strangers, expired>>

AckCursor ==
  /\ session = "serving" /\ job = None
  /\ up # <<>> /\ Head(up).kind = "ack"
  /\ cursor' = Max({cursor, Head(up).seq})
  /\ down' = Append(down, Ack(cursor'))
  /\ up' = Tail(up)
  /\ UNCHANGED <<serverVars, session, job, misled, wsState, viewVars, lastApplied,
                 ackVars, breaks, strangers, expired>>

Server ==
  \/ PublishEvent \/ DeliverDirect \/ Serve
  \/ BeginBootstrapPage \/ ReadPage \/ ReplyPage \/ AckCursor

-----------------------------------------------------------------------------
(* The connection *)

(* The handshake up to the AuthResponse. *)
Connect ==
  /\ wsState = "DISCONNECTED"
  /\ wsState' = "CONNECTING"
  /\ session' = "authenticated" /\ job' = None /\ misled' = {}
  /\ up' = <<>> /\ down' = <<AuthFrame>>
  /\ UNCHANGED <<serverVars, cursor, viewVars, lastApplied, ackVars, breaks, strangers, expired>>

(* Frames on the way are lost with the connection, in both directions. *)
LoseConnection ==
  /\ wsState # "DISCONNECTED"
  /\ breaks < MaxBreaks
  /\ breaks' = breaks + 1
  /\ wsState' = "DISCONNECTED"
  /\ session' = "closed" /\ job' = None /\ up' = <<>> /\ down' = <<>>
  /\ UNCHANGED <<serverVars, cursor, misled, viewVars, lastApplied, ackVars, strangers, expired>>

(* The page is reloaded: what is left is local storage. *)
Reload ==
  /\ breaks < MaxBreaks
  /\ breaks' = breaks + 1
  /\ wsState' = "DISCONNECTED"
  /\ session' = "closed" /\ job' = None /\ up' = <<>> /\ down' = <<>>
  /\ stage' = None /\ overlay' = NothingShown /\ buffered' = {} /\ dropped' = {}
  /\ shown' = [i \in Peer |-> 0] /\ reflected' = {}
  /\ lastApplied' = persisted
  /\ lastAcked' = 0 /\ ackDue' = FALSE /\ ackInFlight' = FALSE
  /\ UNCHANGED <<serverVars, cursor, misled, persisted, strangers, expired>>

-----------------------------------------------------------------------------
(* The client. A frame is handled to the end before the next one. *)

Receive(kind) == down # <<>> /\ Head(down).kind = kind /\ down' = Tail(down)
Bootstrapping == wsState = "BOOTSTRAPPING"

(* What startBootstrap does to the acknowledgement state and to the stage. *)
StartBootstrap ==
  /\ ackDue' = FALSE /\ ackInFlight' = FALSE
  /\ stage' = None /\ overlay' = NothingShown /\ buffered' = {} /\ dropped' = {}
  /\ up' = Append(up, BootstrapRequest(0, 0))
  /\ wsState' = "BOOTSTRAPPING"

StartRealtimeFlow ==
  /\ Receive("auth")
  /\ StartBootstrap
  /\ UNCHANGED <<serverVars, sessionVars, shown, reflected, lastApplied,
                 persisted, lastAcked, breaks, strangers, expired>>

(* applyNotificationAdded: a live client that cannot place it starts over.   *)
HandleStranger ==
  /\ Receive("stranger")
  /\ IF wsState = "LIVE_SYNCED" THEN StartBootstrap
     ELSE UNCHANGED <<ackDue, ackInFlight, stage, overlay, buffered, dropped, up, wsState>>
  /\ UNCHANGED <<serverVars, sessionVars, shown, reflected, lastApplied,
                 persisted, lastAcked, breaks, strangers, expired>>

(* newerPresenceEvent compares last_active_at: two changes may carry the same *)
(* one (a lease that expires keeps it), and then the incoming value wins.    *)
NewerPresence(i, current, incoming) ==
  IF StampOf[i][incoming] < StampOf[i][current] THEN current ELSE incoming

(* Mutant: no overlay is kept while bootstrapping. *)
HandlePresenceWithoutOverlay ==
  /\ Receive("direct")
  /\ LET i == Head(down).peer
     IN shown' = [shown EXCEPT ![i] = NewerPresence(i, shown[i], Head(down).version)]
  /\ UNCHANGED <<serverVars, sessionVars, up, wsState, stage, overlay, buffered, dropped,
                 reflected, lastApplied, ackVars, breaks, strangers, expired>>

HandlePresenceEvent ==
  /\ Receive("direct")
  /\ LET i == Head(down).peer
         next == NewerPresence(i, shown[i], Head(down).version)
     IN /\ shown' = [shown EXCEPT ![i] = next]
        /\ overlay' = IF ~Bootstrapping THEN overlay
                      ELSE [j \in DOMAIN overlay \cup {i} |->
                              IF j # i THEN overlay[j]
                              ELSE IF i \in DOMAIN overlay
                                   THEN NewerPresence(i, overlay[i], Head(down).version)
                                   ELSE Head(down).version]
  /\ UNCHANGED <<serverVars, sessionVars, up, wsState, stage, buffered, dropped,
                 reflected, lastApplied, ackVars, breaks, strangers, expired>>

(* bufferServerEvent keeps the newest BufferLimit events. *)
Newest(events) ==
  IF Cardinality(events) <= BufferLimit THEN events ELSE events \ {Min(events)}

(* Mutant: an event is applied even while bootstrapping. *)
ApplyWhileBootstrapping ==
  /\ Receive("event") /\ Bootstrapping
  /\ reflected' = reflected \cup {Head(down).seq}
  /\ lastApplied' = Max({lastApplied, Head(down).seq})
  /\ UNCHANGED <<serverVars, sessionVars, up, wsState, stage, overlay, shown,
                 buffered, dropped, ackVars, breaks, strangers, expired>>

BufferEvent ==
  /\ Receive("event") /\ Bootstrapping
  /\ buffered' = Newest(buffered \cup {Head(down).seq})
  /\ dropped' = dropped \cup ((buffered \cup {Head(down).seq}) \ buffered')
  /\ UNCHANGED <<serverVars, sessionVars, up, wsState, stage, overlay, shown,
                 reflected, lastApplied, ackVars, breaks, strangers, expired>>

(* applySequencedEvent: an event at or below the cursor is a duplicate. *)
ApplyEvent ==
  /\ Receive("event") /\ ~Bootstrapping
  /\ IF Head(down).seq > lastApplied
     THEN /\ reflected' = reflected \cup {Head(down).seq}
          /\ lastApplied' = Head(down).seq
          /\ ackDue' = (ackDue \/ (~ackInFlight /\ lastApplied' > lastAcked))
     ELSE UNCHANGED <<reflected, lastApplied, ackDue>>
  /\ UNCHANGED <<serverVars, sessionVars, up, wsState, stage, overlay, shown,
                 buffered, dropped, persisted, lastAcked, ackInFlight, breaks, strangers, expired>>

(* A page joins the stage; page 0 makes a new one, and a continuation        *)
(* without a stage is ignored.                                               *)
Staged ==
  LET page == Head(down)
      before == IF page.page = 0 THEN NothingShown ELSE stage.values
  IN [snapshot |-> IF page.page = 0 THEN page.snapshot ELSE stage.snapshot,
      values |-> [i \in DOMAIN before \cup DOMAIN page.values |->
                    IF i \in DOMAIN page.values THEN page.values[i] ELSE before[i]]]

StrayPage == Head(down).page # 0 /\ stage = None

(* Mutant: has_more is not looked at. *)
AskBeyondLastPage ==
  /\ Receive("page") /\ ~StrayPage
  /\ stage' = Staged
  /\ up' = Append(up, BootstrapRequest(Head(down).page + 1, Head(down).snapshot))
  /\ UNCHANGED <<serverVars, sessionVars, wsState, overlay, buffered, dropped, shown,
                 reflected, lastApplied, ackVars, breaks, strangers, expired>>

ReceiveMiddlePage ==
  /\ Receive("page")
  /\ IF StrayPage THEN UNCHANGED <<stage, up>>
     ELSE /\ Head(down).page < LastPage
          /\ stage' = Staged
          /\ up' = Append(up, BootstrapRequest(Head(down).page + 1, Head(down).snapshot))
  /\ UNCHANGED <<serverVars, sessionVars, wsState, overlay, buffered, dropped, shown,
                 reflected, lastApplied, ackVars, breaks, strangers, expired>>

(* applyBootstrapSnapshot shows the stage, presence merged with the overlay. *)
SnapshotShown(i) ==
  IF i \notin DOMAIN Staged.values THEN 0
  ELSE IF i \in DOMAIN overlay
       THEN NewerPresence(i, Staged.values[i], overlay[i])
       ELSE Staged.values[i]

(* Mutant: the buffer is forgotten. *)
FinishWithoutDrain ==
  LET snapshot == Head(down).snapshot
  IN /\ Receive("page")
     /\ ~StrayPage /\ Head(down).page = LastPage
     /\ stage' = Staged
     /\ shown' = [i \in Peer |-> SnapshotShown(i)]
     /\ overlay' = NothingShown /\ buffered' = {}
     /\ reflected' = 1..snapshot
     /\ lastApplied' = snapshot
     /\ \E stored \in BOOLEAN : persisted' = IF stored THEN snapshot ELSE persisted
     /\ ackDue' = (~ackInFlight /\ lastApplied' > lastAcked)
     /\ wsState' = "LIVE_SYNCED"
     /\ UNCHANGED <<serverVars, sessionVars, up, dropped, lastAcked, ackInFlight, breaks, strangers, expired>>

(* The last page: the snapshot replaces the view, the cursor becomes the     *)
(* snapshot's, the client is live, and the buffer is drained over it.        *)
FinishBootstrap ==
  LET snapshot == Head(down).snapshot
      fresh == {e \in buffered : e > snapshot}
  IN /\ Receive("page")
     /\ ~StrayPage /\ Head(down).page = LastPage
     /\ stage' = Staged
     /\ shown' = [i \in Peer |-> SnapshotShown(i)]
     /\ overlay' = NothingShown /\ buffered' = {}
     /\ reflected' = 1..snapshot \cup fresh
     /\ lastApplied' = Max({snapshot} \cup fresh)
     /\ \E stored \in BOOLEAN : persisted' = IF stored THEN snapshot ELSE persisted
     /\ ackDue' = (~ackInFlight /\ lastApplied' > lastAcked)
     /\ wsState' = "LIVE_SYNCED"
     /\ UNCHANGED <<serverVars, sessionVars, up, dropped, lastAcked, ackInFlight, breaks, strangers, expired>>

(* The cursor's persistence timer. Storage may refuse, and is tried again.   *)
PersistCursor ==
  /\ persisted # lastApplied
  /\ persisted' = lastApplied
  /\ UNCHANGED <<serverVars, sessionVars, up, down, wsState, viewVars, lastApplied,
                 lastAcked, ackDue, ackInFlight, breaks, strangers, expired>>

Connected == wsState \in {"BOOTSTRAPPING", "LIVE_SYNCED"}
AcksOnTheWay ==
  Cardinality({k \in DOMAIN up : up[k].kind = "ack"})
    + Cardinality({k \in DOMAIN down : down[k].kind = "ack"})

(* Mutant: the ack does not wait for local storage. *)
FlushAckUnstored ==
  /\ ackDue /\ ~ackInFlight /\ lastApplied > lastAcked
  /\ Connected /\ AcksOnTheWay < MaxUnanswered
  /\ up' = Append(up, Ack(lastApplied))
  /\ ackDue' = FALSE /\ ackInFlight' = TRUE
  /\ UNCHANGED <<serverVars, sessionVars, down, wsState, viewVars, lastApplied,
                 persisted, lastAcked, breaks, strangers, expired>>

(* flushAck stores the cursor first and sends the ack only once it is stored.*)
FlushAck ==
  /\ ackDue /\ ~ackInFlight /\ lastApplied > lastAcked
  /\ Connected /\ AcksOnTheWay < MaxUnanswered
  /\ persisted' = lastApplied
  /\ up' = Append(up, Ack(lastApplied))
  /\ ackDue' = FALSE /\ ackInFlight' = TRUE
  /\ UNCHANGED <<serverVars, sessionVars, down, wsState, viewVars, lastApplied,
                 lastAcked, breaks, strangers, expired>>

HandleAckResponse ==
  /\ Receive("ack")
  /\ ackInFlight' = FALSE
  /\ lastAcked' = Head(down).seq
  /\ ackDue' = (ackDue \/ lastApplied > lastAcked')
  /\ UNCHANGED <<serverVars, sessionVars, up, wsState, viewVars, lastApplied,
                 persisted, breaks, strangers, expired>>

(* The watchdog: no response within ACK_RESPONSE_TIMEOUT_MS. *)
AckTimeout ==
  /\ ackInFlight
  /\ ackInFlight' = FALSE
  /\ ackDue' = (ackDue \/ lastApplied > lastAcked)
  /\ UNCHANGED <<serverVars, sessionVars, up, down, wsState, viewVars, lastApplied,
                 persisted, lastAcked, breaks, strangers, expired>>

(* handleProtocolError only settles messages and requests that wait. *)
HandleProtocolError ==
  /\ Receive("error")
  /\ UNCHANGED <<serverVars, sessionVars, up, wsState, viewVars, lastApplied,
                 ackVars, breaks, strangers, expired>>

Handle ==
  \/ StartRealtimeFlow \/ HandleStranger \/ HandlePresenceEvent
  \/ BufferEvent \/ ApplyEvent \/ ReceiveMiddlePage \/ FinishBootstrap
  \/ HandleAckResponse \/ HandleProtocolError

-----------------------------------------------------------------------------

Next ==
  \/ CommitEvent \/ (\E i \in Peer : ChangePresence(i)) \/ LoseDirect \/ NotifyStranger \/ RefuseContinuation \/ Server
  \/ Connect \/ LoseConnection \/ Reload
  \/ Handle \/ PersistCursor \/ FlushAck \/ AckTimeout

(* The server's goroutines run, the reconnect timer fires, and the client    *)
(* handles what it receives. Nothing obliges anybody to write, to break a    *)
(* connection or to acknowledge.                                             *)
Fairness == WF_vars(Server) /\ WF_vars(Connect) /\ WF_vars(Handle)

Spec == Init /\ [][Next]_vars /\ Fairness

-----------------------------------------------------------------------------
(* Properties *)

Live == wsState = "LIVE_SYNCED"

(* A live client has missed nothing below its cursor but what the full buffer *)
(* of its last bootstrap discarded: between the snapshot, the buffer and the  *)
(* live stream there is no gap, through reconnects, reloads and bootstraps    *)
(* started over.                                                             *)
NoGapBelowCursor == Live => 1..lastApplied \subseteq reflected \cup dropped

(* "Event cursors are durably persisted before the matching server           *)
(* acknowledgement is sent": neither the server's cursor nor an ack on its   *)
(* way is ahead of what a reload would find in local storage.                *)
AckedIsStored ==
  /\ cursor <= persisted
  /\ \A k \in DOMAIN up : up[k].kind = "ack" => up[k].seq <= persisted

Quiet == Live /\ session = "serving" /\ pending = {} /\ down = <<>> /\ job = None

(* Transactions whose order in time differs from their order on the row.     *)
StampWentBack(i) == \E v \in 0..value[i] : StampOf[i][v] > StampOf[i][value[i]]

(* When nothing is on its way, the presence a live client shows is the       *)
(* server's, however snapshot, overlay and direct deliveries overtake each   *)
(* other. Excepted is a peer whose present value was lost on its way to this *)
(* session, was followed by an older one that its stamp does not tell from   *)
(* it (broadcasts cross: the row lock is released before them), or has an    *)
(* earlier stamp than an older value. The snapshots of the heartbeats repair *)
(* those; they are Presence's subject.                                       *)
PresenceIsCurrent ==
  Quiet => \A i \in Peer \ misled : StampWentBack(i) \/ shown[i] = value[i]

(* Once connections stop breaking the client is live for good and its view   *)
(* reflects every committed event but those its full buffer discarded,       *)
(* provided that no continuation of a bootstrap was refused: nothing starts  *)
(* another one after that.                                                   *)
CatchesUp ==
  [](expired = 0) => <>[](Live /\ 1..committed \subseteq reflected \cup dropped)
=============================================================================
