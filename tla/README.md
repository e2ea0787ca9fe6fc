# msgnr: specifications, model checking and proofs

msgnr is a self-hosted workspace: chat with threads, reactions and calls, tasks,
documents, days off. The backend is one Go process (several may share a
database) over PostgreSQL, object storage and LiveKit; the clients are a Vue
application in the browser and a Tauri shell around it. Client and server talk
Protobuf over one WebSocket, plus HTTP for login, refresh, uploads and CRUD.

This directory holds TLA+ specifications of the part of the system in which
order, failure and concurrency decide whether users see the right thing: how an
event gets from a database transaction to every client, how a client stays
connected, authenticated and current, how a message gets from a composer to the
database and to the unread badges of the others, who is online, and how calls
begin and end.

- Model checking: `tlc -config <cfg> <module>` for each row of [Runs](#runs).
- Proofs: `tlapm <module>` for `EventListenerProofs`, `WsServerProofs` (both models
  of `server.go`, SessionFanout and Presence), `ClientSyncProofs`,
  `SessionRecoveryProofs`, `MessageDeliveryProofs`, `TokenRefreshProofs`,
  `ChatProofs` and `CallsProofs`.
- `PROJECT.json` says for every definition which source lines it models, lists
  the runs, a deliberately broken variant ("mutant") of the code for every
  checked property, the findings, and every known hazard with its line.

Paths below are relative to the repository; `chat.ts` is
`web/src/stores/chat.ts`, `server.go` is `internal/ws/server.go`.

## 1. The system

### 1.1 How the parts interact

    request handler --(AppendEventTx, NotifyEventTx in one tx)--> workspace_events
        |  commit                                                      |
        |                                       pg_notify / catch-up query
        |                                                              v
        |                                           events.Listener (1 goroutine)
        |                                                              |  Bus.Publish
        |  direct deliveries                                           v
        +------------------> ws session: outboundCh <--- fanout <--- eventCh
                                     |  writer goroutine
                                     v
         web client:  ws store -> chat store (snapshot + buffer + live events)
             ^                        |  ack, bootstrap, SendMessage
             |  reconnect, refresh    v
         session orchestrator     offline queue (IndexedDB)

Two kinds of information flow to a client. *Sequenced* events have a number from
a Postgres sequence, are stored in `workspace_events` and go through Listener,
Bus and fanout. *Direct* envelopes (unread counters, notifications, the list of
conversations, presence) have no number, are stored nowhere as messages and are
put straight into the outbound queues of a user's sessions; presence goes to the
other instances over a NOTIFY channel of its own. A client that has missed
something starts a *bootstrap*: a paged snapshot of what it may see. The tabs of a
browser share their tokens in local storage and agree there on who refreshes them.
Calls are rooms of LiveKit, which reports joining, leaving and the end of a room
by webhooks.

### 1.2 Components modelled

| Component | State | Operations | What is hard | What makes it correct |
| --- | --- | --- | --- | --- |
| Event log, `internal/events/store.go`, `workspace_events` | rows, the number sequence, NOTIFY queue of each transaction | append, notify, commit, roll back, prune, list after a number | numbers are drawn before commit: transactions overlap and leave holes | every committed event reaches the Bus |
| Event listener, `internal/events/listener.go` | `lastDelivered`, the LISTEN connection, the current catch-up page | connect, catch up page by page, follow notifications, back off | LISTEN versus catch-up; reconnects; pruning; failing fetches; commits out of order | nothing twice, nothing out of order, nothing skipped but a row committed too late or not fetched |
| Event bus, `internal/events/bus.go` | subscriptions and their bounded channels | subscribe, publish, unsubscribe | publishing on a snapshot of the subscriptions while they go | no lost event without notice, no send on a closed channel |
| WebSocket session, `server.go` | handler, fanout and writer goroutines, outbound queue, registration | register, forward, answer, deliver directly, tear down | four goroutines, two bounded queues, one shutdown order | what the client receives has no gap; a dead socket ends everything |
| Bootstrap service, `internal/bootstrap/service.go` | bootstrap sessions, page tokens | first page, continuation, expiry | pages are read at different times | snapshot plus later events is the present |
| Client synchronisation, `chat.ts` | `wsState`, stage, buffer, cursor, ack timers | bootstrap, buffer, apply, persist, acknowledge | events below, inside and above the snapshot; direct updates overtake pages and each other; a full buffer; reloads | no gap below the cursor but what the buffer had no room for; only stored cursors are acknowledged; the view converges |
| Session orchestrator, `useSessionOrchestrator.ts`, with the ws and auth stores | handshake state, tokens, timers, attempt ids | connect, authenticate, refresh, retry, degrade, log out | every `await` is a race with timers, drops and clicks | never stranded; one refusal does not log out a living session; recovers while the token is valid |
| Outbound delivery, `useOfflineQueue.ts`, `chat.ts`, `chat.Service.SendMessage` | bubbles, timers, queue, IndexedDB table, request, row | compose, persist, attempt, flush, time out, retry, acknowledge, insert, reload, log out | answers lost, old handlers still running, two paths that want to write | stored once; never written before it is saved; always answered |
| Token refresh, `services/http/refreshSession.ts`, `auth/service.go` | tokens in local storage, the lock or the lease, the session row with the hash of its token | wait for one's turn, exchange, adopt, give up; rotate, refuse; log in and out | two tabs and one token; a lease that is not atomic; refusals that are not the end | a living session keeps its token; every call comes back |
| Presence, `server.go` 1345-1643 | leases, `user_presence`, broadcasts under way | connect, heartbeat, prefer, close, sweep, recompute, broadcast, notify, snapshot | recomputes of several connections and instances; broadcasts after the row lock; crashed instances | the status is that of the leases; observers converge to it |
| Messages and reading, `internal/chat` | messages, thread numbers, members, cursors, levels, notifications; counters under way | write, edit, delete, clear, read, subscribe, join, leave, archive, reopen | counters computed in a transaction and delivered after it; numbers that outlive their messages | a new message is unread; the badge is the database's |
| Calls, `internal/calls` | calls, participants, hands, invites, notifications | create, join, invite, accept, reject, cancel, raise, lower; joined, left and finished webhooks | webhooks late, twice, reordered; four ways for a call to end; counts over calls that are not locked | no deserted call, no invite without call, every change of a queue announced, and a count announced that is the database's unless another transaction overtook it |

### 1.3 Components not modelled

| Component | State and operations | What is hard in it | Why not here |
| --- | --- | --- | --- |
| Live access cache, `server.go` 556-690 | set of conversations per session | membership changes between load and subscribe; timeouts that drop an event | next in the plan |
| Replay since a cursor, `internal/sync/service.go` | log, retention | holes, pruning between statements | planned. No client of this repository sends `SyncSinceRequest`: `sendSyncSince` is only called on a `SyncSinceResponse` |
| Collaborative rooms, `server.go` 996-1118, `useRichTextCollab.ts` | rooms, snapshots, seeding | last-writer snapshots, double seeding | planned; merging is the Yjs library |
| Call client, `stores/call.ts` | the LiveKit room, devices, dock, ringing | leaving while the room is still connecting | media is LiveKit's; Calls says what the server's events tell a client |
| Forwarding, reactions, attachments, creating conversations, administration in `internal/chat` | rows changed under row locks, each with an event | mostly serialised by the database | their events are events of the log like any other |
| Tasks, documents, days off | request-scoped SQL and views | some read-then-write races (listed as hazards) | no protocol beyond single requests |
| Push, search, admin, integrations, storage | queues to or queries of external services | best effort by design | no state others rely on |
| End-to-end encryption | key packages, envelopes | cryptography | data, not control |
| UI, platform shells, generated code, wiring, configuration | - | - | rendering and plumbing |

### 1.4 Further hazards

`PROJECT.json` lists the hazards that matter most, with the properties that cover
them. Known beside those, and not covered by a property:

- `useSessionOrchestrator.ts:187`: a refresh that fails in the authentication
  stage leaves `AUTH_DEGRADED`, and the loop connects with the refused token.
- `useSessionOrchestrator.ts:216`: a refresh slower than the reconnect interval is
  overtaken by the timer, which offers the refused token again; its second refusal
  finds the one refresh spent and logs out (`overtaken` in SessionRecovery).
- `chat/messages.go:594`: a replay with attachments finds them linked by its own
  original and is refused, so a stored message is shown as failed.
- `chat/messages.go:1466`: clearing a direct conversation forgets its client ids; a
  message whose answer was lost can be created again.
- `chat.ts:2235`: a counter that arrives during a bootstrap is replaced by a page
  that was read before it, until it changes again; only presence has an overlay.
- `useSessionOrchestrator.ts:188`: once the loop has used its one refresh, a token
  that expires during the outage is offered for ever: the server closes before its
  writer has sent the refusal, and the client sees a broken connection.
- `server.go:1412`: a recompute that fails after its lease was removed (two seconds,
  an error, the rest of a sweep after an error, a crash) leaves the user online
  until the next connection or request: nothing recomputes a user without leases.
- `server.go:1354`: `last_active_at` is the start of the statement: one that waited
  sets it back, and clients reject what carries it until the next touch.
- `auth/service.go`: a logout that is overtaken by a rotation revokes nothing; the
  new token is stored after the tokens were cleared.
- `calls/service.go:545`: accepting an expired invite marks it and rolls the mark
  back. `:1942`: accepting locks invite then call, ending locks call then invites.
- `calls/service.go`: two invitations of one user at once can leave two pending
  invites.
- `chat/messages.go:821`: queries on the pool inside a transaction: with every
  connection of the pool in such a transaction they wait for each other.
- `stores/call.ts:2566`: leaving while the room is still connecting.
- `chat/threads.go:58`: subscribing before the first reply locks nothing.
- `server.go:557`: conversations are loaded before the session is subscribed.
- `useRichTextCollab.ts:254`: two clients that each believe to be alone seed twice.
- `tasks/service.go:2543`: history's previous values are read before the transaction.
- `sync/service.go:145`: every rolled-back number is a reason for a full bootstrap.

## 2. The modules

Actions carry the names of the functions they model. History variables and
bounds are marked as such in each module.

### EventLog, EventListener, EventFeed

`EventLog` is the outbox. A writer is a request goroutine with an open
transaction; `AppendEventTx` draws a number, `CommitTx` makes rows visible and
queues notifications to whoever listens, `RollbackTx` leaves a hole,
`PruneWorkspaceEvents` applies retention. An event is its number.

`EventListener` extends it with `Listener.runOnce`: `Connect` (LISTEN before the
first query), `CatchUpQuery` and `CatchUpPublish` (pages of
`EventListenerCatchupBatch` rows, loop while pages are full), then
`SkipNotification`, `DeliverNotification` or `FailFetch` for each notification.
`LoseConnection`, `NoticeLoss` and `Restart` are the failures; `lastDelivered`
survives the first two and not the third, as in `Run`. Writers overlap and fetches
fail, so that rows can be lost to the Bus (finding 1, hazard at `listener.go:152`).
Two history variables say which: `overtaken`, the rows committed after a later one,
and `unfetched`, those whose own fetch failed. A row stops being excused when a new
connection reads it again, since a catch-up starts at `lastDelivered`.

`EventFeed` is the abstract specification: what the rest of the backend can rely
on when it subscribes. An event is owed from the commit that stores it unless a
later one is stored already; `GiveUp` and `Resume` are the failed fetch and the
reconnect; `Deliver` publishes an event that no owed one precedes. Its refinement
mapping (`Feed` in `EventListener`) takes for "stored" the rows in the table, those
already read into a page and those published, for "excused" the two history
variables, and for "feed" the published sequence.

### SessionFanout

One authenticated session. `handleWebSocket`'s life is the variable `handler`:
registered, subscribed, serving, and the deferred teardown in the order of the
source: unsubscribe, close the subscription channel, unregister, wait for the
fanout goroutine, close the outbound channel, wait for the writer. `Publish`
copies the subscriptions under the lock (`PublishSnapshot`) and sends after it;
the fanout goroutine takes an event and forwards it, or finds the outbound queue
full, tries the error frame and closes the socket; `sendDirectEnvelope` collects
targets first and sends later. A send on a closed channel ends the process
(`Panic`). Here every event passes the session's filter or is skipped at will.

### ClientSync

One client and its session on the server, fed by an `EventFeed`-like log. Server:
`CommitEvent`, `PublishEvent`, `ChangePresence` (a recompute commits a peer's
presence and announces what it wrote in one or several ways, after its row lock is
gone), `DeliverDirect` and `LoseDirect` (announcements arrive in any order or not at
all), bootstrap pages
(`BeginBootstrapPage`, `ReadPage`, `ReplyPage`, an expired session), `AckCursor`.
Client: the handshake's end, the stages of a bootstrap with its buffer and presence
overlay, `ApplyEvent`, the cursor's persistence timer, `FlushAck` and its watchdog,
unknown-conversation notifications that start a bootstrap over, connection loss,
reload. Which page carries a peer's presence is a constant.
Presence is the one kind of unnumbered state the client reconciles with a
snapshot, and the only one here; its values are versions, each with a time stamp
(`StampOf`), and equal stamps let the later arrival win (`chat.ts:3923`). Two
histories name what the code gives up: `misled`, the peers whose present value was
lost on its way to this session or followed by an older one that its stamp does not
betray, and `dropped`, the events the full buffer of the last bootstrap discarded.
Retention is left out
(see the hazard at `bootstrap/service.go:77`), and so is `RECOVERING_GAP`, which no
client enters by itself.

### SessionRecovery

The orchestrator with the ws and auth stores and as much of the server as the
handshake needs. Every `await` is a point where something else may run: a call of
`connectAndAuthenticate` is the `attempt` until its 50 ms poller resolves it, or
becomes `superseded` by a newer attempt id; a call of `auth.refresh` is
`refreshing`. `conn` is the socket with its two channels and the handler at the
other end; a refusing server may close the socket before the writer has sent the
error envelope (the deferred `conn.Close` at `server.go:380`). There are no
clocks: the timers of seconds fire at any moment at which no poller is due, the
reconnect timer also while a refresh is under way. `overtaken` is the history of the
one case in which that matters: a refused token offered again while the refresh that
replaces it is pending. Startup screens,
the debug view and the HTTP interceptor's own refresh are left out.

### MessageDelivery

Plaintext messages of one client. Between two awaits JavaScript runs alone, and
continuations run before new frames, timers or clicks: that is the guard
`Runnable`. `Compose`, `Retry` and the continuation `AttemptContinues` are
`attemptPlaintextSend`; `persisting` is the order in which IndexedDB commits;
`Flush` walks a copy of the queue with its own awaits; `SendTimeout`,
`CloseEvent`, `HeartbeatFails`, `FinishBootstrap` requeue or fail messages.
`ServerReceives` and `ServerAnswers` are the duplicate check and the insert under
the unique index; handlers of dead connections go on in `late`. Thread replies
take the same path and encrypted messages never enter the queue. Removals from
IndexedDB are atomic, and `loadPersisted` is part of `Reload`. A logout leaves the
flushes of the old session waiting (`flushes` survives it), as the code
does.

`PendingIsKept` assumes `Undisturbed`: no bootstrap on a live connection, or neither
a refused commit nor a logout. Without it the code does lose a message: a flush skips
a record that was not saved (refused, or removed while a flush from before a logout
waited for it), finds `BOOTSTRAPPING`, and calls the next record "queued" although it
is under way (`useOfflineQueue.ts:125`); a negative answer removes the record and
leaves the bubble. With a logout this takes five messages and 49 steps, far beyond
the run; the attempt to prove the property for any bounds found it.

### TokenRefresh

The tokens of one browser profile. A `Caller` is one open call of
`refreshSharedSessionTokens`, in whichever tab. With Web Locks (`locks`, chosen at
the start) it waits in `GrantLock`; without, it looks at the lease, writes it and
reads it back in three steps (`SeeNoLease`, `WriteLease`, `ReadLeaseBack`), between
which other tabs do the same. `Enter` is the start of the callback: adopt what
somebody else has stored, exchange the stored token, or clear. The server looks the
hash up, then replaces it if the row still holds it (`RotateToken`); a request
nobody waits for any more may still be carried out (`LateRequest`). After a refusal
the client looks at the storage again (`ReceiveRefusal`). `GiveUp`, `CloseTab`,
`LeaseLapses`, `LookupFails` and `EndSession` are the failures; `BeginLogout`,
`FinishLogout` and `Login` overlap with all of it. Tokens are numbers in the order
of their issue. `lost` remembers the sessions nobody could have kept: the answer
that carried their token was lost, their lookup failed, a rotation overtook their
logout, or a login overlapped with a call or a logout still under way.

### Presence

One user with several connections to several instances, and observers connected to
some of them. Touching is two statements (`Authenticate`, `Heartbeat`, then
`TouchLease`); a recompute is one transaction that locks the row, sweeps and counts
(`CountLeases`) and writes (`CommitStatus`): leases may change in between, the row
may not. Whoever found a change tells its own instance (`BroadcastLocal`) and then
all of them (`NotifyPresence`). `SendPresenceSnapshot` is what a heartbeat of the
observer brings. `StatementFails`, `LoseNotices` and `Crash` are the failures. `harm`
remembers that a recompute was skipped or that a touch was overtaken by a later
one, the two things nothing repairs.

### Chat

One conversation. A request is one transaction, which locks the channel row, and
the counters it computed are delivered after it, each by its own handler. Reading
is the exception, since `UpdateReadCursor` locks nothing the others lock: it
computes in one step (`UpdateReadCursor`) and commits in another
(`CommitReadCursor`). An edit, a deletion or a subscription could overlap in the
same way; they are one step, and their overlap is that of a read with any other
request. `Counter` is what the SQL of the counters computes; `ClearDMConversationHistory`,
`DeleteMessage` with its cascade, joining, leaving, archiving and reopening change
who counts what. A message is its `channel_seq`; content, attachments and the
durable events are left out. `stale` marks users whose badge is not promised to be
current: two of their counters crossed, or they joined, reopened or changed their
level, of which the server tells nobody.

### Calls

Calls, participants and invites of a workspace with the durable events about them.
Every operation locks its call and is one step where all it reads is under that
lock. The number of calls a user is in is not: `activeCallCountsForUsersTx` counts
all calls, of which the transaction has locked one (an accepted invite also those it
leaves, `LockOthers`). So a transaction that counts is three steps, `Begin` (lock and
count), `Recount` and the action named for the operation, which commits and
announces the second count if it differs from the first; transactions of other
calls run in between, and any of them may roll back. `room_finished` counts before it
has locked anything (`RoomFinishedRead`, `RoomFinishedEnd`, or `RoomFinishedQuits`
when the call has ended meanwhile). `raced` names the users this misjudges: other
calls of theirs changed between the counts and the commit, or `room_finished`
overlooked them. Webhooks (`ParticipantJoined`, `ParticipantLeft`) may come for
anybody, late, twice and in any order. `told`, `listed` and `shown` are what a
client knows that has applied every event so far. The expiry of an invite changes
nothing, and so is no step: `AcceptInvite` rolls its mark back, and the sweep fails
on its own transaction as soon as it has a row (`calls/service.go:802`).

## 3. Runs

| Run | Configuration | Bounds | Shows | States |
| --- | --- | --- | --- | --- |
| `listener` | `MCEventListener_feed` | 2 writers, failing fetches, 4 events, 2 per transaction, pages of 2, 2 drops or restarts | `TypeOK`, `PublishedAscending`, `DeliveredIsPublished`, `IdleIsCaughtUp`, `OnlyExcusedAreSkipped`, `ImplementsFeed` | 184 thousand |
| `listener_out_of_order_commit` | `MCEventListener_skip` | 2 writers, 3 events, no failure | violates `PublishesEveryEvent` | - |
| `session_queues` | `MCSessionFanout_safe` | queues of 2, 4 events, 2 other frames, 1 direct sender | `TypeOK`, `ReceivedIsPrefix`, `NothingLostWhileConnected`, `FanoutNeverWritesAfterClose`, `SessionEnds` | 176 thousand |
| `session_send_on_closed_bus` | `MCSessionFanout_bus` | queue of 1, 2 events | violates `BusIsSafe` | - |
| `client_sync` | `MCClientSync_safe` | 2 events and a peer with 2 changes, 3 of the four together, a buffer of 1, 2 pages, 1 break, reload or lost announcement, 1 stranger, 1 expired bootstrap, 1 unanswered ack | `TypeOK`, `NoGapBelowCursor`, `AckedIsStored`, `PresenceIsCurrent`, `CatchesUp` | 606 thousand |
| `recovery_safe` | `MCSessionRecovery_safe` | 2 breaks; one expiry, stray frame, click and ended session | `TypeOK`, `NeverStranded`, `OneRefusalIsSurvived`, `RecoversWithValidToken` | 816 thousand |
| `recovery_second_refusal` | `MCSessionRecovery_logout` | 2 breaks, 2 expiries | violates `LogoutMeansSessionEnded` | - |
| `message_delivery` | `MCMessageDelivery_safe` | 2 messages; one break, refused commit, bad answer, bootstrap, reload and logout | `TypeOK`, `StoredOnce`, `OneWritePerSession`, `WrittenIsSaved`, `PendingIsKept`, `EveryMessageIsAnswered` | 496 thousand |
| `token_refresh` | `MCTokenRefresh_safe` | 2 callers, with and without Web Locks, 3 calls, 1 login, 1 failure | `TypeOK`, `LivingSessionIsKept`, `RefreshEnds` | 450 thousand |
| `presence` | `MCPresence_safe` | 2 connections to 2 instances, 1 sweeper, 1 observer, 2 touches, 1 failure | `PresenceTypeOK`, `StatusFollowsLeases`, `ObserversConverge` | 291 thousand |
| `chat` | `MCChat_safe` | 2 users, one of whom reads, 2 messages, direct and public, 2 levels, 1 counter on its way | `TypeOK`, `BadgeIsCurrent`, `NewIsUnread` | 1.5 million |
| `calls` | `MCCalls_safe` | 2 users, 2 calls in a direct and a public conversation, 1 raised hand, 1 overlap of transactions | `TypeOK`, `InviteIsLive`, `LiveCallHasParticipant`, `QueueIsAnnounced`, `PresenceIsAnnounced` | 1.1 million |

Why the bounds are enough to meet the interesting cases:

- *Listener.* Four events make a full page, a second page and a notification
  after it; a transaction of two and two drops give a reconnect with rows on both
  sides of it. Two writers commit in the wrong order, and any announced row may fail
  to be fetched, before and after others. `CatchUpQueryOnce` (a full page taken for the last one) is caught
  within them.
- *Session.* Four events over two queues of two overflow either of them with one
  event in the goroutine's hand; two other frames let a response and a direct
  delivery take the last place. The queue sizes are 2, not the configured
  hundreds: no step looks at more than "full".
- *Client.* Two pages and two events give an event below the snapshot, one while
  a page is being built and, in another order, one after it; a break abandons a
  bootstrap halfway, a stranger starts one over. A buffer of one overflows with the
  second event, as that of the code does with the 513th.
- *Client, continued.* `CatchesUp` is stated for behaviours in which no bootstrap
  continuation is refused: after an error answer nothing starts another bootstrap
  (hazard at `chat.ts:2134`), and the model shows exactly that without the condition.
- *Client, presence.* Two changes are enough for a page to be overtaken by one and
  the overlay by the other, and for their announcements to cross; they have the same
  time stamp. One way of announcing suffices for that; an announcement that arrives
  twice (locally and by NOTIFY) is covered by the proof, which holds for any `Way`.
- *Recovery.* Two breaks give a drop during the attempt that repairs the first, or
  a reconnect timer that fires during a refresh.
  Each further kind of disturbance is bounded by one and may come anywhere.
- *Delivery.* Two messages are needed for a flush suspended on one while the
  other moves; with one of each disturbance every ordered pair of them occurs.
- *Tokens.* Two calls meet in the lease, the third starts from what they left; one
  failure of any kind may come anywhere, and a second session after a logout.
- *Presence.* Two connections recompute against each other on two instances, and
  against one sweeper; a second sweeper finds nothing the first one deletes in the
  same statement. Two touches give two stamps, or a connection and a status request.
  One failure loses a notification, a statement or an instance.
- *Chat.* Two messages are a root with a reply or two roots, deleted in either
  order; a read computed before a request and committed after it already crosses
  with that request's counter, so one counter on its way suffices. The level
  "nothing" and private channels differ from those in the run only in guards; the
  proofs cover them.
- *Calls.* Accepting an invite into one call empties another: two calls, two users.
  A direct message invites by itself, the public conversation on request. Two
  transactions that are open at once are what one overlap gives; the proofs allow any
  number, and any number of calls.

Deadlock checking is off everywhere because each model may legitimately stop: all
bounded events have happened and everything has been delivered, or the user
writes no more. Liveness properties say what must have happened by then.

### Fairness

| Module | Weakly fair | Why | Not fair |
| --- | --- | --- | --- |
| EventListener | the listener goroutine's steps | `Run` retries for ever with a bounded back-off | commits, pruning, failures |
| SessionFanout | registration and teardown; the fanout goroutine; draining and the writer's end | goroutines are scheduled; none of these steps waits for the network | writing to an open socket (a client need not read), publishing |
| ClientSync | the server's steps, `Connect`, the handling of received frames | goroutines run, the reconnect loop of SessionRecovery connects again | commits and changes, breaks, reloads, acknowledgements |
| SessionRecovery | network, pollers, timers, refresh, logout's end, restore at start | timers fire and requests end, in a response or an error | the user, breaks, expiry |
| TokenRefresh | waiting for the turn, the server, the return of each call, the lapse of an orphaned lease | tabs run, requests end, the clock moves; a lock or lease waited for comes free | starting, logging out and in, failures |
| Presence | statements, sweepers, the ageing of leases nobody refreshes, notifications and heartbeats of the observer; a recompute that waits for the row gets it (strong) | database and goroutines run, row locks queue, clients send heartbeats as long as they are connected | requests of the user, failures |
| MessageDelivery | commit callbacks, flush, attempts, timeouts, close event, heartbeat, connect, bootstrap, server, answers | promises settle, and a bounded number of breaks leaves a connection that works | the user, refusals, losses |

### Findings

Three places where the code does not do what the repository says of it. Each run
has one property, quoting the sentence, and TLC's shortest trace.

1. **An event can be skipped for ever** (`listener.go:147`). Numbers are drawn
   before commit. A transaction with number 1 that commits after number 2 was
   published is announced as 1, which is not above `lastDelivered`, and is
   skipped; no later catch-up looks below `lastDelivered`.
2. **A publisher can send on a closed channel** (`bus.go:110`). `Publish` copies
   the subscriptions under the lock and sends after releasing it; `Unsubscribe`
   closes the channel in between. The panic is in the listener's goroutine.
3. **The second expired token logs the user out** (`useSessionOrchestrator.ts:267`).
   `refreshAttempted` is not reset by a recovery that succeeded, so the "once" of
   "try refresh once" is once per login.

For each of them the passing runs check what still holds: an ascending stream
with nothing left above `lastDelivered`, and nothing skipped but the late row itself
(1), a session that ends in order however it dies (2), survival of one refusal that
no timer repeats, and recovery while the token is valid (3).

## 4. Proofs

TLAPS proves these for every value of the constants:

| Theorem | Module | Statement | Assumes |
| --- | --- | --- | --- |
| `TypeCorrect` | EventListenerProofs | `Spec => []TypeOK` | the module's assumptions on its constants |
| `StreamIsAscending` | EventListenerProofs | `Spec => []PublishedAscending` | the same |
| `NothingCountedUnpublished` | EventListenerProofs | `Spec => []DeliveredIsPublished` | the same |
| `NothingSkipped` | EventListenerProofs | `Spec => []OnlyExcusedAreSkipped` | the same |
| `ListenerImplementsFeed` | EventListenerProofs | `Spec => Feed!SafeSpec` | the same |
| `IdleHasNothingLeft` | EventListenerProofs | `Spec => []IdleIsCaughtUp` | the same |
| `NoWriteAfterClose` | WsServerProofs | `Spec => []FanoutNeverWritesAfterClose` | none |
| `FanoutTypeCorrect` | WsServerProofs | `Spec => []TypeOK` | the module's |
| `ClientReceivesPrefix` | WsServerProofs | `Spec => []ReceivedIsPrefix` | the module's |
| `ConnectedLosesNothing` | WsServerProofs | `Spec => []NothingLostWhileConnected` | the module's |
| `ClientTypeCorrect` | ClientSyncProofs | `Spec => []TypeOK` | the module's |
| `AcksAreStored` | ClientSyncProofs | `Spec => []AckedIsStored` | the module's |
| `NoGapForLiveClient` | ClientSyncProofs | `Spec => []NoGapBelowCursor` | the module's |
| `ShownPresenceIsCurrent` | ClientSyncProofs | `Spec => []PresenceIsCurrent` | the module's |
| `RecoveryTypeCorrect` | SessionRecoveryProofs | `Spec => []TypeOK` | the module's |
| `NoClientIsStranded` | SessionRecoveryProofs | `Spec => []NeverStranded` | the module's |
| `OneRefusalNeverLogsOut` | SessionRecoveryProofs | `Spec => []OneRefusalIsSurvived` | the module's |
| `DeliveryTypeCorrect` | MessageDeliveryProofs | `Spec => []TypeOK` | the module's |
| `MessagesAreStoredOnce` | MessageDeliveryProofs | `Spec => []StoredOnce` | the module's |
| `NothingIsWrittenTwice` | MessageDeliveryProofs | `Spec => []OneWritePerSession` | the module's |
| `WritesAreSaved` | MessageDeliveryProofs | `Spec => []WrittenIsSaved` | the module's |
| `PendingMessagesAreKept` | MessageDeliveryProofs | `Spec => []PendingIsKept` | the module's |
| `TokenRefreshTypeCorrect` | TokenRefreshProofs | `Spec => []TypeOK` | the module's |
| `LivingSessionsKept` | TokenRefreshProofs | `Spec => []LivingSessionIsKept` | the module's |
| `CallsTypeCorrect` | CallsProofs | `Spec => []TypeOK` | the module's |
| `NoCallIsDeserted` | CallsProofs | `Spec => []LiveCallHasParticipant` | the module's |
| `NoInviteOutlivesItsCall` | CallsProofs | `Spec => []InviteIsLive` | the module's |
| `EveryQueueIsAnnounced` | CallsProofs | `Spec => []QueueIsAnnounced` | the module's |
| `EveryCountIsAnnounced` | CallsProofs | `Spec => []PresenceIsAnnounced` | the module's |
| `ChatTypeCorrect` | ChatProofs | `Spec => []TypeOK` | the module's |
| `NewMessagesAreUnread` | ChatProofs | `Spec => NewIsUnread` | the module's |
| `BadgesAreCurrent` | ChatProofs | `Spec => []BadgeIsCurrent` | the module's |
| `PresenceTypeCorrect` | WsServerProofs | `PresenceSpec => []PresenceTypeOK` | the module's |
| `StatusIsThatOfLeases` | WsServerProofs | `PresenceSpec => []StatusFollowsLeases` | the module's |
| `SnapshotsPrevail` | WsServerProofs | `PresenceSpec => []HeartbeatsRepair` | the module's |

Every invariant the passing runs check is a theorem, and so is the one action
property. The assumptions on constants say that bounds are numbers, sets are finite
and the markers (`None`, ...) are none of what they stand beside; no theorem assumes
more than that. Where the code gives something up, the statement names it by a
history variable (`overtaken`, `unfetched`, `dropped`, `misled`, `raced`, `stale`,
`lost`, `harm`), which the model sets at the step that gives it up. `WsServerProofs` extends both models of `server.go`,
which is why the specification of Presence has prefixed names (`PresenceSpec`,
`PresenceTypeOK`).

**The stream.** `StreamInv` is type correctness, the ascending published stream,
and that `lastDelivered` is its last number. It is inductive by itself: catch-up
pages hold only rows above `lastDelivered` and are taken oldest first, and a
notification is compared with it. No assumption on the writers is needed, which is
why this half survives finding 1.

**Nothing skipped.** `OnlyExcusedAreSkipped` is not inductive: publishing a number
must not jump over a row that is owed (`Owed`: stored, neither `overtaken` nor
`unfetched`). The invariant adds, in named parts, that the numbers of open
transactions are fresh and nobody else's (`TxFresh`); that notifications name
committed rows, and that an owed row is announced after every older one
(`WireInOrder`: notifications arrive in the order of the commits, and a row that is
older than a committed one is excused at its commit); that a page has no owed row
missing above `lastDelivered` (`PageClosed`); and that once the last page has been
read, every owed row is published, on the page, announced, or committed after the
connection broke (`CaughtUp`). A reconnect owes the rows above `lastDelivered`
again; it comes before a catch-up that reads them all. `IdleIsCaughtUp` needs less
(`NothingLeft`): a row committed late is announced like any other, and only a failed
fetch leaves something above `lastDelivered`. Nothing is assumed of the writers or
of the fetches: finding 1 and the hazard at `listener.go:152` are in the statement.

**The feed.** Each listener step is a step of `EventFeed` or a stutter: commits
store, pruning removes, a failed fetch gives a row up, a reconnect resumes, publishing
delivers a row that no owed one precedes (`NothingBeforeHead`, `PageClosed`), and a
restart is a new process.

**Teardown order.** `TeardownInv` says that the outbound channel is closed only in
the last two stages of the handler, and that the fanout goroutine has returned in
those stages and is never started again. The guard of `CloseOutbound`, which is
the wait for `fanoutDone`, is what makes it inductive.

**The prefix.** `Ahead` gives every frame of the outbound queue its rank in what the
Bus offered: an event follows the one before it, the first follows what was
received. While the goroutine forwards, what it holds and what its channel holds are
the rest of the offers. Once a channel overflows the socket is closed, and once the
queue does the goroutine forwards no more; after that the queues may hold anything,
and nothing behind a hole is received. The same ranks prove `ConnectedLosesNothing`:
as long as the socket is open, the events on the way are numbered from behind what
was received up to what was offered, so that none is missing.

**The client.** Three facts carry both theorems. At most one answer of a bootstrap
is under way, and none to a client that is not bootstrapping (`OneAnswer`). The
snapshot of that answer is not older than what the client has applied
(`SnapshotsCurrent`), which is why storing a snapshot's number never sets the stored
cursor back below an acknowledgement. And the events on the wire ascend and come
after the buffered ones (`InOrder`). From a number that a client starts from, be it
the snapshot of an answer or the cursor of a live client, every published event is
buffered or on its way (`Covers`): a live session misses none, the buffer
keeps what arrives but for what it discards when it is full, which `dropped` counts,
and draining passes over none because what is still on its way is above the buffer.

**The client's presence.** A peer is `Trusted` if its stamps ascend and it is not
`misled`. Of each trusted peer either the present value is going to be announced or
delivered (`Told`), or it is settled (`Settled`): a live client shows it, and a
bootstrapping one has it in the overlay, or whatever the page of that peer has been
read to say is it, and the overlay has nothing that would displace it (`UpToDate`).
Deliveries cross, so nothing is said of their order. What is needed is that a
delivery on the wire either has an earlier stamp than the present value
(`Harmless`), or is followed on the wire by the present one, or that one is still to
be announced (`Followed`); whatever breaks this makes the peer `misled` when it is
delivered. Nobody knows a value that does not exist yet (`NotNewer`). A page brings
the peers of its number to a stage that has those of all pages before it
(`PagesFit`), so that the last one shows everybody. Before the session is registered
nothing has been read (`NotYetServed`), which is what makes deliveries that were not
made harmless.

**Recovery.** The types need the order of the handshake (`WireInv`): the server's
hello comes first and once, the client answers it with the token of its attempt.
`NeverStranded` is strengthened in three ways (`DrivenInv`). It holds without the
attempts that lost their id, which resolve to nothing, and during a handshake too,
whose attempt may have given up before it ends. A reconnect loop that is marked as
running has something that runs it, since the drop handler does nothing then. And an
attempt that was refused, which does not reconnect by itself, leaves a refresh or a
timer behind. Before the first attempt there is no drop handler, and nothing to
drop (`Untouched`). `SurvivalInv` counts disturbances against the one refresh: before
the first of them no token is stale and the refresh unused; once it is used, what is
on the connection is fresh (`FreshWire`) and cannot be refused, and a token that is
still stale has a refresh under way. It holds until `overtaken`, the hazard at
`useSessionOrchestrator.ts:216`: the invariant is `overtaken \/ SurvivalInv`, and a
timer that connects with a token that is not stale, or finds no refresh pending,
offers nothing that is refused.

**Delivery.** `ClaimInv`: what is on the wire is claimed (`inFlight`) and saved
(`durable`), and only an answer or the end of the connection takes such a claim away;
with the sequences of the wire counted by `WireInv`, no message is there twice.
`RecordInv` ties the three copies of a record together: the cache `durable` is exactly
IndexedDB, what is saved is queued, and what is being committed is not saved yet.
`WaitInv` says what a suspended attempt or flush may rely on when it is woken. For
`PendingIsKept` a pending message has its record in the queue, and the record is saved,
or somebody waits for its commit, or is about to report its failure (`PendingInv`); a
message under way is never shown as queued (`BootInv`). That last part needs one of
two reasons, the two halves of `Undisturbed`. If no bootstrap ran on a live
connection, nothing is on the wire while the client is booting (`FirstBootInv`). If
no commit was refused and nobody logged out, commits return in the order of the queue
and of every flush (`OrderInv`), and a flush that waits for a record has nothing saved
behind it that could be under way.

**Tokens.** Tokens are numbered in the order of their issue, sessions in the order
of logins, and the invariant counts both. One token per session is alive; only the
session of the last login can still be kept, and whatever is stored or in use
belongs to it; a token that was tried and refused is dead; an answer under way is
newer than everything stored, and the last of its session. With that, whoever writes
or clears the storage writes the living token of a session that is not lost, or
clears one whose session is dead.

**Calls.** Each property is inductive over the types with one addition: what a call
that was never started may contain (nothing, `FreshCall`). The lemmas are about the
parts of the transactions: seating somebody keeps every call live, closing the
pending invites of an ended call keeps the others' notifications backed by an
invite, and for the counts, that a user's calls are those the transaction
has locked plus those it counted elsewhere (`CountsAddUp`), so that announcing the
second count tells the truth unless the others have changed, and then the user is
`raced` (`AnnouncingKeepsCounts`). This does not depend on how many transactions
overlap, nor on their order. `FreshCall` also says that only calls in progress are
locked in order to be left.

**Chat.** New messages are unread because no cursor is above `next_seq` and no
thread cursor above the thread's number (`Numbers`), and neither number goes back.
The badge is compared with the database by `Matching`: for every reader who is not
`stale`, the last counter under way, or the badge when there is none, is the counter
of the rows; a read that is open has computed one for the cursor it will write.
The lemmas say for each request whose unread set it changes and that it announces to
all of them.

**Presence.** `Accounted`: a recompute is owed, or the one that has counted holds
what the leases imply, or nobody is at it and the row does. Whoever changes a lease
or the preferred status leaves a recompute owed; the row lock keeps the preferred
status still between counting and committing.

The safety half of `ObserversConverge` is `HeartbeatsRepair`: whenever an observer's
heartbeat brings it the row, its client takes the row's status, unless a touch of the
row was overtaken by another. It follows from `NothingIsLater`: the stamp of the row is
the latest ever given, and nothing a task has counted, a LISTEN connection holds or an
observer shows has a later one. It is stated of states, not of the heartbeat's step: a
client that refuses the snapshot changes nothing, and a step that changes nothing
satisfies every action property. The `presence` run checks the liveness that rests on it.

Only model-checked, not proved: the liveness properties (`SessionEnds`, `CatchesUp`,
`RecoversWithValidToken`, `EveryMessageIsAnswered`, `RefreshEnds`,
`ObserversConverge`) and the liveness part of `EventFeed` in `ImplementsFeed`, because
TLAPS reasons neither about fairness nor about ENABLED here. Statements that would need
induction over data are written without it: what is lost to a connected client is said
with numbers rather than with a filtered sequence, and the queue of MessageDelivery is
described by who comes before whom rather than by folds.

## 5. Plan

Done: EventLog, EventListener and EventFeed; SessionFanout; ClientSync;
SessionRecovery; MessageDelivery; Calls; Presence; Chat; TokenRefresh. Left, in this
order:

1. **LiveAccess**: what a session may see against membership changes
   (`server.go` 593-690). Property: a session receives every event of its
   conversations from the moment the snapshot it bootstraps from contains them.
   Composes with SessionFanout, which lets the filter refuse anything.
2. **CollabRoom**: rooms, snapshots of the last writer, seeding by two clients.
3. **SyncReplay**: replay since a cursor over a log that is pruned.
4. **CallSession**: the client's side of joining and leaving a room.

Theorems to come belong to those modules.
