--------------------------- MODULE MessageDelivery ---------------------------
(***************************************************************************)
(* How a plaintext message gets from the composer to the server's table:    *)
(* the optimistic bubble of the chat store (stores/chat.ts), the durable    *)
(* outbound queue (composables/useOfflineQueue.ts over IndexedDB), the      *)
(* request and its answer on the current WebSocket, and the idempotent      *)
(* insert of chat.Service.SendMessage.                                      *)
(*                                                                         *)
(* Between two await points JavaScript runs alone.  A call that waits for   *)
(* the IndexedDB commit of a message is a suspended attempt or a suspended  *)
(* flush; when the commit returns it wakes them, and they run (Runnable)    *)
(* before any frame, timer, click or close event is dispatched.             *)
(***************************************************************************)
EXTENDS Naturals, Sequences, FiniteSets, SequencesExt

CONSTANTS Messages,        \* client message ids
          None,
          MaxBreaks,       \* broken or half-open connections, impatient timers
          MaxUnsaved,      \* commits IndexedDB refuses
          MaxBadAnswers,   \* protocol errors, and answers dropped on a full queue
          MaxRebootstraps, \* bootstraps on a healthy connection
          MaxReloads,      \* reloads of the page
          MaxLogouts

ASSUME DeliveryAssumption ==
  /\ IsFiniteSet(Messages)
  /\ {MaxBreaks, MaxUnsaved, MaxBadAnswers, MaxRebootstraps, MaxReloads,
      MaxLogouts} \subseteq Nat
  /\ None \notin {"queued", "sending", "failed", "confirmed"}
  /\ None \notin [msg : Messages, known : BOOLEAN]

VARIABLES
  bubble,      \* sendStatus of the optimistic message; None: no such bubble
  timers,      \* messages with a running send timeout
  attempt,     \* attemptPlaintextSend suspended on a message, and its result
  queue,       \* queue.value
  inFlight,    \* inFlightClientMsgIds
  durable,     \* durableClientMsgIds
  persisting,  \* commits requested from IndexedDB, in its order
  flushes,     \* suspended or running calls of flush
  idb,         \* the outboundQueue table of IndexedDB
  state,       \* the websocket store: "down", "booting" or "live" (LIVE_SYNCED)
  socket,      \* "open", "deaf" (half-open), "closing" or "gone"
  up, down,    \* requests and answers on the current connection
  handling,    \* the request under execution, and whether it was found stored
  late,        \* requests of ended connections whose handlers still run
  rows,        \* rows of the messages table, by client message id
  fresh,       \* messages not composed yet
  left         \* what remains of each bound

store    == <<bubble, timers, attempt>>
outbox   == <<queue, inFlight, durable, persisting, flushes, idb>>
link     == <<state, socket, up, down>>
server   == <<handling, late, rows>>
vars     == <<store, outbox, link, server, fresh, left>>

Pending  == {"queued", "sending"}

Spend(kind) == left[kind] > 0 /\ left' = [left EXCEPT ![kind] = @ - 1]

\* Sequences in which nothing is twice: the records ms behind those of s, s
\* without the record m, and whether a comes before b.
Put(s, ms)      == s \o SetToSeq(ms \ ToSet(s))
Without(s, m)   == IF m \in ToSet(s) THEN RemoveAt(s, CHOOSE i \in DOMAIN s : s[i] = m)
                                     ELSE s
Before(s, a, b) == \E i, j \in 1..Len(s) : i < j /\ s[i] = a /\ s[j] = b

Init ==
  /\ bubble = [m \in Messages |-> None]
  /\ timers = {} /\ attempt = [m \in Messages |-> "none"]
  /\ queue = <<>> /\ inFlight = {} /\ durable = {} /\ persisting = <<>>
  /\ flushes = {} /\ idb = <<>>
  /\ state = "down" /\ socket = "gone" /\ up = <<>> /\ down = <<>>
  /\ handling = None /\ late = {} /\ rows = [m \in Messages |-> 0]
  /\ fresh = Messages
  /\ left = [break |-> MaxBreaks, unsaved |-> MaxUnsaved, answer |-> MaxBadAnswers,
             rebootstrap |-> MaxRebootstraps, reload |-> MaxReloads, logout |-> MaxLogouts]

-----------------------------------------------------------------------------
(* The outbound queue.                                                      *)

\* A suspended call whose await has returned: microtasks come first.
Runnable == \/ \E m \in Messages : attempt[m] \in {"saved", "unsaved"}
            \/ \E f \in flushes : f.ready # "waiting"

\* enqueue and persist, for a set of messages in one synchronous stretch.
Enqueue(ms) ==
  /\ queue' = Put(queue, ms)
  /\ persisting' = Put(persisting, ms \ durable)

\* Mutant: the first write does not wait for the commit.
AwaitNothing(m) == "saved"

AwaitSaved(m) == IF m \in durable THEN "saved" ELSE "waiting"

\* Mutant: the record is gone, but still counted as durable.
RemoveLazily(m) ==
  /\ queue' = Without(queue, m)
  /\ idb' = Without(idb, m)
  /\ inFlight' = inFlight \ {m}
  /\ UNCHANGED <<durable, persisting, flushes>>

\* remove: out of memory and out of IndexedDB.
RemoveRecord(m) ==
  /\ queue' = Without(queue, m)
  /\ idb' = Without(idb, m)
  /\ inFlight' = inFlight \ {m}
  /\ durable' = durable \ {m}
  /\ UNCHANGED <<persisting, flushes>>

\* updateSendStatus; only "sending" leaves a running timeout alone.
SetStatus(m, status) ==
  /\ bubble' = IF bubble[m] = None THEN bubble ELSE [bubble EXCEPT ![m] = status]
  /\ timers' = IF status = "sending" \/ bubble[m] = None
               THEN timers ELSE timers \ {m}

\* persist's continuation: a record that was discarded while the commit was
\* pending is taken out again, and whoever waits for it learns the result.
Wake(m, result) ==
  /\ attempt' = [attempt EXCEPT ![m] = IF @ = "waiting" THEN result ELSE @]
  /\ flushes' = {IF f.ready = "waiting" /\ Head(f.todo) = m
                 THEN [f EXCEPT !.ready = result] ELSE f : f \in flushes}

PersistReturns ==
  /\ ~Runnable /\ persisting # <<>>
  /\ LET m == Head(persisting) IN
     /\ persisting' = Tail(persisting)
     /\ \/ /\ m \in ToSet(queue)
           /\ durable' = durable \cup {m} /\ idb' = Put(idb, {m})
           /\ Wake(m, "saved")
           /\ UNCHANGED left
        \/ /\ m \notin ToSet(queue)
           /\ Wake(m, "unsaved")
           /\ UNCHANGED <<durable, idb, left>>
        \/ /\ Spend("unsaved")
           /\ Wake(m, "unsaved")
           /\ UNCHANGED <<durable, idb>>
  /\ UNCHANGED <<bubble, timers, queue, inFlight, link, server, fresh>>

-----------------------------------------------------------------------------
(* The connection.                                                          *)

CanWrite == socket \in {"open", "deaf"}

\* socket.send: on a half-open connection the bytes go nowhere.
Write(m) == up' = IF socket = "open" THEN Append(up, m) ELSE up

\* What the server has of a connection that ends: a prefix of the frames, and
\* the request under execution.
LeaveBehind ==
  /\ \E n \in 0..Len(up) :
       late' = late \cup ({handling} \ {None})
                    \cup {[msg |-> m, known |-> FALSE] : m \in ToSet(SubSeq(up, 1, n))}
  /\ handling' = None
  /\ up' = <<>> /\ down' = <<>>
  /\ UNCHANGED rows

\* onTransportDrop: a new delivery epoch, and every message being sent goes
\* back to the queue (requeueInFlightPlaintextMessages).
Requeue ==
  LET sending == {m \in Messages : bubble[m] = "sending"} IN
  /\ bubble' = [m \in Messages |-> IF m \in sending THEN "queued" ELSE bubble[m]]
  /\ timers' = timers \ sending
  /\ inFlight' = {}
  /\ Enqueue(sending)

\* invalidateTransport, called by the send timeout, a failed write and the
\* transport heartbeat.
InvalidateTransport ==
  /\ state' = "down" /\ socket' = "gone"
  /\ IF socket = "closing" THEN UNCHANGED <<up, down, server>> ELSE LeaveBehind

PathDies ==
  /\ socket = "open" /\ Spend("break")
  /\ socket' = "deaf"
  /\ \E n \in 0..Len(up) : up' = SubSeq(up, 1, n)
  /\ UNCHANGED <<store, outbox, state, down, server, fresh>>

ConnectionBreaks ==
  /\ CanWrite /\ Spend("break")
  /\ socket' = "closing" /\ LeaveBehind
  /\ UNCHANGED <<store, outbox, state, fresh>>

\* Mutant: a drop that does not reset the state of the websocket store.
CloseEventKeepsState ==
  /\ ~Runnable /\ socket = "closing"
  /\ socket' = "gone"
  /\ Requeue
  /\ UNCHANGED <<attempt, durable, flushes, idb, state, up, down, server, fresh, left>>

CloseEvent ==
  /\ ~Runnable /\ socket = "closing"
  /\ state' = "down" /\ socket' = "gone"
  /\ Requeue
  /\ UNCHANGED <<attempt, durable, flushes, idb, up, down, server, fresh, left>>

HeartbeatFails ==
  /\ ~Runnable /\ socket = "deaf"
  /\ InvalidateTransport /\ Requeue
  /\ UNCHANGED <<attempt, durable, flushes, idb, fresh, left>>

Connect ==
  /\ ~Runnable /\ state = "down" /\ socket = "gone"
  /\ state' = "booting" /\ socket' = "open"
  /\ inFlight' = {}
  /\ UNCHANGED <<store, queue, durable, persisting, flushes, idb, up, down,
                 server, fresh, left>>

\* flush begins with what is in the queue and not in flight, in this order.
StartFlush ==
  \E todo \in SetToSeqs(ToSet(queue) \ inFlight) :
    /\ \A i, j \in 1..Len(todo) : i < j => Before(queue, todo[i], todo[j])
    /\ flushes' = flushes \cup {[todo |-> todo, ready |-> "next"]}

\* Mutant: the snapshot clears the timeouts and does not start them again.
FinishBootstrapUnwatched ==
  /\ ~Runnable /\ state = "booting" /\ socket = "open"
  /\ state' = "live" /\ timers' = {}
  /\ StartFlush
  /\ UNCHANGED <<bubble, attempt, queue, inFlight, durable, persisting, idb,
                 socket, up, down, server, fresh, left>>

\* The snapshot is applied, the timeouts of messages being sent are started
\* again, and the queue is flushed.
FinishBootstrap ==
  /\ ~Runnable /\ state = "booting" /\ socket = "open"
  /\ state' = "live"
  /\ timers' = {m \in Messages : bubble[m] = "sending"}
  /\ StartFlush
  /\ UNCHANGED <<bubble, attempt, queue, inFlight, durable, persisting, idb,
                 socket, up, down, server, fresh, left>>

Rebootstrap ==
  /\ ~Runnable /\ state = "live" /\ Spend("rebootstrap")
  /\ state' = "booting"
  /\ UNCHANGED <<store, outbox, socket, up, down, server, fresh>>

-----------------------------------------------------------------------------
(* The two senders: the composer's attempt and the flush of the queue.      *)

\* attemptPlaintextSend up to its await: bubble, record, commit requested.
BeginAttempt(m, status) ==
  /\ bubble' = [bubble EXCEPT ![m] = status]
  /\ Enqueue({m})
  /\ attempt' = [attempt EXCEPT ![m] = AwaitSaved(m)]
  /\ UNCHANGED <<timers, inFlight, durable, flushes, idb, link, server, left>>

\* Ids are fresh random ones: which of them is next makes no difference.
Compose ==
  /\ ~Runnable /\ fresh # {}
  /\ LET m == CHOOSE x \in fresh : TRUE IN
     /\ fresh' = fresh \ {m}
     /\ BeginAttempt(m, IF state = "live" THEN "sending" ELSE "queued")

Retry(m) ==
  /\ ~Runnable /\ bubble[m] = "failed"
  /\ BeginAttempt(m, "queued")
  /\ UNCHANGED fresh

\* The attempt after its await.
AttemptContinues(m) ==
  /\ attempt[m] \in {"saved", "unsaved"}
  /\ attempt' = [attempt EXCEPT ![m] = "none"]
  /\ \/ /\ attempt[m] = "unsaved" /\ bubble[m] \in Pending
        /\ SetStatus(m, "failed")
        /\ UNCHANGED <<queue, inFlight, persisting, link, server>>
     \/ /\ attempt[m] = "saved" /\ bubble[m] \in Pending /\ state # "live"
        /\ SetStatus(m, "queued")
        /\ UNCHANGED <<queue, inFlight, persisting, link, server>>
     \/ /\ \/ bubble[m] \notin Pending
           \/ attempt[m] = "saved" /\ state = "live" /\ m \in inFlight
        /\ UNCHANGED <<bubble, timers, queue, inFlight, persisting, link, server>>
     \/ /\ attempt[m] = "saved" /\ bubble[m] \in Pending
        /\ state = "live" /\ m \notin inFlight /\ CanWrite
        /\ inFlight' = inFlight \cup {m}
        /\ bubble' = [bubble EXCEPT ![m] = "sending"]
        /\ timers' = timers \cup {m}
        /\ Write(m)
        /\ UNCHANGED <<queue, persisting, state, socket, down, server>>
     \/ /\ attempt[m] = "saved" /\ bubble[m] \in Pending
        /\ state = "live" /\ m \notin inFlight /\ ~CanWrite
        /\ Requeue /\ InvalidateTransport
  /\ UNCHANGED <<durable, flushes, idb, fresh, left>>

FlushTo(f, rest) == flushes' = (flushes \ {f}) \cup {[todo |-> rest, ready |-> "next"]}

FlushNext(f) ==
  /\ f.ready = "next" /\ f.todo # <<>>
  /\ Enqueue({Head(f.todo)})
  /\ flushes' = (flushes \ {f}) \cup {[f EXCEPT !.ready = AwaitSaved(Head(f.todo))]}
  /\ UNCHANGED <<store, inFlight, durable, idb, link, server, fresh, left>>

FlushEnds(f) ==
  /\ f.ready = "next" /\ f.todo = <<>>
  /\ flushes' = flushes \ {f}
  /\ UNCHANGED <<store, queue, inFlight, durable, persisting, idb, link, server,
                 fresh, left>>

FlushSkips(f) ==
  /\ \/ f.ready = "unsaved"
     \/ f.ready = "saved" /\ state = "live" /\ Head(f.todo) \in inFlight
  /\ IF f.ready = "unsaved" /\ Head(f.todo) \in ToSet(queue)
     THEN SetStatus(Head(f.todo), "failed") ELSE UNCHANGED <<bubble, timers>>
  /\ FlushTo(f, Tail(f.todo))
  /\ UNCHANGED <<attempt, queue, inFlight, durable, persisting, idb, link, server,
                 fresh, left>>

\* Mutant: the flush does not claim, so an attempt may have written the message.
FlushWritesUnclaimed(f) ==
  /\ f.ready = "saved" /\ state = "live" /\ CanWrite
  /\ LET m == Head(f.todo) IN
     /\ bubble' = IF bubble[m] = None THEN bubble ELSE [bubble EXCEPT ![m] = "sending"]
     /\ timers' = timers \cup {m}
     /\ Write(m)
  /\ FlushTo(f, Tail(f.todo))
  /\ UNCHANGED <<attempt, queue, inFlight, durable, persisting, idb, state, socket,
                 down, server, fresh, left>>

FlushWrites(f) ==
  /\ f.ready = "saved" /\ state = "live" /\ CanWrite
  /\ LET m == Head(f.todo) IN
     /\ m \notin inFlight
     /\ inFlight' = inFlight \cup {m}
     /\ bubble' = IF bubble[m] = None THEN bubble ELSE [bubble EXCEPT ![m] = "sending"]
     /\ timers' = timers \cup {m}
     /\ Write(m)
  /\ FlushTo(f, Tail(f.todo))
  /\ UNCHANGED <<attempt, queue, durable, persisting, idb, state, socket, down,
                 server, fresh, left>>

\* Not live any more, or a failed write: the rest waits for the next flush.
FlushBreaks(f) ==
  /\ f.ready = "saved"
  /\ state # "live" \/ (~CanWrite /\ Head(f.todo) \notin inFlight)
  /\ IF state = "live" \/ Head(f.todo) \in ToSet(queue)
     THEN SetStatus(Head(f.todo), "queued") ELSE UNCHANGED <<bubble, timers>>
  /\ flushes' = flushes \ {f}
  /\ UNCHANGED <<attempt, queue, inFlight, durable, persisting, idb, link, server,
                 fresh, left>>

Flush == \E f \in flushes : \/ FlushNext(f) \/ FlushEnds(f) \/ FlushSkips(f)
                            \/ FlushWrites(f) \/ FlushBreaks(f)

\* No answer within 15 s.  The timer may be impatient (the answer is still on
\* its way), which counts as a broken connection.
AnswerIsComing(m) == \/ m \in ToSet(up) \cup {d.msg : d \in ToSet(down)}
                     \/ handling # None /\ handling.msg = m

SendTimeout(m) ==
  /\ ~Runnable /\ m \in timers
  /\ IF AnswerIsComing(m) THEN Spend("break") ELSE UNCHANGED left
  /\ \/ /\ bubble[m] = "sending" /\ socket # "gone"
        /\ Requeue /\ InvalidateTransport
     \/ /\ bubble[m] # "sending" \/ socket = "gone"
        /\ timers' = timers \ {m}
        /\ UNCHANGED <<bubble, queue, inFlight, persisting, link, server>>
  /\ UNCHANGED <<attempt, durable, flushes, idb, fresh>>

-----------------------------------------------------------------------------
(* The server.                                                              *)

\* The dedup check outside the transaction.
ServerReceives ==
  /\ CanWrite /\ handling = None /\ up # <<>>
  /\ handling' = [msg |-> Head(up), known |-> rows[Head(up)] > 0]
  /\ up' = Tail(up)
  /\ UNCHANGED <<store, outbox, state, socket, down, late, rows, fresh, left>>

\* Mutant: without the unique index the dedup check alone decides.
InsertAfterCheck(r) ==
  rows' = IF r.known THEN rows ELSE [rows EXCEPT ![r.msg] = @ + 1]

\* The insert: the unique index on (channel, sender, client_msg_id) makes it a
\* duplicate when another handler has committed since the check.
InsertMessage(r) ==
  rows' = IF r.known \/ rows[r.msg] > 0 THEN rows ELSE [rows EXCEPT ![r.msg] = @ + 1]

ServerAnswers ==
  /\ handling # None
  /\ \/ /\ InsertMessage(handling)
        /\ \/ /\ down' = Append(down, [msg |-> handling.msg, ok |-> TRUE])
              /\ UNCHANGED left
           \/ Spend("answer") /\ UNCHANGED down
     \/ /\ Spend("answer")
        /\ down' = Append(down, [msg |-> handling.msg, ok |-> FALSE])
        /\ UNCHANGED rows
  /\ handling' = None
  /\ UNCHANGED <<store, outbox, state, socket, up, late, fresh>>

\* A handler whose connection is gone finishes all the same, or fails.
LateHandlerEnds(r) ==
  /\ InsertMessage(r) \/ UNCHANGED rows
  /\ late' = late \ {r}
  /\ UNCHANGED <<store, outbox, link, handling, fresh, left>>

-----------------------------------------------------------------------------
(* Answers, and what the user does.                                         *)

ReceiveAck ==
  /\ ~Runnable /\ CanWrite /\ down # <<>> /\ Head(down).ok
  /\ LET m == Head(down).msg IN
     /\ RemoveRecord(m)
     /\ IF bubble[m] \in Pending \cup {"failed"}
        THEN /\ bubble' = [bubble EXCEPT ![m] = "confirmed"]
             /\ timers' = timers \ {m}
        ELSE UNCHANGED <<bubble, timers>>
  /\ down' = Tail(down)
  /\ UNCHANGED <<attempt, state, socket, up, server, fresh, left>>

ReceiveError ==
  /\ ~Runnable /\ CanWrite /\ down # <<>> /\ ~Head(down).ok
  /\ LET m == Head(down).msg IN
     /\ RemoveRecord(m)
     /\ IF bubble[m] = "sending" THEN SetStatus(m, "failed")
        ELSE UNCHANGED <<bubble, timers>>
  /\ down' = Tail(down)
  /\ UNCHANGED <<attempt, state, socket, up, server, fresh, left>>

Discard(m) ==
  /\ ~Runnable /\ bubble[m] = "failed"
  /\ bubble' = [bubble EXCEPT ![m] = None]
  /\ timers' = timers \ {m}
  /\ RemoveRecord(m)
  /\ UNCHANGED <<attempt, link, server, fresh, left>>

CutConnection == /\ state' = "down" /\ socket' = "gone"
                 /\ IF CanWrite THEN LeaveBehind ELSE UNCHANGED <<up, down, server>>

\* Memory is lost; a prefix of the requested commits has happened, and the
\* table is loaded into the queue and shown (loadPersisted).
Reload ==
  /\ Spend("reload")
  /\ \E n \in 0..Len(persisting) : idb' = idb \o SubSeq(persisting, 1, n)
  /\ queue' = idb' /\ durable' = ToSet(idb')
  /\ inFlight' = {} /\ persisting' = <<>> /\ flushes' = {}
  /\ bubble' = [m \in Messages |-> IF m \in durable' THEN "queued" ELSE None]
  /\ timers' = {} /\ attempt' = [m \in Messages |-> "none"]
  /\ CutConnection
  /\ UNCHANGED fresh

\* Calls suspended on a commit survive the logout.
Logout ==
  /\ ~Runnable /\ Spend("logout")
  /\ bubble' = [m \in Messages |-> None] /\ timers' = {}
  /\ queue' = <<>> /\ inFlight' = {} /\ durable' = {} /\ idb' = <<>>
  /\ CutConnection
  /\ UNCHANGED <<attempt, persisting, flushes, fresh>>

-----------------------------------------------------------------------------
User == Compose \/ Reload \/ Logout \/ \E m \in Messages : Retry(m) \/ Discard(m)

Next ==
  \/ User \/ PersistReturns \/ Flush
  \/ \E m \in Messages : AttemptContinues(m) \/ SendTimeout(m)
  \/ PathDies \/ ConnectionBreaks \/ CloseEvent \/ HeartbeatFails \/ Connect
  \/ FinishBootstrap \/ Rebootstrap
  \/ ServerReceives \/ ServerAnswers \/ (\E r \in late : LateHandlerEnds(r))
  \/ ReceiveAck \/ ReceiveError

\* Promises settle, frames arrive, timers fire, the recovery of the session
\* connects again (module SessionRecovery); nothing obliges the user.
Fairness ==
  /\ WF_vars(PersistReturns) /\ WF_vars(Flush)
  /\ \A m \in Messages : WF_vars(AttemptContinues(m)) /\ WF_vars(SendTimeout(m))
  /\ WF_vars(CloseEvent) /\ WF_vars(HeartbeatFails)
  /\ WF_vars(Connect) /\ WF_vars(FinishBootstrap)
  /\ WF_vars(ServerReceives) /\ WF_vars(ServerAnswers)
  /\ WF_vars(ReceiveAck) /\ WF_vars(ReceiveError)

Spec == Init /\ [][Next]_vars /\ Fairness

-----------------------------------------------------------------------------
TypeOK ==
  /\ bubble \in [Messages -> {None, "queued", "sending", "failed", "confirmed"}]
  /\ attempt \in [Messages -> {"none", "waiting", "saved", "unsaved"}]
  /\ timers \cup inFlight \cup durable \cup fresh \subseteq Messages
  /\ \A s \in {queue, persisting, idb, up} : ToSet(s) \subseteq Messages
  /\ \A f \in flushes : /\ ToSet(f.todo) \subseteq Messages
                        /\ f.ready \in {"next", "waiting", "saved", "unsaved"}
                        /\ f.ready # "next" => f.todo # <<>>
  /\ state \in {"down", "booting", "live"}
  /\ socket \in {"open", "deaf", "closing", "gone"}
  /\ socket = "gone" <=> state = "down"
  /\ rows \in [Messages -> Nat]
  /\ \A r \in late \cup ({handling} \ {None}) : r.msg \in Messages

\* Copies of a message on the current connection that are not answered yet.
Unanswered(m) ==
  Cardinality({i \in 1..Len(up) : up[i] = m})
    + (IF handling # None /\ handling.msg = m THEN 1 ELSE 0)
    + Cardinality({i \in 1..Len(down) : down[i].msg = m})

(* "every replay keeps the original client message ID and the backend is    *)
(* idempotent for that ID": whatever handlers of old and new connections    *)
(* do at the same time, a message is stored once.                           *)
StoredOnce == \A m \in Messages : rows[m] <= 1

(* "Exactly one path may write this client message ID for the live          *)
(* session": attempt, retry and flush never put the same message twice on   *)
(* one connection without an answer in between.                             *)
OneWritePerSession == \A m \in Messages : Unanswered(m) <= 1

(* "Callers must await this before issuing the first socket write", and     *)
(* "Records remain durable until SendMessageAck": a message under way to    *)
(* the server can be found in IndexedDB by a page that is reloaded now.     *)
WrittenIsSaved == \A m \in Messages :
  (m \in ToSet(up) \/ (handling # None /\ handling.msg = m)) => m \in ToSet(idb)

\* No bootstrap has run on a live connection, or IndexedDB has refused nothing
\* and nobody has logged out. Otherwise a flush can pass over a record that was
\* not saved (refused, or taken back while the flush waited for it, which takes
\* a flush that a logout left behind), find the state BOOTSTRAPPING and call the
\* next record, which is under way, "queued" (useOfflineQueue.ts:125).
Undisturbed == \/ left.rebootstrap = MaxRebootstraps
               \/ left.unsaved = MaxUnsaved /\ left.logout = MaxLogouts

(* A message the user sees as queued or sending has its record in the       *)
(* replay queue, and the record is in IndexedDB or about to be.             *)
PendingIsKept == (Undisturbed /\ ~Runnable) =>
  \A m \in Messages : bubble[m] \in Pending =>
    m \in ToSet(queue) /\ m \in ToSet(idb) \cup ToSet(persisting)

(* Once connections stay up long enough, no message remains queued or       *)
(* sending: it is confirmed, or the user is told that it failed.            *)
EveryMessageIsAnswered == []Undisturbed =>
  \A m \in Messages : bubble[m] \in Pending ~> bubble[m] \notin Pending
=============================================================================
