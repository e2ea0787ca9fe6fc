---------------------------- MODULE EventListener ----------------------------
(***************************************************************************)
(* The backend's Listener: one dedicated LISTEN connection that turns      *)
(* committed rows of workspace_events into Bus.Publish calls. On every     *)
(* connection it first catches up from the table, then follows the         *)
(* notifications; lastDelivered survives reconnects but not the process.   *)
(*                                                                         *)
(* Three history variables say what the properties are about: published is *)
(* what this process has published, overtaken which rows were committed    *)
(* after a later one, unfetched which stored rows a failed fetch let go.    *)
(***************************************************************************)
EXTENDS EventLog

CONSTANTS
  CatchUpBatch,  \* cfg.EventListenerCatchupBatch
  FetchMayFail,  \* GetEventBySeq may return an error for a stored row
  MaxDrops       \* bound: how often the connection is lost or the process dies

ASSUME ListenerAssumption ==
  /\ CatchUpBatch \in Nat \ {0}
  /\ FetchMayFail \in BOOLEAN
  /\ MaxDrops \in Nat

VARIABLES
  phase,          \* where runOnce is
  page,           \* rows of the current catch-up query, not yet published
  more,           \* that query returned a full page
  lastDelivered,  \* *lastDelivered
  published,      \* events handed to Bus.Publish, in order
  drops,          \* bounds LoseConnection and Restart
  overtaken,      \* rows committed after a row with a later number
  unfetched       \* stored rows whose fetch failed

listenerVars == <<phase, page, more, lastDelivered, published, drops>>
historyVars == <<overtaken, unfetched>>
vars == <<logVars, listenerVars, historyVars>>

Phases ==
  { "disconnected",  \* before pgx.Connect, or in the back-off
    "query",         \* about to read a catch-up page
    "page",          \* publishing the rows of a page
    "notified" }     \* in WaitForNotification

TypeOK ==
  /\ LogTypeOK
  /\ phase \in Phases
  /\ page \subseteq committed
  /\ more \in BOOLEAN
  /\ lastDelivered \in 0..MaxSeq
  /\ published \in Seq(Seqs)
  /\ drops \in 0..MaxDrops
  /\ overtaken \subseteq committed
  /\ unfetched \subseteq committed

Init ==
  /\ LogInit
  /\ phase = "disconnected"
  /\ page = {}
  /\ more = FALSE
  /\ lastDelivered = 0
  /\ published = <<>>
  /\ drops = 0
  /\ overtaken = {}
  /\ unfetched = {}

-----------------------------------------------------------------------------

(* A catch-up reads every row above lastDelivered again: from then on only  *)
(* the rows at or below it stay passed over.                                *)
ForgiveAbove ==
  /\ overtaken' = {s \in overtaken : s <= lastDelivered}
  /\ unfetched' = {s \in unfetched : s <= lastDelivered}

(* Mutant: the reconnect is believed to resume where the old one stopped. *)
ConnectWithoutCatchUp ==
  /\ phase = "disconnected"
  /\ phase' = "notified"
  /\ linked' = TRUE
  /\ wire' = <<>>
  /\ ForgiveAbove
  /\ UNCHANGED <<lastSeq, tx, committed, retained,
                 page, more, lastDelivered, published, drops>>

(* pgx.Connect and LISTEN: from here on commits are announced to us. *)
Connect ==
  /\ phase = "disconnected"
  /\ phase' = "query"
  /\ linked' = TRUE
  /\ wire' = <<>>
  /\ ForgiveAbove
  /\ UNCHANGED <<lastSeq, tx, committed, retained,
                 page, more, lastDelivered, published, drops>>

(* Mutant: a full page is taken for the last one. *)
CatchUpQueryOnce ==
  /\ phase = "query"
  /\ \E rows \in SUBSET RowsAfter(lastDelivered) :
       /\ IsPage(rows, lastDelivered, CatchUpBatch)
       /\ page' = rows
       /\ more' = (Cardinality(rows) > CatchUpBatch)
       /\ phase' = IF rows = {} THEN "notified" ELSE "page"
  /\ UNCHANGED <<logVars, lastDelivered, published, drops>>

(* One ListEventsAfterSeq of catchUp; no rows end the catch-up. *)
CatchUpQuery ==
  /\ phase = "query"
  /\ \E rows \in SUBSET RowsAfter(lastDelivered) :
       /\ IsPage(rows, lastDelivered, CatchUpBatch)
       /\ page' = rows
       /\ more' = (Cardinality(rows) = CatchUpBatch)
       /\ phase' = IF rows = {} THEN "notified" ELSE "page"
  /\ UNCHANGED <<logVars, lastDelivered, published, drops>>

(* One iteration of the loop over the page; a short page was the last. *)
CatchUpPublish ==
  /\ phase = "page"
  /\ \E seq \in Oldest(page) :
       /\ published' = Append(published, seq)
       /\ lastDelivered' = seq
       /\ page' = page \ {seq}
       /\ phase' = IF page' # {} THEN "page"
                   ELSE IF more THEN "query" ELSE "notified"
  /\ UNCHANGED <<logVars, more, drops>>

(* A notification for something already delivered is skipped. *)
SkipNotification ==
  /\ phase = "notified"
  /\ wire # <<>>
  /\ Head(wire) <= lastDelivered
  /\ wire' = Tail(wire)
  /\ UNCHANGED <<lastSeq, tx, committed, retained, linked, listenerVars>>

(* Mutant: a notification is not compared with lastDelivered. *)
DeliverAnyNotification ==
  /\ phase = "notified"
  /\ wire # <<>>
  /\ Head(wire) \in retained
  /\ published' = Append(published, Head(wire))
  /\ lastDelivered' = Head(wire)
  /\ wire' = Tail(wire)
  /\ UNCHANGED <<lastSeq, tx, committed, retained, linked,
                 phase, page, more, drops>>

(* GetEventBySeq finds the row, which is published. *)
DeliverNotification ==
  /\ phase = "notified"
  /\ wire # <<>>
  /\ Head(wire) > lastDelivered
  /\ Head(wire) \in retained
  /\ published' = Append(published, Head(wire))
  /\ lastDelivered' = Head(wire)
  /\ wire' = Tail(wire)
  /\ UNCHANGED <<lastSeq, tx, committed, retained, linked,
                 phase, page, more, drops>>

(* Mutant: lastDelivered advances before the fetch is known to succeed. *)
FailFetchAdvancing ==
  /\ phase = "notified"
  /\ wire # <<>>
  /\ Head(wire) > lastDelivered
  /\ Head(wire) \notin retained \/ FetchMayFail
  /\ lastDelivered' = Head(wire)
  /\ wire' = Tail(wire)
  /\ unfetched' = unfetched \cup ({Head(wire)} \cap retained)
  /\ UNCHANGED <<lastSeq, tx, committed, retained, linked,
                 phase, page, more, published, drops, overtaken>>

(* GetEventBySeq returns an error (the row was pruned meanwhile, or the     *)
(* pool failed): the notification is logged and dropped.                    *)
FailFetch ==
  /\ phase = "notified"
  /\ wire # <<>>
  /\ Head(wire) > lastDelivered
  /\ Head(wire) \notin retained \/ FetchMayFail
  /\ wire' = Tail(wire)
  /\ unfetched' = unfetched \cup ({Head(wire)} \cap retained)
  /\ UNCHANGED <<lastSeq, tx, committed, retained, linked, listenerVars, overtaken>>

(* The LISTEN connection breaks: nothing more arrives on it. *)
LoseConnection ==
  /\ linked
  /\ drops < MaxDrops
  /\ drops' = drops + 1
  /\ linked' = FALSE
  /\ UNCHANGED <<lastSeq, tx, committed, retained, wire,
                 phase, page, more, lastDelivered, published, historyVars>>

(* WaitForNotification, or a catch-up query of the pool while the database *)
(* is away, returns an error: runOnce ends and Run backs off. What was      *)
(* still buffered on the connection is gone.                                *)
NoticeLoss ==
  /\ phase \in {"query", "notified"}
  /\ ~linked
  /\ phase' = "disconnected"
  /\ wire' = <<>>
  /\ UNCHANGED <<lastSeq, tx, committed, retained, linked,
                 page, more, lastDelivered, published, drops>>

(* The process stops and a new one starts with lastDelivered = 0 and a Bus  *)
(* nobody has seen anything on.                                             *)
Restart ==
  /\ drops < MaxDrops
  /\ drops' = drops + 1
  /\ phase' = "disconnected"
  /\ linked' = FALSE
  /\ wire' = <<>>
  /\ page' = {}
  /\ more' = FALSE
  /\ lastDelivered' = 0
  /\ published' = <<>>
  /\ overtaken' = {}
  /\ unfetched' = {}
  /\ UNCHANGED <<lastSeq, tx, committed, retained>>

DatabaseStep ==
  /\ \/ \E w \in Writer : AppendEventTx(w) \/ CommitTx(w) \/ RollbackTx(w)
     \/ \E k \in Seqs : PruneWorkspaceEvents(k)
  /\ overtaken' = overtaken \cup
                    {s \in committed' \ committed : \E t \in committed : t > s}
  /\ UNCHANGED <<listenerVars, unfetched>>

ListenerStep ==
  \/ Connect
  \/ FailFetch
  \/ /\ \/ CatchUpQuery
        \/ CatchUpPublish
        \/ SkipNotification
        \/ DeliverNotification
        \/ NoticeLoss
     /\ UNCHANGED historyVars

Next == DatabaseStep \/ ListenerStep \/ LoseConnection \/ Restart

(* Run never stops retrying and the goroutine is never blocked for good.    *)
(* Nothing makes a request commit or a connection break.                    *)
Spec == Init /\ [][Next]_vars /\ WF_vars(ListenerStep)

-----------------------------------------------------------------------------
(* Properties *)

(* What this process publishes is strictly ascending: no event is published *)
(* twice and none after a later one, whatever reconnects, catch-up pages    *)
(* and repeated notifications do.                                           *)
PublishedAscending ==
  \A i, j \in DOMAIN published : i < j => published[i] < published[j]

(* lastDelivered is exactly the number of the last published event: a row   *)
(* counted as delivered without being published would never come back.      *)
DeliveredIsPublished ==
  lastDelivered = IF published = <<>> THEN 0 ELSE published[Len(published)]

(* An idle listener is behind nothing it could still learn: once it waits   *)
(* on a live connection with no notification under way, every stored row is *)
(* at or below lastDelivered, but for the rows whose own fetch failed since *)
(* the last catch-up. LISTEN before the catch-up query makes it so.         *)
IdleIsCaughtUp ==
  (phase = "notified" /\ linked /\ wire = <<>>)
    => \A s \in retained \ unfetched : s <= lastDelivered

(* Rows the listener may pass over: see finding 1 and FailFetch.            *)
Excused == overtaken \cup unfetched

(* A stored row at or below lastDelivered has been published, or it was     *)
(* committed after a later row, or its own fetch failed: neither            *)
(* reconnects, nor pages, nor pruning, nor the failed fetch or the late     *)
(* commit of one row make the listener pass over another.                   *)
OnlyExcusedAreSkipped ==
  \A s \in retained \ Excused : s <= lastDelivered => s \in Elems(published)

(* Every stored row at or below lastDelivered has been published, which is  *)
(* what the comment of Listener says ("publishes every committed event").   *)
PublishesEveryEvent ==
  \A s \in retained : s <= lastDelivered => s \in Elems(published)

(* Seen from the Bus the listener is the feed of EventFeed: no row but an   *)
(* excused one is skipped, none is published twice or after a later one by  *)
(* one process, and as long as a row that is not excused waits, publishing  *)
(* goes on. Rows already read into a catch-up page are published even when  *)
(* they are pruned.                                                         *)
Feed == INSTANCE EventFeed
          WITH written <- committed,
               stored  <- retained \cup page \cup Elems(published),
               excused <- Excused,
               feed    <- published

ImplementsFeed == Feed!Spec
=============================================================================
