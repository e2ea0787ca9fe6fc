------------------------------ MODULE EventLog ------------------------------
(***************************************************************************)
(* The workspace_events table: the transactional outbox every domain       *)
(* service appends to, and the Postgres NOTIFY channel that announces it.  *)
(*                                                                         *)
(* A writer is one request goroutine with an open database transaction.    *)
(* AppendEventTx draws the event's number from a Postgres sequence, which  *)
(* is not transactional: the number is taken before the row is committed,  *)
(* another transaction may take a later number and commit first, and a     *)
(* rollback leaves a permanent hole.                                       *)
(*                                                                         *)
(* What an event says is abstracted away; an event is its event_seq.       *)
(***************************************************************************)
EXTENDS Naturals, Sequences, FiniteSets

CONSTANTS
  Writer,    \* goroutines that append events in transactions
  MaxSeq,    \* bound: event numbers drawn in a behaviour
  MaxPerTx   \* bound: events one transaction appends

ASSUME LogAssumption ==
  /\ MaxSeq \in Nat
  /\ MaxPerTx \in Nat

VARIABLES
  lastSeq,    \* last value of workspace_event_seq_seq
  tx,         \* tx[w]: numbers appended by w's open transaction, in order
  committed,  \* every event number ever committed
  retained,   \* the rows in the table now: committed and not pruned
  linked,     \* the LISTEN connection of the backend is up
  wire        \* notifications sent on that connection, not yet received

logVars == <<lastSeq, tx, committed, retained, linked, wire>>

Seqs == 1..MaxSeq

Elems(s) == {s[i] : i \in DOMAIN s}

LogTypeOK ==
  /\ lastSeq \in 0..MaxSeq
  /\ tx \in [Writer -> Seq(Seqs)]
  /\ committed \subseteq Seqs
  /\ retained \subseteq committed
  /\ linked \in BOOLEAN
  /\ wire \in Seq(Seqs)

LogInit ==
  /\ lastSeq = 0
  /\ tx = [w \in Writer |-> <<>>]
  /\ committed = {}
  /\ retained = {}
  /\ linked = FALSE
  /\ wire = <<>>

-----------------------------------------------------------------------------

(* Mutant: the row is inserted through the pool, outside the transaction. *)
AppendOutsideTx(w) ==
  /\ lastSeq < MaxSeq
  /\ Len(tx[w]) < MaxPerTx
  /\ lastSeq' = lastSeq + 1
  /\ tx' = [tx EXCEPT ![w] = Append(@, lastSeq + 1)]
  /\ retained' = retained \cup {lastSeq + 1}
  /\ UNCHANGED <<committed, linked, wire>>

(* AppendEventTx followed by NotifyEventTx in the same transaction: no      *)
(* service appends without notifying. pg_notify only queues the payload.    *)
AppendEventTx(w) ==
  /\ lastSeq < MaxSeq
  /\ Len(tx[w]) < MaxPerTx
  /\ lastSeq' = lastSeq + 1
  /\ tx' = [tx EXCEPT ![w] = Append(@, lastSeq + 1)]
  /\ UNCHANGED <<committed, retained, linked, wire>>

(* COMMIT makes the rows visible and hands the queued notifications, in     *)
(* the order the transaction queued them, to the sessions that LISTEN.      *)
CommitTx(w) ==
  /\ tx[w] # <<>>
  /\ tx' = [tx EXCEPT ![w] = <<>>]
  /\ committed' = committed \cup Elems(tx[w])
  /\ retained' = retained \cup Elems(tx[w])
  /\ wire' = IF linked THEN wire \o tx[w] ELSE wire
  /\ UNCHANGED <<lastSeq, linked>>

(* A failed request rolls back: rows and notifications vanish, the numbers  *)
(* stay drawn.                                                              *)
RollbackTx(w) ==
  /\ tx[w] # <<>>
  /\ tx' = [tx EXCEPT ![w] = <<>>]
  /\ UNCHANGED <<lastSeq, committed, retained, linked, wire>>

(* maybePruneExpiredEvents: rows older than the retention window go. The    *)
(* window is hours wide, so no open transaction holds a number that old.    *)
PruneWorkspaceEvents(k) ==
  /\ \E s \in retained : s <= k
  /\ \A w \in Writer : \A s \in Elems(tx[w]) : s > k
  /\ retained' = {s \in retained : s > k}
  /\ UNCHANGED <<lastSeq, tx, committed, linked, wire>>

(* ListEventsAfterSeq: the rows above after, in ascending order, at most    *)
(* limit of them. A page is the set of its rows: the reader takes them in   *)
(* ascending order.                                                         *)
RowsAfter(after) == {s \in retained : s > after}

IsPage(page, after, limit) ==
  /\ page \subseteq RowsAfter(after)
  /\ \A s \in page : \A t \in RowsAfter(after) : t < s => t \in page
  /\ \/ Cardinality(page) = limit
     \/ Cardinality(page) < limit /\ page = RowsAfter(after)

(* Mutant: the rows of a page are taken newest first. *)
Newest(S) == {s \in S : \A t \in S : s >= t}

Oldest(S) == {s \in S : \A t \in S : s <= t}
=============================================================================
