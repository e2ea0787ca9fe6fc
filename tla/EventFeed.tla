------------------------------ MODULE EventFeed ------------------------------
(***************************************************************************)
(* What the rest of the backend can rely on when it subscribes to the Bus: *)
(* a feed of the stored events, in ascending order, none twice, for as     *)
(* long as the process lives. Listener is meant to leave none out either   *)
(* ("publishes every committed event to the Bus", listener.go); it leaves  *)
(* out at most the excused ones: those stored after a later event, and     *)
(* those it failed to fetch.                                               *)
(***************************************************************************)
EXTENDS Naturals, Sequences

CONSTANT MaxSeq   \* bound on event numbers

VARIABLES
  written,  \* every event that was ever stored
  stored,   \* events that are to be published
  excused,  \* events the feed may leave out
  feed      \* events published by the running process, in order

feedVars == <<written, stored, excused, feed>>

LastFed == IF feed = <<>> THEN 0 ELSE feed[Len(feed)]

Undelivered == {s \in stored : s > LastFed}

Owed == Undelivered \ excused

Init ==
  /\ written = {}
  /\ stored = {}
  /\ excused = {}
  /\ feed = <<>>

(* A transaction commits: those of its events that are older than a stored  *)
(* one have come too late to be owed.                                       *)
Store ==
  /\ \E new \in SUBSET ((1..MaxSeq) \ written) :
       /\ new # {}
       /\ written' = written \cup new
       /\ stored' = stored \cup new
       /\ excused' = excused \cup {s \in new : \E t \in written : t > s}
  /\ feed' = feed

(* Retention removes events; nobody is owed those any more. *)
Prune ==
  /\ stored' \in SUBSET stored
  /\ UNCHANGED <<written, excused, feed>>

(* An event cannot be fetched. *)
GiveUp ==
  /\ \E s \in Undelivered : excused' = excused \cup {s}
  /\ UNCHANGED <<written, stored, feed>>

(* The feed is resumed: all that is newer than its last event is owed again. *)
Resume ==
  /\ excused' = {s \in excused : s <= LastFed}
  /\ UNCHANGED <<written, stored, feed>>

(* The next event of the feed leaves out none that is owed. *)
Deliver ==
  /\ \E s \in Undelivered :
       /\ \A t \in Owed : s <= t
       /\ feed' = Append(feed, s)
  /\ UNCHANGED <<written, stored, excused>>

(* A new process starts a new feed at the oldest stored event. *)
NewProcess ==
  /\ feed' = <<>>
  /\ excused' = {}
  /\ stored' \in SUBSET stored
  /\ written' = written

Next == Store \/ Prune \/ GiveUp \/ Resume \/ Deliver \/ NewProcess

SafeSpec == Init /\ [][Next]_feedVars

Spec == SafeSpec /\ WF_feedVars(Owed # {} /\ Deliver)
=============================================================================
