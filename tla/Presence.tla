------------------------------ MODULE Presence ------------------------------
(***************************************************************************)
(* The presence of one user, as several instances of the backend keep it in *)
(* one database and tell it to the observers connected to them.             *)
(*                                                                         *)
(* Every connection of the user has a lease. Whoever changes a lease or the *)
(* preferred status recomputes the status under the lock of the user's row  *)
(* of user_presence and, if it has changed, broadcasts it to the sessions   *)
(* of its own instance and over NOTIFY to all of them, itself included.     *)
(* Nothing orders these broadcasts; what repairs an observer is the snapshot *)
(* of its peers that each of its transport heartbeats brings.               *)
(*                                                                         *)
(* The statements of touchPresenceLease and removePresenceLease commit one  *)
(* by one; a recompute is one transaction, split at its count of leases.    *)
(* A session's queue keeps its order and nothing but newerPresenceEvent     *)
(* looks at an event, so what is enqueued counts as applied (SendTo).       *)
(* Connections are those that can refresh their lease: the leases of others *)
(* never expire.                                                            *)
(***************************************************************************)
EXTENDS Naturals, Sequences

CONSTANTS
  Instance,    \* processes of the backend
  Conn,        \* connections the user can have at once
  Home,        \* the instance each connection is made to
  Observed,    \* instances an observer is connected to, one observer each
  Sweeping,    \* instances whose sweeper is at work
  None,
  MaxTouches,  \* bound: connects, heartbeats and status requests
  MaxFaults    \* bound: crashes, failed statements, lost LISTEN connections

Preferences == {"online", "away"}
Statuses == Preferences \cup {"offline"}

Snapshots == [status : Statuses, stamp : 0..MaxTouches]

ASSUME PresenceAssumption ==
  /\ Home \in [Conn -> Instance]
  /\ Observed \subseteq Instance /\ Sweeping \subseteq Instance
  /\ Conn \cap Instance = {} /\ None \notin Conn \cup Instance \cup Snapshots
  /\ {MaxTouches, MaxFaults} \subseteq Nat

(* Recomputes run in the read loop of a connection or in the sweeper of an  *)
(* instance.                                                                *)
Task == Conn \cup Sweeping

RunsOn(t) == IF t \in Conn THEN Home[t] ELSE t

VARIABLES
  status, preferred,  \* the row of user_presence
  stamp,              \* its last_active_at
  touches,            \* statements that have set it, see MaxTouches
  lease,              \* ws_presence_leases: none, fresh, or older than the TTL
  rowLock,            \* the transaction that has the row FOR UPDATE
  open,               \* connections that are open
  step,               \* what each task is doing
  counted,            \* what the recompute of a task has found, to be broadcast
  notices,            \* what is queued on each observed instance's LISTEN connection
  shown,              \* what the observer shows
  faults,             \* see MaxFaults
  harm                \* history: what went wrong that nothing repairs

rowVars == <<status, preferred, touches, stamp, rowLock>>
taskVars == <<step, counted>>
observerVars == <<notices, shown>>
presenceVars == <<rowVars, lease, open, taskVars, observerVars, faults, harm>>

Steps == {"idle", "touched", "due", "counted", "local", "notify"}

PresenceTypeOK ==
  /\ status \in Statuses /\ preferred \in Preferences
  /\ {stamp, touches} \subseteq 0..MaxTouches
  /\ lease \in [Conn -> {"none", "fresh", "stale"}]
  /\ rowLock \in Task \cup {None}
  /\ open \subseteq Conn
  /\ step \in [Task -> Steps]
  /\ counted \in [Task -> Snapshots \cup {None}]
  /\ \A t \in Task : rowLock = t <=> step[t] = "counted"
  /\ \A t \in Task : counted[t] # None <=> step[t] \in {"counted", "local", "notify"}
  /\ notices \in [Observed -> Seq(Snapshots)]
  /\ shown \in [Observed -> Snapshots]
  /\ faults \in 0..MaxFaults
  /\ harm \subseteq {"skipped", "overtaken"}

PresenceInit ==
  /\ status = "offline" /\ preferred = "online" /\ stamp = 0 /\ touches = 0
  /\ lease = [c \in Conn |-> "none"]
  /\ rowLock = None
  /\ open = {}
  /\ step = [t \in Task |-> "idle"]
  /\ counted = [t \in Task |-> None]
  /\ notices = [i \in Observed |-> <<>>]
  /\ shown = [i \in Observed |-> [status |-> "offline", stamp |-> 0]]
  /\ faults = 0
  /\ harm = {}

Effective(leases) == IF \E c \in Conn : leases[c] # "none" THEN preferred ELSE "offline"

WithoutStale(leases) ==
  [c \in Conn |-> IF leases[c] = "stale" THEN "none" ELSE leases[c]]

GoesOn(t, from, to) ==
  /\ step[t] = from
  /\ step' = [step EXCEPT ![t] = to]

-----------------------------------------------------------------------------
(* Requests of the user's connections *)

(* A statement that writes the row waits for a recompute that has locked it *)
(* and stamps it with its own start: one that started earlier and was       *)
(* overtaken sets the stamp back.                                           *)
TouchRow ==
  /\ rowLock = None
  /\ touches < MaxTouches
  /\ touches' = touches + 1
  /\ \/ /\ stamp' = touches + 1
        /\ UNCHANGED harm
     \/ /\ stamp > 0
        /\ stamp' = stamp - 1
        /\ harm' = harm \cup {"overtaken"}
  /\ UNCHANGED faults

(* Authentication of a new connection touches its lease: first the row. *)
Authenticate(c) ==
  /\ c \notin open /\ lease[c] = "none"
  /\ GoesOn(c, "idle", "touched")
  /\ TouchRow
  /\ open' = open \cup {c}
  /\ UNCHANGED <<status, preferred, rowLock, lease, counted, observerVars>>

(* A heartbeat of either kind does the same, and a lease that has been      *)
(* swept comes back.                                                        *)
Heartbeat(c) ==
  /\ c \in open
  /\ GoesOn(c, "idle", "touched")
  /\ TouchRow
  /\ UNCHANGED <<status, preferred, rowLock, lease, open, counted, observerVars>>

(* ... then the lease. *)
TouchLease(c) ==
  /\ GoesOn(c, "touched", "due")
  /\ lease' = [lease EXCEPT ![c] = "fresh"]
  /\ UNCHANGED <<rowVars, open, counted, observerVars, faults, harm>>

(* SetPresenceRequest *)
SetPreferredPresence(c, p) ==
  /\ c \in open
  /\ GoesOn(c, "idle", "due")
  /\ TouchRow
  /\ preferred' = p
  /\ UNCHANGED <<status, rowLock, lease, open, counted, observerVars>>

(* The connection ends: the deferred teardown removes its lease. *)
RemovePresenceLease(c) ==
  /\ c \in open
  /\ open' = open \ {c}
  /\ GoesOn(c, "idle", "due")
  /\ lease' = [lease EXCEPT ![c] = "none"]
  /\ UNCHANGED <<rowVars, counted, observerVars, faults, harm>>

(* Nothing has refreshed the lease for its time to live. *)
LeaseAges(c) ==
  /\ lease[c] = "fresh"
  /\ lease' = [lease EXCEPT ![c] = "stale"]
  /\ UNCHANGED <<rowVars, open, taskVars, observerVars, faults, harm>>

(* Mutant: the sweeper leaves the recompute to whoever comes next. *)
ExpireStaleLeasesOnly(i) ==
  /\ \E c \in Conn : lease[c] = "stale"
  /\ step[i] = "idle"
  /\ lease' = WithoutStale(lease)
  /\ UNCHANGED <<rowVars, open, taskVars, observerVars, faults, harm>>

(* The sweeper deletes every stale lease in one statement; then it          *)
(* recomputes the users concerned, one after the other.                     *)
ExpireStalePresenceLeases(i) ==
  /\ \E c \in Conn : lease[c] = "stale"
  /\ GoesOn(i, "idle", "due")
  /\ lease' = WithoutStale(lease)
  /\ UNCHANGED <<rowVars, open, counted, observerVars, faults, harm>>

-----------------------------------------------------------------------------
(* recomputePresence and broadcastPresence *)

Count(t) ==
  /\ GoesOn(t, "due", "counted")
  /\ lease' = WithoutStale(lease)
  /\ counted' = [counted EXCEPT ![t] = [status |-> Effective(lease'), stamp |-> stamp]]
  /\ UNCHANGED <<status, preferred, touches, stamp, open, observerVars, faults, harm>>

(* Mutant: the row is read without FOR UPDATE. *)
CountLeasesUnlocked(t) == Count(t) /\ UNCHANGED rowLock

(* Lock and read the row, delete the user's stale leases, count the rest. *)
CountLeases(t) == Count(t) /\ rowLock = None /\ rowLock' = t

(* Mutant: the transaction of an unchanged status is left open. *)
CommitChangedStatus(t) ==
  /\ step[t] = "counted"
  /\ status' = counted[t].status
  /\ LET changed == counted[t].status # status
     IN  /\ GoesOn(t, "counted", IF changed THEN "local" ELSE "idle")
         /\ counted' = IF changed THEN counted ELSE [counted EXCEPT ![t] = None]
         /\ rowLock' = IF changed THEN None ELSE rowLock
  /\ UNCHANGED <<preferred, touches, stamp, lease, open, observerVars, faults, harm>>

(* Write the status if it has changed, and commit. *)
CommitStatus(t) ==
  /\ step[t] = "counted"
  /\ status' = counted[t].status
  /\ rowLock' = None
  /\ LET changed == counted[t].status # status
     IN  /\ GoesOn(t, "counted", IF changed THEN "local" ELSE "idle")
         /\ counted' = IF changed THEN counted ELSE [counted EXCEPT ![t] = None]
  /\ UNCHANGED <<preferred, touches, stamp, lease, open, observerVars, faults, harm>>

(* The tasks in T stop where they are; their transactions roll back. *)
Abandon(T) ==
  /\ faults < MaxFaults
  /\ faults' = faults + 1
  /\ step' = [t \in Task |-> IF t \in T THEN "idle" ELSE step[t]]
  /\ counted' = [t \in Task |-> IF t \in T THEN None ELSE counted[t]]
  /\ rowLock' = IF rowLock \in T THEN None ELSE rowLock
  /\ harm' = IF \E t \in T : step[t] \in {"due", "counted"}
             THEN harm \cup {"skipped"} ELSE harm

(* A statement fails, or the two seconds of its context are over: the error *)
(* is logged (by the sweeper together with the users it has not reached).   *)
StatementFails(t) ==
  /\ step[t] # "idle"
  /\ Abandon({t})
  /\ UNCHANGED <<status, preferred, touches, stamp, lease, open, observerVars>>

(* sendDirectEnvelope to the observer connected to instance i, if any; its  *)
(* client keeps the newer of what it shows and what it receives.            *)

(* Mutant: an event with the same time stamp is not newer. *)
StrictlyNewerPresence(current, incoming) ==
  IF incoming.stamp > current.stamp THEN incoming ELSE current

(* newerPresenceEvent *)
NewerPresence(current, incoming) ==
  IF incoming.stamp < current.stamp THEN current ELSE incoming

SendTo(i, snapshot) ==
  shown' = [j \in Observed |-> IF j = i THEN NewerPresence(shown[j], snapshot)
                                        ELSE shown[j]]

(* broadcastPresenceLocal *)
BroadcastLocal(t) ==
  /\ GoesOn(t, "local", "notify")
  /\ SendTo(RunsOn(t), counted[t])
  /\ UNCHANGED <<rowVars, lease, open, counted, notices, faults, harm>>

(* NotifyPresence reaches every instance that listens. *)
NotifyPresence(t) ==
  /\ GoesOn(t, "notify", "idle")
  /\ counted' = [counted EXCEPT ![t] = None]
  /\ notices' = [i \in Observed |-> Append(notices[i], counted[t])]
  /\ UNCHANGED <<rowVars, lease, open, shown, faults, harm>>

(* HandlePresenceNotification, called by the instance's Listener. *)
HandlePresenceNotification(i) ==
  /\ notices[i] # <<>>
  /\ SendTo(i, Head(notices[i]))
  /\ notices' = [notices EXCEPT ![i] = Tail(@)]
  /\ UNCHANGED <<rowVars, lease, open, taskVars, faults, harm>>

(* The LISTEN connection breaks: what was announced on it, or is until it   *)
(* is made again, is lost.                                                  *)
LoseNotices(i) ==
  /\ notices[i] # <<>>
  /\ faults < MaxFaults
  /\ faults' = faults + 1
  /\ notices' = [notices EXCEPT ![i] = <<>>]
  /\ UNCHANGED <<rowVars, lease, open, taskVars, shown, harm>>

(* An instance nobody observes dies: its transactions roll back, its        *)
(* connections end without a teardown and leave their leases.               *)
Crash(i) ==
  /\ i \notin Observed
  /\ \E t \in Task : RunsOn(t) = i /\ (t \in open \/ step[t] # "idle")
  /\ Abandon({t \in Task : RunsOn(t) = i})
  /\ open' = {c \in open : Home[c] # i}
  /\ UNCHANGED <<status, preferred, touches, stamp, lease, observerVars>>

-----------------------------------------------------------------------------
(* sendDirectMessagePresenceSnapshot, on a transport heartbeat of the        *)
(* observer. Reading the row and enqueueing what it says are taken as one    *)
(* step; a broadcast that comes late, as the snapshot then would, is a step  *)
(* of its own.                                                               *)
SendPresenceSnapshot(i) ==
  /\ SendTo(i, [status |-> status, stamp |-> stamp])
  /\ UNCHANGED <<rowVars, lease, open, taskVars, notices, faults, harm>>

-----------------------------------------------------------------------------
Work(t) ==
  \/ CountLeases(t) \/ CommitStatus(t)
  \/ BroadcastLocal(t) \/ NotifyPresence(t)

Observe(i) ==
  \/ HandlePresenceNotification(i) \/ SendPresenceSnapshot(i)

PresenceNext ==
  \/ \E c \in Conn :
       \/ Authenticate(c) \/ Heartbeat(c) \/ TouchLease(c) \/ LeaseAges(c)
       \/ RemovePresenceLease(c)
       \/ \E p \in Preferences : SetPreferredPresence(c, p)
  \/ \E t \in Task : Work(t) \/ StatementFails(t)
  \/ \E i \in Sweeping : ExpireStalePresenceLeases(i)
  \/ \E i \in Instance : Crash(i)
  \/ \E i \in Observed : LoseNotices(i) \/ Observe(i)

(* Statements end, sweepers tick, leases of dead connections age, and the   *)
(* observer's heartbeats go on. A recompute that waits for the row gets it  *)
(* in the end: the lock has a queue.                                        *)
PresenceFairness ==
  /\ \A t \in Task : SF_presenceVars(CountLeases(t)) /\ WF_presenceVars(Work(t))
  /\ \A c \in Conn : WF_presenceVars(TouchLease(c)) /\ WF_presenceVars(c \notin open /\ LeaseAges(c))
  /\ \A i \in Sweeping : WF_presenceVars(ExpireStalePresenceLeases(i))
  /\ \A i \in Observed : /\ WF_presenceVars(HandlePresenceNotification(i))
                         /\ WF_presenceVars(SendPresenceSnapshot(i))

PresenceSpec == PresenceInit /\ [][PresenceNext]_presenceVars /\ PresenceFairness

-----------------------------------------------------------------------------
(* Properties *)

(* When no recompute is due or under way, the status in the row is the one  *)
(* that the leases and the preferred status imply, whichever connections,   *)
(* sweepers and instances changed them in whichever order, unless a         *)
(* recompute was skipped: nobody makes up for it.                           *)
StatusFollowsLeases ==
  (\A t \in Task : step[t] \notin {"due", "counted"}) /\ "skipped" \notin harm
    => status = Effective(lease)

(* "the next notification or transport heartbeat converges observers to the *)
(* database-authoritative status", and lease expiry "remains the source of  *)
(* offline state": in the end every observer shows what the leases of live  *)
(* connections imply, and a user without any is offline, as long as no      *)
(* recompute was skipped and no touch of the row overtaken by another.      *)
ObserversConverge ==
  [](harm = {}) =>
    <>[](/\ \A i \in Observed : shown[i].status = status
         /\ status = Effective(lease)
         /\ open = {} => status = "offline")
=============================================================================
