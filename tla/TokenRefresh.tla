---------------------------- MODULE TokenRefresh ----------------------------
(***************************************************************************)
(* The tokens of one browser profile: several tabs share them in local     *)
(* storage, and each may call refreshSharedSessionTokens at any time. A     *)
(* call waits for its turn (a Web Lock where the browser has locks, a lease *)
(* in local storage where it has not), looks whether somebody else has      *)
(* refreshed meanwhile, and otherwise exchanges the stored refresh token.   *)
(*                                                                         *)
(* A session row of the server holds the hash of one refresh token, which   *)
(* every exchange replaces. Tokens are numbers in the order in which they   *)
(* are issued; an access token has the number of the refresh token it was   *)
(* issued with. What one task of a tab does to local storage is one step,   *)
(* except for the lease: there the reads and writes of two tabs interleave. *)
(***************************************************************************)
EXTENDS Naturals

CONSTANTS
  Caller,      \* calls of refreshSharedSessionTokens that can be open at once
  None,
  Gone,        \* the owner of a lease whose tab was closed
  MaxStarts,   \* bound: calls started
  MaxLogins,   \* bound: logins after the first
  MaxFaults    \* bound: requests given up, tabs closed, leases that lapse
               \* under a tab that is still working

ASSUME RefreshAssumption ==
  /\ {MaxStarts, MaxLogins, MaxFaults} \subseteq Nat
  /\ {None, Gone} \cap Caller = {} /\ None # Gone

Session == 1..(1 + MaxLogins)
Token == 1..(1 + MaxLogins + MaxStarts)

VARIABLES
  live,       \* tokens whose hash is in a session row that is not revoked
  session,    \* the session a token was issued for, 0 for tokens to come
  issued,     \* the last token issued
  late,       \* tokens in requests under way whose caller has given up
  access,     \* msgnr.access_token, 0 when absent
  refresh,    \* msgnr.refresh_token, 0 when absent
  locks,      \* the browser has navigator.locks
  holder,     \* the call that has the lock
  lease,      \* msgnr:auth-refresh:lease
  call,       \* the calls
  leaving,    \* the token a logout has sent to the server
  starts, logins, faults,   \* see the bounds
  lost        \* history: sessions that are no longer promised to be kept

serverVars == <<live, session, issued, late>>
storedVars == <<access, refresh>>
turnVars == <<locks, holder, lease>>
boundVars == <<starts, logins, faults>>
vars == <<serverVars, storedVars, turnVars, call, leaving, boundVars, lost>>

Phases ==
  { "idle",
    "waiting",    \* for the lock, or before a look at the lease
    "writing",    \* saw no lease of another call, is about to write its own
    "reading",    \* wrote the lease, is about to read it back
    "sent",       \* POST /api/auth/refresh
    "found",      \* Refresh of the server has found the session
    "answered",   \* the new tokens are on their way
    "refused",    \* 401 or 403 is on its way
    "returning",  \* out of the lock with tokens, the caller has not gone on
    "clearing" }  \* out of the lock with nothing, the caller has not gone on

Idle == [phase |-> "idle", refresh |-> 0, access |-> 0,
         using |-> 0, usingAccess |-> 0, tried |-> {}, answer |-> 0]

Requesting == {"sent", "found", "answered", "refused"}

Underway == {c \in Caller : call[c].phase # "idle"}

TypeOK ==
  /\ live \subseteq Token /\ late \subseteq Token
  /\ session \in [Token -> {0} \cup Session]
  /\ issued \in Token
  /\ {access, refresh, leaving} \subseteq {0} \cup Token
  /\ locks \in BOOLEAN
  /\ holder \in Caller \cup {None}
  /\ \A c \in Caller : holder = c => call[c].phase \in Requesting
  /\ lease \in [owner : Caller \cup {None, Gone}, fresh : BOOLEAN]
  /\ call \in [Caller -> [phase : Phases, refresh : {0} \cup Token, access : {0} \cup Token,
                          using : {0} \cup Token, usingAccess : {0} \cup Token,
                          tried : SUBSET Token, answer : {0} \cup Token]]
  /\ \A c \in Caller : call[c].phase \in Requesting => call[c].using \in Token
  /\ starts \in 0..MaxStarts /\ logins \in 0..MaxLogins
  /\ faults \in 0..MaxFaults
  /\ lost \subseteq Session

NoLease == [owner |-> None, fresh |-> FALSE]

(* Logged in, nobody refreshing. *)
Init ==
  /\ live = {1} /\ issued = 1 /\ late = {}
  /\ session = [t \in Token |-> IF t = 1 THEN 1 ELSE 0]
  /\ access = 1 /\ refresh = 1
  /\ locks \in BOOLEAN
  /\ holder = None /\ lease = NoLease
  /\ call = [c \in Caller |-> Idle]
  /\ leaving = 0
  /\ starts = 0 /\ logins = 0 /\ faults = 0
  /\ lost = {}

-----------------------------------------------------------------------------
(* Waiting for one's turn *)

(* refreshSharedSessionTokens notes the tokens it starts from. (Without a   *)
(* refresh token it clears the access token and returns.)                   *)
Start(c) ==
  /\ call[c].phase = "idle"
  /\ refresh # 0
  /\ starts < MaxStarts
  /\ call' = [call EXCEPT ![c] =
                [Idle EXCEPT !.phase = "waiting", !.refresh = refresh, !.access = access]]
  /\ starts' = starts + 1
  /\ UNCHANGED <<serverVars, storedVars, turnVars, leaving, logins, faults, lost>>

(* What a call finds when its turn has come: somebody else's new tokens     *)
(* (readRotatedSharedSessionTokens), a token to exchange, or nothing.       *)
Rotated(r, a) ==
  /\ access # 0 /\ refresh # 0
  /\ r # 0 /\ refresh # r
  /\ a # 0 /\ access # a

Send(c) ==
  [call[c] EXCEPT !.phase = "sent", !.using = refresh, !.usingAccess = access,
                  !.tried = @ \cup {refresh}]

(* The callback returns. A lock is released before the caller goes on, and  *)
(* other tabs may run in between; after a lease the caller goes on at once. *)
GoOn(c, tokens) ==
  IF locks
    THEN [Idle EXCEPT !.phase = IF tokens = 0 THEN "clearing" ELSE "returning",
                      !.refresh = call[c].refresh, !.answer = tokens]
    ELSE Idle

LeaseAfter(c) == IF lease.owner = c THEN NoLease ELSE lease

(* The end of the callback with the tokens that are stored now.             *)
ReturnStored(c, who) ==
  /\ call' = [call EXCEPT ![c] = GoOn(c, access)]
  /\ holder' = IF who = c THEN None ELSE who
  /\ UNCHANGED storedVars

(* clearSharedSessionTokens, and the end of the callback with null.         *)
ReturnNothing(c, who) ==
  /\ access' = 0 /\ refresh' = 0
  /\ call' = [call EXCEPT ![c] = GoOn(c, 0)]
  /\ holder' = IF who = c THEN None ELSE who

(* The callback begins: with the lock, or with a lease it believes to have. *)
Enter(c) ==
  \/ /\ Rotated(call[c].refresh, call[c].access)
     /\ ReturnStored(c, holder)
     /\ lease' = LeaseAfter(c)
  \/ /\ ~Rotated(call[c].refresh, call[c].access)
     /\ refresh # 0
     /\ call' = [call EXCEPT ![c] = Send(c)]
     /\ holder' = IF locks THEN c ELSE holder
     /\ UNCHANGED <<storedVars, lease>>
  \/ /\ ~Rotated(call[c].refresh, call[c].access)
     /\ refresh = 0
     /\ ReturnNothing(c, holder)
     /\ lease' = LeaseAfter(c)

(* lockManager.request grants the lock to one of the waiting calls. *)
GrantLock(c) ==
  /\ locks
  /\ call[c].phase = "waiting"
  /\ holder = None
  /\ Enter(c)
  /\ UNCHANGED <<serverVars, locks, leaving, boundVars, lost>>

(* Mutant: a lease counts for ever. *)
SeeNoLeaseEver(c) ==
  /\ ~locks
  /\ call[c].phase = "waiting"
  /\ lease.owner \in {None, c}
  /\ call' = [call EXCEPT ![c].phase = "writing"]
  /\ UNCHANGED <<serverVars, storedVars, turnVars, leaving, boundVars, lost>>

(* tryAcquireRefreshLease reads the lease: no other call's, or one that has *)
(* run out. (With a lease of another call it tries again after 50 ms.)      *)
SeeNoLease(c) ==
  /\ ~locks
  /\ call[c].phase = "waiting"
  /\ lease.fresh => lease.owner = c
  /\ call' = [call EXCEPT ![c].phase = "writing"]
  /\ UNCHANGED <<serverVars, storedVars, turnVars, leaving, boundVars, lost>>

(* ... writes its own ... *)
WriteLease(c) ==
  /\ call[c].phase = "writing"
  /\ lease' = [owner |-> c, fresh |-> TRUE]
  /\ call' = [call EXCEPT ![c].phase = "reading"]
  /\ UNCHANGED <<serverVars, storedVars, locks, holder, leaving, boundVars, lost>>

(* ... and reads it back: it is still its own, or somebody else has written *)
(* in between.                                                              *)
ReadLeaseBack(c) ==
  /\ call[c].phase = "reading"
  /\ IF lease.owner = c
       THEN Enter(c)
       ELSE /\ call' = [call EXCEPT ![c].phase = "waiting"]
            /\ UNCHANGED <<storedVars, holder, lease>>
  /\ UNCHANGED <<serverVars, locks, leaving, boundVars, lost>>

(* Four seconds have passed since the lease was written: its owner is gone, *)
(* or is a background tab whose renewal timer the browser holds back.       *)
LeaseLapses ==
  /\ lease.fresh
  /\ \/ lease.owner = Gone /\ faults' = faults
     \/ /\ lease.owner \in Caller /\ call[lease.owner].phase \in Requesting
        /\ faults < MaxFaults
        /\ faults' = faults + 1
  /\ lease' = [lease EXCEPT !.fresh = FALSE]
  /\ UNCHANGED <<serverVars, storedVars, locks, holder, call, leaving, starts, logins, lost>>

(* renewRefreshLease, if the lease is still the call's own. *)
RenewLease(c) ==
  /\ call[c].phase \in Requesting
  /\ lease.owner = c /\ ~lease.fresh
  /\ lease' = [lease EXCEPT !.fresh = TRUE]
  /\ UNCHANGED <<serverVars, storedVars, locks, holder, call, leaving, boundVars, lost>>

-----------------------------------------------------------------------------
(* The server *)

(* GetActiveByTokenHash: the session whose row holds the hash, or none. *)
GetActiveByTokenHash(c) ==
  /\ call[c].phase = "sent"
  /\ call' = [call EXCEPT ![c].phase =
                IF call[c].using \in live THEN "found" ELSE "refused"]
  /\ UNCHANGED <<serverVars, storedVars, turnVars, leaving, boundVars, lost>>

(* Any error of that lookup is reported as invalid credentials. *)
LookupFails(c) ==
  /\ call[c].phase = "sent"
  /\ faults < MaxFaults
  /\ faults' = faults + 1
  /\ lost' = lost \cup {session[call[c].using]}
  /\ call' = [call EXCEPT ![c].phase = "refused"]
  /\ UNCHANGED <<serverVars, storedVars, turnVars, leaving, starts, logins>>

(* Token t of a row gives way to the next token issued. *)
Exchange(t) ==
  /\ issued' = issued + 1
  /\ live' = (live \ {t}) \cup {issued + 1}
  /\ session' = [session EXCEPT ![issued + 1] = session[t]]

(* Mutant: the row is found by its id alone, whatever hash it holds now. *)
RotateTokenById(c) ==
  /\ call[c].phase = "found"
  /\ LET held == {t \in live : session[t] = session[call[c].using]}
     IN  IF held # {}
           THEN /\ \E t \in held : Exchange(t)
                /\ call' = [call EXCEPT ![c].phase = "answered", ![c].answer = issued + 1]
           ELSE /\ call' = [call EXCEPT ![c].phase = "refused"]
                /\ UNCHANGED <<live, session, issued>>
  /\ UNCHANGED <<late, storedVars, turnVars, leaving, boundVars, lost>>

(* RotateToken updates the row if it still holds the old hash and has not   *)
(* been revoked; otherwise the request is refused after all.                *)
RotateToken(c) ==
  /\ call[c].phase = "found"
  /\ IF call[c].using \in live
       THEN /\ Exchange(call[c].using)
            /\ call' = [call EXCEPT ![c].phase = "answered", ![c].answer = issued + 1]
       ELSE /\ call' = [call EXCEPT ![c].phase = "refused"]
            /\ UNCHANGED <<live, session, issued>>
  /\ UNCHANGED <<late, storedVars, turnVars, leaving, boundVars, lost>>

(* A request nobody waits for any more: the token it draws goes to nobody. *)
LateRequest(t) ==
  /\ t \in late
  /\ late' = late \ {t}
  /\ IF t \in live
       THEN /\ Exchange(t)
            /\ lost' = lost \cup {session[t]}
       ELSE UNCHANGED <<live, session, issued, lost>>
  /\ UNCHANGED <<storedVars, turnVars, call, leaving, boundVars>>

(* The session ends on the server: it expires, or its user is blocked. *)
EndSession(t) ==
  /\ t \in live
  /\ live' = live \ {t}
  /\ UNCHANGED <<session, issued, late, storedVars, turnVars, call, leaving, boundVars, lost>>

-----------------------------------------------------------------------------
(* The answer *)

(* setAccessToken, setRefreshToken; the tokens are the caller's result. *)
ReceiveTokens(c) ==
  /\ call[c].phase = "answered"
  /\ access' = call[c].answer /\ refresh' = call[c].answer
  /\ call' = [call EXCEPT ![c] = GoOn(c, call[c].answer)]
  /\ holder' = IF holder = c THEN None ELSE holder
  /\ lease' = LeaseAfter(c)
  /\ UNCHANGED <<serverVars, locks, leaving, boundVars, lost>>

(* Mutant: a refusal is believed without another look at the storage. *)
ReceiveRefusalBlindly(c) ==
  /\ call[c].phase = "refused"
  /\ ReturnNothing(c, holder)
  /\ lease' = LeaseAfter(c)
  /\ UNCHANGED <<serverVars, locks, leaving, boundVars, lost>>

(* After a refusal: adopt what another call has stored meanwhile, try the    *)
(* stored token if it is another one not tried yet, or give the session up. *)
ReceiveRefusal(c) ==
  /\ call[c].phase = "refused"
  /\ LET rotated == Rotated(call[c].using, call[c].usingAccess)
     IN  \/ /\ rotated
            /\ ReturnStored(c, holder)
            /\ lease' = LeaseAfter(c)
         \/ /\ ~rotated
            /\ refresh # 0 /\ refresh \notin call[c].tried
            /\ call' = [call EXCEPT ![c] = Send(c)]
            /\ UNCHANGED <<storedVars, holder, lease>>
         \/ /\ ~rotated
            /\ refresh = 0 \/ refresh \in call[c].tried
            /\ ReturnNothing(c, holder)
            /\ lease' = LeaseAfter(c)
  /\ UNCHANGED <<serverVars, locks, leaving, boundVars, lost>>

(* Mutant: a call that fails keeps its turn. *)
GiveUpKeepingTurn(c) ==
  /\ call[c].phase \in Requesting
  /\ faults < MaxFaults
  /\ faults' = faults + 1
  /\ late' = IF call[c].phase \in {"sent", "found"} THEN late \cup {call[c].using} ELSE late
  /\ lost' = IF call[c].phase = "answered" THEN lost \cup {session[call[c].answer]} ELSE lost
  /\ access' \in {0, access, call[c].access}
  /\ call' = [call EXCEPT ![c] = Idle]
  /\ UNCHANGED <<live, session, issued, refresh, turnVars, leaving, starts, logins>>

(* The request fails otherwise (20 s, no network, 500). auth.refresh then   *)
(* stores the tab's own access token again, or none; other callers store    *)
(* nothing. The request may still be under way, its answer may be lost.     *)
GiveUp(c) ==
  /\ call[c].phase \in Requesting
  /\ faults < MaxFaults
  /\ faults' = faults + 1
  /\ late' = IF call[c].phase \in {"sent", "found"} THEN late \cup {call[c].using} ELSE late
  /\ lost' = IF call[c].phase = "answered" THEN lost \cup {session[call[c].answer]} ELSE lost
  /\ access' \in {0, access, call[c].access}
  /\ call' = [call EXCEPT ![c] = Idle]
  /\ holder' = IF holder = c THEN None ELSE holder
  /\ lease' = LeaseAfter(c)
  /\ UNCHANGED <<live, session, issued, refresh, locks, leaving, starts, logins>>

(* The tab is closed: a lock is released by the browser, a lease stays. *)
CloseTab(c) ==
  /\ call[c].phase # "idle"
  /\ faults < MaxFaults
  /\ faults' = faults + 1
  /\ late' = IF call[c].phase \in {"sent", "found"} THEN late \cup {call[c].using} ELSE late
  /\ lost' = IF call[c].phase = "answered" THEN lost \cup {session[call[c].answer]} ELSE lost
  /\ call' = [call EXCEPT ![c] = Idle]
  /\ holder' = IF holder = c THEN None ELSE holder
  /\ lease' = IF lease.owner = c THEN [lease EXCEPT !.owner = Gone] ELSE lease
  /\ UNCHANGED <<live, session, issued, storedVars, locks, leaving, starts, logins>>

(* auth.refresh goes on with its result and stores the access token again.  *)
(* (The HTTP interceptor goes on without storing anything.)                 *)
GoOnWithTokens(c) ==
  /\ call[c].phase = "returning"
  /\ access' \in {access, call[c].answer}
  /\ call' = [call EXCEPT ![c] = Idle]
  /\ UNCHANGED <<serverVars, refresh, turnVars, leaving, boundVars, lost>>

(* Either caller goes on without tokens: clearSession, or the interceptor's *)
(* clearAccessToken and clearRefreshToken.                                  *)
GoOnWithNothing(c) ==
  /\ call[c].phase = "clearing"
  /\ access' = 0 /\ refresh' = 0
  /\ call' = [call EXCEPT ![c] = Idle]
  /\ UNCHANGED <<serverVars, turnVars, leaving, boundVars, lost>>

-----------------------------------------------------------------------------
(* Logging out and in *)

(* logout reads the stored refresh token and sends it. *)
BeginLogout ==
  /\ leaving = 0 /\ refresh # 0
  /\ leaving' = refresh
  /\ UNCHANGED <<serverVars, storedVars, turnVars, call, boundVars, lost>>

(* RevokeByTokenHash revokes the row that holds this hash, if one does; a   *)
(* session that has been given another token goes on, unknown to whoever    *)
(* logged out. Then, or when the request fails, clearSession.               *)
FinishLogout ==
  /\ leaving # 0
  /\ \/ live' = live \ {leaving}
     \/ faults < MaxFaults /\ live' = live
  /\ faults' = IF leaving \in live' THEN faults + 1 ELSE faults
  /\ lost' = IF \E t \in live' : session[t] = session[leaving]
               THEN lost \cup {session[leaving]} ELSE lost
  /\ access' = 0 /\ refresh' = 0
  /\ leaving' = 0
  /\ UNCHANGED <<session, issued, late, turnVars, call, starts, logins>>

(* A login while nobody is logged in. An older call or logout that is still *)
(* under way may overwrite or clear what it stores, or the other way round. *)
Login ==
  /\ refresh = 0
  /\ logins < MaxLogins
  /\ logins' = logins + 1
  /\ issued' = issued + 1
  /\ live' = live \cup {issued + 1}
  /\ session' = [session EXCEPT ![issued + 1] = 2 + logins]
  /\ access' = issued + 1 /\ refresh' = issued + 1
  /\ lost' = IF Underway = {} /\ leaving = 0
               THEN lost ELSE lost \cup {2 + logins} \cup {session[t] : t \in live}
  /\ UNCHANGED <<late, turnVars, call, leaving, starts, faults>>

-----------------------------------------------------------------------------
Turn(c) == GrantLock(c) \/ SeeNoLease(c) \/ WriteLease(c) \/ ReadLeaseBack(c)

Server(c) == GetActiveByTokenHash(c) \/ RotateToken(c)

Answer(c) == ReceiveTokens(c) \/ ReceiveRefusal(c) \/ GoOnWithTokens(c) \/ GoOnWithNothing(c)

Next ==
  \/ \E c \in Caller :
       Start(c) \/ Turn(c) \/ RenewLease(c) \/ Server(c) \/ LookupFails(c)
         \/ Answer(c) \/ GiveUp(c) \/ CloseTab(c)
  \/ LeaseLapses
  \/ \E t \in Token : LateRequest(t) \/ EndSession(t)
  \/ BeginLogout \/ FinishLogout \/ Login

(* Tabs run, the server answers, and the clock moves. *)
Spec ==
  /\ Init /\ [][Next]_vars
  /\ \A c \in Caller : WF_vars(Turn(c)) /\ WF_vars(Server(c)) /\ WF_vars(Answer(c))
  /\ WF_vars(LeaseLapses)

-----------------------------------------------------------------------------
(* Properties *)

(* Whatever calls overlap, the token of a session that has not ended is in  *)
(* local storage or on its way to a call that will store it; and where there *)
(* are locks, a call that comes back with nothing has learnt that its        *)
(* session is over. Two calls at once are possible without locks, since the *)
(* lease is not atomic and may lapse: then one of them is refused, and what *)
(* saves the session is the second look at the storage. Excepted are        *)
(* sessions whose token was lost on the way or whose lookup failed, and     *)
(* logouts and logins while a call is under way.                            *)
LivingSessionIsKept ==
  \A t \in live : session[t] \notin lost =>
    /\ \/ refresh = t
       \/ \E c \in Caller : call[c].phase = "answered" /\ call[c].answer = t
    /\ locks => \A c \in Caller :
                  call[c].phase = "clearing" => session[t] # session[call[c].refresh]

(* Every call gets its turn and comes back, even if the tab that had the    *)
(* turn was closed and left its lease behind.                               *)
RefreshEnds == \A c \in Caller : call[c].phase = "waiting" ~> call[c].phase = "idle"
=============================================================================
