--------------------------- MODULE SessionRecovery ---------------------------
(***************************************************************************)
(* How a web client keeps its session: the handshake on one WebSocket, the   *)
(* reconnect loop, the access token refreshed over HTTP when the server      *)
(* refuses it, the degraded mode while the server is away, and logout.       *)
(*                                                                           *)
(* Every await of useSessionOrchestrator is a point where another step can   *)
(* run: a call of connectAndAuthenticate polls the WebSocket until it        *)
(* resolves, a call of auth.refresh is pending until its response arrives.   *)
(* Only the attempt with the newest id is active; the others notice within   *)
(* one tick of 50 ms that they are superseded. There are no clocks: a timer   *)
(* of seconds fires at any time at which no poller is due.                   *)
(*                                                                           *)
(* An access token is fresh or stale (refused by VerifyAccess); what expires  *)
(* is every token issued so far. Two calls of the same caller that wait at   *)
(* the same time end in the same way and are one element of a set here.      *)
(***************************************************************************)
EXTENDS Naturals, Sequences

CONSTANTS
  None,        \* no token, no error, no attempt
  MaxBreaks,   \* bound: broken connections, deadlines missed, unreachable server
  MaxExpiries, \* bound: times the access tokens expire
  MaxStrays,   \* bound: envelopes sent outside an authenticated connection
  MaxClicks,   \* bound: clicks on "reconnect now" and "log out"
  MaxEnds      \* bound: sessions revoked or users blocked by the server

ASSUME RecoveryAssumption ==
  /\ MaxBreaks \in Nat /\ MaxExpiries \in Nat /\ MaxStrays \in Nat /\ MaxClicks \in Nat
  /\ MaxEnds \in Nat

VARIABLES
  server,      \* what the server's session row and user row say
  ws,          \* ws store: state, lastErrorKind, serverHello, authResult, lastCloseCode
  conn,        \* the active socket, its handler on the server, and the frames between
  pendingAuthToken,
  auth,        \* auth store: authState, accessToken, persisted refresh token
  orch,        \* timers and flags of the orchestrator
  attempt,     \* the active attempt's caller
  superseded,  \* callers of the attempts that lost activeAttemptId
  refreshing,  \* callers that wait for auth.refresh
  loggingOut,  \* logout() waits for its imports and for the server
  asked,       \* history: the user asked to be logged out
  overtaken,   \* history: a refused token was offered again while its refresh was pending
  breaks, expiries, strays, clicks, ends

counters == <<breaks, expiries, strays, clicks, ends>>
vars == <<server, ws, conn, pendingAuthToken, auth, orch, attempt, superseded,
          refreshing, loggingOut, asked, overtaken, counters>>

Caller == {"login", "restore", "authFail", "recover", "reconnect", "refreshed", "drop"}
FromReconnect == {"reconnect", "refreshed", "drop"}
Token == {"fresh", "stale"}
ErrorKind == {"TRANSPORT", "UNAUTHENTICATED", "FORBIDDEN"}

ASSUME NoneAssumption == None \notin Caller \cup Token \cup ErrorKind

Hello == [kind |-> "hello"]
AuthRequest(t) == [kind |-> "auth", token |-> t]
StrayFrame == [kind |-> "stray"]
ServerHello == [kind |-> "serverHello"]
AuthResponse == [kind |-> "authResponse"]
Error(k) == [kind |-> "error", error |-> k]

Closed == [socket |-> "none", handler |-> "gone", up |-> <<>>, down |-> <<>>]
Fresh == [socket |-> "connecting", handler |-> "hello", up |-> <<>>, down |-> <<>>]

(* state, lastErrorKind, serverHello, authResult, lastCloseCode after connect *)
WsReset(state) ==
  [state |-> state, errorKind |-> None, hello |-> FALSE, authed |-> FALSE, code1006 |-> FALSE]

Init ==
  /\ server = "active" /\ ws = WsReset("DISCONNECTED") /\ conn = Closed
  /\ pendingAuthToken = None
  /\ auth = [state |-> "ANON", access |-> None, stored |-> TRUE]
  /\ orch = [timer |-> FALSE, reconnecting |-> FALSE, stopped |-> FALSE,
             refreshAttempted |-> FALSE, dropRefreshAttempted |-> FALSE,
             recoveryTimer |-> FALSE, dropHandler |-> FALSE]
  /\ attempt = None /\ superseded = {} /\ refreshing = {}
  /\ loggingOut = FALSE /\ asked = FALSE /\ overtaken = FALSE
  /\ breaks = 0 /\ expiries = 0 /\ strays = 0 /\ clicks = 0 /\ ends = 0

PostAuth == ws.state = "AUTH_COMPLETE"
Handshaking == ws.state \in {"CONNECTING", "HELLO_SENT", "AUTH_SENT"}

-----------------------------------------------------------------------------
(* The orchestrator's flags and timers *)

StopReconnect(o) ==
  [o EXCEPT !.timer = FALSE, !.reconnecting = FALSE,
            !.dropRefreshAttempted = FALSE, !.recoveryTimer = FALSE]

StopIfHealthy(o) == IF PostAuth THEN StopReconnect(o) ELSE o

Schedule(o) ==
  IF o.stopped \/ o.timer THEN o
  ELSE IF PostAuth THEN StopReconnect(o)
  ELSE [o EXCEPT !.timer = TRUE, !.reconnecting = TRUE]

ScheduleRecovery(o) == [o EXCEPT !.recoveryTimer = @ \/ ~o.stopped]

Degrade(o) == ScheduleRecovery(StopReconnect(o))

(* The drop handler runs with the state already DISCONNECTED. *)
OnTransportDrop(o) ==
  IF ~o.dropHandler \/ o.stopped \/ o.reconnecting \/ o.timer THEN o
  ELSE [o EXCEPT !.dropRefreshAttempted = FALSE, !.timer = TRUE, !.reconnecting = TRUE]

AuthStageDrop ==
  /\ ws.state = "DISCONNECTED" /\ ws.hello /\ ~ws.authed /\ ws.code1006
  /\ ws.errorKind \in {None, "TRANSPORT"}

(* connectAndAuthenticate up to its first tick. *)
Connect(caller, token, o) ==
  /\ orch' = IF caller \in FromReconnect THEN o
             ELSE [StopReconnect(o) EXCEPT
                     !.stopped = @ /\ caller = "recover",
                     !.refreshAttempted = @ /\ caller \notin {"login", "restore"},
                     !.dropHandler = TRUE]
  /\ attempt' = caller
  /\ superseded' = superseded \cup ({attempt} \ {None})
  /\ pendingAuthToken' = token
  /\ ws' = WsReset("CONNECTING") /\ conn' = Fresh

ClearedSession == [state |-> "ANON", access |-> None, stored |-> FALSE]

(* logout() up to its first await, and auth.logout() after it. *)
BeginLogout(o) ==
  /\ orch' = [StopReconnect(o) EXCEPT !.stopped = TRUE, !.dropHandler = FALSE]
  /\ ws' = WsReset("DISCONNECTED") /\ conn' = Closed /\ pendingAuthToken' = None
  /\ loggingOut' = TRUE

FinishLogout ==
  /\ loggingOut /\ loggingOut' = FALSE
  /\ server' \in {server} \cup (IF server = "active" THEN {"revoked"} ELSE {})
  /\ auth' = ClearedSession
  /\ UNCHANGED <<ws, conn, pendingAuthToken, orch, attempt, superseded, refreshing, asked, overtaken, counters>>

StartRefresh(caller) ==
  refreshing' = refreshing \cup {caller} /\ auth' = [auth EXCEPT !.state = "REFRESHING"]

-----------------------------------------------------------------------------
(* The socket, and the server's handshake on it *)

SocketOpens ==
  /\ conn.socket = "connecting"
  /\ conn' = [conn EXCEPT !.socket = "open", !.up = <<Hello>>]
  /\ ws' = [ws EXCEPT !.state = "HELLO_SENT"]
  /\ UNCHANGED <<server, pendingAuthToken, auth, orch, attempt, superseded, refreshing,
                 loggingOut, asked, overtaken, counters>>

Refusal(frame) ==
  IF frame.kind = "auth" /\ server = "blocked" /\ frame.token = "fresh"
  THEN "FORBIDDEN" ELSE "UNAUTHENTICATED"

(* A refused handshake ends the handler; closing the connection may overtake *)
(* the error envelope that says why.                                         *)
ServerReceives ==
  /\ conn.handler # "gone" /\ conn.up # <<>>
  /\ LET frame == Head(conn.up)
         rest == [conn EXCEPT !.up = Tail(@)]
     IN CASE conn.handler = "hello" ->
               conn' = [rest EXCEPT !.handler = "auth", !.down = Append(@, ServerHello)]
          [] conn.handler = "done" -> conn' = rest
          [] OTHER ->
               IF frame.kind = "auth" /\ frame.token = "fresh" /\ server = "active"
               THEN conn' = [rest EXCEPT !.handler = "done", !.down = Append(@, AuthResponse)]
               ELSE \E told \in BOOLEAN :
                      conn' = [rest EXCEPT !.handler = "gone", !.up = <<>>,
                                 !.down = IF told THEN Append(@, Error(Refusal(frame))) ELSE @]
  /\ UNCHANGED <<server, ws, pendingAuthToken, auth, orch, attempt, superseded, refreshing,
                 loggingOut, asked, overtaken, counters>>

ReceiveHello ==
  /\ conn.socket = "open" /\ conn.down # <<>> /\ Head(conn.down).kind = "serverHello"
  /\ ws' = [ws EXCEPT !.hello = TRUE, !.state = "AUTH_SENT"]
  /\ conn' = [conn EXCEPT !.down = Tail(@), !.up = Append(@, AuthRequest(pendingAuthToken))]
  /\ pendingAuthToken' = None
  /\ UNCHANGED <<server, auth, orch, attempt, superseded, refreshing, loggingOut, asked, overtaken, counters>>

ReceiveAuthResponse ==
  /\ conn.socket = "open" /\ conn.down # <<>> /\ Head(conn.down).kind = "authResponse"
  /\ ws' = [ws EXCEPT !.authed = TRUE, !.state = "AUTH_COMPLETE"]
  /\ conn' = [conn EXCEPT !.down = Tail(@)]
  /\ UNCHANGED <<server, pendingAuthToken, auth, orch, attempt, superseded, refreshing,
                 loggingOut, asked, overtaken, counters>>

(* An error envelope of the handshake, and the auth-fail handler it calls. *)
ReceiveRefusal ==
  /\ conn.socket = "open" /\ conn.down # <<>> /\ Head(conn.down).kind = "error"
  /\ LET kind == Head(conn.down).error
     IN IF kind = "UNAUTHENTICATED" /\ ~orch.refreshAttempted
        THEN /\ orch' = [orch EXCEPT !.refreshAttempted = TRUE]
             /\ StartRefresh("authFail")
             /\ ws' = [ws EXCEPT !.state = "DISCONNECTED", !.errorKind = kind]
             /\ conn' = [Closed EXCEPT !.socket = "closing"]
             /\ UNCHANGED <<pendingAuthToken, loggingOut>>
        ELSE BeginLogout(orch) /\ UNCHANGED <<auth, refreshing>>
  /\ UNCHANGED <<server, attempt, superseded, asked, overtaken, counters>>

(* onclose, preceded by onerror when the connection never opened and perhaps *)
(* when it broke.                                                            *)
SocketCloses(kind) ==
  /\ ws' = [ws EXCEPT !.state = "DISCONNECTED", !.errorKind = kind, !.code1006 = TRUE]
  /\ conn' = Closed
  /\ orch' = IF kind = "UNAUTHENTICATED" THEN orch ELSE OnTransportDrop(orch)
  /\ UNCHANGED <<server, pendingAuthToken, auth, attempt, superseded, refreshing, loggingOut, asked, overtaken>>

ServerCloses ==
  /\ conn.socket = "open" /\ conn.handler = "gone" /\ conn.down = <<>>
  /\ SocketCloses(ws.errorKind) /\ UNCHANGED counters

ClosingEnds ==
  /\ conn.socket = "closing" /\ SocketCloses(ws.errorKind) /\ UNCHANGED counters

ConnectionBreaks ==
  /\ breaks < MaxBreaks /\ breaks' = breaks + 1
  /\ \/ conn.socket = "connecting" /\ SocketCloses("TRANSPORT")
     \/ conn.socket = "open" /\ \E kind \in {ws.errorKind, "TRANSPORT"} : SocketCloses(kind)
  /\ UNCHANGED <<expiries, strays, clicks, ends>>

(* A heartbeat or a message without its acknowledgement. *)
InvalidateTransport ==
  /\ breaks < MaxBreaks /\ breaks' = breaks + 1
  /\ PostAuth /\ conn.socket = "open"
  /\ ws' = [ws EXCEPT !.state = "DISCONNECTED", !.errorKind = "TRANSPORT"]
  /\ conn' = Closed
  /\ orch' = OnTransportDrop(orch)
  /\ UNCHANGED <<server, pendingAuthToken, auth, attempt, superseded, refreshing, loggingOut,
                 asked, overtaken, expiries, strays, clicks, ends>>

(* sendEnvelope looks at the socket only: timers and components that send     *)
(* (acks, cursors, typing) do not know whether the connection is authenticated. *)
SendStray ==
  /\ strays < MaxStrays /\ strays' = strays + 1
  /\ ~PostAuth
  /\ IF conn.socket = "open"
     THEN conn' = [conn EXCEPT !.up = Append(@, StrayFrame)] /\ UNCHANGED ws
     ELSE ws' = [ws EXCEPT !.errorKind = "TRANSPORT"] /\ UNCHANGED conn
  /\ UNCHANGED <<server, pendingAuthToken, auth, orch, attempt, superseded, refreshing,
                 loggingOut, asked, overtaken, breaks, expiries, clicks, ends>>

-----------------------------------------------------------------------------
(* Attempts *)

(* What the caller does when connectAndAuthenticate resolves to false. *)
AfterFailure(caller, o) ==
  IF caller = "reconnect" /\ ~o.stopped /\ ~o.dropRefreshAttempted /\ AuthStageDrop
  THEN orch' = [o EXCEPT !.dropRefreshAttempted = TRUE] /\ StartRefresh("drop")
  ELSE /\ UNCHANGED <<auth, refreshing>>
       /\ orch' = CASE auth.state = "AUTH_DEGRADED" /\ caller \in {"authFail", "refreshed"} -> Degrade(o)
                    [] auth.state = "AUTH_DEGRADED" /\ caller \in {"restore", "recover"} -> ScheduleRecovery(o)
                    [] OTHER -> IF caller \in FromReconnect THEN Schedule(o) ELSE o

PollSuperseded(caller) ==
  /\ caller \in superseded /\ superseded' = superseded \ {caller}
  /\ AfterFailure(caller, StopIfHealthy(orch))
  /\ UNCHANGED <<server, ws, conn, pendingAuthToken, attempt, loggingOut, asked, overtaken, counters>>

(* Mutant: success does not clear the reconnect loop. *)
PollSucceedsOnly ==
  /\ attempt # None /\ PostAuth
  /\ attempt' = None
  /\ UNCHANGED <<server, ws, conn, pendingAuthToken, auth, orch, superseded, refreshing,
                 loggingOut, asked, overtaken, counters>>

PollSucceeds ==
  /\ attempt # None /\ PostAuth
  /\ attempt' = None /\ orch' = StopReconnect(orch)
  /\ UNCHANGED <<server, ws, conn, pendingAuthToken, auth, superseded, refreshing, loggingOut,
                 asked, overtaken, counters>>

PollFails ==
  /\ attempt # None /\ attempt' = None
  /\ \/ ws.state = "DISCONNECTED" /\ UNCHANGED breaks
     \/ Handshaking /\ breaks < MaxBreaks /\ breaks' = breaks + 1 \* MAX_WAIT_MS
  /\ LET recover == attempt \notin FromReconnect /\ ws.errorKind \in {None, "TRANSPORT"}
     IN AfterFailure(attempt, IF recover THEN Schedule(orch) ELSE orch)
  /\ UNCHANGED <<server, ws, conn, pendingAuthToken, superseded, loggingOut, asked, overtaken,
                 expiries, strays, clicks, ends>>

PollIsDue ==
  superseded # {} \/ (attempt # None /\ ws.state \in {"AUTH_COMPLETE", "DISCONNECTED"})

(* Mutant: the timer does not look whether there is a token. *)
ReconnectTimerFiresBlindly ==
  /\ orch.timer /\ ~PollIsDue
  /\ Connect("reconnect", auth.access, [orch EXCEPT !.timer = FALSE])
  /\ UNCHANGED <<server, auth, refreshing, loggingOut, asked, overtaken, counters>>

(* The body of the reconnect timer; the attempt it finds in a handshake has  *)
(* been slower than the timer. It does not look for a refresh under way, and *)
(* one slower than the timer has its refused token offered again.            *)
ReconnectTimerFires ==
  /\ orch.timer /\ ~PollIsDue
  /\ IF attempt # None THEN breaks < MaxBreaks /\ breaks' = breaks + 1 ELSE UNCHANGED breaks
  /\ LET o == [orch EXCEPT !.timer = FALSE]
     IN CASE PostAuth ->
               /\ orch' = StopReconnect(o)
               /\ UNCHANGED <<ws, conn, pendingAuthToken, auth, attempt, superseded, refreshing>>
          [] ~PostAuth /\ auth.access = None /\ auth.stored ->
               /\ orch' = o /\ StartRefresh("refreshed")
               /\ UNCHANGED <<ws, conn, pendingAuthToken, attempt, superseded>>
          [] ~PostAuth /\ auth.access = None /\ ~auth.stored ->
               /\ orch' = Schedule(o) /\ auth' = ClearedSession
               /\ UNCHANGED <<ws, conn, pendingAuthToken, attempt, superseded, refreshing>>
          [] OTHER -> Connect("reconnect", auth.access, o) /\ UNCHANGED <<auth, refreshing>>
  /\ overtaken' = (overtaken \/ (~PostAuth /\ auth.access = "stale" /\ refreshing # {}))
  /\ UNCHANGED <<server, loggingOut, asked, expiries, strays, clicks, ends>>

RecoverDegradedSession(o) ==
  /\ orch' = o
  /\ IF o.stopped \/ ~auth.stored THEN UNCHANGED <<auth, refreshing>> ELSE StartRefresh("recover")

RecoveryTimerFires ==
  /\ orch.recoveryTimer /\ ~PollIsDue
  /\ RecoverDegradedSession([orch EXCEPT !.recoveryTimer = FALSE])
  /\ UNCHANGED <<server, ws, conn, pendingAuthToken, attempt, superseded, loggingOut, asked, overtaken, counters>>

(* Focus, pageshow, online and visibilitychange. *)
LifecycleRecovery ==
  /\ auth.state = "AUTH_DEGRADED" /\ clicks < MaxClicks /\ clicks' = clicks + 1
  /\ RecoverDegradedSession([orch EXCEPT !.recoveryTimer = FALSE])
  /\ UNCHANGED <<server, ws, conn, pendingAuthToken, attempt, superseded, loggingOut, asked, overtaken,
                 breaks, expiries, strays, ends>>

(* The button of the banner; in degraded mode it is LifecycleRecovery. *)
ReconnectNow ==
  /\ orch.reconnecting /\ auth.state # "AUTH_DEGRADED"
  /\ clicks < MaxClicks /\ clicks' = clicks + 1
  /\ LET o == [orch EXCEPT !.timer = FALSE]
     IN IF auth.access = None
        THEN /\ orch' = Schedule(o)
             /\ UNCHANGED <<ws, conn, pendingAuthToken, attempt, superseded>>
        ELSE Connect("reconnect", auth.access, o)
  /\ UNCHANGED <<server, auth, refreshing, loggingOut, asked, overtaken, breaks, expiries, strays, ends>>

-----------------------------------------------------------------------------
(* Refreshing the access token *)

RefreshSucceeds(caller) ==
  /\ server = "active"
  /\ auth' = [state |-> "AUTHENTICATED", access |-> "fresh", stored |-> TRUE]
  /\ Connect(caller, "fresh", orch)
  /\ UNCHANGED <<server, loggingOut, breaks>>

(* auth.refresh clears the session; only the auth-fail handler logs out. *)
RefreshRefused(caller) ==
  /\ server # "active" /\ auth' = ClearedSession
  /\ IF caller = "authFail"
     THEN BeginLogout(orch)
     ELSE /\ orch' = IF caller \in FromReconnect THEN Schedule(orch) ELSE orch
          /\ UNCHANGED <<ws, conn, pendingAuthToken, loggingOut>>
  /\ UNCHANGED <<server, attempt, superseded, breaks>>

(* Mutants: the recovery timer is not set again; an unanswered refresh counts *)
(* as a refused one.                                                         *)
RefreshUnansweredOnce(caller) ==
  /\ breaks < MaxBreaks /\ breaks' = breaks + 1
  /\ auth' = [auth EXCEPT !.state = "AUTH_DEGRADED",
                          !.access = IF @ = "fresh" THEN @ ELSE None]
  /\ orch' = IF caller = "recover" THEN orch ELSE Degrade(orch)
  /\ UNCHANGED <<server, ws, conn, pendingAuthToken, attempt, superseded, loggingOut>>

RefreshUnansweredLogsOut(caller) ==
  /\ breaks < MaxBreaks /\ breaks' = breaks + 1
  /\ auth' = [auth EXCEPT !.state = "AUTH_DEGRADED"]
  /\ IF caller = "authFail" THEN BeginLogout(orch)
     ELSE orch' = Degrade(orch) /\ UNCHANGED <<ws, conn, pendingAuthToken, loggingOut>>
  /\ UNCHANGED <<server, attempt, superseded>>

(* No response: the refresh token stays, an unusable access token goes. *)
RefreshUnanswered(caller) ==
  /\ breaks < MaxBreaks /\ breaks' = breaks + 1
  /\ auth' = [auth EXCEPT !.state = "AUTH_DEGRADED",
                          !.access = IF @ = "fresh" THEN @ ELSE None]
  /\ orch' = CASE caller \in {"authFail", "refreshed"} -> Degrade(orch)
               [] caller \in {"restore", "recover"} -> ScheduleRecovery(orch)
               [] OTHER -> Schedule(orch)
  /\ UNCHANGED <<server, ws, conn, pendingAuthToken, attempt, superseded, loggingOut>>

RefreshReturns(caller) ==
  /\ caller \in refreshing /\ refreshing' = refreshing \ {caller}
  /\ RefreshSucceeds(caller) \/ RefreshRefused(caller) \/ RefreshUnanswered(caller)
  /\ UNCHANGED <<asked, overtaken, expiries, strays, clicks, ends>>

-----------------------------------------------------------------------------
(* The user, the clock and the administrator *)

TryRestoreSession ==
  /\ auth.state = "ANON" /\ auth.stored /\ refreshing = {} /\ ~loggingOut
  /\ StartRefresh("restore") /\ orch' = [orch EXCEPT !.refreshAttempted = FALSE]
  /\ UNCHANGED <<server, ws, conn, pendingAuthToken, attempt, superseded, loggingOut, asked, overtaken, counters>>

Login ==
  /\ auth.state = "ANON" /\ ~auth.stored /\ ~loggingOut /\ server # "blocked"
  /\ clicks < MaxClicks /\ clicks' = clicks + 1
  /\ server' = "active" /\ asked' = FALSE /\ UNCHANGED overtaken
  /\ auth' = [state |-> "AUTHENTICATED", access |-> "fresh", stored |-> TRUE]
  /\ Connect("login", "fresh", orch)
  /\ UNCHANGED <<refreshing, loggingOut, breaks, expiries, strays, ends>>

Logout ==
  /\ auth.stored /\ auth.state # "ANON" /\ ~loggingOut
  /\ clicks < MaxClicks /\ clicks' = clicks + 1
  /\ asked' = TRUE /\ UNCHANGED overtaken /\ BeginLogout(orch)
  /\ UNCHANGED <<server, auth, attempt, superseded, refreshing, breaks, expiries, strays, ends>>

(* A token outlives the handshake it was issued for; one that expires during  *)
(* a later handshake might as well have expired before it.                   *)
TokensExpire ==
  /\ expiries < MaxExpiries /\ expiries' = expiries + 1
  /\ auth.access = "fresh" /\ ~Handshaking
  /\ auth' = [auth EXCEPT !.access = "stale"]
  /\ UNCHANGED <<server, ws, conn, pendingAuthToken, orch, attempt, superseded, refreshing,
                 loggingOut, asked, overtaken, breaks, strays, clicks, ends>>

SessionEndsOnServer ==
  /\ ends < MaxEnds /\ ends' = ends + 1
  /\ server = "active" /\ server' \in {"revoked", "blocked"}
  /\ UNCHANGED <<ws, conn, pendingAuthToken, auth, orch, attempt, superseded, refreshing,
                 loggingOut, asked, overtaken, breaks, expiries, strays, clicks>>

Network ==
  \/ SocketOpens \/ ServerReceives \/ ReceiveHello \/ ReceiveAuthResponse \/ ReceiveRefusal
  \/ ServerCloses \/ ClosingEnds
Poll == PollSucceeds \/ PollFails \/ \E c \in Caller : PollSuperseded(c)
Timers == ReconnectTimerFires \/ RecoveryTimerFires
Refresh == \E c \in Caller : RefreshReturns(c)

Next ==
  \/ Network \/ Poll \/ Timers \/ Refresh \/ FinishLogout \/ TryRestoreSession
  \/ ConnectionBreaks \/ InvalidateTransport \/ SendStray
  \/ LifecycleRecovery \/ ReconnectNow \/ Login \/ Logout
  \/ TokensExpire \/ SessionEndsOnServer

Fairness ==
  /\ WF_vars(Network) /\ WF_vars(Poll) /\ WF_vars(ReconnectTimerFires)
  /\ WF_vars(RecoveryTimerFires) /\ WF_vars(Refresh) /\ WF_vars(FinishLogout)
  /\ WF_vars(TryRestoreSession)

Spec == Init /\ [][Next]_vars /\ Fairness

-----------------------------------------------------------------------------
(* Properties *)

TypeOK ==
  /\ server \in {"active", "revoked", "blocked"}
  /\ ws.state \in {"DISCONNECTED", "CONNECTING", "HELLO_SENT", "AUTH_SENT", "AUTH_COMPLETE"}
  /\ ws.errorKind \in ErrorKind \cup {None}
  /\ conn.socket \in {"none", "connecting", "open", "closing"}
  /\ Len(conn.up) <= 2 + MaxStrays /\ Len(conn.down) <= 2
  /\ \A k \in DOMAIN conn.up : conn.up[k].kind = "auth" => conn.up[k].token \in Token
  /\ pendingAuthToken \in Token \cup {None}
  /\ auth.state \in {"ANON", "AUTHENTICATED", "REFRESHING", "AUTH_DEGRADED"}
  /\ auth.access \in Token \cup {None}
  /\ attempt \in Caller \cup {None}
  /\ superseded \subseteq Caller /\ refreshing \subseteq Caller

(* "transport drop -> auto-reconnect every 5 s": a client that holds a        *)
(* refresh token, has not logged out and is not connected has something under way that will      *)
(* connect it: no combination of a drop, a refusal, a superseded attempt and  *)
(* a failed refresh leaves it without a timer, an attempt or a request.      *)
NeverStranded ==
  (ws.state = "DISCONNECTED" /\ auth.state # "ANON" /\ auth.stored /\ ~orch.stopped) =>
    \/ orch.timer \/ orch.recoveryTimer \/ attempt # None
    \/ superseded # {} \/ refreshing # {}

LoggedOut == loggingOut \/ ~auth.stored

(* "WS auth fail -> try refresh once -> reconnect -> sendAuth", "refresh fail *)
(* -> hard logout": a client whose session the server still accepts is not   *)
(* logged out unless the user asked.                                         *)
LogoutMeansSessionEnded == LoggedOut => asked \/ server # "active"

(* What holds of it: one expired token or one envelope sent too early, with   *)
(* any outages around it, ends no session that the server still accepts,     *)
(* unless the refresh that replaces the token is slower than the reconnect   *)
(* timer, and the timer offers the refused token once more.                  *)
OneRefusalIsSurvived ==
  expiries + strays + clicks <= 1 /\ ~overtaken => LogoutMeansSessionEnded

(* "enter the existing reconnect/bootstrap flow without requiring a user     *)
(* click": when connections stop breaking, the client ends authenticated,    *)
(* with no reconnect timer and no banner left over from a lost race, or is   *)
(* logged out. It holds while the access token and the session last and      *)
(* nobody logs out: a loop that has used its one refresh keeps an expired    *)
(* token, and a refresh answered after logout connects again, but may find   *)
(* reconnectStopped still set.                                               *)
RecoversWithValidToken ==
  [](expiries = 0 /\ ends = 0 /\ ~orch.stopped) =>
    <>[](\/ LoggedOut
         \/ PostAuth /\ ~orch.timer /\ ~orch.reconnecting)
=============================================================================
