------------------------ MODULE SessionRecoveryProofs ------------------------
(***************************************************************************)
(* For any number of broken connections, expiries, early envelopes, clicks   *)
(* and ended sessions: the types, that no client is stranded, and that one   *)
(* refusal of a session the server still accepts does not log it out.       *)
(***************************************************************************)
EXTENDS SessionRecovery, TLAPS

(* The types, in parts. *)
WsRecord ==
  [state : {"DISCONNECTED", "CONNECTING", "HELLO_SENT", "AUTH_SENT", "AUTH_COMPLETE"},
   errorKind : ErrorKind \cup {None}, hello : BOOLEAN, authed : BOOLEAN, code1006 : BOOLEAN]
AuthRecord ==
  [state : {"ANON", "AUTHENTICATED", "REFRESHING", "AUTH_DEGRADED"},
   access : Token \cup {None}, stored : BOOLEAN]
OrchRecord ==
  [timer : BOOLEAN, reconnecting : BOOLEAN, stopped : BOOLEAN, refreshAttempted : BOOLEAN,
   dropRefreshAttempted : BOOLEAN, recoveryTimer : BOOLEAN, dropHandler : BOOLEAN]

UpFrame == [kind : {"hello", "stray"}] \cup [kind : {"auth"}, token : Token]
DownFrame == [kind : {"serverHello", "authResponse"}] \cup [kind : {"error"}, error : ErrorKind]
ConnRecord ==
  [socket : {"none", "connecting", "open", "closing"}, handler : {"hello", "auth", "done", "gone"},
   up : Seq(UpFrame), down : Seq(DownFrame)]

WsTyped == ws \in WsRecord
ConnTyped == conn \in ConnRecord
TokensTyped == auth \in AuthRecord /\ pendingAuthToken \in Token \cup {None}
CallsTyped ==
  /\ orch \in OrchRecord
  /\ attempt \in Caller \cup {None} /\ superseded \subseteq Caller /\ refreshing \subseteq Caller
CountersTyped ==
  server \in {"active", "revoked", "blocked"} /\ strays \in 0..MaxStrays

Typed == WsTyped /\ ConnTyped /\ TokensTyped /\ CallsTyped /\ CountersTyped

(* The state of the store is that of its socket. *)
SocketState ==
  /\ ws.state = "DISCONNECTED" <=> conn.socket \in {"none", "closing"}
  /\ ws.state = "CONNECTING" <=> conn.socket = "connecting"

(* What the handshake can have put on the wire: the server sends two frames at *)
(* most, its hello first, and the client its token in answer to that one.     *)
Handshake ==
  /\ conn.handler = "hello" => conn.down = <<>> /\ ws.state \in {"CONNECTING", "HELLO_SENT"}
  /\ conn.handler = "auth" => Len(conn.down) <= 1
  /\ Len(conn.down) <= 2
  /\ \A k \in DOMAIN conn.down :
       conn.down[k].kind = "serverHello" => k = 1 /\ ws.state = "HELLO_SENT"
  /\ ws.state \in {"CONNECTING", "HELLO_SENT"} => pendingAuthToken \in Token
  /\ ws.state = "CONNECTING" => conn.up = <<>>
  /\ ws.state \notin {"AUTH_SENT", "AUTH_COMPLETE"} => Len(conn.up) <= 1 + strays
  /\ Len(conn.up) <= 2 + strays

WireInv == SocketState /\ Handshake

(* A client that holds a session and is neither logged out nor stopped. *)
Holds == auth.state # "ANON" /\ auth.stored /\ ~orch.stopped

(* Something under way that starts a new attempt, whatever the attempts that  *)
(* lost their id still do.                                                    *)
Driven == orch.timer \/ orch.recoveryTimer \/ attempt # None \/ refreshing # {}

(* Before the first attempt nothing reconnects. *)
Untouched ==
  /\ ws.state = "DISCONNECTED" /\ attempt = None /\ superseded = {}
  /\ ~orch.timer /\ ~orch.reconnecting
  /\ refreshing \subseteq {"restore", "recover"}

DrivenInv ==
  /\ Holds /\ ~PostAuth => Driven
  /\ Holds /\ orch.reconnecting => Driven
  (* The attempt that was refused does not reconnect by itself. *)
  /\ ws.errorKind \notin {None, "TRANSPORT"} =>
       /\ ws.state = "DISCONNECTED"
       /\ Holds => orch.timer \/ orch.recoveryTimer \/ refreshing # {}
  /\ ~orch.dropHandler /\ ~orch.stopped => Untouched

-----------------------------------------------------------------------------
(* The operators on the orchestrator's record and on the others *)

LEMMA StopReconnectLemma ==
  ASSUME NEW o \in OrchRecord
  PROVE  /\ StopReconnect(o) \in OrchRecord
         /\ StopReconnect(o).stopped = o.stopped /\ StopReconnect(o).dropHandler = o.dropHandler
         /\ ~StopReconnect(o).timer /\ ~StopReconnect(o).reconnecting
  BY DEF StopReconnect, OrchRecord

LEMMA ScheduleLemma ==
  ASSUME NEW o \in OrchRecord
  PROVE  /\ Schedule(o) \in OrchRecord
         /\ Schedule(o).stopped = o.stopped /\ Schedule(o).dropHandler = o.dropHandler
         /\ ~PostAuth /\ ~o.stopped => Schedule(o).timer
         /\ PostAuth /\ ~o.stopped => Schedule(o).timer \/ ~Schedule(o).reconnecting
         /\ ~PostAuth => Schedule(o).recoveryTimer = o.recoveryTimer
<1>1. CASE o.stopped \/ o.timer
  BY <1>1 DEF Schedule, OrchRecord
<1>2. CASE ~(o.stopped \/ o.timer) /\ PostAuth
  BY <1>2, StopReconnectLemma DEF Schedule
<1>3. CASE ~(o.stopped \/ o.timer) /\ ~PostAuth
  BY <1>3 DEF Schedule, OrchRecord
<1>4. QED
  BY <1>1, <1>2, <1>3

LEMMA RecoveryLemma ==
  ASSUME NEW o \in OrchRecord
  PROVE  /\ ScheduleRecovery(o) \in OrchRecord /\ Degrade(o) \in OrchRecord
         /\ ScheduleRecovery(o).stopped = o.stopped /\ Degrade(o).stopped = o.stopped
         /\ ScheduleRecovery(o).dropHandler = o.dropHandler
         /\ Degrade(o).dropHandler = o.dropHandler
         /\ ~o.stopped => ScheduleRecovery(o).recoveryTimer /\ Degrade(o).recoveryTimer
         /\ ScheduleRecovery(o).timer = o.timer
         /\ ScheduleRecovery(o).reconnecting = o.reconnecting
         /\ ~Degrade(o).timer /\ ~Degrade(o).reconnecting
<1>1. /\ ScheduleRecovery(o) \in OrchRecord /\ ScheduleRecovery(o).stopped = o.stopped
      /\ ScheduleRecovery(o).dropHandler = o.dropHandler
      /\ ~o.stopped => ScheduleRecovery(o).recoveryTimer
      /\ ScheduleRecovery(o).timer = o.timer
      /\ ScheduleRecovery(o).reconnecting = o.reconnecting
  BY DEF ScheduleRecovery, OrchRecord
<1>2. /\ Degrade(o) \in OrchRecord /\ Degrade(o).stopped = o.stopped
      /\ Degrade(o).dropHandler = o.dropHandler
      /\ ~o.stopped => Degrade(o).recoveryTimer
      /\ ~Degrade(o).timer /\ ~Degrade(o).reconnecting
  BY DEF Degrade, StopReconnect, ScheduleRecovery, OrchRecord
<1>3. QED
  BY <1>1, <1>2

LEMMA DropLemma ==
  ASSUME NEW o \in OrchRecord
  PROVE  /\ OnTransportDrop(o) \in OrchRecord
         /\ OnTransportDrop(o).stopped = o.stopped
         /\ OnTransportDrop(o).dropHandler = o.dropHandler
         /\ OnTransportDrop(o).recoveryTimer = o.recoveryTimer
         /\ o.timer => OnTransportDrop(o).timer
         /\ o.dropHandler /\ ~o.stopped /\ ~o.reconnecting => OnTransportDrop(o).timer
         /\ ~o.dropHandler => OnTransportDrop(o) = o
  BY DEF OnTransportDrop, OrchRecord

(* A new attempt: the handshake begins, and its caller is polling.            *)
LEMMA ConnectLemma ==
  ASSUME NEW caller \in Caller, NEW o \in OrchRecord, NEW token \in Token,
         Connect(caller, token, o), CallsTyped
  PROVE  /\ ws' = WsReset("CONNECTING") /\ conn' = Fresh /\ pendingAuthToken' = token
         /\ orch' \in OrchRecord /\ attempt' = caller /\ attempt' # None
         /\ superseded' \subseteq Caller
         /\ \/ orch'.dropHandler
            \/ /\ caller \in FromReconnect
               /\ orch'.stopped = o.stopped /\ orch'.dropHandler = o.dropHandler
<1>1. /\ ws' = WsReset("CONNECTING") /\ conn' = Fresh /\ pendingAuthToken' = token
      /\ attempt' = caller /\ attempt' # None /\ superseded' \subseteq Caller
  BY NoneAssumption DEF Connect, CallsTyped
<1>2. CASE caller \in FromReconnect
  BY <1>1, <1>2 DEF Connect
<1>3. CASE caller \notin FromReconnect
  <2> DEFINE o1 == StopReconnect(o)
  <2>1. o1 \in OrchRecord
    BY StopReconnectLemma
  <2> HIDE DEF o1
  <2>2. orch' = [o1 EXCEPT !.stopped = @ /\ caller = "recover",
                           !.refreshAttempted = @ /\ caller \notin {"login", "restore"},
                           !.dropHandler = TRUE]
    BY <1>3 DEF Connect, o1
  <2>3. PICK b1 \in BOOLEAN, b2 \in BOOLEAN :
          orch' = [o1 EXCEPT !.stopped = b1, !.refreshAttempted = b2, !.dropHandler = TRUE]
    <3>1. /\ (o1.stopped /\ caller = "recover") \in BOOLEAN
          /\ (o1.refreshAttempted /\ caller \notin {"login", "restore"}) \in BOOLEAN
      BY Zenon
    <3>2. QED
      BY <2>2, <3>1, Zenon
  <2>4. orch' \in OrchRecord /\ orch'.dropHandler
    BY <2>1, <2>3 DEF OrchRecord
  <2>5. QED
    BY <1>1, <2>4
<1>4. QED
  BY <1>2, <1>3

LEMMA ResetLemma ==
  /\ \A state \in {"DISCONNECTED", "CONNECTING"} :
       /\ WsReset(state) \in WsRecord /\ WsReset(state).state = state
       /\ WsReset(state).errorKind = None
  /\ Closed \in ConnRecord /\ Closed.socket = "none" /\ Closed.handler = "gone"
  /\ Closed.up = <<>> /\ Closed.down = <<>>
  /\ Fresh \in ConnRecord /\ Fresh.socket = "connecting" /\ Fresh.handler = "hello"
  /\ Fresh.up = <<>> /\ Fresh.down = <<>>
<1>1. <<>> \in Seq(UpFrame) /\ <<>> \in Seq(DownFrame)
  OBVIOUS
<1>2. QED
  BY <1>1 DEF WsReset, WsRecord, Closed, Fresh, ConnRecord

LEMMA LogoutLemma ==
  ASSUME NEW o \in OrchRecord, BeginLogout(o)
  PROVE  /\ orch' \in OrchRecord /\ orch'.stopped
         /\ ws' = WsReset("DISCONNECTED") /\ conn' = Closed /\ pendingAuthToken' = None
<1> DEFINE o1 == StopReconnect(o)
<1>1. o1 \in OrchRecord
  BY StopReconnectLemma
<1>2. orch' = [o1 EXCEPT !.stopped = TRUE, !.dropHandler = FALSE]
  BY DEF BeginLogout
<1> HIDE DEF o1
<1>3. orch' \in OrchRecord /\ orch'.stopped
  BY <1>1, <1>2 DEF OrchRecord
<1>4. QED
  BY <1>3 DEF BeginLogout

LEMMA StartRefreshLemma ==
  ASSUME NEW caller \in Caller, auth \in AuthRecord, refreshing \subseteq Caller,
         StartRefresh(caller)
  PROVE  /\ auth' \in AuthRecord /\ auth'.access = auth.access /\ auth'.stored = auth.stored
         /\ refreshing' \subseteq Caller /\ caller \in refreshing'
         /\ refreshing' = refreshing \cup {caller}
  BY DEF StartRefresh, AuthRecord

LEMMA ClearedLemma ==
  ClearedSession \in AuthRecord /\ ClearedSession.state = "ANON"
  BY DEF ClearedSession, AuthRecord

-----------------------------------------------------------------------------
(* The handshake *)

(* Every frame that is appended or taken keeps the wire typed. *)
LEMMA Frames ==
  /\ Hello \in UpFrame /\ StrayFrame \in UpFrame
  /\ \A t \in Token : AuthRequest(t) \in UpFrame
  /\ ServerHello \in DownFrame /\ ServerHello.kind = "serverHello"
  /\ AuthResponse \in DownFrame /\ AuthResponse.kind = "authResponse"
  /\ \A frame : Error(Refusal(frame)) \in DownFrame /\ Error(Refusal(frame)).kind = "error"
<1>1. /\ Hello \in UpFrame /\ StrayFrame \in UpFrame
      /\ \A t \in Token : AuthRequest(t) \in UpFrame
  BY DEF UpFrame, Hello, StrayFrame, AuthRequest
<1>2. /\ ServerHello \in DownFrame /\ ServerHello.kind = "serverHello"
      /\ AuthResponse \in DownFrame /\ AuthResponse.kind = "authResponse"
  BY DEF DownFrame, ServerHello, AuthResponse
<1>3. ASSUME NEW frame
      PROVE  Error(Refusal(frame)) \in DownFrame /\ Error(Refusal(frame)).kind = "error"
  <2>1. Refusal(frame) \in ErrorKind
    BY DEF Refusal, ErrorKind
  <2>2. QED
    BY <2>1 DEF Error, DownFrame
<1>4. QED
  BY <1>1, <1>2, <1>3

LEMMA WireFields ==
  ASSUME Typed
  PROVE  /\ conn.up \in Seq(UpFrame) /\ conn.down \in Seq(DownFrame)
         /\ conn.handler \in {"hello", "auth", "done", "gone"}
         /\ strays \in Nat /\ strays <= MaxStrays /\ MaxStrays \in Nat
  BY RecoveryAssumption DEF Typed, ConnTyped, ConnRecord, CountersTyped, RecoveryAssumption

LEMMA TailShorter ==
  ASSUME NEW S, NEW q \in Seq(S), q # <<>>
  PROVE  /\ Tail(q) \in Seq(S) /\ Head(q) \in S /\ Len(Tail(q)) = Len(q) - 1
         /\ Len(q) \in Nat /\ Len(q) >= 1 /\ 1 \in DOMAIN q /\ q[1] = Head(q)
         /\ \A k \in DOMAIN Tail(q) :
              k \in Nat /\ k >= 1 /\ k + 1 \in DOMAIN q /\ Tail(q)[k] = q[k + 1]
  OBVIOUS

LEMMA AppendLonger ==
  ASSUME NEW S, NEW q \in Seq(S), NEW x \in S
  PROVE  /\ Append(q, x) \in Seq(S) /\ Len(Append(q, x)) = Len(q) + 1 /\ Len(q) \in Nat
         /\ \A k \in DOMAIN Append(q, x) :
              \/ k \in DOMAIN q /\ Append(q, x)[k] = q[k]
              \/ k = Len(q) + 1 /\ Append(q, x)[k] = x
  OBVIOUS

WireKept == WsTyped' /\ ConnTyped' /\ (pendingAuthToken \in Token \cup {None})' /\ WireInv'

LEMMA WireOfFresh ==
  ASSUME Typed, ws' = WsReset("CONNECTING"), conn' = Fresh, pendingAuthToken' \in Token,
         strays' = strays
  PROVE  WireKept
<1>1. /\ ws' \in WsRecord /\ ws'.state = "CONNECTING"
      /\ conn' \in ConnRecord /\ conn'.socket = "connecting" /\ conn'.handler = "hello"
      /\ conn'.up = <<>> /\ conn'.down = <<>>
  BY ResetLemma
<1>2. Len(conn'.up) = 0 /\ Len(conn'.down) = 0 /\ DOMAIN conn'.down = {}
  BY <1>1
<1>3. QED
  BY <1>1, <1>2, WireFields
  DEF WireKept, WsTyped, ConnTyped, WireInv, SocketState, Handshake

(* Disconnected: nothing is on the wire. *)
LEMMA WireOfClosed ==
  ASSUME Typed, ws' \in WsRecord, ws'.state = "DISCONNECTED",
         conn' \in {Closed, [Closed EXCEPT !.socket = "closing"]},
         pendingAuthToken' \in Token \cup {None}, strays' = strays
  PROVE  WireKept
<1>1. /\ conn' \in ConnRecord /\ conn'.socket \in {"none", "closing"} /\ conn'.handler = "gone"
      /\ conn'.up = <<>> /\ conn'.down = <<>>
  BY ResetLemma DEF ConnRecord
<1>2. Len(conn'.up) = 0 /\ Len(conn'.down) = 0 /\ DOMAIN conn'.down = {}
  BY <1>1
<1>3. QED
  BY <1>1, <1>2, WireFields
  DEF WireKept, WsTyped, ConnTyped, WireInv, SocketState, Handshake

LEMMA WireOfServer ==
  ASSUME Typed, WireInv, ServerReceives
  PROVE  WireKept
<1> DEFINE frame == Head(conn.up)
           rest == [conn EXCEPT !.up = Tail(@)]
<1>1. /\ conn.up # <<>> /\ conn.handler # "gone"
      /\ UNCHANGED <<ws, pendingAuthToken, strays>>
  BY DEF ServerReceives, counters
<1>2. /\ Tail(conn.up) \in Seq(UpFrame) /\ Len(Tail(conn.up)) <= Len(conn.up)
      /\ Len(conn.up) \in Nat /\ Len(Tail(conn.up)) \in Nat
  BY <1>1, WireFields, TailShorter
<1>3. /\ Append(conn.down, ServerHello) \in Seq(DownFrame)
      /\ Len(Append(conn.down, ServerHello)) = Len(conn.down) + 1
      /\ Append(conn.down, AuthResponse) \in Seq(DownFrame)
      /\ Append(conn.down, Error(Refusal(frame))) \in Seq(DownFrame)
  BY WireFields, AppendLonger, Frames
<1>4. rest.up = Tail(conn.up) /\ rest.down = conn.down
  BY DEF Typed, ConnTyped, ConnRecord
<1>5. \/ /\ conn.handler = "hello"
         /\ conn' = [rest EXCEPT !.handler = "auth", !.down = Append(@, ServerHello)]
      \/ conn.handler = "done" /\ conn' = rest
      \/ /\ conn.handler = "auth"
         /\ conn' = [rest EXCEPT !.handler = "done", !.down = Append(@, AuthResponse)]
      \/ /\ conn.handler = "auth"
         /\ \E told \in BOOLEAN :
              conn' = [rest EXCEPT !.handler = "gone", !.up = <<>>,
                         !.down = IF told THEN Append(@, Error(Refusal(frame))) ELSE @]
  BY WireFields DEF ServerReceives
<1>6. /\ conn' \in ConnRecord /\ conn'.socket = conn.socket
      /\ conn'.up \in {Tail(conn.up), <<>>}
      /\ conn'.handler # "hello"
      /\ \/ /\ conn.handler = "hello" /\ conn'.handler = "auth"
            /\ conn'.down = Append(conn.down, ServerHello)
         \/ conn.handler = "done" /\ conn'.down = conn.down /\ conn'.handler = "done"
         \/ /\ conn.handler = "auth" /\ conn'.handler \in {"done", "gone"}
            /\ \/ conn'.down = conn.down
               \/ conn'.down = Append(conn.down, AuthResponse)
               \/ conn'.down = Append(conn.down, Error(Refusal(frame)))
  <2> HIDE DEF frame
  <2>1. rest \in ConnRecord /\ rest.socket = conn.socket /\ rest.handler = conn.handler
    BY <1>2 DEF Typed, ConnTyped, ConnRecord
  <2> HIDE DEF rest
  <2>2. <<>> \in Seq(UpFrame)
    OBVIOUS
  <2>3. CASE /\ conn.handler = "hello"
             /\ conn' = [rest EXCEPT !.handler = "auth", !.down = Append(@, ServerHello)]
    BY <1>2, <1>3, <1>4, <2>1, <2>3 DEF ConnRecord
  <2>4. CASE conn.handler = "done" /\ conn' = rest
    BY <1>4, <2>1, <2>4
  <2>5. CASE /\ conn.handler = "auth"
             /\ conn' = [rest EXCEPT !.handler = "done", !.down = Append(@, AuthResponse)]
    BY <1>2, <1>3, <1>4, <2>1, <2>5 DEF ConnRecord
  <2>6. ASSUME conn.handler = "auth", NEW told \in BOOLEAN,
               conn' = [rest EXCEPT !.handler = "gone", !.up = <<>>,
                          !.down = IF told THEN Append(@, Error(Refusal(frame))) ELSE @]
        PROVE  /\ conn' \in ConnRecord /\ conn'.socket = rest.socket /\ conn'.up = <<>>
               /\ conn'.handler = "gone"
               /\ \/ conn'.down = rest.down
                  \/ conn'.down = Append(rest.down, Error(Refusal(frame)))
    <3>1. PICK d \in Seq(DownFrame) :
            /\ d = IF told THEN Append(rest.down, Error(Refusal(frame))) ELSE rest.down
      BY <1>3, <1>4, WireFields
    <3>2. conn' = [rest EXCEPT !.handler = "gone", !.up = <<>>, !.down = d]
      BY <2>6, <3>1
    <3>3. QED
      BY <2>1, <2>2, <3>1, <3>2 DEF ConnRecord
  <2>7. QED
    BY <1>4, <1>5, <2>1, <2>3, <2>4, <2>5, <2>6
<1>7. Len(conn'.down) <= 2 /\ (conn'.handler = "auth" => Len(conn'.down) <= 1)
  <2>1. CASE conn'.down = conn.down /\ conn'.handler # "auth"
    BY <2>1 DEF WireInv, Handshake
  <2>2. CASE conn.handler = "hello" /\ conn'.down = Append(conn.down, ServerHello)
    <3>1. Len(conn.down) = 0
      BY <2>2 DEF WireInv, Handshake
    <3>2. QED
      BY <1>3, <2>2, <3>1
  <2>3. CASE conn.handler = "auth" /\ conn'.handler # "auth" /\ conn'.down = Append(conn.down, AuthResponse)
    BY <2>3, WireFields, AppendLonger, Frames DEF WireInv, Handshake
  <2>4. CASE /\ conn.handler = "auth" /\ conn'.handler # "auth"
             /\ conn'.down = Append(conn.down, Error(Refusal(frame)))
    BY <2>4, WireFields, AppendLonger, Frames DEF WireInv, Handshake
  <2>5. QED
    BY <1>6, <2>1, <2>2, <2>3, <2>4
<1>8. ASSUME NEW k \in DOMAIN conn'.down, conn'.down[k].kind = "serverHello"
      PROVE  k = 1 /\ ws.state = "HELLO_SENT"
  <2>1. CASE conn'.down = conn.down
    BY <1>8, <2>1 DEF WireInv, Handshake
  <2>2. CASE conn.handler = "hello" /\ conn'.down = Append(conn.down, ServerHello)
    <3>1. conn.down = <<>> /\ ws.state \in {"CONNECTING", "HELLO_SENT"} /\ ws.state # "CONNECTING"
      BY <1>1, <2>2 DEF WireInv, Handshake
    <3>2. QED
      BY <1>8, <2>2, <3>1
  <2>3. ASSUME NEW x \in DownFrame, x.kind # "serverHello", conn'.down = Append(conn.down, x)
        PROVE  k = 1 /\ ws.state = "HELLO_SENT"
    <3>1. k \in DOMAIN conn.down /\ conn.down[k] = conn'.down[k]
      BY <1>8, <2>3, WireFields, AppendLonger
    <3>2. QED
      BY <1>8, <3>1 DEF WireInv, Handshake
  <2>4. QED
    BY <1>6, <2>1, <2>2, <2>3, Frames
<1>9. Len(conn'.up) <= Len(conn.up) /\ Len(conn'.up) \in Nat
      /\ (conn.up = <<>> => conn'.up = <<>>)
  BY <1>1, <1>2, <1>6
<1>10. SocketState'
  BY <1>1, <1>6 DEF WireInv, SocketState
<1>11. Handshake'
  <2>1. ws.state # "CONNECTING"
    BY <1>1 DEF WireInv, Handshake
  <2>2. ws.state \notin {"AUTH_SENT", "AUTH_COMPLETE"} => Len(conn'.up) <= 1 + strays
    BY <1>2, <1>9, WireFields DEF WireInv, Handshake
  <2>3. Len(conn'.up) <= 2 + strays
    BY <1>2, <1>9, WireFields DEF WireInv, Handshake
  <2>4. QED
    BY <1>1, <1>6, <1>7, <1>8, <2>1, <2>2, <2>3 DEF WireInv, Handshake
<1>12. QED
  BY <1>1, <1>6, <1>10, <1>11 DEF WireKept, WireInv, Typed, WsTyped, ConnTyped, TokensTyped

LEMMA WireOfOpening ==
  ASSUME Typed, WireInv, SocketOpens
  PROVE  WireKept
<1>1. /\ conn.socket = "connecting" /\ ws.state = "CONNECTING"
      /\ UNCHANGED <<pendingAuthToken, strays>>
  BY DEF SocketOpens, counters, WireInv, SocketState
<1>2. <<Hello>> \in Seq(UpFrame) /\ Len(<<Hello>>) = 1
  BY Frames
<1>3. /\ conn' \in ConnRecord /\ conn'.socket = "open" /\ conn'.up = <<Hello>>
      /\ conn'.down = conn.down /\ conn'.handler = conn.handler
  BY <1>2 DEF SocketOpens, Typed, ConnTyped, ConnRecord
<1>4. ws' \in WsRecord /\ ws'.state = "HELLO_SENT"
  BY DEF SocketOpens, Typed, WsTyped, WsRecord
<1>5. Len(conn'.up) <= 1 + strays
  BY <1>2, <1>3, WireFields
<1>6. Len(conn'.up) <= 2 + strays
  BY <1>2, <1>3, WireFields
<1>7. QED
  BY <1>1, <1>3, <1>4, <1>5, <1>6
  DEF WireKept, WireInv, SocketState, Handshake, Typed, WsTyped, ConnTyped, TokensTyped

LEMMA WireOfHello ==
  ASSUME Typed, WireInv, ReceiveHello
  PROVE  WireKept
<1>1. /\ conn.socket = "open" /\ conn.down # <<>> /\ Head(conn.down).kind = "serverHello"
      /\ UNCHANGED strays /\ pendingAuthToken' = None
  BY DEF ReceiveHello, counters
<1>2. /\ Tail(conn.down) \in Seq(DownFrame) /\ Len(Tail(conn.down)) = Len(conn.down) - 1
      /\ Len(conn.down) \in Nat /\ Len(conn.down) >= 1
      /\ 1 \in DOMAIN conn.down /\ conn.down[1] = Head(conn.down)
      /\ \A k \in DOMAIN Tail(conn.down) :
           k >= 1 /\ k \in Nat /\ k + 1 \in DOMAIN conn.down /\ Tail(conn.down)[k] = conn.down[k + 1]
  BY <1>1, WireFields, TailShorter
<1>3. ws.state = "HELLO_SENT" /\ pendingAuthToken \in Token /\ Len(conn.up) <= 1 + strays
  BY <1>1, <1>2 DEF WireInv, Handshake
<1>4. /\ Append(conn.up, AuthRequest(pendingAuthToken)) \in Seq(UpFrame)
      /\ Len(Append(conn.up, AuthRequest(pendingAuthToken))) = Len(conn.up) + 1
      /\ Len(conn.up) \in Nat
  BY <1>3, Frames, WireFields, AppendLonger
<1>5. /\ conn' \in ConnRecord /\ conn'.socket = "open" /\ conn'.down = Tail(conn.down)
      /\ conn'.up = Append(conn.up, AuthRequest(pendingAuthToken))
      /\ conn'.handler = conn.handler
  <2>1. conn' = [conn EXCEPT !.down = Tail(conn.down),
                             !.up = Append(conn.up, AuthRequest(pendingAuthToken))]
    BY DEF ReceiveHello, Typed, ConnTyped, ConnRecord
  <2>2. QED
    BY <1>1, <1>2, <1>4, <2>1 DEF Typed, ConnTyped, ConnRecord
<1>6. ws' \in WsRecord /\ ws'.state = "AUTH_SENT"
  BY DEF ReceiveHello, Typed, WsTyped, WsRecord
<1>7. /\ Len(conn'.down) <= 2 /\ (conn.handler = "auth" => Len(conn'.down) <= 1)
      /\ conn.handler # "hello"
  BY <1>1, <1>2, <1>5 DEF WireInv, Handshake
<1>8. Len(conn'.up) <= 2 + strays
  BY <1>3, <1>4, <1>5, WireFields
<1>9. \A k \in DOMAIN conn'.down : conn'.down[k].kind # "serverHello"
  <2>1. SUFFICES ASSUME NEW k \in DOMAIN Tail(conn.down), Tail(conn.down)[k].kind = "serverHello"
                 PROVE  FALSE
    BY <1>5
  <2>2. k + 1 = 1
    BY <1>2, <2>1 DEF WireInv, Handshake
  <2>3. QED
    BY <1>2, <2>2
<1>10. QED
  BY <1>1, <1>5, <1>6, <1>7, <1>8, <1>9
  DEF WireKept, WireInv, SocketState, Handshake, WsTyped, ConnTyped

LEMMA WireOfAuthResponse ==
  ASSUME Typed, WireInv, ReceiveAuthResponse
  PROVE  WireKept
<1>1. /\ conn.socket = "open" /\ conn.down # <<>> /\ Head(conn.down).kind = "authResponse"
      /\ UNCHANGED <<strays, pendingAuthToken>>
  BY DEF ReceiveAuthResponse, counters
<1>2. /\ Tail(conn.down) \in Seq(DownFrame) /\ Len(Tail(conn.down)) = Len(conn.down) - 1
      /\ Len(conn.down) \in Nat /\ Len(conn.down) >= 1
      /\ \A k \in DOMAIN Tail(conn.down) :
           k >= 1 /\ k \in Nat /\ k + 1 \in DOMAIN conn.down /\ Tail(conn.down)[k] = conn.down[k + 1]
  BY <1>1, WireFields, TailShorter
<1>3. /\ conn' \in ConnRecord /\ conn'.socket = "open" /\ conn'.down = Tail(conn.down)
      /\ conn'.up = conn.up /\ conn'.handler = conn.handler
  BY <1>1, <1>2 DEF ReceiveAuthResponse, Typed, ConnTyped, ConnRecord
<1>4. ws' \in WsRecord /\ ws'.state = "AUTH_COMPLETE"
  BY DEF ReceiveAuthResponse, Typed, WsTyped, WsRecord
<1>5. /\ Len(conn'.down) <= 2 /\ (conn.handler = "auth" => Len(conn'.down) <= 1)
      /\ conn.handler # "hello"
  BY <1>1, <1>2, <1>3 DEF WireInv, Handshake
<1>6. \A k \in DOMAIN conn'.down : conn'.down[k].kind # "serverHello"
  <2>1. SUFFICES ASSUME NEW k \in DOMAIN Tail(conn.down), Tail(conn.down)[k].kind = "serverHello"
                 PROVE  FALSE
    BY <1>3
  <2>2. k + 1 = 1
    BY <1>2, <2>1 DEF WireInv, Handshake
  <2>3. QED
    BY <1>2, <2>2
<1>7. QED
  BY <1>1, <1>3, <1>4, <1>5, <1>6
  DEF WireKept, WireInv, SocketState, Handshake, WsTyped, ConnTyped, Typed, TokensTyped

LEMMA WireOfStray ==
  ASSUME Typed, WireInv, SendStray
  PROVE  WireKept
<1>1. strays' = strays + 1 /\ strays \in Nat /\ UNCHANGED pendingAuthToken
  BY WireFields DEF SendStray
<1>2. CASE conn.socket = "open"
  <2>1. /\ Append(conn.up, StrayFrame) \in Seq(UpFrame)
        /\ Len(Append(conn.up, StrayFrame)) = Len(conn.up) + 1 /\ Len(conn.up) \in Nat
    BY Frames, WireFields, AppendLonger
  <2>2. /\ conn' \in ConnRecord /\ conn'.socket = "open" /\ conn'.down = conn.down
        /\ conn'.up = Append(conn.up, StrayFrame) /\ conn'.handler = conn.handler /\ ws' = ws
    <3>1. conn' = [conn EXCEPT !.up = Append(conn.up, StrayFrame)] /\ ws' = ws
      BY <1>2 DEF SendStray, Typed, ConnTyped, ConnRecord
    <3>2. QED
      BY <1>2, <2>1, <3>1 DEF Typed, ConnTyped, ConnRecord
  <2>3. /\ ws.state \notin {"AUTH_SENT", "AUTH_COMPLETE"} => Len(conn'.up) <= 1 + strays'
        /\ Len(conn'.up) <= 2 + strays'
    BY <1>1, <2>1, <2>2 DEF WireInv, Handshake
  <2>4. ws.state # "CONNECTING"
    BY <1>2 DEF WireInv, SocketState
  <2>5. QED
    BY <1>1, <1>2, <2>2, <2>3, <2>4
    DEF WireKept, WireInv, SocketState, Handshake, WsTyped, ConnTyped, Typed, TokensTyped
<1>3. CASE conn.socket # "open"
  <2>1. ws' \in WsRecord /\ ws'.state = ws.state /\ conn' = conn
    BY <1>3 DEF SendStray, Typed, WsTyped, WsRecord, ErrorKind
  <2>2. /\ ws.state \notin {"AUTH_SENT", "AUTH_COMPLETE"} => Len(conn'.up) <= 1 + strays'
        /\ Len(conn'.up) <= 2 + strays'
    <3>1. Len(conn.up) \in Nat
      BY WireFields
    <3>2. QED
      BY <1>1, <2>1, <3>1 DEF WireInv, Handshake
  <2>3. QED
    BY <1>1, <2>1, <2>2
    DEF WireKept, WireInv, SocketState, Handshake, WsTyped, ConnTyped, Typed, TokensTyped
<1>4. QED
  BY <1>2, <1>3

-----------------------------------------------------------------------------
(* What every step keeps *)

Kept == WireKept /\ (auth \in AuthRecord)' /\ CallsTyped' /\ CountersTyped' /\ DrivenInv'

LEMMA KeptIsInv ==
  ASSUME Kept
  PROVE  Typed' /\ WireInv' /\ DrivenInv'
  BY DEF Kept, WireKept, Typed, TokensTyped

Others == <<auth, orch, attempt, superseded, refreshing, server>>

(* Steps of the socket and of the server's handler. *)
LEMMA HandshakeStep ==
  ASSUME Typed, WireInv, DrivenInv,
         \/ SocketOpens \/ ServerReceives \/ ReceiveHello \/ ReceiveAuthResponse \/ SendStray
  PROVE  Kept
<1>1. WireKept
  BY WireOfOpening, WireOfServer, WireOfHello, WireOfAuthResponse, WireOfStray
<1>2. UNCHANGED Others
  BY DEF SocketOpens, ServerReceives, ReceiveHello, ReceiveAuthResponse, SendStray, Others
<1>3. /\ ~PostAuth' => ~PostAuth
      /\ ws'.errorKind = ws.errorKind \/ ws'.errorKind = "TRANSPORT"
      /\ ws.state = "DISCONNECTED" => ws'.state = "DISCONNECTED"
  <2>1. CASE SocketOpens
    BY <2>1 DEF SocketOpens, Typed, WsTyped, WsRecord, PostAuth, WireInv, SocketState
  <2>2. CASE ServerReceives
    BY <2>2 DEF ServerReceives, PostAuth
  <2>3. CASE ReceiveHello
    <3>1. 1 \in DOMAIN conn.down /\ conn.down[1].kind = "serverHello"
      BY <2>3, WireFields, TailShorter DEF ReceiveHello
    <3>2. ws.state = "HELLO_SENT"
      BY <3>1 DEF WireInv, Handshake
    <3>3. QED
      BY <2>3, <3>2 DEF ReceiveHello, Typed, WsTyped, WsRecord, PostAuth
  <2>4. CASE ReceiveAuthResponse
    BY <2>4 DEF ReceiveAuthResponse, Typed, WsTyped, WsRecord, PostAuth, WireInv, SocketState
  <2>5. CASE SendStray
    BY <2>5 DEF SendStray, Typed, WsTyped, WsRecord, PostAuth
  <2>6. QED
    BY <2>1, <2>2, <2>3, <2>4, <2>5
<1>4. strays' \in 0..MaxStrays
  <2>1. strays' = strays \/ (strays < MaxStrays /\ strays' = strays + 1)
    BY DEF SocketOpens, ServerReceives, ReceiveHello, ReceiveAuthResponse, SendStray, counters
  <2>2. QED
    BY <2>1, WireFields
<1>5. DrivenInv'
  BY <1>2, <1>3 DEF DrivenInv, Holds, Driven, Untouched, Others
<1>6. QED
  BY <1>1, <1>2, <1>4, <1>5 DEF Kept, Typed, TokensTyped, CallsTyped, CountersTyped, Others

(* The connection ends, and perhaps the drop handler sets the timer.           *)
LEMMA DropStep ==
  ASSUME Typed, WireInv, DrivenInv, NEW kind \in ErrorKind \cup {None},
         ws'.errorKind = kind, ws' \in WsRecord, ws'.state = "DISCONNECTED", conn' = Closed,
         kind \in {ws.errorKind, "TRANSPORT"},
         orch' = (IF kind = "UNAUTHENTICATED" THEN orch ELSE OnTransportDrop(orch)),
         UNCHANGED <<auth, attempt, superseded, refreshing, server, strays, pendingAuthToken>>
  PROVE  Kept
<1>1. WireKept
  BY WireOfClosed DEF Typed, TokensTyped
<1>2. orch \in OrchRecord
  BY DEF Typed, CallsTyped
<1>3. /\ orch' \in OrchRecord /\ orch'.stopped = orch.stopped
      /\ orch'.dropHandler = orch.dropHandler /\ orch'.recoveryTimer = orch.recoveryTimer
      /\ orch.timer => orch'.timer
      /\ ~orch.dropHandler => orch' = orch
  BY <1>2, DropLemma
<1>4. ASSUME Holds' PROVE Driven'
  <2>1. Holds
    BY <1>3, <1>4 DEF Holds
  <2>2. Driven => Driven'
    BY <1>3 DEF Driven
  <2>3. CASE ~PostAuth
    BY <2>1, <2>2, <2>3 DEF DrivenInv
  <2>4. CASE PostAuth
    <3>1. ws.errorKind \in {None, "TRANSPORT"} /\ orch.dropHandler
      BY <2>1, <2>4 DEF DrivenInv, Untouched, PostAuth, Holds
    <3>2. kind # "UNAUTHENTICATED"
      BY <3>1, NoneAssumption DEF ErrorKind
    <3>3. CASE orch.reconnecting
      BY <2>1, <2>2, <3>3 DEF DrivenInv
    <3>4. CASE ~orch.reconnecting
      BY <1>2, <2>1, <3>1, <3>2, <3>4, DropLemma DEF Holds, Driven
    <3>5. QED
      BY <3>3, <3>4
  <2>5. QED
    BY <2>3, <2>4
<1>5. ws'.errorKind \notin {None, "TRANSPORT"} /\ Holds' =>
        orch'.timer \/ orch'.recoveryTimer \/ refreshing' # {}
  BY <1>3 DEF DrivenInv, Holds
<1>6. ~orch'.dropHandler /\ ~orch'.stopped => Untouched'
  BY <1>3 DEF DrivenInv, Untouched
<1>7. DrivenInv'
  BY <1>4, <1>5, <1>6 DEF DrivenInv
<1>8. QED
  BY <1>1, <1>3, <1>7 DEF Kept, Typed, TokensTyped, CallsTyped, CountersTyped

LEMMA CloseStep ==
  ASSUME Typed, WireInv, DrivenInv,
         ServerCloses \/ ClosingEnds \/ ConnectionBreaks \/ InvalidateTransport
  PROVE  Kept
<1>1. ws.errorKind \in ErrorKind \cup {None} /\ "TRANSPORT" \in ErrorKind
  BY DEF Typed, WsTyped, WsRecord, ErrorKind
<1>2. ASSUME NEW kind \in {ws.errorKind, "TRANSPORT"}, SocketCloses(kind), strays' = strays
      PROVE  Kept
  <2>1. ws' \in WsRecord /\ ws'.errorKind = kind /\ ws'.state = "DISCONNECTED"
    BY <1>1, <1>2 DEF SocketCloses, Typed, WsTyped, WsRecord
  <2>2. QED
    BY <1>1, <1>2, <2>1, DropStep DEF SocketCloses
<1>3. CASE ServerCloses \/ ClosingEnds
  BY <1>2, <1>3 DEF ServerCloses, ClosingEnds, counters
<1>4. CASE ConnectionBreaks
  BY <1>2, <1>4 DEF ConnectionBreaks
<1>5. CASE InvalidateTransport
  <2>1. ws' \in WsRecord /\ ws'.errorKind = "TRANSPORT" /\ ws'.state = "DISCONNECTED"
    BY <1>1, <1>5 DEF InvalidateTransport, Typed, WsTyped, WsRecord
  <2>2. QED
    BY <1>1, <1>5, <2>1, DropStep DEF InvalidateTransport
<1>6. QED
  BY <1>3, <1>4, <1>5

(* A new attempt, or the end of one that is stopped: nobody is stranded.       *)
LEMMA AttemptStep ==
  ASSUME Typed, DrivenInv, NEW caller \in Caller, NEW o \in OrchRecord, NEW token \in Token,
         Connect(caller, token, o),
         caller \in FromReconnect =>
           /\ o.stopped = orch.stopped /\ o.dropHandler = orch.dropHandler
           /\ orch.stopped \/ ~Untouched,
         auth' \in AuthRecord, refreshing' \subseteq Caller, strays' = strays,
         server' \in {"active", "revoked", "blocked"}
  PROVE  Kept
<1>1. /\ ws' = WsReset("CONNECTING") /\ conn' = Fresh /\ pendingAuthToken' = token
      /\ orch' \in OrchRecord /\ attempt' = caller /\ attempt' # None
      /\ superseded' \subseteq Caller
      /\ \/ orch'.dropHandler
         \/ /\ caller \in FromReconnect
            /\ orch'.stopped = o.stopped /\ orch'.dropHandler = o.dropHandler
  BY ConnectLemma DEF Typed
<1>2. WireKept
  BY <1>1, WireOfFresh
<1>3. ws'.errorKind = None
  BY <1>1, ResetLemma
<1>4. orch'.dropHandler \/ orch'.stopped
  BY <1>1 DEF DrivenInv
<1>5. DrivenInv'
  BY <1>1, <1>3, <1>4 DEF DrivenInv, Driven
<1>6. QED
  BY <1>1, <1>2, <1>5 DEF Kept, Typed, CallsTyped, CountersTyped

LEMMA LogoutStep ==
  ASSUME Typed, NEW o \in OrchRecord, BeginLogout(o), auth' \in AuthRecord,
         refreshing' \subseteq Caller, strays' = strays,
         UNCHANGED <<server, attempt, superseded>>
  PROVE  Kept
<1>1. /\ orch' \in OrchRecord /\ orch'.stopped
      /\ ws' = WsReset("DISCONNECTED") /\ conn' = Closed /\ pendingAuthToken' = None
  BY LogoutLemma
<1>2. ws' \in WsRecord /\ ws'.state = "DISCONNECTED" /\ ws'.errorKind = None
  BY <1>1, ResetLemma
<1>3. WireKept
  BY <1>1, <1>2, WireOfClosed
<1>4. DrivenInv'
  BY <1>1, <1>2 DEF DrivenInv, Holds
<1>5. QED
  BY <1>1, <1>3, <1>4 DEF Kept, Typed, CallsTyped, CountersTyped

LEMMA LoopStep ==
  ASSUME Typed, WireInv, UNCHANGED <<ws, conn, pendingAuthToken, strays>>,
         auth' \in AuthRecord, CallsTyped', server' \in {"active", "revoked", "blocked"},
         DrivenInv'
  PROVE  Kept
<1>1. WireInv'
  BY DEF WireInv, SocketState, Handshake
<1>2. QED
  BY <1>1 DEF Kept, WireKept, Typed, WsTyped, ConnTyped, TokensTyped, CountersTyped

(* What drives the client besides the attempt. *)
Waiting == orch.timer \/ orch.recoveryTimer \/ refreshing # {}

LEMMA AfterFailureLemma ==
  ASSUME Typed, NEW caller \in Caller, NEW o \in OrchRecord,
         o.stopped = orch.stopped, o.dropHandler = orch.dropHandler,
         AfterFailure(caller, o)
  PROVE  /\ orch' \in OrchRecord /\ orch'.stopped = orch.stopped
         /\ orch'.dropHandler = orch.dropHandler
         /\ auth' \in AuthRecord /\ refreshing' \subseteq Caller
         /\ auth' = auth \/ refreshing' # {}
         /\ /\ ~orch.stopped /\ ~PostAuth
            /\ o.timer \/ o.recoveryTimer \/ refreshing # {} \/ caller \in FromReconnect
            => Waiting'
         /\ PostAuth /\ ~orch.stopped /\ ~o.reconnecting => orch'.timer \/ ~orch'.reconnecting
<1>1. auth \in AuthRecord /\ refreshing \subseteq Caller
  BY DEF Typed, TokensTyped, CallsTyped
<1> DEFINE dropped == caller = "reconnect" /\ ~o.stopped /\ ~o.dropRefreshAttempted /\ AuthStageDrop
<1>2. CASE dropped
  <2>1. orch' = [o EXCEPT !.dropRefreshAttempted = TRUE] /\ StartRefresh("drop")
    BY <1>2 DEF AfterFailure
  <2>2. /\ orch' \in OrchRecord /\ orch'.stopped = orch.stopped
        /\ orch'.dropHandler = orch.dropHandler
    BY <2>1 DEF OrchRecord
  <2>3. auth' \in AuthRecord /\ refreshing' \subseteq Caller /\ "drop" \in refreshing'
    BY <1>1, <2>1, StartRefreshLemma DEF Caller
  <2>4. ~PostAuth
    BY <1>2 DEF AuthStageDrop, PostAuth
  <2>5. QED
    BY <2>2, <2>3, <2>4 DEF Waiting
<1>3. CASE ~dropped
  <2>1. /\ UNCHANGED <<auth, refreshing>>
        /\ orch' = CASE auth.state = "AUTH_DEGRADED" /\ caller \in {"authFail", "refreshed"} -> Degrade(o)
                     [] auth.state = "AUTH_DEGRADED" /\ caller \in {"restore", "recover"} -> ScheduleRecovery(o)
                     [] OTHER -> IF caller \in FromReconnect THEN Schedule(o) ELSE o
    BY <1>3 DEF AfterFailure
  <2>2. \/ orch' = Degrade(o) \/ orch' = ScheduleRecovery(o) \/ orch' = Schedule(o)
        \/ caller \notin FromReconnect /\ orch' = o
    BY <2>1
  <2>3. CASE orch' = Degrade(o)
    BY <1>1, <2>1, <2>3, RecoveryLemma DEF Waiting
  <2>4. CASE orch' = ScheduleRecovery(o)
    BY <1>1, <2>1, <2>4, RecoveryLemma DEF Waiting
  <2>5. CASE orch' = Schedule(o)
    BY <1>1, <2>1, <2>5, ScheduleLemma DEF Waiting
  <2>6. CASE caller \notin FromReconnect /\ orch' = o
    BY <1>1, <2>1, <2>6 DEF Waiting
  <2>7. QED
    BY <2>2, <2>3, <2>4, <2>5, <2>6
<1>4. QED
  BY <1>2, <1>3

LEMMA PollStep ==
  ASSUME Typed, WireInv, DrivenInv, Poll
  PROVE  Kept
<1>1. /\ orch \in OrchRecord /\ auth \in AuthRecord /\ refreshing \subseteq Caller
      /\ superseded \subseteq Caller /\ attempt \in Caller \cup {None}
      /\ server \in {"active", "revoked", "blocked"}
  BY DEF Typed, TokensTyped, CallsTyped, CountersTyped
<1>2. CASE PollSucceeds
  <2>1. /\ PostAuth /\ attempt # None /\ attempt' = None /\ orch' = StopReconnect(orch)
        /\ UNCHANGED <<server, ws, conn, pendingAuthToken, auth, superseded, refreshing, strays>>
    BY <1>2 DEF PollSucceeds, counters
  <2>2. /\ orch' \in OrchRecord /\ orch'.stopped = orch.stopped
        /\ orch'.dropHandler = orch.dropHandler /\ ~orch'.reconnecting
    BY <1>1, <2>1, StopReconnectLemma
  <2>3. DrivenInv'
    BY <2>1, <2>2 DEF DrivenInv, Holds, Untouched, PostAuth
  <2>4. CallsTyped'
    BY <1>1, <2>1, <2>2 DEF CallsTyped
  <2>5. QED
    BY <1>1, <2>1, <2>3, <2>4, LoopStep
<1>3. CASE PollFails
  <2> DEFINE recover == attempt \notin FromReconnect /\ ws.errorKind \in {None, "TRANSPORT"}
             o == IF recover THEN Schedule(orch) ELSE orch
  <2>1. /\ attempt # None /\ attempt' = None /\ AfterFailure(attempt, o)
        /\ UNCHANGED <<server, ws, conn, pendingAuthToken, superseded, strays>>
    BY <1>3 DEF PollFails
  <2>2. ~PostAuth
    BY <1>3 DEF PollFails, PostAuth, Handshaking
  <2>3. /\ o \in OrchRecord /\ o.stopped = orch.stopped /\ o.dropHandler = orch.dropHandler
        /\ recover /\ ~orch.stopped => o.timer
    BY <1>1, <2>2, ScheduleLemma
  <2>4. ~recover => o = orch
    OBVIOUS
  <2> HIDE DEF o
  <2>5. /\ orch' \in OrchRecord /\ orch'.stopped = orch.stopped
        /\ orch'.dropHandler = orch.dropHandler
        /\ auth' \in AuthRecord /\ refreshing' \subseteq Caller
        /\ auth' = auth \/ refreshing' # {}
        /\ /\ ~orch.stopped /\ ~PostAuth
           /\ o.timer \/ o.recoveryTimer \/ refreshing # {} \/ attempt \in FromReconnect
           => Waiting'
    BY <1>1, <2>1, <2>3, AfterFailureLemma
  <2>6. Holds' => Waiting'
    <3>1. SUFFICES ASSUME Holds', auth' = auth PROVE Waiting'
      BY <2>5 DEF Waiting
    <3>2. Holds /\ ~orch.stopped
      BY <2>5, <3>1 DEF Holds
    <3>3. CASE recover
      BY <2>2, <2>3, <2>5, <3>2, <3>3
    <3>4. CASE attempt \in FromReconnect
      BY <2>2, <2>5, <3>2, <3>4
    <3>5. CASE ws.errorKind \notin {None, "TRANSPORT"}
      <4>1. orch.timer \/ orch.recoveryTimer \/ refreshing # {}
        BY <3>2, <3>5 DEF DrivenInv
      <4>2. QED
        BY <2>2, <2>4, <2>5, <3>2, <3>5, <4>1
    <3>6. QED
      BY <3>3, <3>4, <3>5
  <2>7. DrivenInv'
    BY <2>1, <2>5, <2>6 DEF DrivenInv, Driven, Waiting, Untouched
  <2>8. CallsTyped'
    BY <1>1, <2>1, <2>5 DEF CallsTyped
  <2>9. QED
    BY <1>1, <2>1, <2>5, <2>7, <2>8, LoopStep
<1>4. ASSUME NEW c \in Caller, PollSuperseded(c) PROVE Kept
  <2> DEFINE o == StopIfHealthy(orch)
  <2>1. /\ c \in superseded /\ superseded' = superseded \ {c} /\ AfterFailure(c, o)
        /\ UNCHANGED <<server, ws, conn, pendingAuthToken, attempt, strays>>
    BY <1>4 DEF PollSuperseded, counters
  <2>2. /\ o \in OrchRecord /\ o.stopped = orch.stopped /\ o.dropHandler = orch.dropHandler
        /\ ~PostAuth => o = orch
        /\ PostAuth => ~o.reconnecting
    BY <1>1, StopReconnectLemma DEF StopIfHealthy
  <2> HIDE DEF o
  <2>3. /\ orch' \in OrchRecord /\ orch'.stopped = orch.stopped
        /\ orch'.dropHandler = orch.dropHandler
        /\ auth' \in AuthRecord /\ refreshing' \subseteq Caller
        /\ auth' = auth \/ refreshing' # {}
        /\ /\ ~orch.stopped /\ ~PostAuth
           /\ o.timer \/ o.recoveryTimer \/ refreshing # {} \/ c \in FromReconnect
           => Waiting'
        /\ PostAuth /\ ~orch.stopped /\ ~o.reconnecting => orch'.timer \/ ~orch'.reconnecting
    BY <1>1, <2>1, <2>2, AfterFailureLemma
  <2>4. Holds' => Holds \/ Waiting'
    BY <2>3 DEF Holds, Waiting
  <2>5. CASE ~PostAuth
    <3>1. Holds /\ (orch.timer \/ orch.recoveryTimer \/ refreshing # {}) => Waiting'
      BY <2>2, <2>3, <2>5 DEF Holds
    <3>2. Holds => Driven
      BY <2>5 DEF DrivenInv
    <3>3. Holds' => Driven'
      BY <2>1, <2>4, <3>1, <3>2 DEF Driven, Waiting
    <3>4. ws.errorKind \notin {None, "TRANSPORT"} =>
            ws.state = "DISCONNECTED" /\ (Holds' => Waiting')
      BY <2>4, <3>1 DEF DrivenInv
    <3>5. ~orch'.dropHandler /\ ~orch'.stopped => Untouched'
      BY <2>1, <2>3 DEF DrivenInv, Untouched
    <3>6. QED
      BY <1>1, <2>1, <2>3, <3>3, <3>4, <3>5, LoopStep DEF DrivenInv, Waiting, CallsTyped
  <2>6. CASE PostAuth
    <3>1. ws.errorKind \in {None, "TRANSPORT"}
      BY <2>6 DEF DrivenInv, PostAuth
    <3>2. Holds' /\ orch'.reconnecting => Driven'
      BY <2>2, <2>3, <2>6 DEF Holds, Driven
    <3>3. ~orch'.dropHandler /\ ~orch'.stopped => Untouched'
      BY <2>1, <2>3 DEF DrivenInv, Untouched
    <3>4. PostAuth'
      BY <2>1, <2>6 DEF PostAuth
    <3>5. QED
      BY <1>1, <2>1, <2>3, <3>1, <3>2, <3>3, <3>4, LoopStep DEF DrivenInv, CallsTyped
  <2>7. QED
    BY <2>5, <2>6
<1>5. QED
  BY <1>2, <1>3, <1>4 DEF Poll

(* Steps of the loop after which something still waits to connect.            *)
LEMMA WaitingStep ==
  ASSUME Typed, WireInv, DrivenInv,
         UNCHANGED <<ws, conn, pendingAuthToken, attempt, superseded, server, strays>>,
         orch' \in OrchRecord, orch'.stopped = orch.stopped, orch'.dropHandler = orch.dropHandler,
         auth' \in AuthRecord, refreshing' \subseteq Caller,
         Holds' => Waiting',
         ~orch.dropHandler /\ ~orch.stopped =>
           ~orch'.timer /\ ~orch'.reconnecting /\ refreshing' \subseteq {"restore", "recover"}
  PROVE  Kept
<1>1. DrivenInv'
  <2>1. ~orch'.dropHandler /\ ~orch'.stopped => Untouched'
    BY DEF DrivenInv, Untouched
  <2>2. QED
    BY <2>1 DEF DrivenInv, Driven, Waiting
<1>2. QED
  BY <1>1, LoopStep DEF Typed, CallsTyped, CountersTyped

LEMMA FromReconnectLemma == FromReconnect \subseteq Caller
  BY DEF FromReconnect, Caller

LEMMA RefusalStep ==
  ASSUME Typed, WireInv, DrivenInv, ReceiveRefusal
  PROVE  Kept
<1>1. /\ orch \in OrchRecord /\ auth \in AuthRecord /\ refreshing \subseteq Caller
      /\ superseded \subseteq Caller /\ attempt \in Caller \cup {None}
      /\ server \in {"active", "revoked", "blocked"} /\ strays \in 0..MaxStrays
      /\ pendingAuthToken \in Token \cup {None}
  BY DEF Typed, TokensTyped, CallsTyped, CountersTyped
<1>2. UNCHANGED <<server, attempt, superseded, strays>> /\ conn.socket = "open"
  BY DEF ReceiveRefusal, counters
<1> DEFINE kind == Head(conn.down).error
<1>3. CASE kind = "UNAUTHENTICATED" /\ ~orch.refreshAttempted
  <2>1. /\ orch' = [orch EXCEPT !.refreshAttempted = TRUE] /\ StartRefresh("authFail")
        /\ ws' = [ws EXCEPT !.state = "DISCONNECTED", !.errorKind = kind]
        /\ conn' = [Closed EXCEPT !.socket = "closing"] /\ pendingAuthToken' = pendingAuthToken
    BY <1>3 DEF ReceiveRefusal
  <2>2. /\ orch' \in OrchRecord /\ orch'.stopped = orch.stopped
        /\ orch'.dropHandler = orch.dropHandler
    BY <1>1, <2>1 DEF OrchRecord
  <2>3. auth' \in AuthRecord /\ refreshing' \subseteq Caller /\ refreshing' # {}
    BY <1>1, <2>1, StartRefreshLemma DEF Caller
  <2>4. ws' \in WsRecord /\ ws'.state = "DISCONNECTED"
    BY <1>3, <2>1 DEF Typed, WsTyped, WsRecord, ErrorKind
  <2>5. WireKept
    BY <1>1, <1>2, <2>1, <2>4, WireOfClosed
  <2>6. orch.dropHandler \/ orch.stopped
    BY <1>2 DEF DrivenInv, Untouched, WireInv, SocketState
  <2>7. DrivenInv'
    BY <2>2, <2>3, <2>4, <2>6 DEF DrivenInv, Driven
  <2>8. QED
    BY <1>1, <1>2, <2>2, <2>3, <2>5, <2>7 DEF Kept, CallsTyped, CountersTyped
<1>4. CASE ~(kind = "UNAUTHENTICATED" /\ ~orch.refreshAttempted)
  <2>1. BeginLogout(orch) /\ UNCHANGED <<auth, refreshing>>
    BY <1>4 DEF ReceiveRefusal
  <2>2. QED
    BY <1>1, <1>2, <2>1, LogoutStep
<1>5. QED
  BY <1>3, <1>4

LEMMA ReconnectTimerStep ==
  ASSUME Typed, WireInv, DrivenInv, ReconnectTimerFires
  PROVE  Kept
<1> DEFINE o == [orch EXCEPT !.timer = FALSE]
<1>1. /\ orch \in OrchRecord /\ auth \in AuthRecord /\ refreshing \subseteq Caller
      /\ server \in {"active", "revoked", "blocked"}
  BY DEF Typed, TokensTyped, CallsTyped, CountersTyped
<1>2. orch.timer /\ UNCHANGED <<server, strays>>
  BY DEF ReconnectTimerFires
<1>3. orch.dropHandler \/ orch.stopped
  BY <1>2 DEF DrivenInv, Untouched
<1>4. o \in OrchRecord /\ o.stopped = orch.stopped /\ o.dropHandler = orch.dropHandler
  BY <1>1 DEF OrchRecord
<1>5. \/ /\ PostAuth /\ orch' = StopReconnect(o)
         /\ UNCHANGED <<ws, conn, pendingAuthToken, auth, attempt, superseded, refreshing>>
      \/ /\ orch' = o /\ StartRefresh("refreshed")
         /\ UNCHANGED <<ws, conn, pendingAuthToken, attempt, superseded>>
      \/ /\ orch' = Schedule(o) /\ auth' = ClearedSession
         /\ UNCHANGED <<ws, conn, pendingAuthToken, attempt, superseded, refreshing>>
      \/ /\ auth.access # None /\ Connect("reconnect", auth.access, o)
         /\ UNCHANGED <<auth, refreshing>>
  BY <1>1 DEF ReconnectTimerFires, AuthRecord
<1> HIDE DEF o
<1>6. CASE /\ PostAuth /\ orch' = StopReconnect(o)
           /\ UNCHANGED <<ws, conn, pendingAuthToken, auth, attempt, superseded, refreshing>>
  <2>1. /\ orch' \in OrchRecord /\ orch'.stopped = orch.stopped
        /\ orch'.dropHandler = orch.dropHandler /\ ~orch'.reconnecting
    BY <1>4, <1>6, StopReconnectLemma
  <2>2. DrivenInv'
    BY <1>3, <1>6, <2>1 DEF DrivenInv, Holds, PostAuth
  <2>3. QED
    BY <1>1, <1>2, <1>6, <2>1, <2>2, LoopStep DEF Typed, CallsTyped
<1>7. CASE /\ orch' = o /\ StartRefresh("refreshed")
           /\ UNCHANGED <<ws, conn, pendingAuthToken, attempt, superseded>>
  <2>1. auth' \in AuthRecord /\ refreshing' \subseteq Caller /\ refreshing' # {}
    BY <1>1, <1>7, StartRefreshLemma DEF Caller
  <2>2. QED
    BY <1>2, <1>3, <1>4, <1>7, <2>1, WaitingStep DEF Waiting
<1>8. CASE /\ orch' = Schedule(o) /\ auth' = ClearedSession
           /\ UNCHANGED <<ws, conn, pendingAuthToken, attempt, superseded, refreshing>>
  BY <1>1, <1>2, <1>3, <1>4, <1>8, ScheduleLemma, ClearedLemma, WaitingStep DEF Holds
<1>9. CASE /\ auth.access # None /\ Connect("reconnect", auth.access, o)
           /\ UNCHANGED <<auth, refreshing>>
  <2>1. auth.access \in Token /\ "reconnect" \in Caller
    BY <1>1, <1>9 DEF AuthRecord, Caller
  <2>2. orch.stopped \/ ~Untouched
    BY <1>2 DEF Untouched
  <2>3. QED
    BY <1>1, <1>2, <1>4, <1>9, <2>1, <2>2, AttemptStep
<1>10. QED
  BY <1>5, <1>6, <1>7, <1>8, <1>9

(* The recovery timer and the events of the page. *)
LEMMA RecoverStep ==
  ASSUME Typed, WireInv, DrivenInv,
         RecoverDegradedSession([orch EXCEPT !.recoveryTimer = FALSE]),
         UNCHANGED <<server, ws, conn, pendingAuthToken, attempt, superseded, strays>>
  PROVE  Kept
<1> DEFINE o == [orch EXCEPT !.recoveryTimer = FALSE]
<1>1. orch \in OrchRecord /\ auth \in AuthRecord /\ refreshing \subseteq Caller
  BY DEF Typed, TokensTyped, CallsTyped
<1>2. /\ o \in OrchRecord /\ o.stopped = orch.stopped /\ o.dropHandler = orch.dropHandler
      /\ o.timer = orch.timer /\ o.reconnecting = orch.reconnecting
  BY <1>1 DEF OrchRecord
<1>3. /\ orch' = o
      /\ \/ (o.stopped \/ ~auth.stored) /\ UNCHANGED <<auth, refreshing>>
         \/ StartRefresh("recover")
  BY DEF RecoverDegradedSession
<1> HIDE DEF o
<1>4. /\ auth' \in AuthRecord /\ refreshing' \subseteq Caller
      /\ refreshing' \subseteq refreshing \cup {"recover"}
      /\ Holds' => Waiting'
  <2>1. CASE (o.stopped \/ ~auth.stored) /\ UNCHANGED <<auth, refreshing>>
    BY <1>1, <1>2, <1>3, <2>1 DEF Holds
  <2>2. CASE StartRefresh("recover")
    BY <1>1, <2>2, StartRefreshLemma DEF Caller, Waiting
  <2>3. QED
    BY <1>3, <2>1, <2>2
<1>5. QED
  BY <1>2, <1>3, <1>4, WaitingStep DEF DrivenInv, Untouched

LEMMA ReconnectNowStep ==
  ASSUME Typed, WireInv, DrivenInv, ReconnectNow
  PROVE  Kept
<1> DEFINE o == [orch EXCEPT !.timer = FALSE]
<1>1. /\ orch \in OrchRecord /\ auth \in AuthRecord /\ refreshing \subseteq Caller
      /\ server \in {"active", "revoked", "blocked"}
  BY DEF Typed, TokensTyped, CallsTyped, CountersTyped
<1>2. orch.reconnecting /\ UNCHANGED <<server, auth, refreshing, strays>>
  BY DEF ReconnectNow
<1>3. orch.dropHandler \/ orch.stopped
  BY <1>2 DEF DrivenInv, Untouched
<1>4. /\ o \in OrchRecord /\ o.stopped = orch.stopped /\ o.dropHandler = orch.dropHandler
      /\ o.recoveryTimer = orch.recoveryTimer
  BY <1>1 DEF OrchRecord
<1>5. \/ /\ orch' = Schedule(o)
         /\ UNCHANGED <<ws, conn, pendingAuthToken, attempt, superseded>>
      \/ auth.access # None /\ Connect("reconnect", auth.access, o)
  BY DEF ReconnectNow
<1> HIDE DEF o
<1>6. CASE /\ orch' = Schedule(o)
           /\ UNCHANGED <<ws, conn, pendingAuthToken, attempt, superseded>>
  <2>1. /\ orch' \in OrchRecord /\ orch'.stopped = orch.stopped
        /\ orch'.dropHandler = orch.dropHandler
        /\ ~PostAuth /\ ~orch.stopped => orch'.timer
        /\ PostAuth /\ ~orch.stopped => orch'.timer \/ ~orch'.reconnecting
    BY <1>4, <1>6, ScheduleLemma
  <2>2. PostAuth' = PostAuth
    BY <1>6 DEF PostAuth
  <2>3. ws.errorKind \notin {None, "TRANSPORT"} => ~PostAuth
    BY DEF DrivenInv, PostAuth
  <2>4. DrivenInv'
    BY <1>2, <1>3, <1>6, <2>1, <2>2, <2>3 DEF DrivenInv, Holds, Driven
  <2>5. QED
    BY <1>1, <1>2, <1>6, <2>1, <2>4, LoopStep DEF Typed, CallsTyped
<1>7. CASE auth.access # None /\ Connect("reconnect", auth.access, o)
  <2>1. auth.access \in Token /\ "reconnect" \in Caller
    BY <1>1, <1>7 DEF AuthRecord, Caller
  <2>2. orch.stopped \/ ~Untouched
    BY <1>2 DEF Untouched
  <2>3. QED
    BY <1>1, <1>2, <1>4, <1>7, <2>1, <2>2, AttemptStep
<1>8. QED
  BY <1>5, <1>6, <1>7

LEMMA RefreshStep ==
  ASSUME Typed, WireInv, DrivenInv, NEW caller \in Caller, RefreshReturns(caller)
  PROVE  Kept
<1>1. /\ orch \in OrchRecord /\ auth \in AuthRecord
      /\ server \in {"active", "revoked", "blocked"}
  BY DEF Typed, TokensTyped, CallsTyped, CountersTyped
<1>2. /\ caller \in refreshing /\ refreshing' = refreshing \ {caller} /\ strays' = strays
      /\ refreshing' \subseteq Caller
      /\ RefreshSucceeds(caller) \/ RefreshRefused(caller) \/ RefreshUnanswered(caller)
  BY DEF RefreshReturns, Typed, CallsTyped
<1>3. ~orch.dropHandler /\ ~orch.stopped => Untouched /\ caller \in {"restore", "recover"}
  BY <1>2 DEF DrivenInv, Untouched
<1>4. CASE RefreshSucceeds(caller)
  <2>1. /\ Connect(caller, "fresh", orch) /\ "fresh" \in Token /\ server' = server
        /\ auth' = [state |-> "AUTHENTICATED", access |-> "fresh", stored |-> TRUE]
    BY <1>4 DEF RefreshSucceeds, Token
  <2>2. auth' \in AuthRecord
    BY <2>1 DEF AuthRecord
  <2>3. caller \in FromReconnect => orch.stopped \/ ~Untouched
    BY <1>2 DEF Untouched, FromReconnect
  <2>4. QED
    BY <1>1, <1>2, <2>1, <2>2, <2>3, AttemptStep
<1>5. CASE RefreshRefused(caller)
  <2>1. /\ auth' \in AuthRecord /\ ~Holds'
        /\ UNCHANGED <<server, attempt, superseded>>
    BY <1>5, ClearedLemma DEF RefreshRefused, Holds
  <2>2. \/ BeginLogout(orch)
        \/ /\ orch' = IF caller \in FromReconnect THEN Schedule(orch) ELSE orch
           /\ UNCHANGED <<ws, conn, pendingAuthToken>>
    BY <1>5 DEF RefreshRefused
  <2>3. CASE BeginLogout(orch)
    BY <1>1, <1>2, <2>1, <2>3, LogoutStep
  <2>4. CASE /\ orch' = IF caller \in FromReconnect THEN Schedule(orch) ELSE orch
             /\ UNCHANGED <<ws, conn, pendingAuthToken>>
    <3>1. /\ orch' \in OrchRecord /\ orch'.stopped = orch.stopped
          /\ orch'.dropHandler = orch.dropHandler
      BY <1>1, <2>4, ScheduleLemma
    <3>2. ~orch.dropHandler /\ ~orch.stopped =>
            ~orch'.timer /\ ~orch'.reconnecting /\ refreshing' \subseteq {"restore", "recover"}
      BY <1>2, <1>3, <2>4 DEF Untouched, FromReconnect
    <3>3. QED
      BY <1>2, <2>1, <2>4, <3>1, <3>2, WaitingStep
  <2>5. QED
    BY <2>2, <2>3, <2>4
<1>6. CASE RefreshUnanswered(caller)
  <2>1. auth' \in AuthRecord
    BY <1>1, <1>6 DEF RefreshUnanswered, AuthRecord
  <2>2. UNCHANGED <<server, ws, conn, pendingAuthToken, attempt, superseded>>
    BY <1>6 DEF RefreshUnanswered
  <2>3. \/ orch' = Degrade(orch) /\ caller \notin {"restore", "recover"}
        \/ orch' = ScheduleRecovery(orch)
        \/ orch' = Schedule(orch) /\ caller \notin {"restore", "recover"}
    BY <1>6 DEF RefreshUnanswered
  <2>4. /\ orch' \in OrchRecord /\ orch'.stopped = orch.stopped
        /\ orch'.dropHandler = orch.dropHandler
        /\ ~orch.stopped /\ ~PostAuth => orch'.timer \/ orch'.recoveryTimer
        /\ ~orch.stopped /\ PostAuth => orch'.timer \/ orch'.recoveryTimer \/ ~orch'.reconnecting
    BY <1>1, <2>3, ScheduleLemma, RecoveryLemma
  <2>5. ~orch'.dropHandler /\ ~orch'.stopped => Untouched'
    <3>1. CASE orch' = ScheduleRecovery(orch)
      BY <1>1, <1>2, <1>3, <2>2, <2>4, <3>1, RecoveryLemma DEF Untouched
    <3>2. QED
      BY <1>3, <2>3, <2>4, <3>1
  <2>6. PostAuth' = PostAuth
    BY <2>2 DEF PostAuth
  <2>7. ws.errorKind \notin {None, "TRANSPORT"} => ws.state = "DISCONNECTED" /\ ~PostAuth
    BY DEF DrivenInv, PostAuth
  <2>8. DrivenInv'
    BY <2>2, <2>4, <2>5, <2>6, <2>7 DEF DrivenInv, Holds, Driven
  <2>9. QED
    BY <1>1, <1>2, <2>1, <2>2, <2>4, <2>8, LoopStep DEF Typed, CallsTyped
<1>7. QED
  BY <1>2, <1>4, <1>5, <1>6

(* The user, the clock and the administrator. *)
LEMMA UserStep ==
  ASSUME Typed, WireInv, DrivenInv,
         \/ TryRestoreSession \/ Login \/ Logout \/ FinishLogout
         \/ TokensExpire \/ SessionEndsOnServer \/ UNCHANGED vars
  PROVE  Kept
<1>1. /\ orch \in OrchRecord /\ auth \in AuthRecord /\ refreshing \subseteq Caller
      /\ server \in {"active", "revoked", "blocked"} /\ CallsTyped
  BY DEF Typed, TokensTyped, CallsTyped, CountersTyped
<1>2. CASE TryRestoreSession
  <2>1. /\ StartRefresh("restore") /\ orch' = [orch EXCEPT !.refreshAttempted = FALSE]
        /\ UNCHANGED <<server, ws, conn, pendingAuthToken, attempt, superseded, strays>>
    BY <1>2 DEF TryRestoreSession, counters
  <2>2. /\ orch' \in OrchRecord /\ orch'.stopped = orch.stopped
        /\ orch'.dropHandler = orch.dropHandler
        /\ orch'.timer = orch.timer /\ orch'.reconnecting = orch.reconnecting
    BY <1>1, <2>1 DEF OrchRecord
  <2>3. /\ auth' \in AuthRecord /\ refreshing' \subseteq Caller
        /\ refreshing' = refreshing \cup {"restore"}
    BY <1>1, <2>1, StartRefreshLemma DEF Caller
  <2>4. QED
    BY <2>1, <2>2, <2>3, WaitingStep DEF DrivenInv, Untouched, Waiting
<1>3. CASE Login
  <2>1. /\ Connect("login", "fresh", orch) /\ server' = "active"
        /\ auth' = [state |-> "AUTHENTICATED", access |-> "fresh", stored |-> TRUE]
        /\ UNCHANGED <<refreshing, strays>>
    BY <1>3 DEF Login
  <2>2. auth' \in AuthRecord /\ "fresh" \in Token /\ "login" \in Caller
        /\ "login" \notin FromReconnect
    BY <2>1 DEF AuthRecord, Token, Caller, FromReconnect
  <2>3. QED
    BY <1>1, <2>1, <2>2, AttemptStep
<1>4. CASE Logout
  BY <1>1, <1>4, LogoutStep DEF Logout
<1>5. CASE FinishLogout
  <2>1. /\ auth' = ClearedSession /\ server' \in {"active", "revoked", "blocked"}
        /\ UNCHANGED <<ws, conn, pendingAuthToken, orch, attempt, superseded, refreshing, strays>>
    BY <1>1, <1>5 DEF FinishLogout, counters
  <2>2. ~Holds'
    BY <2>1, ClearedLemma DEF Holds
  <2>3. DrivenInv'
    BY <2>1, <2>2 DEF DrivenInv, Untouched
  <2>4. QED
    BY <1>1, <2>1, <2>3, ClearedLemma, LoopStep DEF CallsTyped
<1>6. CASE TokensExpire \/ SessionEndsOnServer \/ UNCHANGED vars
  <2>1. /\ UNCHANGED <<ws, conn, pendingAuthToken, orch, attempt, superseded, refreshing, strays>>
        /\ auth' = auth \/ auth' = [auth EXCEPT !.access = "stale"]
        /\ server' \in {"active", "revoked", "blocked"}
    BY <1>1, <1>6 DEF TokensExpire, SessionEndsOnServer, vars, counters
  <2>2. auth' \in AuthRecord /\ auth'.state = auth.state /\ auth'.stored = auth.stored
    BY <1>1, <2>1 DEF AuthRecord, Token
  <2>3. DrivenInv'
    BY <2>1, <2>2 DEF DrivenInv, Holds, Driven, Untouched, PostAuth
  <2>4. QED
    BY <1>1, <2>1, <2>2, <2>3, LoopStep DEF CallsTyped
<1>7. QED
  BY <1>2, <1>3, <1>4, <1>5, <1>6

LEMMA RecoveryStep ==
  ASSUME Typed, WireInv, DrivenInv, [Next]_vars
  PROVE  Typed' /\ WireInv' /\ DrivenInv'
<1>1. CASE Network \/ SendStray \/ ConnectionBreaks \/ InvalidateTransport
  BY <1>1, HandshakeStep, CloseStep, RefusalStep, KeptIsInv DEF Network
<1>2. CASE Poll \/ Timers \/ Refresh \/ LifecycleRecovery \/ ReconnectNow
  <2>1. CASE Poll \/ ReconnectTimerFires \/ Refresh \/ ReconnectNow
    BY <2>1, PollStep, ReconnectTimerStep, RefreshStep, ReconnectNowStep, KeptIsInv DEF Refresh
  <2>2. CASE RecoveryTimerFires \/ LifecycleRecovery
    BY <2>2, RecoverStep, KeptIsInv DEF RecoveryTimerFires, LifecycleRecovery, counters
  <2>3. QED
    BY <1>2, <2>1, <2>2 DEF Timers
<1>3. CASE \/ TryRestoreSession \/ Login \/ Logout \/ FinishLogout
           \/ TokensExpire \/ SessionEndsOnServer \/ UNCHANGED vars
  BY <1>3, UserStep, KeptIsInv
<1>4. QED
  BY <1>1, <1>2, <1>3 DEF Next

LEMMA RecoveryInit ==
  ASSUME Init
  PROVE  Typed /\ WireInv /\ DrivenInv
<1>1. /\ ws \in WsRecord /\ ws.state = "DISCONNECTED" /\ ws.errorKind = None
      /\ conn \in ConnRecord /\ conn.socket = "none" /\ conn.handler = "gone"
      /\ conn.up = <<>> /\ conn.down = <<>>
  BY ResetLemma DEF Init
<1>2. Len(conn.up) = 0 /\ Len(conn.down) = 0 /\ DOMAIN conn.down = {}
  BY <1>1
<1>3. auth \in AuthRecord /\ orch \in OrchRecord
  BY DEF Init, AuthRecord, OrchRecord
<1>4. Typed
  BY <1>1, <1>3, RecoveryAssumption
  DEF Init, Typed, WsTyped, ConnTyped, TokensTyped, CallsTyped, CountersTyped, RecoveryAssumption
<1>5. WireInv
  BY <1>1, <1>2 DEF Init, WireInv, SocketState, Handshake
<1>6. DrivenInv
  BY <1>1 DEF Init, DrivenInv, Holds, Untouched
<1>7. QED
  BY <1>4, <1>5, <1>6

-----------------------------------------------------------------------------
(* Theorems *)

LEMMA TypedIsTypeOK ==
  ASSUME Typed, WireInv
  PROVE  TypeOK
<1>1. /\ ws.state \in {"DISCONNECTED", "CONNECTING", "HELLO_SENT", "AUTH_SENT", "AUTH_COMPLETE"}
      /\ ws.errorKind \in ErrorKind \cup {None}
      /\ conn.socket \in {"none", "connecting", "open", "closing"}
      /\ auth.state \in {"ANON", "AUTHENTICATED", "REFRESHING", "AUTH_DEGRADED"}
      /\ auth.access \in Token \cup {None}
  BY DEF Typed, WsTyped, WsRecord, ConnTyped, ConnRecord, TokensTyped, AuthRecord
<1>2. Len(conn.up) <= 2 + MaxStrays /\ Len(conn.down) <= 2
  <2>1. Len(conn.up) \in Nat
    BY WireFields
  <2>2. QED
    BY <2>1, WireFields DEF WireInv, Handshake
<1>3. ASSUME NEW k \in DOMAIN conn.up, conn.up[k].kind = "auth" PROVE conn.up[k].token \in Token
  <2>1. conn.up[k] \in UpFrame
    BY WireFields
  <2>2. QED
    BY <1>3, <2>1 DEF UpFrame
<1>4. QED
  BY <1>1, <1>2, <1>3 DEF TypeOK, Typed, TokensTyped, CallsTyped, CountersTyped

(* The variables of the session's recovery keep their types: at most two frames *)
(* of the server are unread, and every token offered is one.                   *)
THEOREM RecoveryTypeCorrect == Spec => []TypeOK
<1>1. Init => Typed /\ WireInv /\ DrivenInv
  BY RecoveryInit
<1>2. (Typed /\ WireInv /\ DrivenInv) /\ [Next]_vars => (Typed /\ WireInv /\ DrivenInv)'
  BY RecoveryStep
<1>3. Typed /\ WireInv => TypeOK
  BY TypedIsTypeOK
<1>4. QED
  BY <1>1, <1>2, <1>3, PTL DEF Spec

(* "transport drop -> auto-reconnect every 5 s": whatever drop, refusal,       *)
(* refresh, superseded attempt or click comes in whatever order, a client with *)
(* a session that is not connected has something under way that connects it.   *)
THEOREM NoClientIsStranded == Spec => []NeverStranded
<1>1. Init => Typed /\ WireInv /\ DrivenInv
  BY RecoveryInit
<1>2. (Typed /\ WireInv /\ DrivenInv) /\ [Next]_vars => (Typed /\ WireInv /\ DrivenInv)'
  BY RecoveryStep
<1>3. DrivenInv => NeverStranded
  BY DEF DrivenInv, NeverStranded, Holds, Driven, PostAuth
<1>4. QED
  BY <1>1, <1>2, <1>3, PTL DEF Spec

-----------------------------------------------------------------------------
(* One refusal is survived *)

Disturbances == expiries + strays + clicks

CountsNat == expiries \in Nat /\ strays \in Nat /\ clicks \in Nat

(* Nothing on the connection can be refused by a server that accepts the       *)
(* session: every token on it is fresh, nothing was sent too early.            *)
FreshWire ==
  /\ \A k \in DOMAIN conn.up :
       \/ conn.up[k].kind = "hello" /\ k = 1 /\ conn.handler = "hello"
       \/ conn.up[k].kind = "auth" /\ conn.up[k].token = "fresh"
  /\ \A k \in DOMAIN conn.down : conn.down[k].kind # "error"
  /\ ws.state \in {"CONNECTING", "HELLO_SENT"} => pendingAuthToken = "fresh"
  /\ ws.state = "CONNECTING" => conn.handler = "hello"

RefusalsBlameToken ==
  \A k \in DOMAIN conn.down :
    conn.down[k].kind = "error" => conn.down[k].error = "UNAUTHENTICATED"

Accepted == server = "active" /\ ~asked /\ Disturbances <= 1

(* Before the first disturbance nothing is refused; its one refusal uses the   *)
(* one refresh, and what was refused is on its way to be replaced.             *)
SurvivalInv ==
  Accepted =>
    /\ auth.stored /\ ~loggingOut
    /\ RefusalsBlameToken
    /\ Disturbances = 0 => ~orch.refreshAttempted /\ auth.access # "stale"
    /\ Disturbances = 0 \/ orch.refreshAttempted => FreshWire
    /\ orch.refreshAttempted /\ auth.access = "stale" => refreshing # {}

(* Stopping and scheduling leave the refresh flag alone. *)
LEMMA FlagKept ==
  ASSUME NEW o \in OrchRecord
  PROVE  /\ StopReconnect(o).refreshAttempted = o.refreshAttempted
         /\ StopIfHealthy(o).refreshAttempted = o.refreshAttempted
         /\ Schedule(o).refreshAttempted = o.refreshAttempted
         /\ ScheduleRecovery(o).refreshAttempted = o.refreshAttempted
         /\ Degrade(o).refreshAttempted = o.refreshAttempted
         /\ OnTransportDrop(o).refreshAttempted = o.refreshAttempted
<1>1. /\ StopReconnect(o).refreshAttempted = o.refreshAttempted
      /\ ScheduleRecovery(o).refreshAttempted = o.refreshAttempted
      /\ OnTransportDrop(o).refreshAttempted = o.refreshAttempted
  BY DEF StopReconnect, ScheduleRecovery, OnTransportDrop, OrchRecord
<1>2. StopIfHealthy(o).refreshAttempted = o.refreshAttempted
  BY <1>1 DEF StopIfHealthy
<1>3. Schedule(o).refreshAttempted = o.refreshAttempted
  BY <1>1 DEF Schedule, OrchRecord
<1>4. Degrade(o).refreshAttempted = o.refreshAttempted
  BY <1>1, StopReconnectLemma DEF Degrade, ScheduleRecovery, OrchRecord
<1>5. QED
  BY <1>1, <1>2, <1>3, <1>4

LEMMA ClosedIsFresh ==
  ASSUME ws'.state = "DISCONNECTED", conn' \in {Closed, [Closed EXCEPT !.socket = "closing"]}
  PROVE  FreshWire' /\ RefusalsBlameToken'
<1>1. conn'.up = <<>> /\ conn'.down = <<>>
  BY DEF Closed
<1>2. DOMAIN conn'.up = {} /\ DOMAIN conn'.down = {}
  BY <1>1
<1>3. QED
  BY <1>2 DEF FreshWire, RefusalsBlameToken

(* A new attempt has nothing refused, and with a fresh token nothing to refuse. *)
LEMMA ConnectIsFresh ==
  ASSUME NEW caller, NEW o, NEW token, Connect(caller, token, o)
  PROVE  /\ RefusalsBlameToken'
         /\ token = "fresh" => FreshWire'
<1>1. /\ conn' = Fresh /\ pendingAuthToken' = token
  BY DEF Connect
<1>2. /\ conn'.up = <<>> /\ conn'.down = <<>> /\ conn'.handler = "hello"
  BY <1>1, ResetLemma
<1>3. DOMAIN conn'.up = {} /\ DOMAIN conn'.down = {}
  BY <1>2
<1>4. QED
  BY <1>1, <1>2, <1>3 DEF FreshWire, RefusalsBlameToken

LEMMA ConnectFlag ==
  ASSUME NEW caller \in Caller, NEW o \in OrchRecord, NEW token, Connect(caller, token, o)
  PROVE  /\ orch'.refreshAttempted => o.refreshAttempted
         /\ caller = "login" => ~orch'.refreshAttempted
<1>1. CASE caller \in FromReconnect
  BY <1>1 DEF Connect, FromReconnect
<1>2. CASE caller \notin FromReconnect
  <2> DEFINE o1 == StopReconnect(o)
  <2>1. o1 \in OrchRecord /\ o1.refreshAttempted = o.refreshAttempted
    BY StopReconnectLemma, FlagKept
  <2>2. orch' = [o1 EXCEPT !.stopped = @ /\ caller = "recover",
                           !.refreshAttempted = @ /\ caller \notin {"login", "restore"},
                           !.dropHandler = TRUE]
    BY <1>2 DEF Connect
  <2> HIDE DEF o1
  <2>3. orch'.refreshAttempted = (o1.refreshAttempted /\ caller \notin {"login", "restore"})
    BY <2>1, <2>2 DEF OrchRecord
  <2>4. QED
    BY <2>1, <2>3
<1>3. QED
  BY <1>1, <1>2

(* With the disturbances and the verdict unchanged, the parts suffice. *)
LEMMA SurvivalKept ==
  ASSUME SurvivalInv, UNCHANGED <<server, asked, expiries, strays, clicks, loggingOut>>,
         Accepted => /\ auth'.stored
                     /\ RefusalsBlameToken'
                     /\ orch'.refreshAttempted => orch.refreshAttempted
                     /\ auth'.access = "stale" => auth.access = "stale"
                     /\ Disturbances = 0 \/ orch.refreshAttempted => FreshWire'
                     /\ auth'.access = "stale" /\ refreshing # {} => refreshing' # {}
  PROVE  SurvivalInv'
<1>1. Disturbances' = Disturbances /\ (Accepted' <=> Accepted)
  BY DEF Disturbances, Accepted
<1>2. QED
  BY <1>1 DEF SurvivalInv

(* The server answers: what is fresh is not refused. *)
LEMMA ServerSurvives ==
  ASSUME Typed, WireInv, SurvivalInv, ServerReceives
  PROVE  SurvivalInv'
<1> DEFINE frame == Head(conn.up)
           rest == [conn EXCEPT !.up = Tail(@)]
<1>1. /\ conn.up # <<>>
      /\ UNCHANGED <<server, ws, pendingAuthToken, auth, orch, refreshing, loggingOut, asked,
                     expiries, strays, clicks>>
  BY DEF ServerReceives, counters
<1>2. /\ Tail(conn.up) \in Seq(UpFrame)
      /\ \A k \in DOMAIN Tail(conn.up) :
           k \in Nat /\ k >= 1 /\ k + 1 \in DOMAIN conn.up /\ Tail(conn.up)[k] = conn.up[k + 1]
      /\ 1 \in DOMAIN conn.up /\ conn.up[1] = frame
  BY <1>1, WireFields, TailShorter
<1>3. rest.up = Tail(conn.up) /\ rest.down = conn.down /\ rest.handler = conn.handler
      /\ DOMAIN rest = {"socket", "handler", "up", "down"}
  BY DEF Typed, ConnTyped, ConnRecord
<1>4. \/ /\ conn.handler = "hello"
         /\ conn' = [rest EXCEPT !.handler = "auth", !.down = Append(@, ServerHello)]
      \/ conn.handler = "done" /\ conn' = rest
      \/ /\ conn.handler = "auth"
         /\ conn' = [rest EXCEPT !.handler = "done", !.down = Append(@, AuthResponse)]
      \/ /\ conn.handler = "auth"
         /\ ~(frame.kind = "auth" /\ frame.token = "fresh" /\ server = "active")
         /\ \E told \in BOOLEAN :
              conn' = [rest EXCEPT !.handler = "gone", !.up = <<>>,
                         !.down = IF told THEN Append(@, Error(Refusal(frame))) ELSE @]
  BY WireFields DEF ServerReceives
<1> HIDE DEF frame, rest
<1>5. ASSUME Accepted
      PROVE  /\ RefusalsBlameToken'
             /\ FreshWire => FreshWire'
  <2>1. ASSUME NEW x \in DownFrame, conn'.down = Append(conn.down, x), x.kind # "error",
               conn'.up = Tail(conn.up), conn.handler = "hello" \/ conn'.handler = conn.handler
                 \/ conn.handler = "auth"
        PROVE  RefusalsBlameToken' /\ (FreshWire => FreshWire')
    <3>1. \A k \in DOMAIN conn'.down :
            \/ k \in DOMAIN conn.down /\ conn'.down[k] = conn.down[k]
            \/ conn'.down[k] = x
      BY <2>1, WireFields, AppendLonger
    <3>2. RefusalsBlameToken
      BY <1>5 DEF SurvivalInv
    <3>3. RefusalsBlameToken'
      BY <2>1, <3>1, <3>2 DEF RefusalsBlameToken
    <3>4. ASSUME FreshWire PROVE FreshWire'
      <4>1. \A k \in DOMAIN conn'.up : conn'.up[k].kind = "auth" /\ conn'.up[k].token = "fresh"
        BY <1>2, <2>1, <3>4 DEF FreshWire
      <4>2. \A k \in DOMAIN conn'.down : conn'.down[k].kind # "error"
        BY <2>1, <3>1, <3>4 DEF FreshWire
      <4>3. ws.state # "CONNECTING"
        BY <1>1 DEF WireInv, Handshake
      <4>4. QED
        BY <1>1, <3>4, <4>1, <4>2, <4>3 DEF FreshWire
    <3>5. QED
      BY <3>3, <3>4
  <2>2. CASE /\ conn.handler = "hello"
             /\ conn' = [rest EXCEPT !.handler = "auth", !.down = Append(@, ServerHello)]
    <3>1. conn'.down = Append(conn.down, ServerHello) /\ conn'.up = Tail(conn.up)
      BY <1>3, <2>2
    <3>2. QED
      BY <2>1, <2>2, <3>1, Frames
  <2>3. CASE conn.handler = "done" /\ conn' = rest
    <3>1. conn'.down = conn.down /\ conn'.up = Tail(conn.up) /\ conn'.handler = conn.handler
      BY <1>3, <2>3
    <3>2. RefusalsBlameToken'
      BY <1>5, <3>1 DEF SurvivalInv, RefusalsBlameToken
    <3>3. ASSUME FreshWire PROVE FreshWire'
      <4>1. \A k \in DOMAIN conn'.up : conn'.up[k].kind = "auth" /\ conn'.up[k].token = "fresh"
        BY <1>2, <3>1, <3>3 DEF FreshWire
      <4>2. QED
        BY <1>1, <3>1, <3>3, <4>1 DEF FreshWire
    <3>4. QED
      BY <3>2, <3>3
  <2>4. CASE /\ conn.handler = "auth"
             /\ conn' = [rest EXCEPT !.handler = "done", !.down = Append(@, AuthResponse)]
    <3>1. conn'.down = Append(conn.down, AuthResponse) /\ conn'.up = Tail(conn.up)
      BY <1>3, <2>4
    <3>2. QED
      BY <2>1, <2>4, <3>1, Frames
  <2>5. ASSUME /\ conn.handler = "auth"
               /\ ~(frame.kind = "auth" /\ frame.token = "fresh" /\ server = "active"),
               NEW told \in BOOLEAN,
               conn' = [rest EXCEPT !.handler = "gone", !.up = <<>>,
                          !.down = IF told THEN Append(@, Error(Refusal(frame))) ELSE @]
        PROVE  RefusalsBlameToken' /\ (FreshWire => FreshWire')
    <3>1. ~FreshWire
      BY <1>2, <1>5, <2>5 DEF FreshWire, Accepted
    <3>2. /\ Error(Refusal(frame)).kind = "error" /\ Error(Refusal(frame)).error = "UNAUTHENTICATED"
          /\ Error(Refusal(frame)) \in DownFrame
      BY <1>5, Frames DEF Accepted, Refusal, Error
    <3>3. conn'.down = IF told THEN Append(conn.down, Error(Refusal(frame))) ELSE conn.down
      BY <1>3, <2>5
    <3>4. \A k \in DOMAIN conn'.down :
            \/ k \in DOMAIN conn.down /\ conn'.down[k] = conn.down[k]
            \/ conn'.down[k] = Error(Refusal(frame))
      BY <3>2, <3>3, WireFields, AppendLonger
    <3>5. RefusalsBlameToken'
      BY <1>5, <3>2, <3>4 DEF SurvivalInv, RefusalsBlameToken
    <3>6. QED
      BY <3>1, <3>5
  <2>6. QED
    BY <1>4, <2>2, <2>3, <2>4, <2>5
<1>6. QED
  BY <1>1, <1>5, SurvivalKept DEF SurvivalInv

(* The client opens the socket and works off the handshake. *)
LEMMA HandshakeSurvives ==
  ASSUME Typed, WireInv, SurvivalInv, SocketOpens \/ ReceiveHello \/ ReceiveAuthResponse
  PROVE  SurvivalInv'
<1>1. /\ UNCHANGED <<server, auth, orch, refreshing, loggingOut, asked, expiries, strays, clicks>>
  BY DEF SocketOpens, ReceiveHello, ReceiveAuthResponse, counters
<1>2. ASSUME Accepted
      PROVE  RefusalsBlameToken' /\ (FreshWire => FreshWire')
  <2>1. RefusalsBlameToken
    BY <1>2 DEF SurvivalInv
  <2>2. CASE SocketOpens
    <3>1. /\ conn'.up = <<Hello>> /\ conn'.down = conn.down /\ conn'.handler = conn.handler
          /\ ws.state = "CONNECTING" /\ ws'.state = "HELLO_SENT"
          /\ pendingAuthToken' = pendingAuthToken
      BY <2>2 DEF SocketOpens, Typed, ConnTyped, ConnRecord, WsTyped, WsRecord, WireInv, SocketState
    <3>2. DOMAIN conn'.up = {1} /\ conn'.up[1].kind = "hello"
      BY <3>1 DEF Hello
    <3>3. QED
      BY <2>1, <3>1, <3>2 DEF FreshWire, RefusalsBlameToken
  <2>3. ASSUME conn.down # <<>>, conn'.down = Tail(conn.down)
        PROVE  /\ RefusalsBlameToken'
               /\ FreshWire => \A k \in DOMAIN conn'.down : conn'.down[k].kind # "error"
    <3>1. \A k \in DOMAIN Tail(conn.down) :
            k + 1 \in DOMAIN conn.down /\ Tail(conn.down)[k] = conn.down[k + 1]
      BY <2>3, WireFields, TailShorter
    <3>2. QED
      BY <2>1, <2>3, <3>1 DEF FreshWire, RefusalsBlameToken
  <2>4. CASE ReceiveHello
    <3>1. /\ conn.down # <<>> /\ conn'.down = Tail(conn.down) /\ conn'.handler = conn.handler
          /\ conn'.up = Append(conn.up, AuthRequest(pendingAuthToken))
          /\ ws'.state = "AUTH_SENT"
      BY <2>4 DEF ReceiveHello, Typed, ConnTyped, ConnRecord, WsTyped, WsRecord
    <3>2. ws.state = "HELLO_SENT" /\ pendingAuthToken \in Token
      <4>1. 1 \in DOMAIN conn.down /\ conn.down[1].kind = "serverHello"
        BY <2>4, WireFields, TailShorter DEF ReceiveHello
      <4>2. QED
        BY <4>1 DEF WireInv, Handshake
    <3>3. \A k \in DOMAIN conn'.up :
            \/ k \in DOMAIN conn.up /\ conn'.up[k] = conn.up[k]
            \/ conn'.up[k] = AuthRequest(pendingAuthToken)
      BY <3>1, <3>2, WireFields, Frames, AppendLonger
    <3>4. ASSUME FreshWire PROVE FreshWire'
      <4>1. AuthRequest(pendingAuthToken).kind = "auth" /\ AuthRequest(pendingAuthToken).token = "fresh"
        BY <3>2, <3>4 DEF FreshWire, AuthRequest
      <4>2. \A k \in DOMAIN conn'.up :
              \/ conn'.up[k].kind = "hello" /\ k = 1 /\ conn'.handler = "hello"
              \/ conn'.up[k].kind = "auth" /\ conn'.up[k].token = "fresh"
        BY <3>1, <3>3, <3>4, <4>1 DEF FreshWire
      <4>3. QED
        BY <2>3, <3>1, <3>4, <4>2 DEF FreshWire
    <3>5. QED
      BY <2>3, <3>1, <3>4
  <2>5. CASE ReceiveAuthResponse
    <3>1. /\ conn.down # <<>> /\ conn'.down = Tail(conn.down) /\ conn'.handler = conn.handler
          /\ conn'.up = conn.up /\ ws'.state = "AUTH_COMPLETE"
      BY <2>5 DEF ReceiveAuthResponse, Typed, ConnTyped, ConnRecord, WsTyped, WsRecord
    <3>2. QED
      BY <2>3, <3>1 DEF FreshWire
  <2>6. QED
    BY <2>2, <2>4, <2>5
<1>3. QED
  BY <1>1, <1>2, SurvivalKept DEF SurvivalInv

(* A step that disturbs: it was the first, and the flag is not yet set. *)
LEMMA SurvivalDisturbed ==
  ASSUME SurvivalInv, CountsNat, Disturbances' = Disturbances + 1, Accepted' => Accepted,
         Accepted /\ ~orch.refreshAttempted =>
           /\ auth'.stored /\ ~loggingOut'
           /\ RefusalsBlameToken' /\ ~orch'.refreshAttempted
  PROVE  SurvivalInv'
<1>1. Disturbances \in Nat /\ (Accepted' => Disturbances' <= 1)
  BY DEF Disturbances, CountsNat, Accepted
<1>2. Accepted' => Disturbances = 0 /\ Disturbances' = 1
  BY <1>1
<1>3. ASSUME Accepted'
      PROVE  /\ auth'.stored /\ ~loggingOut'
             /\ RefusalsBlameToken' /\ ~orch'.refreshAttempted
  BY <1>2, <1>3 DEF SurvivalInv
<1>4. QED
  BY <1>2, <1>3 DEF SurvivalInv

LEMMA WireSame ==
  ASSUME UNCHANGED <<ws, conn, pendingAuthToken>>
  PROVE  (FreshWire => FreshWire') /\ (RefusalsBlameToken => RefusalsBlameToken')
  BY DEF FreshWire, RefusalsBlameToken

(* A connection that ends, or a transport given up, clears the wire. *)
LEMMA CloseSurvives ==
  ASSUME Typed, SurvivalInv,
         ServerCloses \/ ClosingEnds \/ ConnectionBreaks \/ InvalidateTransport
  PROVE  SurvivalInv'
<1>1. orch \in OrchRecord /\ ws \in WsRecord
  BY DEF Typed, CallsTyped, WsTyped
<1>2. /\ ws'.state = "DISCONNECTED" /\ conn' = Closed
      /\ orch' = orch \/ orch' = OnTransportDrop(orch)
      /\ UNCHANGED <<server, auth, refreshing, loggingOut, asked, expiries, strays, clicks>>
  <2>1. ASSUME NEW kind, SocketCloses(kind)
        PROVE  /\ ws'.state = "DISCONNECTED" /\ conn' = Closed
               /\ orch' = orch \/ orch' = OnTransportDrop(orch)
               /\ UNCHANGED <<server, auth, refreshing, loggingOut, asked>>
    BY <1>1, <2>1 DEF SocketCloses, WsRecord
  <2>2. CASE ServerCloses \/ ClosingEnds
    BY <2>1, <2>2 DEF ServerCloses, ClosingEnds, counters
  <2>3. CASE ConnectionBreaks
    BY <2>1, <2>3 DEF ConnectionBreaks
  <2>4. CASE InvalidateTransport
    BY <1>1, <2>4 DEF InvalidateTransport, WsRecord
  <2>5. QED
    BY <2>2, <2>3, <2>4
<1>3. FreshWire' /\ RefusalsBlameToken'
  BY <1>2, ClosedIsFresh
<1>4. orch'.refreshAttempted = orch.refreshAttempted
  BY <1>1, <1>2, FlagKept
<1>5. QED
  BY <1>2, <1>3, <1>4, SurvivalKept DEF SurvivalInv

(* The one refusal sets the flag and clears the wire: it is not answered by a  *)
(* logout, because a wire on which the flag is set carries nothing refused.    *)
LEMMA RefusalSurvives ==
  ASSUME Typed, WireInv, SurvivalInv, CountsNat, ReceiveRefusal
  PROVE  SurvivalInv'
<1>1. SUFFICES ASSUME Accepted, auth.stored, ~loggingOut, RefusalsBlameToken,
                      Disturbances = 0 \/ orch.refreshAttempted => FreshWire
               PROVE  SurvivalInv'
  <2>1. Accepted' => Accepted
    BY DEF ReceiveRefusal, counters, Accepted, Disturbances
  <2>2. QED
    BY <1>1, <2>1 DEF SurvivalInv
<1>2. 1 \in DOMAIN conn.down /\ Head(conn.down) = conn.down[1] /\ conn.down[1].kind = "error"
  BY WireFields, TailShorter DEF ReceiveRefusal
<1>3. Disturbances # 0 /\ ~orch.refreshAttempted /\ Head(conn.down).error = "UNAUTHENTICATED"
  BY <1>1, <1>2 DEF FreshWire, RefusalsBlameToken
<1>4. /\ orch' = [orch EXCEPT !.refreshAttempted = TRUE] /\ StartRefresh("authFail")
      /\ ws' = [ws EXCEPT !.state = "DISCONNECTED", !.errorKind = Head(conn.down).error]
      /\ conn' = [Closed EXCEPT !.socket = "closing"]
      /\ UNCHANGED <<server, loggingOut, asked, expiries, strays, clicks>>
  BY <1>3 DEF ReceiveRefusal, counters
<1>5. /\ auth \in AuthRecord /\ refreshing \subseteq Caller /\ orch \in OrchRecord
      /\ ws \in WsRecord
  BY DEF Typed, TokensTyped, CallsTyped, WsTyped
<1>6. auth'.stored /\ refreshing' # {}
  BY <1>1, <1>4, <1>5, StartRefreshLemma DEF Caller
<1>7. FreshWire' /\ RefusalsBlameToken'
  <2>1. ws'.state = "DISCONNECTED"
    BY <1>4, <1>5 DEF WsRecord
  <2>2. QED
    BY <1>4, <2>1, ClosedIsFresh
<1>8. Disturbances' = Disturbances
  BY <1>4 DEF Disturbances
<1>9. QED
  BY <1>1, <1>3, <1>4, <1>6, <1>7, <1>8 DEF SurvivalInv

(* The user, the clock and the administrator: what disturbs, and what does not. *)
LEMMA UserSurvives ==
  ASSUME Typed, SurvivalInv, CountsNat,
         \/ SendStray \/ TokensExpire \/ Logout \/ Login \/ FinishLogout
         \/ SessionEndsOnServer \/ TryRestoreSession \/ UNCHANGED vars
  PROVE  SurvivalInv'
<1>1. /\ orch \in OrchRecord /\ auth \in AuthRecord /\ refreshing \subseteq Caller
      /\ conn \in ConnRecord /\ ws \in WsRecord
  BY DEF Typed, TokensTyped, CallsTyped, ConnTyped, WsTyped
<1>2. CASE SendStray
  <2>1. /\ conn'.down = conn.down
        /\ UNCHANGED <<server, auth, orch, refreshing, loggingOut, asked>>
    BY <1>1, <1>2 DEF SendStray, ConnRecord
  <2>2. Disturbances' = Disturbances + 1
    BY <1>2 DEF SendStray, Disturbances, CountsNat
  <2>3. Accepted' => Accepted
    BY <2>1, <2>2 DEF Accepted, Disturbances, CountsNat
  <2>4. QED
    BY <2>1, <2>2, <2>3, SurvivalDisturbed DEF RefusalsBlameToken, SurvivalInv
<1>3. CASE TokensExpire
  <2>1. /\ auth'.stored = auth.stored
        /\ UNCHANGED <<server, ws, conn, pendingAuthToken, orch, refreshing, loggingOut, asked>>
    BY <1>1, <1>3 DEF TokensExpire, AuthRecord
  <2>2. Disturbances' = Disturbances + 1
    BY <1>3 DEF TokensExpire, Disturbances, CountsNat
  <2>3. Accepted' => Accepted
    BY <2>1, <2>2 DEF Accepted, Disturbances, CountsNat
  <2>4. QED
    BY <2>1, <2>2, <2>3, WireSame, SurvivalDisturbed DEF SurvivalInv
<1>4. CASE Logout \/ SessionEndsOnServer
  BY <1>4 DEF Logout, SessionEndsOnServer, SurvivalInv, Accepted
<1>5. CASE FinishLogout
  <2>1. loggingOut /\ (Accepted' => Accepted)
    BY <1>5 DEF FinishLogout, counters, Accepted, Disturbances
  <2>2. QED
    BY <2>1 DEF SurvivalInv
<1>6. CASE Login
  <2>1. /\ auth' = [state |-> "AUTHENTICATED", access |-> "fresh", stored |-> TRUE]
        /\ ~loggingOut' /\ Connect("login", "fresh", orch) /\ "login" \in Caller
    BY <1>6 DEF Login, Caller
  <2>2. FreshWire' /\ RefusalsBlameToken' /\ ~orch'.refreshAttempted
    BY <1>1, <2>1, ConnectIsFresh, ConnectFlag
  <2>3. auth'.stored /\ auth'.access = "fresh"
    BY <2>1
  <2>4. QED
    BY <2>1, <2>2, <2>3 DEF SurvivalInv
<1>7. CASE TryRestoreSession
  <2>1. /\ StartRefresh("restore") /\ orch' = [orch EXCEPT !.refreshAttempted = FALSE]
        /\ UNCHANGED <<server, ws, conn, pendingAuthToken, loggingOut, asked, expiries, strays,
                       clicks>>
    BY <1>7 DEF TryRestoreSession, counters
  <2>2. /\ auth'.access = auth.access /\ auth'.stored = auth.stored
        /\ refreshing' = refreshing \cup {"restore"}
    BY <1>1, <2>1, StartRefreshLemma DEF Caller
  <2>3. ~orch'.refreshAttempted
    BY <1>1, <2>1 DEF OrchRecord
  <2>4. QED
    BY <2>1, <2>2, <2>3, WireSame, SurvivalKept DEF SurvivalInv
<1>8. CASE UNCHANGED vars
  <2>1. UNCHANGED <<server, ws, conn, pendingAuthToken, auth, orch, refreshing, loggingOut, asked,
                    expiries, strays, clicks>>
    BY <1>8 DEF vars, counters
  <2>2. QED
    BY <2>1, WireSame, SurvivalKept DEF SurvivalInv
<1>9. QED
  BY <1>2, <1>3, <1>4, <1>5, <1>6, <1>7, <1>8

(* Steps of the orchestrator that leave the wire alone, and keep a refresh token. *)
LEMMA LoopSurvives ==
  ASSUME SurvivalInv,
         UNCHANGED <<server, ws, conn, pendingAuthToken, loggingOut, asked, expiries, strays, clicks>>,
         orch'.refreshAttempted = orch.refreshAttempted,
         auth'.stored = auth.stored,
         auth'.access = "stale" => auth.access = "stale" /\ (refreshing # {} => refreshing' # {})
  PROVE  SurvivalInv'
  BY WireSame, SurvivalKept DEF SurvivalInv

LEMMA AfterFailureSurvives ==
  ASSUME Typed, NEW caller \in Caller, NEW o \in OrchRecord,
         o.refreshAttempted = orch.refreshAttempted, AfterFailure(caller, o)
  PROVE  /\ orch'.refreshAttempted = orch.refreshAttempted
         /\ auth'.access = auth.access /\ auth'.stored = auth.stored
         /\ refreshing \subseteq refreshing'
<1>1. auth \in AuthRecord /\ refreshing \subseteq Caller
  BY DEF Typed, TokensTyped, CallsTyped
<1>2. CASE orch' = [o EXCEPT !.dropRefreshAttempted = TRUE] /\ StartRefresh("drop")
  <2>1. orch'.refreshAttempted = o.refreshAttempted
    BY <1>2 DEF OrchRecord
  <2>2. QED
    BY <1>1, <1>2, <2>1, StartRefreshLemma DEF Caller
<1>3. CASE /\ UNCHANGED <<auth, refreshing>>
           /\ \/ orch' = Degrade(o) \/ orch' = ScheduleRecovery(o) \/ orch' = Schedule(o)
              \/ orch' = o
  BY <1>3, FlagKept
<1>4. QED
  BY <1>2, <1>3 DEF AfterFailure

LEMMA PollSurvives ==
  ASSUME Typed, SurvivalInv, Poll
  PROVE  SurvivalInv'
<1>1. orch \in OrchRecord /\ attempt \in Caller \cup {None}
  BY DEF Typed, CallsTyped
<1>2. CASE PollSucceeds
  <2>1. orch'.refreshAttempted = orch.refreshAttempted
    BY <1>1, <1>2, FlagKept DEF PollSucceeds
  <2>2. QED
    BY <1>2, <2>1, LoopSurvives DEF PollSucceeds, counters
<1>3. CASE PollFails
  <2> DEFINE recover == attempt \notin FromReconnect /\ ws.errorKind \in {None, "TRANSPORT"}
             o == IF recover THEN Schedule(orch) ELSE orch
  <2>1. /\ attempt \in Caller /\ AfterFailure(attempt, o)
        /\ UNCHANGED <<server, ws, conn, pendingAuthToken, loggingOut, asked, expiries, strays,
                       clicks>>
    BY <1>1, <1>3 DEF PollFails
  <2>2. o \in OrchRecord /\ o.refreshAttempted = orch.refreshAttempted
    BY <1>1, ScheduleLemma, FlagKept
  <2> HIDE DEF o
  <2>3. QED
    BY <2>1, <2>2, AfterFailureSurvives, LoopSurvives
<1>4. ASSUME NEW c \in Caller, PollSuperseded(c) PROVE SurvivalInv'
  <2> DEFINE o == StopIfHealthy(orch)
  <2>1. o \in OrchRecord /\ o.refreshAttempted = orch.refreshAttempted
    BY <1>1, StopReconnectLemma, FlagKept DEF StopIfHealthy
  <2>2. AfterFailure(c, o)
    BY <1>4 DEF PollSuperseded
  <2> HIDE DEF o
  <2>3. /\ orch'.refreshAttempted = orch.refreshAttempted
        /\ auth'.access = auth.access /\ auth'.stored = auth.stored
        /\ refreshing \subseteq refreshing'
    BY <2>1, <2>2, AfterFailureSurvives
  <2>4. QED
    BY <1>4, <2>3, LoopSurvives DEF PollSuperseded, counters
<1>5. QED
  BY <1>2, <1>3, <1>4 DEF Poll

(* A timer that does not overtake the refresh of a refused token connects with  *)
(* one that is not refused again.                                             *)
LEMMA TimersSurvive ==
  ASSUME ~overtaken', Typed, SurvivalInv, Timers
  PROVE  SurvivalInv'
<1>1. /\ orch \in OrchRecord /\ auth \in AuthRecord /\ refreshing \subseteq Caller
  BY DEF Typed, TokensTyped, CallsTyped
<1>2. CASE ReconnectTimerFires
  <2> DEFINE o == [orch EXCEPT !.timer = FALSE]
  <2>1. o \in OrchRecord /\ o.refreshAttempted = orch.refreshAttempted
    BY <1>1 DEF OrchRecord
  <2>2. /\ ~PostAuth /\ auth.access = "stale" => refreshing = {}
        /\ UNCHANGED <<server, loggingOut, asked, expiries, strays, clicks>>
    BY <1>2 DEF ReconnectTimerFires
  <2>3. \/ /\ PostAuth /\ orch' = StopReconnect(o)
           /\ UNCHANGED <<ws, conn, pendingAuthToken, auth, refreshing>>
        \/ /\ orch' = o /\ StartRefresh("refreshed")
           /\ UNCHANGED <<ws, conn, pendingAuthToken>>
        \/ ~auth.stored
        \/ /\ ~PostAuth /\ auth.access # None /\ Connect("reconnect", auth.access, o)
           /\ UNCHANGED <<auth, refreshing>>
    BY <1>1, <1>2 DEF ReconnectTimerFires, AuthRecord
  <2> HIDE DEF o
  <2>4. CASE /\ PostAuth /\ orch' = StopReconnect(o)
             /\ UNCHANGED <<ws, conn, pendingAuthToken, auth, refreshing>>
    BY <2>1, <2>2, <2>4, FlagKept, LoopSurvives
  <2>5. CASE /\ orch' = o /\ StartRefresh("refreshed")
             /\ UNCHANGED <<ws, conn, pendingAuthToken>>
    <3>1. /\ auth'.access = auth.access /\ auth'.stored = auth.stored
          /\ refreshing \subseteq refreshing'
      BY <1>1, <2>5, StartRefreshLemma DEF Caller
    <3>2. QED
      BY <2>1, <2>2, <2>5, <3>1, LoopSurvives
  <2>6. CASE ~auth.stored
    BY <2>2, <2>6 DEF SurvivalInv, Accepted, Disturbances
  <2>7. CASE /\ ~PostAuth /\ auth.access # None /\ Connect("reconnect", auth.access, o)
             /\ UNCHANGED <<auth, refreshing>>
    <3>1. Accepted /\ (Disturbances = 0 \/ orch.refreshAttempted) => auth.access = "fresh"
      BY <1>1, <2>2, <2>7 DEF SurvivalInv, AuthRecord, Token
    <3>2. /\ RefusalsBlameToken'
          /\ auth.access = "fresh" => FreshWire'
          /\ orch'.refreshAttempted => orch.refreshAttempted
      BY <2>1, <2>7, ConnectIsFresh, ConnectFlag DEF Caller
    <3>3. QED
      BY <2>2, <2>7, <3>1, <3>2, SurvivalKept DEF SurvivalInv
  <2>8. QED
    BY <2>3, <2>4, <2>5, <2>6, <2>7
<1>3. CASE RecoveryTimerFires
  <2>1. /\ RecoverDegradedSession([orch EXCEPT !.recoveryTimer = FALSE])
        /\ UNCHANGED <<server, ws, conn, pendingAuthToken, loggingOut, asked, expiries, strays,
                       clicks>>
    BY <1>3 DEF RecoveryTimerFires, counters
  <2>2. /\ orch'.refreshAttempted = orch.refreshAttempted
        /\ \/ UNCHANGED <<auth, refreshing>>
           \/ StartRefresh("recover")
    BY <1>1, <2>1 DEF RecoverDegradedSession, OrchRecord
  <2>3. auth'.access = auth.access /\ auth'.stored = auth.stored /\ refreshing \subseteq refreshing'
    BY <1>1, <2>2, StartRefreshLemma DEF Caller
  <2>4. QED
    BY <2>1, <2>2, <2>3, LoopSurvives
<1>4. QED
  BY <1>2, <1>3 DEF Timers

(* A click is a disturbance of its own: before it the flag was not set.        *)
LEMMA ClickSurvives ==
  ASSUME Typed, SurvivalInv, CountsNat, LifecycleRecovery \/ ReconnectNow
  PROVE  SurvivalInv'
<1>1. /\ orch \in OrchRecord /\ auth \in AuthRecord /\ refreshing \subseteq Caller
  BY DEF Typed, TokensTyped, CallsTyped
<1>2. Disturbances' = Disturbances + 1 /\ UNCHANGED <<server, loggingOut, asked>>
  BY DEF LifecycleRecovery, ReconnectNow, Disturbances, CountsNat
<1>3. Accepted' => Accepted
  BY <1>2 DEF Accepted, Disturbances, CountsNat
<1>4. CASE LifecycleRecovery
  <2>1. /\ orch'.refreshAttempted = orch.refreshAttempted
        /\ \/ UNCHANGED <<auth, refreshing>>
           \/ StartRefresh("recover")
        /\ UNCHANGED <<ws, conn, pendingAuthToken>>
    BY <1>1, <1>4 DEF LifecycleRecovery, RecoverDegradedSession, OrchRecord
  <2>2. auth'.stored = auth.stored
    BY <1>1, <2>1, StartRefreshLemma DEF Caller
  <2>3. QED
    BY <1>2, <1>3, <2>1, <2>2, WireSame, SurvivalDisturbed DEF SurvivalInv
<1>5. CASE ReconnectNow
  <2> DEFINE o == [orch EXCEPT !.timer = FALSE]
  <2>1. o \in OrchRecord /\ o.refreshAttempted = orch.refreshAttempted
    BY <1>1 DEF OrchRecord
  <2>2. /\ auth' = auth
        /\ \/ orch' = Schedule(o) /\ UNCHANGED <<ws, conn, pendingAuthToken>>
           \/ Connect("reconnect", auth.access, o)
    BY <1>5 DEF ReconnectNow
  <2> HIDE DEF o
  <2>3. /\ RefusalsBlameToken => RefusalsBlameToken'
        /\ orch'.refreshAttempted => orch.refreshAttempted
    BY <2>1, <2>2, WireSame, FlagKept, ConnectIsFresh, ConnectFlag DEF Caller
  <2>4. QED
    BY <1>2, <1>3, <2>2, <2>3, SurvivalDisturbed DEF SurvivalInv
<1>6. QED
  BY <1>4, <1>5

(* A refresh: a new token, a session that has ended, or no stale token kept.    *)
LEMMA RefreshSurvives ==
  ASSUME Typed, SurvivalInv, NEW caller \in Caller, RefreshReturns(caller)
  PROVE  SurvivalInv'
<1>1. orch \in OrchRecord /\ auth \in AuthRecord
  BY DEF Typed, TokensTyped, CallsTyped
<1>2. UNCHANGED <<server, asked, expiries, strays, clicks>>
  BY DEF RefreshReturns, RefreshSucceeds, RefreshRefused, RefreshUnanswered
<1>3. CASE RefreshSucceeds(caller)
  <2>1. /\ auth'.stored /\ auth'.access = "fresh" /\ Connect(caller, "fresh", orch)
        /\ UNCHANGED loggingOut
    BY <1>3 DEF RefreshSucceeds
  <2>2. /\ RefusalsBlameToken' /\ FreshWire'
        /\ orch'.refreshAttempted => orch.refreshAttempted
    BY <1>1, <2>1, ConnectIsFresh, ConnectFlag
  <2>3. QED
    BY <1>2, <2>1, <2>2, SurvivalKept
<1>4. CASE RefreshRefused(caller)
  BY <1>2, <1>4 DEF RefreshRefused, SurvivalInv, Accepted
<1>5. CASE RefreshUnanswered(caller)
  <2>1. /\ auth'.stored = auth.stored /\ auth'.access # "stale"
        /\ UNCHANGED <<ws, conn, pendingAuthToken, loggingOut>>
    BY <1>1, <1>5, NoneAssumption DEF RefreshUnanswered, AuthRecord, Token
  <2>2. orch' = Degrade(orch) \/ orch' = ScheduleRecovery(orch) \/ orch' = Schedule(orch)
    BY <1>5 DEF RefreshUnanswered
  <2>3. orch'.refreshAttempted = orch.refreshAttempted
    BY <1>1, <2>2, FlagKept
  <2>4. QED
    BY <1>2, <2>1, <2>3, LoopSurvives
<1>6. QED
  BY <1>3, <1>4, <1>5 DEF RefreshReturns

LEMMA SurvivalInit ==
  ASSUME Init
  PROVE  CountsNat /\ SurvivalInv
<1>1. /\ ws.state = "DISCONNECTED" /\ conn.up = <<>> /\ conn.down = <<>>
      /\ auth.stored /\ auth.access = None /\ ~orch.refreshAttempted /\ ~loggingOut
      /\ expiries = 0 /\ strays = 0 /\ clicks = 0
  BY ResetLemma DEF Init
<1>2. DOMAIN conn.up = {} /\ DOMAIN conn.down = {}
  BY <1>1
<1>3. FreshWire /\ RefusalsBlameToken
  BY <1>1, <1>2 DEF FreshWire, RefusalsBlameToken
<1>4. QED
  BY <1>1, <1>3, NoneAssumption DEF CountsNat, SurvivalInv, Token

LEMMA CountsStep ==
  ASSUME CountsNat, [Next]_vars
  PROVE  CountsNat'
<1>1. /\ expiries' = expiries \/ expiries' = expiries + 1
      /\ strays' = strays \/ strays' = strays + 1
      /\ clicks' = clicks \/ clicks' = clicks + 1
  <2>1. CASE Network
    BY <2>1 DEF Network, SocketOpens, ServerReceives, ReceiveHello, ReceiveAuthResponse,
                ReceiveRefusal, ServerCloses, ClosingEnds, counters
  <2>2. CASE Poll
    BY <2>2 DEF Poll, PollSucceeds, PollFails, PollSuperseded, counters
  <2>3. CASE Timers
    BY <2>3 DEF Timers, ReconnectTimerFires, RecoveryTimerFires, counters
  <2>4. CASE Refresh
    BY <2>4 DEF Refresh, RefreshReturns
  <2>5. CASE ConnectionBreaks \/ InvalidateTransport \/ SendStray \/ LifecycleRecovery \/ ReconnectNow
    BY <2>5 DEF ConnectionBreaks, InvalidateTransport, SendStray, LifecycleRecovery, ReconnectNow
  <2>6. CASE \/ FinishLogout \/ TryRestoreSession \/ Login \/ Logout \/ TokensExpire
             \/ SessionEndsOnServer \/ UNCHANGED vars
    BY <2>6 DEF FinishLogout, TryRestoreSession, Login, Logout, TokensExpire,
                SessionEndsOnServer, vars, counters
  <2>7. QED
    BY <2>1, <2>2, <2>3, <2>4, <2>5, <2>6 DEF Next
<1>2. QED
  BY <1>1 DEF CountsNat

(* What was overtaken stays so. *)
LEMMA OvertakenForGood ==
  ASSUME overtaken, [Next]_vars
  PROVE  overtaken'
<1>1. CASE Network
  BY <1>1 DEF Network, SocketOpens, ServerReceives, ReceiveHello, ReceiveAuthResponse,
              ReceiveRefusal, ServerCloses, ClosingEnds, SocketCloses
<1>2. CASE Poll
  BY <1>2 DEF Poll, PollSucceeds, PollFails, PollSuperseded
<1>3. CASE Timers
  BY <1>3 DEF Timers, ReconnectTimerFires, RecoveryTimerFires
<1>4. CASE Refresh
  BY <1>4 DEF Refresh, RefreshReturns
<1>5. CASE ConnectionBreaks \/ InvalidateTransport \/ SendStray \/ LifecycleRecovery \/ ReconnectNow
  BY <1>5 DEF ConnectionBreaks, SocketCloses, InvalidateTransport, SendStray, LifecycleRecovery,
              ReconnectNow
<1>6. CASE \/ FinishLogout \/ TryRestoreSession \/ Login \/ Logout \/ TokensExpire
           \/ SessionEndsOnServer \/ UNCHANGED vars
  BY <1>6 DEF FinishLogout, TryRestoreSession, Login, Logout, TokensExpire, SessionEndsOnServer, vars
<1>7. QED
  BY <1>1, <1>2, <1>3, <1>4, <1>5, <1>6 DEF Next

LEMMA SurvivalStep ==
  ASSUME ~overtaken', Typed, WireInv, SurvivalInv, CountsNat, [Next]_vars
  PROVE  SurvivalInv'
<1>1. CASE Network \/ ConnectionBreaks \/ InvalidateTransport
  BY <1>1, ServerSurvives, HandshakeSurvives, RefusalSurvives, CloseSurvives DEF Network
<1>2. CASE Poll \/ Timers \/ Refresh \/ LifecycleRecovery \/ ReconnectNow
  BY <1>2, PollSurvives, TimersSurvive, RefreshSurvives, ClickSurvives DEF Refresh
<1>3. CASE \/ SendStray \/ TokensExpire \/ Logout \/ Login \/ FinishLogout
           \/ SessionEndsOnServer \/ TryRestoreSession \/ UNCHANGED vars
  BY <1>3, UserSurvives
<1>4. QED
  BY <1>1, <1>2, <1>3 DEF Next

(* One expired token or one envelope sent before authentication, whatever      *)
(* outages, drops, superseded attempts and ended refreshes surround it, does   *)
(* not log out a client whose session the server still accepts, unless the     *)
(* reconnect timer offered a refused token again while its refresh was under   *)
(* way: that second refusal is the one the client does not survive.            *)
THEOREM OneRefusalNeverLogsOut == Spec => []OneRefusalIsSurvived
<1> DEFINE Inv == /\ Typed /\ WireInv /\ DrivenInv /\ CountsNat
                  /\ overtaken \/ SurvivalInv
<1>1. Init => Inv
  BY RecoveryInit, SurvivalInit
<1>2. Inv /\ [Next]_vars => Inv'
  BY RecoveryStep, SurvivalStep, CountsStep, OvertakenForGood
<1>3. Inv => OneRefusalIsSurvived
  BY DEF SurvivalInv, OneRefusalIsSurvived, LogoutMeansSessionEnded, LoggedOut, Accepted, Disturbances
<1>4. QED
  BY <1>1, <1>2, <1>3, PTL DEF Spec

=============================================================================
