---------------------------- MODULE SessionFanout ----------------------------
(***************************************************************************)
(* One authenticated websocket session of the backend and the goroutines   *)
(* that work for it: the handler (reader loop and deferred teardown), the  *)
(* fanout goroutine that forwards Bus events, the single writer, the        *)
(* Listener goroutine that publishes, and requests of other users that send *)
(* to the session directly.                                                 *)
(*                                                                         *)
(* A sequenced event is its position in the published stream; every other  *)
(* frame (a response, a direct event, an error) is OtherFrame. offered and *)
(* received are history variables.                                         *)
(***************************************************************************)
EXTENDS Naturals, Sequences, FiniteSets

CONSTANTS
  Sender,     \* requests that deliver directly to this session
  SubBuffer,  \* cfg.EventBusSubscriberBuffer
  OutBuffer,  \* cfg.WsOutboundQueueMax + overflowHeadroom
  MaxEvents,  \* bound: events published
  MaxOther    \* bound: other frames sent

ASSUME SessionAssumption ==
  /\ SubBuffer \in Nat \ {0}
  /\ OutBuffer \in Nat \ {0}
  /\ MaxEvents \in Nat
  /\ MaxOther \in Nat

VARIABLES
  handler,     \* where handleWebSocket is
  conn,        \* the socket is open
  subscribed,  \* the subscription is in Bus.subs
  eventCh,     \* the subscription's channel
  eventChClosed,
  registered,  \* the session is in sessionsByUser
  outboundCh,  \* frames for the writer
  outboundClosed,
  publishing,  \* event Bus.Publish is fanning out, 0 when none
  targeted,    \* its snapshot of Bus.subs has this subscription
  nextEvent,   \* next event of the Listener
  fanout,      \* where the fanout goroutine is
  held,        \* the event it took from eventCh, 0 when none
  writer,      \* where the writer goroutine is
  direct,      \* direct[d]: request d is inside sendDirectEnvelope
  others,      \* bounds the other frames
  offered,     \* events the filter accepted for this subscription
  received,    \* events the client has received
  backpressure,\* what became of the overflow error frame
  panicked     \* goroutine that sent on a closed channel, ending the process

busVars == <<subscribed, eventCh, eventChClosed, publishing, targeted, nextEvent, offered>>
outVars == <<outboundCh, outboundClosed, received>>
sendVars == <<registered, direct, others>>
fanVars == <<fanout, held, backpressure>>
vars == <<handler, conn, busVars, outVars, sendVars, fanVars, writer, panicked>>

OtherFrame == 0
Event == 1..MaxEvents

HandlerStages ==
  { "authenticated", \* AuthResponse is on its way, the access cache loaded
    "registered",    \* direct deliveries find the session
    "serving",       \* subscribed, in the read loop
    "leaving",       \* read failed: deferred teardown starts
    "unsubscribed",  \* deleted from Bus.subs
    "eventChClosed", \* its channel is closed
    "unregistered",  \* removed from sessionsByUser
    "flushing",      \* outboundCh is closed
    "gone" }

TypeOK ==
  /\ handler \in HandlerStages
  /\ conn \in BOOLEAN
  /\ subscribed \in BOOLEAN /\ registered \in BOOLEAN
  /\ eventCh \in Seq(Event) /\ Len(eventCh) <= SubBuffer
  /\ eventChClosed \in BOOLEAN /\ outboundClosed \in BOOLEAN
  /\ outboundCh \in Seq(Event \cup {OtherFrame}) /\ Len(outboundCh) <= OutBuffer
  /\ publishing \in Event \cup {0} /\ targeted \in BOOLEAN
  /\ nextEvent \in 1..(MaxEvents + 1)
  /\ fanout \in {"off", "waiting", "holding", "overflowed", "desynced", "done"}
  /\ held \in Event \cup {0}
  /\ writer \in {"running", "draining", "done"}
  /\ direct \in [Sender -> BOOLEAN]
  /\ others \in 0..MaxOther
  /\ offered \in Seq(Event) /\ received \in Seq(Event)
  /\ backpressure \in {"none", "queued", "dropped"}
  /\ panicked \in {"none", "bus", "fanout", "direct"}

Init ==
  /\ handler = "authenticated"
  /\ conn = TRUE
  /\ subscribed = FALSE /\ registered = FALSE
  /\ eventCh = <<>> /\ eventChClosed = FALSE
  /\ outboundCh = <<OtherFrame>> /\ outboundClosed = FALSE
  /\ publishing = 0 /\ targeted = FALSE /\ nextEvent = 1
  /\ fanout = "off" /\ held = 0
  /\ writer = "running"
  /\ direct = [d \in Sender |-> FALSE]
  /\ others = 0
  /\ offered = <<>> /\ received = <<>>
  /\ backpressure = "none"
  /\ panicked = "none"

OutboundFull == Len(outboundCh) >= OutBuffer

(* Mutant: the queue has no limit. *)
EnqueueBlind(frame) == outboundCh' = Append(outboundCh, frame)

(* The enqueue closure: a full queue drops the frame.                       *)
Enqueue(frame) ==
  outboundCh' = IF OutboundFull THEN outboundCh ELSE Append(outboundCh, frame)

-----------------------------------------------------------------------------
(* The handler goroutine *)

RegisterUserSession ==
  /\ handler = "authenticated"
  /\ handler' = "registered"
  /\ registered' = TRUE
  /\ UNCHANGED <<conn, busVars, outVars, direct, others, fanVars, writer, panicked>>

StartEventFanout ==
  /\ handler = "registered"
  /\ handler' = "serving"
  /\ subscribed' = TRUE
  /\ fanout' = "waiting"
  /\ UNCHANGED <<conn, eventCh, eventChClosed, publishing, targeted, nextEvent,
                 offered, outVars, sendVars, held, backpressure, writer, panicked>>

(* A request is read and answered; the answer is dropped on a full queue.   *)
HandleDomainPayload ==
  /\ handler = "serving"
  /\ conn
  /\ others < MaxOther
  /\ others' = others + 1
  /\ Enqueue(OtherFrame)
  /\ UNCHANGED <<handler, conn, busVars, outboundClosed, received, registered,
                 direct, fanVars, writer, panicked>>

LeaveReadLoop ==
  /\ handler = "serving"
  /\ ~conn
  /\ handler' = "leaving"
  /\ UNCHANGED <<conn, busVars, outVars, sendVars, fanVars, writer, panicked>>

(* Unsubscribe is two steps: delete under the lock, then close the channel. *)
Unsubscribe ==
  /\ handler = "leaving"
  /\ handler' = "unsubscribed"
  /\ subscribed' = FALSE
  /\ UNCHANGED <<conn, eventCh, eventChClosed, publishing, targeted, nextEvent,
                 offered, outVars, sendVars, fanVars, writer, panicked>>

(* Mutant: Unsubscribe forgets to close the channel. *)
LeaveEventChOpen ==
  /\ handler = "unsubscribed"
  /\ handler' = "eventChClosed"
  /\ UNCHANGED <<conn, busVars, outVars, sendVars, fanVars, writer, panicked>>

CloseEventCh ==
  /\ handler = "unsubscribed"
  /\ handler' = "eventChClosed"
  /\ eventChClosed' = TRUE
  /\ UNCHANGED <<conn, subscribed, eventCh, publishing, targeted, nextEvent,
                 offered, outVars, sendVars, fanVars, writer, panicked>>

UnregisterSession ==
  /\ handler = "eventChClosed"
  /\ handler' = "unregistered"
  /\ registered' = FALSE
  /\ UNCHANGED <<conn, busVars, outVars, direct, others, fanVars, writer, panicked>>

(* Mutant: the fanout goroutine is not waited for. *)
CloseOutboundEarly ==
  /\ handler = "unregistered"
  /\ handler' = "flushing"
  /\ outboundClosed' = TRUE
  /\ UNCHANGED <<conn, busVars, outboundCh, received, sendVars, fanVars, writer, panicked>>

CloseOutbound ==
  /\ handler = "unregistered"
  /\ fanout = "done"
  /\ handler' = "flushing"
  /\ outboundClosed' = TRUE
  /\ UNCHANGED <<conn, busVars, outboundCh, received, sendVars, fanVars, writer, panicked>>

AwaitWriter ==
  /\ handler = "flushing"
  /\ writer = "done"
  /\ handler' = "gone"
  /\ UNCHANGED <<conn, busVars, outVars, sendVars, fanVars, writer, panicked>>

Teardown ==
  \/ LeaveReadLoop \/ Unsubscribe \/ CloseEventCh \/ UnregisterSession
  \/ CloseOutbound \/ AwaitWriter

-----------------------------------------------------------------------------
(* Bus.Publish, called by the Listener goroutine *)

PublishSnapshot ==
  /\ publishing = 0
  /\ nextEvent <= MaxEvents
  /\ publishing' = nextEvent
  /\ nextEvent' = nextEvent + 1
  /\ targeted' = subscribed
  /\ UNCHANGED <<handler, conn, subscribed, eventCh, eventChClosed, offered,
                 outVars, sendVars, fanVars, writer, panicked>>

(* Not a subscriber at the snapshot, or the filter refuses. *)
PublishSkip ==
  /\ publishing # 0
  /\ publishing' = 0
  /\ UNCHANGED <<handler, conn, subscribed, eventCh, eventChClosed, targeted,
                 nextEvent, offered, outVars, sendVars, fanVars, writer, panicked>>

PublishSend ==
  /\ publishing # 0 /\ targeted /\ ~eventChClosed
  /\ Len(eventCh) < SubBuffer
  /\ eventCh' = Append(eventCh, publishing)
  /\ offered' = Append(offered, publishing)
  /\ publishing' = 0
  /\ UNCHANGED <<handler, conn, subscribed, eventChClosed, targeted, nextEvent,
                 outVars, sendVars, fanVars, writer, panicked>>

(* Mutant: a subscription made with Subscribe, without onOverflow. *)
PublishDrop ==
  /\ publishing # 0 /\ targeted /\ ~eventChClosed
  /\ Len(eventCh) >= SubBuffer
  /\ offered' = Append(offered, publishing)
  /\ publishing' = 0
  /\ UNCHANGED <<handler, conn, subscribed, eventCh, eventChClosed, targeted, nextEvent,
                 outVars, sendVars, fanVars, writer, panicked>>

(* The buffer is full: the event is dropped and onOverflow closes the socket. *)
PublishOverflow ==
  /\ publishing # 0 /\ targeted /\ ~eventChClosed
  /\ Len(eventCh) >= SubBuffer
  /\ offered' = Append(offered, publishing)
  /\ publishing' = 0
  /\ conn' = FALSE
  /\ UNCHANGED <<handler, subscribed, eventCh, eventChClosed, targeted, nextEvent,
                 outVars, sendVars, fanVars, writer, panicked>>

Publish == PublishSnapshot \/ PublishSkip \/ PublishSend \/ PublishOverflow

-----------------------------------------------------------------------------
(* The fanout goroutine *)

FanoutTake ==
  /\ fanout = "waiting"
  /\ eventCh # <<>>
  /\ fanout' = "holding"
  /\ held' = Head(eventCh)
  /\ eventCh' = Tail(eventCh)
  /\ UNCHANGED <<handler, conn, subscribed, eventChClosed, publishing, targeted,
                 nextEvent, offered, outVars, sendVars, backpressure, writer, panicked>>

FanoutForward ==
  /\ fanout = "holding" /\ ~outboundClosed
  /\ ~OutboundFull
  /\ Enqueue(held)
  /\ fanout' = "waiting"
  /\ held' = 0
  /\ UNCHANGED <<handler, conn, busVars, outboundClosed, received, sendVars,
                 backpressure, writer, panicked>>

(* The queue is full: the event is given up. *)
FanoutOverflow ==
  /\ fanout = "holding" /\ ~outboundClosed
  /\ OutboundFull
  /\ fanout' = "overflowed"
  /\ held' = 0
  /\ UNCHANGED <<handler, conn, busVars, outVars, sendVars, backpressure,
                 writer, panicked>>

(* The best-effort BACKPRESSURE_OVERFLOW frame goes to the same queue. *)
FanoutErrorFrame ==
  /\ fanout = "overflowed" /\ ~outboundClosed
  /\ Enqueue(OtherFrame)
  /\ backpressure' = IF OutboundFull THEN "dropped" ELSE "queued"
  /\ fanout' = "desynced"
  /\ UNCHANGED <<handler, conn, busVars, outboundClosed, received, sendVars,
                 held, writer, panicked>>

(* Mutant: the goroutine goes on with the next event. *)
FanoutContinue ==
  /\ fanout = "desynced"
  /\ fanout' = "waiting"
  /\ UNCHANGED <<handler, conn, busVars, outVars, sendVars, held, backpressure,
                 writer, panicked>>

(* handleSessionDesync closes the socket and the goroutine returns. *)
FanoutDesync ==
  /\ fanout = "desynced"
  /\ fanout' = "done"
  /\ conn' = FALSE
  /\ UNCHANGED <<handler, busVars, outVars, sendVars, held, backpressure,
                 writer, panicked>>

(* eventCh is closed and empty: the range loop ends. *)
FanoutEnd ==
  /\ fanout = "waiting"
  /\ eventChClosed /\ eventCh = <<>>
  /\ fanout' = "done"
  /\ UNCHANGED <<handler, conn, busVars, outVars, sendVars, held, backpressure,
                 writer, panicked>>

Fanout ==
  \/ FanoutTake \/ FanoutForward \/ FanoutOverflow \/ FanoutErrorFrame
  \/ FanoutDesync \/ FanoutEnd

-----------------------------------------------------------------------------
(* The writer goroutine *)

(* Taking a frame and writing it are one step: the writer's own hand is not *)
(* counted as a place of the queue.                                         *)
WriteEnvelope ==
  /\ writer = "running"
  /\ conn
  /\ outboundCh # <<>>
  /\ received' = IF Head(outboundCh) = OtherFrame THEN received
                 ELSE Append(received, Head(outboundCh))
  /\ outboundCh' = Tail(outboundCh)
  /\ UNCHANGED <<handler, conn, busVars, outboundClosed, sendVars, fanVars,
                 writer, panicked>>

(* A write on the closed socket fails; what is queued is drained unsent. *)
DrainOutbound ==
  /\ writer = "draining" \/ (writer = "running" /\ ~conn)
  /\ outboundCh # <<>>
  /\ writer' = "draining"
  /\ outboundCh' = Tail(outboundCh)
  /\ UNCHANGED <<handler, conn, busVars, outboundClosed, received, sendVars,
                 fanVars, panicked>>

WriterEnd ==
  /\ writer # "done"
  /\ outboundClosed /\ outboundCh = <<>>
  /\ writer' = "done"
  /\ UNCHANGED <<handler, conn, busVars, outVars, sendVars, fanVars, panicked>>

-----------------------------------------------------------------------------
(* Other goroutines *)

(* sendDirectEnvelope: targets are collected under the lock ...             *)
CollectDirectTarget(d) ==
  /\ ~direct[d]
  /\ registered
  /\ others < MaxOther
  /\ others' = others + 1
  /\ direct' = [direct EXCEPT ![d] = TRUE]
  /\ UNCHANGED <<handler, conn, busVars, outVars, registered, fanVars, writer, panicked>>

(* ... and sent to outside it; a full queue disconnects the session.        *)
SendDirect(d) ==
  /\ direct[d] /\ ~outboundClosed
  /\ direct' = [direct EXCEPT ![d] = FALSE]
  /\ Enqueue(OtherFrame)
  /\ conn' = (conn /\ ~OutboundFull)
  /\ UNCHANGED <<handler, busVars, outboundClosed, received, registered, others,
                 fanVars, writer, panicked>>

(* A send on a closed channel panics and takes the process with it.         *)
Panic ==
  /\ \/ publishing # 0 /\ targeted /\ eventChClosed /\ panicked' = "bus"
     \/ fanout \in {"holding", "overflowed"} /\ outboundClosed /\ panicked' = "fanout"
     \/ (\E d \in Sender : direct[d]) /\ outboundClosed /\ panicked' = "direct"
  /\ UNCHANGED <<handler, conn, busVars, outVars, sendVars, fanVars, writer>>

(* The client, or the network, closes the connection. *)
PeerCloses ==
  /\ conn
  /\ conn' = FALSE
  /\ UNCHANGED <<handler, busVars, outVars, sendVars, fanVars, writer, panicked>>

-----------------------------------------------------------------------------

HandlerStep == RegisterUserSession \/ StartEventFanout \/ HandleDomainPayload \/ Teardown
WriterStep == WriteEnvelope \/ DrainOutbound \/ WriterEnd
DirectStep == \E d \in Sender :
                CollectDirectTarget(d) \/ SendDirect(d)

Next ==
  /\ panicked = "none"
  /\ \/ HandlerStep \/ Publish \/ Fanout \/ WriterStep \/ DirectStep
     \/ PeerCloses \/ Panic

(* The goroutines of the session are scheduled. Nothing makes a client read: *)
(* a write may block for as long as the socket is open, so the writer is     *)
(* only sure to go on once it is closed.                                     *)
Fairness ==
  /\ WF_vars(panicked = "none" /\ (RegisterUserSession \/ StartEventFanout \/ Teardown))
  /\ WF_vars(panicked = "none" /\ Fanout)
  /\ WF_vars(panicked = "none" /\ (DrainOutbound \/ WriterEnd))

Spec == Init /\ [][Next]_vars /\ Fairness

-----------------------------------------------------------------------------
(* Properties *)

Hand == IF held = 0 THEN <<>> ELSE <<held>>

(* What is on its way to the client, the frame it will see first in front. *)
OnTheWay == outboundCh \o Hand \o eventCh

EventsUpTo(frames, k) == Cardinality({i \in 1..k : frames[i] # OtherFrame})

(* The client never sees an event after one it missed: what it received is  *)
(* a prefix of what the Bus offered, whichever of the two queues overflows, *)
(* and whatever direct deliveries and responses compete for the same queue. *)
ReceivedIsPrefix ==
  /\ Len(received) <= Len(offered)
  /\ \A i \in DOMAIN received : received[i] = offered[i]

(* While the socket is open and the fanout goroutine is not just about to   *)
(* close it, the events on their way are, in their order, all the offered   *)
(* ones that the client has not received: a session that lost an event is a *)
(* session being disconnected.                                              *)
NothingLostWhileConnected ==
  (conn /\ fanout \notin {"overflowed", "desynced"}) =>
    /\ Len(offered) = Len(received) + EventsUpTo(OnTheWay, Len(OnTheWay))
    /\ \A k \in DOMAIN OnTheWay :
         OnTheWay[k] # OtherFrame =>
           OnTheWay[k] = offered[Len(received) + EventsUpTo(OnTheWay, k)]

(* "Stop event subscriptions before closing the outbound channel so the     *)
(* fanout goroutine cannot write after close."                              *)
FanoutNeverWritesAfterClose == panicked # "fanout"

(* A closed socket is noticed and the whole session is taken down: handler, *)
(* fanout goroutine and writer wait for each other in an order that ends.   *)
SessionEnds == ~conn ~> (handler = "gone" \/ panicked # "none")

(* The Bus "is safe for concurrent use": no publisher dies on a             *)
(* subscription that another goroutine takes down.                          *)
BusIsSafe == panicked # "bus"
=============================================================================
