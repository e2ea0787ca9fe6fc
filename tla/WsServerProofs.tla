--------------------------- MODULE WsServerProofs ---------------------------
(***************************************************************************)
(* The two models of ws.Server, the session and the presence of its user.   *)
(*                                                                         *)
(* SessionFanout, for every number of senders, every buffer size and any    *)
(* number of events: the types; the order of the deferred teardown in       *)
(* handleWebSocket, which keeps the fanout goroutine from sending on the    *)
(* outbound channel after it was closed; that the client receives a prefix  *)
(* of what the Bus offered, and that while it is connected the rest is on   *)
(* its way.                                                                 *)
(*                                                                         *)
(* Presence, for every set of connections, instances and observers: the     *)
(* types, that the stored status is the one the leases imply, and that a    *)
(* heartbeat of an observer shows it that status.                           *)
(***************************************************************************)
EXTENDS SessionFanout, Presence, FiniteSetTheorems, SequenceTheorems, WellFoundedInduction,
        TLAPS

Stages == {"flushing", "gone"}

(* Only a handler that has waited for fanoutDone closes the outbound channel. *)
ClosedAfterHandler == outboundClosed => handler \in Stages

(* A goroutine that has returned is never started again.                      *)
HandlerAfterFanout == handler \in Stages => fanout = "done"

TeardownInv ==
  /\ ClosedAfterHandler
  /\ HandlerAfterFanout
  /\ FanoutNeverWritesAfterClose

(* A session begins with an open channel and no fanout goroutine. *)
LEMMA TeardownInit == Init => TeardownInv
  BY DEF Init, TeardownInv, ClosedAfterHandler, HandlerAfterFanout, Stages,
         FanoutNeverWritesAfterClose

(* What the handler's own steps do to the order.                             *)
LEMMA HandlerKeepsOrder ==
  ASSUME TeardownInv, HandlerStep
  PROVE  TeardownInv'
<1> USE DEF TeardownInv, ClosedAfterHandler, HandlerAfterFanout, Stages,
            FanoutNeverWritesAfterClose
<1>1. CASE RegisterUserSession
  BY <1>1 DEF RegisterUserSession, outVars, fanVars
<1>2. CASE StartEventFanout
  BY <1>2 DEF StartEventFanout, outVars
<1>3. CASE HandleDomainPayload
  BY <1>3 DEF HandleDomainPayload, fanVars
<1>4. CASE LeaveReadLoop
  BY <1>4 DEF LeaveReadLoop, outVars, fanVars
<1>5. CASE Unsubscribe
  BY <1>5 DEF Unsubscribe, outVars, fanVars
<1>6. CASE CloseEventCh
  BY <1>6 DEF CloseEventCh, outVars, fanVars
<1>7. CASE UnregisterSession
  BY <1>7 DEF UnregisterSession, outVars, fanVars
<1>8. CASE CloseOutbound
  (* The guard waits for the goroutine: the only step that closes the channel. *)
  BY <1>8 DEF CloseOutbound, fanVars
<1>9. CASE AwaitWriter
  BY <1>9 DEF AwaitWriter, outVars, fanVars
<1>10. QED
  BY HandlerStep, <1>1, <1>2, <1>3, <1>4, <1>5, <1>6, <1>7, <1>8, <1>9
  DEF HandlerStep, Teardown

(* A running goroutine finds the channel open and the handler not past it.    *)
LEMMA FanoutKeepsOrder ==
  ASSUME TeardownInv, Fanout
  PROVE  TeardownInv'
<1> USE DEF TeardownInv, ClosedAfterHandler, HandlerAfterFanout, Stages,
            FanoutNeverWritesAfterClose
<1>1. fanout # "done"
  BY DEF Fanout, FanoutTake, FanoutForward, FanoutOverflow, FanoutErrorFrame,
         FanoutDesync, FanoutEnd
<1>2. UNCHANGED <<handler, outboundClosed, panicked>>
  BY DEF Fanout, FanoutTake, FanoutForward, FanoutOverflow, FanoutErrorFrame,
         FanoutDesync, FanoutEnd, outVars
<1>3. QED
  BY <1>1, <1>2

(* Publishers, the writer, direct deliveries and the network touch neither    *)
(* the handler's stage, nor the channel's state, nor the goroutine.           *)
LEMMA OthersKeepOrder ==
  ASSUME TeardownInv, Publish \/ WriterStep \/ DirectStep \/ PeerCloses
  PROVE  TeardownInv'
<1>1. CASE Publish
  <2>1. UNCHANGED <<handler, outboundClosed, fanout, panicked>>
    BY <1>1 DEF Publish, PublishSnapshot, PublishSkip, PublishSend,
                PublishOverflow, outVars, fanVars
  <2>2. QED
    BY <2>1 DEF TeardownInv, ClosedAfterHandler, HandlerAfterFanout,
                FanoutNeverWritesAfterClose
<1>2. CASE WriterStep
  <2>1. UNCHANGED <<handler, outboundClosed, fanout, panicked>>
    BY <1>2 DEF WriterStep, WriteEnvelope, DrainOutbound, WriterEnd, outVars, fanVars
  <2>2. QED
    BY <2>1 DEF TeardownInv, ClosedAfterHandler, HandlerAfterFanout,
                FanoutNeverWritesAfterClose
<1>3. CASE DirectStep
  <2>1. UNCHANGED <<handler, outboundClosed, fanout, panicked>>
    BY <1>3 DEF DirectStep, CollectDirectTarget, SendDirect, outVars, fanVars
  <2>2. QED
    BY <2>1 DEF TeardownInv, ClosedAfterHandler, HandlerAfterFanout,
                FanoutNeverWritesAfterClose
<1>4. CASE PeerCloses
  <2>1. UNCHANGED <<handler, outboundClosed, fanout, panicked>>
    BY <1>4 DEF PeerCloses, outVars, fanVars
  <2>2. QED
    BY <2>1 DEF TeardownInv, ClosedAfterHandler, HandlerAfterFanout,
                FanoutNeverWritesAfterClose
<1>5. QED
  BY <1>1, <1>2, <1>3, <1>4

(* A panic is some other goroutine's: with the channel closed, no fanout      *)
(* goroutine holds a frame.                                                   *)
LEMMA PanicKeepsOrder ==
  ASSUME TeardownInv, Panic
  PROVE  TeardownInv'
<1>1. UNCHANGED <<handler, outboundClosed, fanout>>
  BY DEF Panic, outVars, fanVars
<1>2. outboundClosed => fanout \notin {"holding", "overflowed"}
  BY DEF TeardownInv, ClosedAfterHandler, HandlerAfterFanout
<1>3. panicked' # "fanout"
  BY <1>2 DEF Panic
<1>4. QED
  BY <1>1, <1>3 DEF TeardownInv, ClosedAfterHandler, HandlerAfterFanout,
                    FanoutNeverWritesAfterClose

(* "Stop event subscriptions before closing the outbound channel so the       *)
(* fanout goroutine cannot write after close": so it is, for every session.   *)
THEOREM NoWriteAfterClose == Spec => []FanoutNeverWritesAfterClose
<1>1. Init => TeardownInv
  BY TeardownInit
<1>2. TeardownInv /\ [Next]_vars => TeardownInv'
  <2> SUFFICES ASSUME TeardownInv, [Next]_vars
               PROVE  TeardownInv'
    OBVIOUS
  <2>1. CASE Next
    BY <2>1, HandlerKeepsOrder, FanoutKeepsOrder, OthersKeepOrder,
       PanicKeepsOrder DEF Next
  <2>2. CASE UNCHANGED vars
    BY <2>2 DEF vars, outVars, fanVars, TeardownInv, ClosedAfterHandler,
                HandlerAfterFanout, FanoutNeverWritesAfterClose
  <2>3. QED
    BY <2>1, <2>2
<1>3. TeardownInv => FanoutNeverWritesAfterClose
  BY DEF TeardownInv
<1>4. QED
  BY <1>1, <1>2, <1>3, PTL DEF Spec

-----------------------------------------------------------------------------
(* Types *)

Frame == Event \cup {OtherFrame}

LEMMA BoundsAreNat == SubBuffer \in Nat \ {0} /\ OutBuffer \in Nat \ {0}
                      /\ MaxEvents \in Nat /\ MaxOther \in Nat
  BY SessionAssumption DEF SessionAssumption

(* The types, in parts: the goroutines, the Bus, and the outbound queue. *)
StagesTyped ==
  /\ handler \in HandlerStages
  /\ conn \in BOOLEAN /\ registered \in BOOLEAN
  /\ fanout \in {"off", "waiting", "holding", "overflowed", "desynced", "done"}
  /\ writer \in {"running", "draining", "done"}
  /\ direct \in [Sender -> BOOLEAN]
  /\ others \in 0..MaxOther
  /\ backpressure \in {"none", "queued", "dropped"}
  /\ panicked \in {"none", "bus", "fanout", "direct"}

BusTyped ==
  /\ subscribed \in BOOLEAN /\ eventChClosed \in BOOLEAN /\ targeted \in BOOLEAN
  /\ eventCh \in Seq(Event) /\ Len(eventCh) <= SubBuffer
  /\ publishing \in Event \cup {0}
  /\ nextEvent \in 1..(MaxEvents + 1)
  /\ offered \in Seq(Event)

QueueTyped ==
  /\ outboundClosed \in BOOLEAN
  /\ outboundCh \in Seq(Frame) /\ Len(outboundCh) <= OutBuffer
  /\ held \in Event \cup {0}
  /\ received \in Seq(Event)

Typed == StagesTyped /\ BusTyped /\ QueueTyped

LEMMA TypedIsTypeOK == Typed => TypeOK
  BY DEF Typed, StagesTyped, BusTyped, QueueTyped, TypeOK, Frame

LEMMA InitIsTyped == Init => Typed
<1> SUFFICES ASSUME Init PROVE Typed
  OBVIOUS
<1>1. /\ {conn, registered, subscribed, eventChClosed, targeted, outboundClosed}
           \subseteq BOOLEAN
      /\ direct \in [Sender -> BOOLEAN]
  BY DEF Init
<1>2. /\ handler = "authenticated" /\ fanout = "off" /\ writer = "running"
      /\ backpressure = "none" /\ panicked = "none" /\ others = 0
      /\ eventCh = <<>> /\ publishing = 0 /\ nextEvent = 1 /\ offered = <<>>
      /\ outboundCh = <<OtherFrame>> /\ held = 0 /\ received = <<>>
  BY DEF Init
<1>3. StagesTyped
  <2>1. others \in 0..MaxOther /\ handler \in HandlerStages
    BY <1>2, BoundsAreNat DEF HandlerStages
  <2>2. QED
    BY <1>1, <1>2, <2>1 DEF StagesTyped
<1>4. BusTyped
  <2>1. /\ eventCh \in Seq(Event) /\ Len(eventCh) <= SubBuffer /\ offered \in Seq(Event)
        /\ nextEvent \in 1..(MaxEvents + 1) /\ publishing \in Event \cup {0}
    BY <1>2, BoundsAreNat
  <2>2. QED
    BY <1>1, <2>1 DEF BusTyped
<1>5. QueueTyped
  <2>1. <<OtherFrame>> \in Seq(Frame) /\ Len(<<OtherFrame>>) = 1
    BY DEF Frame
  <2>2. /\ outboundCh \in Seq(Frame) /\ Len(outboundCh) <= OutBuffer
        /\ received \in Seq(Event)
    BY <1>2, <2>1, BoundsAreNat
  <2>3. QED
    BY <1>1, <1>2, <2>2 DEF QueueTyped
<1>6. QED
  BY <1>3, <1>4, <1>5 DEF Typed

(* The closure enqueue. *)
LEMMA EnqueueIsTyped ==
  ASSUME QueueTyped, NEW f \in Frame, Enqueue(f)
  PROVE  outboundCh' \in Seq(Frame) /\ Len(outboundCh') <= OutBuffer
<1>1. OutBuffer \in Nat /\ Len(outboundCh) \in Nat
  BY BoundsAreNat DEF QueueTyped
<1>2. CASE OutboundFull
  BY <1>2 DEF Enqueue, QueueTyped
<1>3. CASE ~OutboundFull
  BY <1>1, <1>3 DEF Enqueue, OutboundFull, QueueTyped
<1>4. QED
  BY <1>2, <1>3

LEMMA HandlerKeepsTypes ==
  ASSUME Typed, HandlerStep
  PROVE  Typed'
<1> USE DEF Typed, busVars, outVars, sendVars, fanVars
<1>1. CASE HandleDomainPayload
  <2>1. OtherFrame \in Frame
    BY DEF Frame
  <2>2. QueueTyped'
    BY <1>1, <2>1, EnqueueIsTyped DEF HandleDomainPayload, QueueTyped
  <2>3. StagesTyped' /\ BusTyped'
    BY <1>1, BoundsAreNat DEF HandleDomainPayload, StagesTyped, BusTyped
  <2>4. QED
    BY <2>2, <2>3
<1>2. CASE RegisterUserSession \/ StartEventFanout \/ Teardown
  <2> USE <1>2 DEF RegisterUserSession, StartEventFanout, Teardown, LeaveReadLoop,
                   Unsubscribe, CloseEventCh, UnregisterSession, CloseOutbound, AwaitWriter
  <2>1. StagesTyped'
    BY DEF StagesTyped, HandlerStages
  <2>2. BusTyped'
    BY DEF BusTyped
  <2>3. QueueTyped'
    BY DEF QueueTyped
  <2>4. QED
    BY <2>1, <2>2, <2>3
<1>3. QED
  BY <1>1, <1>2 DEF HandlerStep

LEMMA PublishKeepsTypes ==
  ASSUME Typed, Publish
  PROVE  Typed'
<1> USE DEF Typed, outVars, sendVars, fanVars
<1>1. StagesTyped' /\ QueueTyped'
  <2>1. /\ UNCHANGED <<handler, outVars, sendVars, fanVars, writer, panicked>>
        /\ conn' = conn \/ conn' = FALSE
    BY SMTT(30) DEF Publish, PublishSnapshot, PublishSkip, PublishSend, PublishOverflow
  <2>2. StagesTyped'
    BY <2>1 DEF StagesTyped
  <2>3. QueueTyped'
    BY <2>1 DEF QueueTyped
  <2>4. QED
    BY <2>2, <2>3
<1>2. BusTyped'
  <2>1. CASE PublishSnapshot
    BY <2>1, BoundsAreNat DEF PublishSnapshot, BusTyped, Event
  <2>2. CASE PublishSkip
    BY <2>2 DEF PublishSkip, BusTyped
  <2>3. CASE PublishSend
    <3>1. publishing \in Event
      BY <2>3 DEF PublishSend, BusTyped
    <3>2. QED
      BY <2>3, <3>1, BoundsAreNat DEF PublishSend, BusTyped
  <2>4. CASE PublishOverflow
    <3>1. publishing \in Event
      BY <2>4 DEF PublishOverflow, BusTyped
    <3>2. QED
      BY <2>4, <3>1 DEF PublishOverflow, BusTyped
  <2>5. QED
    BY <2>1, <2>2, <2>3, <2>4 DEF Publish
<1>3. QED
  BY <1>1, <1>2

LEMMA FanoutKeepsTypes ==
  ASSUME Typed, Fanout
  PROVE  Typed'
<1> USE DEF Typed, busVars, outVars, sendVars
<1>1. StagesTyped'
  BY DEF Fanout, FanoutTake, FanoutForward, FanoutOverflow, FanoutErrorFrame,
         FanoutDesync, FanoutEnd, StagesTyped, fanVars
<1>2. BusTyped'
  <2>1. CASE FanoutTake
    BY <2>1, BoundsAreNat DEF FanoutTake, BusTyped
  <2>2. CASE UNCHANGED busVars
    BY <2>2 DEF BusTyped
  <2>3. QED
    BY <2>1, <2>2 DEF Fanout, FanoutForward, FanoutOverflow, FanoutErrorFrame,
                      FanoutDesync, FanoutEnd
<1>3. QueueTyped'
  <2>1. CASE FanoutTake
    BY <2>1 DEF FanoutTake, BusTyped, QueueTyped
  <2>2. CASE FanoutForward
    <3>1. held \in Frame
      BY DEF QueueTyped, Frame, OtherFrame
    <3>2. QED
      BY <2>2, <3>1, EnqueueIsTyped DEF FanoutForward, QueueTyped
  <2>3. CASE FanoutErrorFrame
    <3>1. OtherFrame \in Frame
      BY DEF Frame
    <3>2. QED
      BY <2>3, <3>1, EnqueueIsTyped DEF FanoutErrorFrame, QueueTyped
  <2>4. CASE FanoutOverflow \/ FanoutDesync \/ FanoutEnd
    BY <2>4 DEF FanoutOverflow, FanoutDesync, FanoutEnd, QueueTyped
  <2>5. QED
    BY <2>1, <2>2, <2>3, <2>4 DEF Fanout
<1>4. QED
  BY <1>1, <1>2, <1>3

LEMMA OthersKeepTypes ==
  ASSUME Typed, WriterStep \/ DirectStep \/ PeerCloses \/ Panic
  PROVE  Typed'
<1> USE DEF Typed, busVars, outVars, sendVars, fanVars
<1>1. StagesTyped' /\ BusTyped'
  <2>1. BusTyped'
    BY DEF WriterStep, WriteEnvelope, DrainOutbound, WriterEnd, DirectStep,
           CollectDirectTarget, SendDirect, PeerCloses, Panic, BusTyped
  <2>2. CASE WriterStep \/ PeerCloses \/ Panic
    BY <2>1, <2>2 DEF WriterStep, WriteEnvelope, DrainOutbound, WriterEnd, PeerCloses, Panic,
                      StagesTyped
  <2>3. CASE DirectStep
    <3>1. conn' \in BOOLEAN
      BY <2>3 DEF DirectStep, CollectDirectTarget, SendDirect, StagesTyped
    <3>2. PICK d \in Sender : CollectDirectTarget(d) \/ SendDirect(d)
      BY <2>3 DEF DirectStep
    <3>3. others' \in 0..MaxOther
      BY <3>2, BoundsAreNat DEF CollectDirectTarget, SendDirect, StagesTyped
    <3>4. direct' \in [Sender -> BOOLEAN]
      BY <3>2 DEF CollectDirectTarget, SendDirect, StagesTyped
    <3>5. UNCHANGED <<handler, registered, fanout, writer, backpressure, panicked>>
      BY <3>2 DEF CollectDirectTarget, SendDirect
    <3>6. QED
      BY <2>1, <3>1, <3>3, <3>4, <3>5 DEF StagesTyped
  <2>4. QED
    BY <2>2, <2>3
<1>2. QueueTyped'
  <2>1. CASE WriteEnvelope \/ DrainOutbound
    <3>1. Head(outboundCh) \in Frame /\ Tail(outboundCh) \in Seq(Frame)
          /\ Len(Tail(outboundCh)) <= OutBuffer
      BY <2>1, BoundsAreNat DEF WriteEnvelope, DrainOutbound, QueueTyped
    <3>2. received' \in Seq(Event)
      <4>1. CASE received' = received
        BY <4>1 DEF QueueTyped
      <4>2. CASE Head(outboundCh) # OtherFrame /\ received' = Append(received, Head(outboundCh))
        BY <3>1, <4>2 DEF QueueTyped, Frame
      <4>3. QED
        BY <2>1, <4>1, <4>2 DEF WriteEnvelope, DrainOutbound
    <3>3. QED
      BY <2>1, <3>1, <3>2 DEF WriteEnvelope, DrainOutbound, QueueTyped
  <2>2. CASE \E d \in Sender : SendDirect(d)
    <3>1. OtherFrame \in Frame
      BY DEF Frame
    <3>2. QED
      BY <2>2, <3>1, EnqueueIsTyped DEF SendDirect, QueueTyped
  <2>3. CASE WriterEnd \/ PeerCloses \/ Panic \/ (\E d \in Sender : CollectDirectTarget(d))
    BY <2>3 DEF WriterEnd, PeerCloses, Panic, CollectDirectTarget, QueueTyped
  <2>4. QED
    BY <2>1, <2>2, <2>3 DEF WriterStep, DirectStep
<1>3. QED
  BY <1>1, <1>2

LEMMA StepKeepsTypes ==
  ASSUME Typed, [Next]_vars
  PROVE  Typed'
<1>1. CASE Next
  BY <1>1, HandlerKeepsTypes, PublishKeepsTypes, FanoutKeepsTypes, OthersKeepTypes DEF Next
<1>2. CASE UNCHANGED vars
  BY <1>2 DEF vars, busVars, outVars, sendVars, fanVars, Typed, StagesTyped, BusTyped,
              QueueTyped
<1>3. QED
  BY <1>1, <1>2

(* Both channels stay within their buffers and carry what they are for,      *)
(* whichever goroutines send to them.                                        *)
THEOREM FanoutTypeCorrect == Spec => []TypeOK
<1>1. Init => Typed
  BY InitIsTyped
<1>2. Typed /\ [Next]_vars => Typed'
  BY StepKeepsTypes
<1>3. Typed => TypeOK
  BY TypedIsTypeOK
<1>4. QED
  BY <1>1, <1>2, <1>3, PTL DEF Spec

-----------------------------------------------------------------------------
(* What the client receives *)

(* A frame behind p events of the stream s: e events are received with it. *)
Rank(x, p, e, s) ==
  \/ x = OtherFrame /\ e = p
  \/ x # OtherFrame /\ e = p + 1 /\ e <= Len(s) /\ x = s[e]

(* Every frame of a queue q has its place in the stream s, of which n events  *)
(* are received: f[i] is how many events are, once frame i has been written.   *)
Ranks(f, q, n, s) ==
  /\ f \in [0..Len(q) -> Nat]
  /\ f[0] = n
  /\ \A i \in 1..Len(q) : Rank(q[i], f[i - 1], f[i], s)

(* Another event is offered. *)
LEMMA RanksSurvivePublish ==
  ASSUME NEW s \in Seq(Event), NEW x \in Event, NEW q \in Seq(Frame), NEW n \in Nat,
         NEW f, Ranks(f, q, n, s)
  PROVE  Ranks(f, q, n, Append(s, x))
<1>1. /\ Len(Append(s, x)) = Len(s) + 1 /\ Len(s) \in Nat
      /\ \A i \in 1..Len(s) : Append(s, x)[i] = s[i]
  OBVIOUS
<1>2. ASSUME NEW i \in 1..Len(q)
      PROVE  \/ q[i] = OtherFrame /\ f[i] = f[i - 1]
             \/ q[i] # OtherFrame /\ f[i] = f[i - 1] + 1 /\ f[i] <= Len(Append(s, x))
                /\ q[i] = Append(s, x)[f[i]]
  <2>1. CASE q[i] = OtherFrame
    BY <2>1 DEF Ranks, Rank
  <2>2. CASE q[i] # OtherFrame
    <3>1. f[i] = f[i - 1] + 1 /\ f[i] <= Len(s) /\ q[i] = s[f[i]]
      BY <2>2 DEF Ranks, Rank
    <3>2. f[i] \in 1..Len(s)
      <4>1. i - 1 \in 0..Len(q)
        OBVIOUS
      <4>2. f[i - 1] \in Nat
        BY <4>1 DEF Ranks, Rank
      <4>3. QED
        BY <1>1, <3>1, <4>2
    <3>3. QED
      BY <1>1, <2>2, <3>1, <3>2
  <2>3. QED
    BY <2>1, <2>2
<1>3. QED
  BY <1>2 DEF Ranks, Rank

(* A frame is queued: a frame without a place, or the next event. *)
LEMMA RanksOfEnqueued ==
  ASSUME NEW s \in Seq(Event), NEW q \in Seq(Frame), NEW n \in Nat,
         NEW f, Ranks(f, q, n, s), NEW x \in Frame, NEW e \in Nat,
         Rank(x, f[Len(q)], e, s)
  PROVE  \E g \in [0..Len(Append(q, x)) -> Nat] :
           Ranks(g, Append(q, x), n, s) /\ g[Len(Append(q, x))] = e
<1> DEFINE g == [i \in 0..(Len(q) + 1) |-> IF i <= Len(q) THEN f[i] ELSE e]
<1>1. /\ Len(q) \in Nat /\ Len(Append(q, x)) = Len(q) + 1
      /\ Append(q, x)[Len(q) + 1] = x
      /\ \A i \in 1..Len(q) : Append(q, x)[i] = q[i]
  OBVIOUS
<1>2. g \in [0..(Len(q) + 1) -> Nat]
  <2>1. \A i \in 0..Len(q) : f[i] \in Nat
    BY DEF Ranks, Rank
  <2>2. \A i \in 0..(Len(q) + 1) : i <= Len(q) => i \in 0..Len(q)
    BY <1>1
  <2>3. QED
    BY <2>1, <2>2
<1>3. g[0] = n /\ g[Len(q) + 1] = e
  BY <1>1 DEF Ranks, Rank
<1>4. \A i \in 0..Len(q) : g[i] = f[i]
  BY <1>1
<1> HIDE DEF g
<1>5. ASSUME NEW i \in 1..(Len(q) + 1)
      PROVE  \/ Append(q, x)[i] = OtherFrame /\ g[i] = g[i - 1]
             \/ /\ Append(q, x)[i] # OtherFrame /\ g[i] = g[i - 1] + 1
                /\ g[i] <= Len(s) /\ Append(q, x)[i] = s[g[i]]
  <2>1. CASE i \in 1..Len(q)
    <3>1. Append(q, x)[i] = q[i] /\ g[i] = f[i] /\ g[i - 1] = f[i - 1]
      BY <1>1, <1>4, <2>1
    <3>2. QED
      BY <2>1, <3>1 DEF Ranks, Rank
  <2>2. CASE i = Len(q) + 1
    <3>1. Append(q, x)[i] = x /\ g[i] = e /\ g[i - 1] = f[Len(q)]
      BY <1>1, <1>3, <1>4, <2>2
    <3>2. QED
      BY <3>1 DEF Rank
  <2>3. QED
    BY <1>1, <2>1, <2>2
<1>6. QED
  BY <1>1, <1>2, <1>3, <1>5 DEF Ranks, Rank

(* The head is written: it is the next event, or it is none. *)
LEMMA RanksOfWritten ==
  ASSUME NEW s \in Seq(Event), NEW q \in Seq(Frame), q # <<>>, NEW n \in Nat,
         NEW f, Ranks(f, q, n, s), NEW m \in Nat,
         \/ Head(q) = OtherFrame /\ m = n
         \/ Head(q) # OtherFrame /\ m = n + 1
  PROVE  /\ Head(q) # OtherFrame => m <= Len(s) /\ Head(q) = s[m]
         /\ \E g \in [0..Len(Tail(q)) -> Nat] :
              Ranks(g, Tail(q), m, s) /\ g[Len(Tail(q))] = f[Len(q)]
<1> DEFINE g == [i \in 0..(Len(q) - 1) |-> f[i + 1]]
<1>1. /\ Len(q) \in Nat \ {0} /\ Len(Tail(q)) = Len(q) - 1
      /\ Head(q) = q[1]
      /\ \A i \in 1..(Len(q) - 1) : Tail(q)[i] = q[i + 1]
  OBVIOUS
<1>2. f[1] = m /\ (q[1] # OtherFrame => f[1] <= Len(s) /\ q[1] = s[f[1]])
  <2>1. 1 \in 1..Len(q) /\ 1 - 1 = 0
    BY <1>1
  <2>2. QED
    BY <1>1, <2>1 DEF Ranks, Rank
<1>3. g \in [0..(Len(q) - 1) -> Nat]
  <2>1. \A i \in 0..(Len(q) - 1) : i + 1 \in 0..Len(q)
    BY <1>1
  <2>2. \A i \in 0..Len(q) : f[i] \in Nat
    BY DEF Ranks, Rank
  <2>3. QED
    BY <2>1, <2>2
<1>4. \A i \in 0..(Len(q) - 1) : g[i] = f[i + 1]
  OBVIOUS
<1> HIDE DEF g
<1>5. g[0] = m /\ g[Len(q) - 1] = f[Len(q)]
  BY <1>1, <1>2, <1>4
<1>6. ASSUME NEW i \in 1..(Len(q) - 1)
      PROVE  \/ Tail(q)[i] = OtherFrame /\ g[i] = g[i - 1]
             \/ /\ Tail(q)[i] # OtherFrame /\ g[i] = g[i - 1] + 1
                /\ g[i] <= Len(s) /\ Tail(q)[i] = s[g[i]]
  <2>1. /\ Tail(q)[i] = q[i + 1] /\ g[i] = f[i + 1] /\ g[i - 1] = f[i]
        /\ i + 1 \in 1..Len(q) /\ (i + 1) - 1 = i
    BY <1>1, <1>4
  <2>2. QED
    BY <2>1 DEF Ranks, Rank
<1>7. QED
  BY <1>1, <1>2, <1>3, <1>5, <1>6 DEF Ranks, Rank

(* Before it is started the goroutine is off; only a goroutine with an event  *)
(* in its hand is forwarding; a writer drains only what a closed socket left. *)
Started ==
  /\ handler \in {"authenticated", "registered"} => fanout = "off"
  /\ fanout = "holding" => held # 0
  /\ fanout # "holding" => held = 0
  /\ writer = "draining" => ~conn

(* No frame has been given up. *)
Forwarding == fanout \notin {"overflowed", "desynced"}

(* The e-th event was the last to be queued: the next is in the goroutine's    *)
(* hand, the others in its channel.                                            *)
Following(e) ==
  \/ /\ held = 0
     /\ Len(offered) = e + Len(eventCh)
     /\ \A i \in 1..Len(eventCh) : eventCh[i] = offered[e + i]
  \/ /\ held # 0
     /\ Len(offered) = e + 1 + Len(eventCh)
     /\ held = offered[e + 1]
     /\ \A i \in 1..Len(eventCh) : eventCh[i] = offered[e + 1 + i]

Ahead ==
  \E f \in [0..Len(outboundCh) -> Nat] :
    /\ Ranks(f, outboundCh, Len(received), offered)
    /\ Forwarding => Following(f[Len(outboundCh)])

(* Once the socket is closed nothing more is received, and the queues may     *)
(* hold anything.                                                              *)
PrefixInv == Started /\ ReceivedIsPrefix /\ (conn => Ahead)

LEMMA PrefixInit ==
  ASSUME Init
  PROVE  PrefixInv
<1> USE DEF Init
<1>1. Started /\ ReceivedIsPrefix
  BY DEF Started, ReceivedIsPrefix
<1>2. Ahead
  <2> DEFINE f == [i \in 0..1 |-> 0]
  <2>1. outboundCh = <<OtherFrame>> /\ Len(outboundCh) = 1 /\ received = <<>>
        /\ Len(received) = 0 /\ offered = <<>> /\ eventCh = <<>> /\ held = 0
    OBVIOUS
  <2>2. f \in [0..1 -> Nat] /\ f[0] = 0 /\ f[1] = 0
    OBVIOUS
  <2> HIDE DEF f
  <2>3. Ranks(f, outboundCh, Len(received), offered)
    BY <2>1, <2>2 DEF Ranks, Rank
  <2>4. Following(f[Len(outboundCh)])
    BY <2>1, <2>2 DEF Following
  <2>5. QED
    BY <2>1, <2>2, <2>3, <2>4 DEF Ahead
<1>3. QED
  BY <1>1, <1>2 DEF PrefixInv

(* Steps that leave the stream and its queues alone. *)
LEMMA AheadOfStill ==
  ASSUME Ahead, UNCHANGED <<outboundCh, received, offered, eventCh, held>>,
         Forwarding' => Forwarding
  PROVE  Ahead'
  BY DEF Ahead, Following

(* Some frame that is no event is queued, or finds no room. *)
LEMMA AheadOfOther ==
  ASSUME Typed, Ahead, Enqueue(OtherFrame),
         UNCHANGED <<received, offered, eventCh, held>>, Forwarding' => Forwarding
  PROVE  Ahead'
<1>1. CASE outboundCh' = outboundCh
  BY <1>1, AheadOfStill
<1>2. CASE outboundCh' = Append(outboundCh, OtherFrame)
  <2>1. PICK f \in [0..Len(outboundCh) -> Nat] :
          /\ Ranks(f, outboundCh, Len(received), offered)
          /\ Forwarding => Following(f[Len(outboundCh)])
    BY DEF Ahead
  <2>2. outboundCh \in Seq(Frame) /\ offered \in Seq(Event) /\ Len(received) \in Nat
        /\ OtherFrame \in Frame /\ Len(outboundCh) \in 0..Len(outboundCh)
    BY DEF Typed, BusTyped, QueueTyped, Frame
  <2>3. f[Len(outboundCh)] \in Nat
    BY <2>2
  <2>4. PICK g \in [0..Len(Append(outboundCh, OtherFrame)) -> Nat] :
          /\ Ranks(g, Append(outboundCh, OtherFrame), Len(received), offered)
          /\ g[Len(Append(outboundCh, OtherFrame))] = f[Len(outboundCh)]
    <3>1. Rank(OtherFrame, f[Len(outboundCh)], f[Len(outboundCh)], offered)
      BY DEF Rank
    <3>2. QED
      BY <2>1, <2>2, <2>3, <3>1, RanksOfEnqueued
  <2>5. g[Len(outboundCh')] = f[Len(outboundCh)]
    BY <1>2, <2>4, Zenon
  <2>6. Forwarding' => Following(g[Len(outboundCh)])'
    <3>1. Following(g[Len(outboundCh)])' <=> Following(f[Len(outboundCh)])
      BY <2>5 DEF Following
    <3>2. QED
      BY <2>1, <3>1
  <2>7. QED
    BY <1>2, <2>4, <2>6 DEF Ahead
<1>3. QED
  BY <1>1, <1>2 DEF Enqueue

LEMMA HandlerKeepsPrefix ==
  ASSUME Typed, PrefixInv, HandlerStep
  PROVE  PrefixInv'
<1>1. /\ UNCHANGED <<received, offered, eventCh, held>>
      /\ conn' = conn
      /\ Started' /\ (Forwarding' => Forwarding)
  BY DEF PrefixInv, HandlerStep, RegisterUserSession, StartEventFanout, HandleDomainPayload,
         Teardown, LeaveReadLoop, Unsubscribe, CloseEventCh, UnregisterSession,
         CloseOutbound, AwaitWriter, busVars, outVars, sendVars, fanVars, Started, Forwarding
<1>2. ReceivedIsPrefix'
  BY <1>1 DEF PrefixInv, ReceivedIsPrefix
<1>3. ASSUME conn PROVE Ahead'
  <2>1. Ahead
    BY <1>3 DEF PrefixInv
  <2>2. CASE HandleDomainPayload
    BY <1>1, <2>1, <2>2, AheadOfOther DEF HandleDomainPayload
  <2>3. CASE UNCHANGED outboundCh
    BY <1>1, <2>1, <2>3, AheadOfStill
  <2>4. QED
    BY <2>2, <2>3 DEF HandlerStep, RegisterUserSession, StartEventFanout, Teardown,
       LeaveReadLoop, Unsubscribe, CloseEventCh, UnregisterSession, CloseOutbound,
       AwaitWriter, outVars
<1>4. QED
  BY <1>1, <1>2, <1>3 DEF PrefixInv

(* An event offered to an open session goes behind the others. *)
LEMMA PublishKeepsPrefix ==
  ASSUME Typed, PrefixInv, Publish
  PROVE  PrefixInv'
<1>1. /\ UNCHANGED <<handler, writer, outboundCh, received, fanout, held>>
      /\ conn' => conn
      /\ \/ UNCHANGED <<offered, eventCh>>
         \/ PublishSend
         \/ conn' = FALSE /\ PublishOverflow
  BY DEF Publish, PublishSnapshot, PublishSkip, PublishSend, PublishOverflow, outVars, fanVars
<1>2. \/ offered' = offered
      \/ publishing \in Event /\ offered' = Append(offered, publishing)
  BY <1>1 DEF PublishSend, PublishOverflow, Typed, BusTyped
<1>3. received \in Seq(Event) /\ offered \in Seq(Event) /\ eventCh \in Seq(Event)
      /\ outboundCh \in Seq(Frame) /\ held \in Nat
  BY BoundsAreNat DEF Typed, BusTyped, QueueTyped, Event
<1>4. ReceivedIsPrefix'
  <2>1. CASE offered' = offered
    BY <1>1, <2>1 DEF PrefixInv, ReceivedIsPrefix
  <2>2. CASE publishing \in Event /\ offered' = Append(offered, publishing)
    <3>1. /\ Len(offered') = Len(offered) + 1
          /\ \A i \in 1..Len(offered) : offered'[i] = offered[i]
      BY <1>3, <2>2
    <3>2. Len(received) <= Len(offered) /\ \A i \in DOMAIN received : received[i] = offered[i]
      BY DEF PrefixInv, ReceivedIsPrefix
    <3>3. DOMAIN received = 1..Len(received)
      BY <1>3
    <3>4. \A i \in DOMAIN received : i \in 1..Len(offered)
      BY <1>3, <3>2, <3>3
    <3>5. Len(received) <= Len(offered')
      BY <1>3, <3>1, <3>2
    <3>6. QED
      BY <1>1, <3>1, <3>2, <3>4, <3>5 DEF ReceivedIsPrefix
  <2>3. QED
    BY <1>2, <2>1, <2>2
<1>5. ASSUME conn' PROVE Ahead'
  <2>1. Ahead
    BY <1>1, <1>5 DEF PrefixInv
  <2>2. CASE UNCHANGED <<offered, eventCh>>
    BY <1>1, <2>1, <2>2, AheadOfStill DEF Forwarding
  <2>3. CASE PublishSend
    <3>1. publishing \in Event /\ offered' = Append(offered, publishing)
          /\ eventCh' = Append(eventCh, publishing)
      BY <2>3 DEF PublishSend, Typed, BusTyped
    <3>2. PICK f \in [0..Len(outboundCh) -> Nat] :
            /\ Ranks(f, outboundCh, Len(received), offered)
            /\ Forwarding => Following(f[Len(outboundCh)])
      BY <2>1 DEF Ahead
    <3>3. Ranks(f, outboundCh, Len(received), offered')
      BY <1>3, <3>1, <3>2, RanksSurvivePublish
    <3>4. f[Len(outboundCh)] \in Nat
      <4>1. Len(outboundCh) \in 0..Len(outboundCh)
        BY <1>3
      <4>2. QED
        BY <4>1
    <3>5. ASSUME NEW e \in Nat, Following(e) PROVE Following(e)'
      <4>1. /\ Len(offered') = Len(offered) + 1 /\ Len(eventCh') = Len(eventCh) + 1
            /\ offered'[Len(offered) + 1] = publishing
            /\ eventCh'[Len(eventCh) + 1] = publishing
            /\ \A i \in 1..Len(offered) : offered'[i] = offered[i]
            /\ \A i \in 1..Len(eventCh) : eventCh'[i] = eventCh[i]
            /\ Len(offered) \in Nat /\ Len(eventCh) \in Nat
        BY <1>3, <3>1
      <4>2. CASE held = 0
        <5>1. /\ Len(offered) = e + Len(eventCh)
              /\ \A i \in 1..Len(eventCh) : eventCh[i] = offered[e + i]
          BY <3>5, <4>2 DEF Following
        <5>2. Len(offered') = e + Len(eventCh')
          BY <4>1, <5>1
        <5>3. ASSUME NEW i \in 1..Len(eventCh') PROVE eventCh'[i] = offered'[e + i]
          <6>1. CASE i \in 1..Len(eventCh)
            <7>1. e + i \in 1..Len(offered)
              BY <4>1, <5>1, <6>1
            <7>2. eventCh'[i] = eventCh[i] /\ offered'[e + i] = offered[e + i]
              BY <4>1, <6>1, <7>1
            <7>3. QED
              BY <5>1, <6>1, <7>2
          <6>2. CASE i = Len(eventCh) + 1
            <7>1. e + i = Len(offered) + 1
              BY <4>1, <5>1, <6>2
            <7>2. QED
              BY <4>1, <6>2, <7>1
          <6>3. i \in 1..Len(eventCh) \/ i = Len(eventCh) + 1
            BY <4>1
          <6>4. QED
            BY <6>1, <6>2, <6>3
        <5>4. QED
          BY <1>1, <4>2, <5>2, <5>3 DEF Following
      <4>3. CASE held # 0
        <5>1. /\ Len(offered) = e + 1 + Len(eventCh)
              /\ held = offered[e + 1]
              /\ \A i \in 1..Len(eventCh) : eventCh[i] = offered[e + 1 + i]
          BY <3>5, <4>3 DEF Following
        <5>2. Len(offered') = e + 1 + Len(eventCh') /\ held = offered'[e + 1]
          <6>1. e + 1 \in 1..Len(offered)
            BY <4>1, <5>1
          <6>2. Len(offered') = e + 1 + Len(eventCh')
            BY <4>1, <5>1
          <6>3. offered'[e + 1] = offered[e + 1]
            BY <4>1, <6>1
          <6>4. QED
            BY <5>1, <6>2, <6>3
        <5>3. ASSUME NEW i \in 1..Len(eventCh') PROVE eventCh'[i] = offered'[e + 1 + i]
          <6>1. CASE i \in 1..Len(eventCh)
            <7>1. e + 1 + i \in 1..Len(offered)
              BY <4>1, <5>1, <6>1
            <7>2. eventCh'[i] = eventCh[i] /\ offered'[e + 1 + i] = offered[e + 1 + i]
              BY <4>1, <6>1, <7>1
            <7>3. QED
              BY <5>1, <6>1, <7>2
          <6>2. CASE i = Len(eventCh) + 1
            <7>1. e + 1 + i = Len(offered) + 1
              BY <4>1, <5>1, <6>2
            <7>2. QED
              BY <4>1, <6>2, <7>1
          <6>3. i \in 1..Len(eventCh) \/ i = Len(eventCh) + 1
            BY <4>1
          <6>4. QED
            BY <6>1, <6>2, <6>3
        <5>4. QED
          BY <1>1, <4>3, <5>2, <5>3 DEF Following
      <4>4. QED
        BY <4>2, <4>3
    <3>6. Forwarding' => Following(f[Len(outboundCh)])'
      BY <1>1, <3>2, <3>4, <3>5 DEF Forwarding
    <3>7. QED
      BY <1>1, <3>3, <3>6 DEF Ahead
  <2>4. QED
    BY <1>1, <1>5, <2>2, <2>3
<1>6. Started'
  BY <1>1 DEF PrefixInv, Started
<1>7. QED
  BY <1>4, <1>5, <1>6 DEF PrefixInv

(* A frame moves from one queue to the next, or is given up with the socket. *)
LEMMA FanoutKeepsPrefix ==
  ASSUME Typed, PrefixInv, Fanout
  PROVE  PrefixInv'
<1>1. UNCHANGED <<handler, received, offered>> /\ (conn' => conn)
  BY DEF Fanout, FanoutTake, FanoutForward, FanoutOverflow, FanoutErrorFrame,
         FanoutDesync, FanoutEnd, busVars, outVars
<1>2. ReceivedIsPrefix'
  BY <1>1 DEF PrefixInv, ReceivedIsPrefix
<1>3. /\ received \in Seq(Event) /\ offered \in Seq(Event) /\ eventCh \in Seq(Event)
      /\ outboundCh \in Seq(Frame) /\ held \in Event \cup {0} /\ 0 \notin Event
      /\ Len(received) \in Nat
  BY BoundsAreNat DEF Typed, BusTyped, QueueTyped, Event
<1>4. Started'
  <2>1. CASE FanoutTake
    <3>1. Head(eventCh) \in Event
      BY <1>3, <2>1 DEF FanoutTake
    <3>2. QED
      BY <1>1, <1>3, <2>1, <3>1 DEF FanoutTake, PrefixInv, Started
  <2>2. CASE ~FanoutTake
    BY <1>1, <2>2 DEF Fanout, FanoutForward, FanoutOverflow, FanoutErrorFrame,
       FanoutDesync, FanoutEnd, PrefixInv, Started
  <2>3. QED
    BY <2>1, <2>2
<1>5. ASSUME conn' PROVE Ahead'
  <2>1. Ahead
    BY <1>1, <1>5 DEF PrefixInv
  <2>2. PICK f \in [0..Len(outboundCh) -> Nat] :
          /\ Ranks(f, outboundCh, Len(received), offered)
          /\ Forwarding => Following(f[Len(outboundCh)])
    BY <2>1 DEF Ahead
  <2>3. f[Len(outboundCh)] \in Nat
    <3>1. Len(outboundCh) \in 0..Len(outboundCh)
      BY <1>3
    <3>2. QED
      BY <3>1
  <2>4. CASE FanoutTake
    <3>1. /\ held = 0 /\ Following(f[Len(outboundCh)]) /\ UNCHANGED outboundCh
          /\ held' = Head(eventCh) /\ eventCh' = Tail(eventCh) /\ eventCh # <<>>
      BY <2>2, <2>4 DEF FanoutTake, Forwarding, PrefixInv, Started, outVars
    <3>2. /\ Len(eventCh) \in Nat \ {0} /\ Len(Tail(eventCh)) = Len(eventCh) - 1
          /\ Head(eventCh) = eventCh[1] /\ Head(eventCh) \in Event
          /\ \A i \in 1..(Len(eventCh) - 1) : Tail(eventCh)[i] = eventCh[i + 1]
      BY <1>3, <3>1
    <3>3. ASSUME NEW e \in Nat, Following(e) PROVE Following(e)'
      <4>1. /\ Len(offered) = e + Len(eventCh)
            /\ \A i \in 1..Len(eventCh) : eventCh[i] = offered[e + i]
        BY <3>1, <3>3 DEF Following
      <4>2. Len(offered) = e + 1 + Len(Tail(eventCh)) /\ Head(eventCh) = offered[e + 1]
        BY <3>2, <4>1
      <4>3. ASSUME NEW i \in 1..Len(Tail(eventCh))
            PROVE  Tail(eventCh)[i] = offered[e + 1 + i]
        <5>1. i + 1 \in 1..Len(eventCh) /\ e + (i + 1) = e + 1 + i
              /\ Tail(eventCh)[i] = eventCh[i + 1]
          BY <3>2
        <5>2. QED
          BY <4>1, <5>1
      <4>4. held' # 0
        BY <1>3, <3>1, <3>2
      <4>5. QED
        BY <1>1, <3>1, <4>2, <4>3, <4>4 DEF Following
    <3>4. Following(f[Len(outboundCh)])'
      BY <2>3, <3>1, <3>3
    <3>5. QED
      BY <1>1, <2>2, <3>1, <3>4 DEF Ahead
  <2>5. CASE FanoutForward
    <3>1. /\ held # 0 /\ Following(f[Len(outboundCh)]) /\ UNCHANGED eventCh
          /\ outboundCh' = Append(outboundCh, held) /\ held' = 0
      BY <2>2, <2>5 DEF FanoutForward, Forwarding, PrefixInv, Started, Enqueue, busVars
    <3>2. held \in Frame /\ held # OtherFrame /\ Len(eventCh) \in Nat
      BY <1>3, <3>1 DEF Frame, OtherFrame
    <3>3. PICK e \in Nat : e = f[Len(outboundCh)]
      BY <2>3
    <3>4. /\ Len(offered) = e + 1 + Len(eventCh) /\ held = offered[e + 1]
          /\ \A i \in 1..Len(eventCh) : eventCh[i] = offered[e + 1 + i]
      BY <3>1, <3>3 DEF Following
    <3>5. PICK k \in Nat : k = e + 1
      BY <3>3
    <3>6. k <= Len(offered) /\ k = f[Len(outboundCh)] + 1 /\ held = offered[k]
      BY <3>2, <3>3, <3>4, <3>5
    <3>7. PICK g \in [0..Len(Append(outboundCh, held)) -> Nat] :
            /\ Ranks(g, Append(outboundCh, held), Len(received), offered)
            /\ g[Len(Append(outboundCh, held))] = k
      <4>1. /\ offered \in Seq(Event) /\ outboundCh \in Seq(Frame)
            /\ Len(received) \in Nat /\ held \in Frame
        BY <1>3, <3>2
      <4>2. Ranks(f, outboundCh, Len(received), offered)
        BY <2>2
      <4>3. Rank(held, f[Len(outboundCh)], k, offered)
        BY <3>2, <3>6 DEF Rank
      <4>4. QED
        BY <4>1, <4>2, <4>3, RanksOfEnqueued
    <3>8. g[Len(outboundCh')] = e + 1
      BY <3>1, <3>5, <3>7
    <3>9. Following(g[Len(outboundCh)])'
      <4>1. /\ UNCHANGED <<eventCh, offered>> /\ held' = 0 /\ g[Len(outboundCh')] = e + 1
            /\ Len(offered) = e + 1 + Len(eventCh)
            /\ \A i \in 1..Len(eventCh) : eventCh[i] = offered[e + 1 + i]
        BY <1>1, <3>1, <3>4, <3>8
      <4>2. QED
        BY <4>1 DEF Following
    <3>10. QED
      BY <1>1, <3>1, <3>7, <3>9 DEF Ahead
  <2>6. CASE FanoutErrorFrame
    BY <1>1, <2>1, <2>6, AheadOfOther DEF FanoutErrorFrame, Forwarding, busVars
  <2>7. CASE FanoutOverflow
    <3>1. ~Forwarding' /\ UNCHANGED <<outboundCh, received, offered>>
      BY <2>7 DEF FanoutOverflow, Forwarding, busVars, outVars
    <3>2. QED
      BY <2>2, <3>1 DEF Ahead
  <2>8. CASE FanoutDesync \/ FanoutEnd
    <3>1. FanoutEnd
      BY <1>5, <2>8 DEF FanoutDesync
    <3>2. QED
      BY <2>1, <3>1, AheadOfStill DEF FanoutEnd, Forwarding, busVars, outVars
  <2>9. QED
    BY <2>4, <2>5, <2>6, <2>7, <2>8 DEF Fanout
<1>6. QED
  BY <1>2, <1>4, <1>5 DEF PrefixInv

(* The writer writes the next event; direct deliveries, the peer and a panic  *)
(* put nothing between two events.                                             *)
LEMMA OthersKeepPrefix ==
  ASSUME Typed, PrefixInv, WriterStep \/ DirectStep \/ PeerCloses \/ Panic
  PROVE  PrefixInv'
<1>1. UNCHANGED <<handler, fanout, held, offered, eventCh>>
  BY DEF WriterStep, WriteEnvelope, DrainOutbound, WriterEnd, DirectStep,
         CollectDirectTarget, SendDirect, PeerCloses, Panic, busVars, fanVars
<1>2. Started' /\ (Forwarding' => Forwarding)
  <2>1. (conn' => conn) /\ (writer' = "draining" => writer = "draining" \/ ~conn)
    <3>1. CASE WriterStep
      BY <3>1 DEF WriterStep, WriteEnvelope, DrainOutbound, WriterEnd
    <3>2. CASE DirectStep
      <4>1. PICK d \in Sender : CollectDirectTarget(d) \/ SendDirect(d)
        BY <3>2 DEF DirectStep
      <4>2. writer' = writer
        BY <4>1 DEF CollectDirectTarget, SendDirect
      <4>3. conn' => conn
        BY <4>1 DEF CollectDirectTarget, SendDirect
      <4>4. QED
        BY <4>2, <4>3
    <3>3. CASE PeerCloses \/ Panic
      BY <3>3 DEF PeerCloses, Panic
    <3>4. QED
      BY <3>1, <3>2, <3>3
  <2>2. QED
    BY <1>1, <2>1 DEF PrefixInv, Started, Forwarding
<1>3. /\ received \in Seq(Event) /\ offered \in Seq(Event)
      /\ outboundCh \in Seq(Frame) /\ Len(received) \in Nat
  BY DEF Typed, BusTyped, QueueTyped
<1>4. CASE WriteEnvelope
  <2>1. /\ conn /\ outboundCh # <<>> /\ outboundCh' = Tail(outboundCh)
        /\ received' = IF Head(outboundCh) = OtherFrame THEN received
                       ELSE Append(received, Head(outboundCh))
    BY <1>4 DEF WriteEnvelope
  <2>2. PICK f \in [0..Len(outboundCh) -> Nat] :
          /\ Ranks(f, outboundCh, Len(received), offered)
          /\ Forwarding => Following(f[Len(outboundCh)])
    BY <2>1 DEF PrefixInv, Ahead
  <2>3. PICK m \in Nat : \/ Head(outboundCh) = OtherFrame /\ m = Len(received)
                         \/ Head(outboundCh) # OtherFrame /\ m = Len(received) + 1
    BY <1>3
  <2>4. /\ Head(outboundCh) # OtherFrame => m <= Len(offered) /\ Head(outboundCh) = offered[m]
        /\ \E g \in [0..Len(Tail(outboundCh)) -> Nat] :
             /\ Ranks(g, Tail(outboundCh), m, offered)
             /\ g[Len(Tail(outboundCh))] = f[Len(outboundCh)]
    BY <1>3, <2>1, <2>2, <2>3, RanksOfWritten
  <2>5. Len(received') = m
    <3>1. CASE Head(outboundCh) = OtherFrame
      BY <2>1, <2>3, <3>1
    <3>2. CASE Head(outboundCh) # OtherFrame
      BY <1>3, <2>1, <2>3, <3>2
    <3>3. QED
      BY <3>1, <3>2
  <2>6. ReceivedIsPrefix'
    <3>1. CASE Head(outboundCh) = OtherFrame
      BY <1>1, <2>1, <3>1 DEF PrefixInv, ReceivedIsPrefix
    <3>2. CASE Head(outboundCh) # OtherFrame
      <4>1. /\ received' = Append(received, Head(outboundCh))
            /\ Head(outboundCh) \in Event
        BY <1>3, <2>1, <3>2 DEF Frame
      <4>2. /\ DOMAIN received' = 1..(Len(received) + 1)
            /\ received'[Len(received) + 1] = Head(outboundCh)
            /\ \A i \in 1..Len(received) : received'[i] = received[i]
        BY <1>3, <4>1
      <4>3. \A i \in 1..Len(received) : received[i] = offered[i]
        BY <1>3 DEF PrefixInv, ReceivedIsPrefix
      <4>4. m = Len(received) + 1 /\ m <= Len(offered) /\ Head(outboundCh) = offered[m]
        BY <2>3, <2>4, <3>2
      <4>5. ASSUME NEW i \in DOMAIN received' PROVE received'[i] = offered[i]
        <5>1. i \in 1..Len(received) \/ i = Len(received) + 1
          <6>1. Len(received) \in Nat
            BY <1>3
          <6>2. QED
            BY <4>2, <6>1
        <5>2. CASE i \in 1..Len(received)
          BY <4>2, <4>3, <5>2
        <5>3. CASE i = Len(received) + 1
          BY <4>2, <4>4, <5>3
        <5>4. QED
          BY <5>1, <5>2, <5>3
      <4>6. Len(received') <= Len(offered') /\ offered' = offered
        BY <1>1, <2>5, <4>4
      <4>7. QED
        BY <4>5, <4>6 DEF ReceivedIsPrefix
    <3>3. QED
      BY <3>1, <3>2
  <2>7. Ahead'
    <3>1. PICK g \in [0..Len(Tail(outboundCh)) -> Nat] :
            /\ Ranks(g, Tail(outboundCh), m, offered)
            /\ g[Len(Tail(outboundCh))] = f[Len(outboundCh)]
      BY <2>4
    <3>2. g[Len(outboundCh')] = f[Len(outboundCh)]
      BY <2>1, <3>1
    <3>3. Forwarding' => Following(g[Len(outboundCh)])'
      BY <1>1, <1>2, <2>2, <3>2 DEF Following
    <3>4. QED
      BY <1>1, <2>1, <2>5, <3>1, <3>3 DEF Ahead
  <2>8. QED
    BY <1>2, <2>6, <2>7 DEF PrefixInv
<1>5. CASE DrainOutbound
  (* A writer that has begun to drain does not go back, nor does the socket.   *)
  BY <1>1, <1>2, <1>5 DEF DrainOutbound, PrefixInv, Started, ReceivedIsPrefix
<1>6. CASE \E d \in Sender : SendDirect(d)
  <2>1. received' = received /\ (conn' => conn) /\ Enqueue(OtherFrame)
    BY <1>6 DEF SendDirect
  <2>2. ReceivedIsPrefix'
    BY <1>1, <2>1 DEF PrefixInv, ReceivedIsPrefix
  <2>3. conn' => Ahead'
    BY <1>1, <1>2, <2>1, AheadOfOther DEF PrefixInv
  <2>4. QED
    BY <1>2, <2>2, <2>3 DEF PrefixInv
<1>7. CASE WriterEnd \/ (\E d \in Sender : CollectDirectTarget(d)) \/ PeerCloses \/ Panic
  <2>1. UNCHANGED <<received, outboundCh>> /\ (conn' => conn)
    BY <1>7 DEF WriterEnd, CollectDirectTarget, PeerCloses, Panic, outVars
  <2>2. ReceivedIsPrefix'
    BY <1>1, <2>1 DEF PrefixInv, ReceivedIsPrefix
  <2>3. conn' => Ahead'
    BY <1>1, <1>2, <2>1, AheadOfStill DEF PrefixInv
  <2>4. QED
    BY <1>2, <2>2, <2>3 DEF PrefixInv
<1>8. QED
  BY <1>4, <1>5, <1>6, <1>7 DEF WriterStep, DirectStep

LEMMA PrefixStep ==
  ASSUME Typed, PrefixInv, [Next]_vars
  PROVE  Typed' /\ PrefixInv'
<1>1. CASE Next
  BY <1>1, StepKeepsTypes, HandlerKeepsPrefix, PublishKeepsPrefix, FanoutKeepsPrefix,
     OthersKeepPrefix DEF Next
<1>2. CASE UNCHANGED vars
  <2>1. UNCHANGED <<handler, fanout, writer, conn, held, received, offered, eventCh, outboundCh>>
    BY <1>2 DEF vars, busVars, outVars, fanVars
  <2>2. Ahead => Ahead'
    BY <2>1, AheadOfStill DEF Forwarding
  <2>3. Started' /\ ReceivedIsPrefix'
    BY <2>1 DEF PrefixInv, Started, ReceivedIsPrefix
  <2>4. QED
    BY <1>2, <2>1, <2>2, <2>3, StepKeepsTypes DEF PrefixInv
<1>3. QED
  BY <1>1, <1>2

(* Whichever queue overflows, and whoever else sends to the session: the      *)
(* client receives a prefix of the events the Bus offered it.                 *)
THEOREM ClientReceivesPrefix == Spec => []ReceivedIsPrefix
<1>1. Init => Typed /\ PrefixInv
  BY InitIsTyped, PrefixInit
<1>2. (Typed /\ PrefixInv) /\ [Next]_vars => (Typed /\ PrefixInv)'
  BY PrefixStep
<1>3. PrefixInv => ReceivedIsPrefix
  BY DEF PrefixInv
<1>4. QED
  BY <1>1, <1>2, <1>3, PTL DEF Spec

-----------------------------------------------------------------------------
(* What is on its way to the client *)

(* Every non-empty set of natural numbers has a least element: intervals,      *)
(* ordered by inclusion, are well-founded.                                     *)
LEMMA LeastNumber ==
  ASSUME NEW S \in SUBSET Nat, S # {}
  PROVE  \E n \in S : \A m \in S : n <= m
<1> DEFINE T == {0..n : n \in S}
<1>1. T \subseteq FiniteSubsetsOf(Nat) /\ T # {}
  <2>1. ASSUME NEW n \in S PROVE IsFiniteSet(0..n) /\ 0..n \subseteq Nat
    BY <2>1, FS_Interval
  <2>2. QED
    BY <2>1 DEF FiniteSubsetsOf
<1>2. PICK x \in T : \A y \in T : ~(<<y, x>> \in StrictSubsetOrdering(Nat))
  <2> HIDE DEF T
  <2>1. IsWellFoundedOn(StrictSubsetOrdering(Nat), FiniteSubsetsOf(Nat))
    BY FS_StrictSubsetOrderingWellFounded
  <2>2. QED
    BY <1>1, <2>1, WFMin
<1>3. PICK n \in S : x = 0..n
  BY <1>2
<1>4. ASSUME NEW m \in S PROVE n <= m
  <2>1. SUFFICES ASSUME m < n PROVE FALSE
    OBVIOUS
  <2>2. 0..m \subseteq 0..n /\ 0..m # 0..n /\ 0..m \in SUBSET Nat /\ 0..n \in SUBSET Nat
    <3>1. n \in 0..n /\ n \notin 0..m
      BY <2>1
    <3>2. 0..m \subseteq 0..n /\ 0..n \subseteq Nat /\ 0..m \subseteq Nat
      BY <2>1
    <3>3. QED
      BY <3>1, <3>2
  <2>3. <<0..m, 0..n>> \in StrictSubsetOrdering(Nat)
    BY <2>2 DEF StrictSubsetOrdering
  <2>4. QED
    BY <1>2, <1>3, <2>3
<1>5. QED
  BY <1>4

LEMMA EventsUpToNext ==
  ASSUME NEW q, NEW k \in Nat
  PROVE  /\ EventsUpTo(q, 0) = 0 /\ EventsUpTo(q, k) \in Nat
         /\ EventsUpTo(q, k + 1) =
              EventsUpTo(q, k) + (IF q[k + 1] # OtherFrame THEN 1 ELSE 0)
<1> DEFINE At(m) == {i \in 1..m : q[i] # OtherFrame}
<1>1. At(0) = {} /\ EventsUpTo(q, 0) = 0
  BY FS_EmptySet DEF EventsUpTo
<1>2. IsFiniteSet(At(k)) /\ k + 1 \notin At(k)
  <2>1. IsFiniteSet(1..k)
    BY FS_Interval
  <2>2. QED
    BY <2>1, FS_Subset
<1>3. At(k + 1) = IF q[k + 1] # OtherFrame THEN At(k) \cup {k + 1} ELSE At(k)
  OBVIOUS
<1>4. Cardinality(At(k)) \in Nat
      /\ Cardinality(At(k) \cup {k + 1}) = Cardinality(At(k)) + 1
  BY <1>2, FS_CardinalityType, FS_AddElement
<1>5. EventsUpTo(q, k) = Cardinality(At(k)) /\ EventsUpTo(q, k + 1) = Cardinality(At(k + 1))
  BY DEF EventsUpTo
<1> HIDE DEF At
<1>6. QED
  BY <1>1, <1>3, <1>4, <1>5

(* The places of the frames of a queue count the events in it. *)
LEMMA RanksCount ==
  ASSUME NEW s \in Seq(Event), NEW q \in Seq(Frame), NEW n \in Nat,
         NEW f \in [0..Len(q) -> Nat], Ranks(f, q, n, s)
  PROVE  \A i \in 0..Len(q) : f[i] = n + EventsUpTo(q, i)
<1> DEFINE Wrong == {i \in 0..Len(q) : f[i] # n + EventsUpTo(q, i)}
<1>1. SUFFICES ASSUME Wrong # {} PROVE FALSE
  OBVIOUS
<1>2. PICK m \in Wrong : \A i \in Wrong : m <= i
  <2>1. Wrong \in SUBSET Nat
    OBVIOUS
  <2> HIDE DEF Wrong
  <2>2. QED
    BY <1>1, <2>1, LeastNumber
<1>3. m # 0
  BY EventsUpToNext DEF Ranks
<1>4. m \in 1..Len(q) /\ m - 1 \in 0..Len(q) /\ m - 1 \in Nat /\ (m - 1) + 1 = m
  BY <1>3
<1>5. f[m - 1] = n + EventsUpTo(q, m - 1)
  BY <1>2, <1>4
<1>6. /\ EventsUpTo(q, m - 1) \in Nat
      /\ EventsUpTo(q, m) = EventsUpTo(q, m - 1) + (IF q[m] # OtherFrame THEN 1 ELSE 0)
  BY <1>4, EventsUpToNext
<1>7. f[m] = f[m - 1] + (IF q[m] # OtherFrame THEN 1 ELSE 0)
  <2>1. Rank(q[m], f[m - 1], f[m], s)
    BY <1>4 DEF Ranks
  <2>2. f[m - 1] \in Nat /\ f[m] \in Nat
    BY <1>4
  <2>3. QED
    BY <2>1, <2>2 DEF Rank
<1>8. f[m] = n + EventsUpTo(q, m)
  BY <1>5, <1>6, <1>7
<1>9. QED
  BY <1>8

(* The outbound queue, the goroutine's hand and its channel are one queue of    *)
(* frames whose places end with the last offered event.                        *)
LEMMA OnTheWayIsRanked ==
  ASSUME Typed, Ahead, Forwarding
  PROVE  /\ OnTheWay \in Seq(Frame)
         /\ \E h \in [0..Len(OnTheWay) -> Nat] :
              /\ Ranks(h, OnTheWay, Len(received), offered)
              /\ h[Len(OnTheWay)] = Len(offered)
<1> DEFINE rest == Hand \o eventCh
           l == Len(outboundCh)
<1>1. /\ outboundCh \in Seq(Frame) /\ eventCh \in Seq(Event) /\ held \in Event \cup {0}
      /\ offered \in Seq(Event) /\ received \in Seq(Event) /\ 0 \notin Event /\ Event \subseteq Nat
  BY BoundsAreNat DEF Typed, BusTyped, QueueTyped, Event
<1>2. PICK f \in [0..l -> Nat] : Ranks(f, outboundCh, Len(received), offered) /\ Following(f[l])
  BY DEF Ahead
<1>3. PICK e \in Nat : e = f[l]
  <2>1. l \in 0..l
    BY <1>1
  <2>2. QED
    BY <1>2, <2>1
<1>4. /\ rest \in Seq(Event) /\ Len(offered) = e + Len(rest)
      /\ \A i \in 1..Len(rest) : rest[i] = offered[e + i]
  <2>1. CASE held = 0
    <3>1. rest = eventCh
      BY <1>1, <2>1 DEF Hand
    <3>2. QED
      BY <1>1, <1>2, <1>3, <2>1, <3>1 DEF Following
  <2>2. CASE held # 0
    <3>1. /\ rest \in Seq(Event) /\ Len(rest) = 1 + Len(eventCh) /\ rest[1] = held
          /\ \A i \in 2..Len(rest) : rest[i] = eventCh[i - 1]
      BY <1>1, <2>2 DEF Hand
    <3>2. /\ Len(offered) = e + 1 + Len(eventCh) /\ held = offered[e + 1]
          /\ \A i \in 1..Len(eventCh) : eventCh[i] = offered[e + 1 + i]
      BY <1>2, <1>3, <2>2 DEF Following
    <3>3. ASSUME NEW i \in 1..Len(rest) PROVE rest[i] = offered[e + i]
      <4>1. CASE i = 1
        BY <3>1, <3>2, <4>1
      <4>2. CASE i # 1
        <5>1. Len(eventCh) \in Nat /\ Len(rest) = 1 + Len(eventCh)
          BY <1>1, <3>1
        <5>2. i \in 2..Len(rest) /\ i - 1 \in 1..Len(eventCh) /\ e + 1 + (i - 1) = e + i
          BY <4>2, <5>1
        <5>3. QED
          BY <3>1, <3>2, <5>2
      <4>3. QED
        BY <4>1, <4>2
    <3>4. Len(eventCh) \in Nat
      BY <1>1
    <3>5. QED
      BY <3>1, <3>2, <3>3, <3>4
  <2>3. QED
    BY <2>1, <2>2
<1>5. /\ OnTheWay = outboundCh \o rest
  <2>1. Hand \in Seq(Event)
    BY <1>1 DEF Hand
  <2>2. outboundCh \in Seq(Frame) /\ Hand \in Seq(Frame) /\ eventCh \in Seq(Frame)
    BY <1>1, <2>1 DEF Frame
  <2>3. QED
    BY <2>2, ConcatAssociative DEF OnTheWay
<1> HIDE DEF rest
<1>6. /\ OnTheWay \in Seq(Frame) /\ Len(OnTheWay) = l + Len(rest) /\ Len(rest) \in Nat /\ l \in Nat
      /\ \A i \in 1..l : OnTheWay[i] = outboundCh[i]
      /\ \A i \in (l + 1)..(l + Len(rest)) : OnTheWay[i] = rest[i - l]
  <2>1. rest \in Seq(Frame)
    BY <1>4 DEF Frame
  <2>2. QED
    BY <1>1, <1>5, <2>1
<1> DEFINE h == [i \in 0..(l + Len(rest)) |-> IF i <= l THEN f[i] ELSE e + (i - l)]
<1>7. h \in [0..(l + Len(rest)) -> Nat]
  <2>1. ASSUME NEW i \in 0..(l + Len(rest))
        PROVE  (IF i <= l THEN f[i] ELSE e + (i - l)) \in Nat
    <3>1. CASE i <= l
      <4>1. i \in 0..l
        BY <1>6, <3>1
      <4>2. QED
        BY <3>1, <4>1
    <3>2. CASE ~(i <= l)
      BY <1>6, <3>2
    <3>3. QED
      BY <3>1, <3>2
  <2>2. QED
    BY <2>1
<1>8. /\ \A i \in 0..l : h[i] = f[i]
      /\ \A i \in (l + 1)..(l + Len(rest)) : h[i] = e + (i - l)
      /\ h[l + Len(rest)] = Len(offered)
      /\ h[0] = Len(received)
  <2>1. (\A i \in 0..l : h[i] = f[i]) /\ (\A i \in (l + 1)..(l + Len(rest)) : h[i] = e + (i - l))
    BY <1>6
  <2>2. h[l + Len(rest)] = e + Len(rest)
    BY <1>3, <1>6
  <2>3. f[0] = Len(received) /\ 0 \in 0..l
    BY <1>2, <1>6 DEF Ranks
  <2>4. QED
    BY <1>4, <2>1, <2>2, <2>3
<1> HIDE DEF h
<1>9. ASSUME NEW i \in 1..(l + Len(rest))
      PROVE  Rank(OnTheWay[i], h[i - 1], h[i], offered)
  <2>1. CASE i \in 1..l
    <3>1. h[i] = f[i] /\ h[i - 1] = f[i - 1] /\ OnTheWay[i] = outboundCh[i]
      BY <1>6, <1>8, <2>1
    <3>2. QED
      BY <1>2, <2>1, <3>1 DEF Ranks
  <2>2. CASE i \in (l + 1)..(l + Len(rest))
    <3>1. PICK k \in 1..Len(rest) : k = i - l /\ i = l + k
      BY <1>6, <2>2
    <3>2. OnTheWay[i] = rest[k] /\ h[i] = e + k /\ rest[k] = offered[e + k]
      BY <1>4, <1>6, <1>8, <2>2, <3>1
    <3>3. h[i - 1] = e + (k - 1)
      <4>1. CASE k = 1
        <5>1. i - 1 = l /\ l \in 0..l
          BY <1>6, <3>1, <4>1
        <5>2. QED
          BY <1>3, <1>8, <4>1, <5>1
      <4>2. CASE k # 1
        <5>1. i - 1 \in (l + 1)..(l + Len(rest)) /\ (i - 1) - l = k - 1
          BY <1>6, <3>1, <4>2
        <5>2. QED
          BY <1>8, <5>1
      <4>3. QED
        BY <4>1, <4>2
    <3>4. rest[k] # OtherFrame /\ e + k <= Len(offered)
      BY <1>1, <1>4, <1>6 DEF OtherFrame
    <3>5. e + k = (e + (k - 1)) + 1
      BY <1>3
    <3>6. QED
      BY <3>2, <3>3, <3>4, <3>5 DEF Rank
  <2>3. QED
    BY <1>6, <2>1, <2>2
<1>10. QED
  BY <1>6, <1>7, <1>8, <1>9 DEF Ranks

(* A session whose client is still connected has lost nothing: whatever the Bus *)
(* offered is received, or on its way in order, through both queues, the        *)
(* goroutine's hand, and all the frames of others in between.                  *)
THEOREM ConnectedLosesNothing == Spec => []NothingLostWhileConnected
<1>1. Init => Typed /\ PrefixInv
  BY InitIsTyped, PrefixInit
<1>2. (Typed /\ PrefixInv) /\ [Next]_vars => (Typed /\ PrefixInv)'
  BY PrefixStep
<1>3. Typed /\ PrefixInv => NothingLostWhileConnected
  <2> SUFFICES ASSUME Typed, PrefixInv, conn, Forwarding
               PROVE  /\ Len(offered) = Len(received) + EventsUpTo(OnTheWay, Len(OnTheWay))
                      /\ \A k \in DOMAIN OnTheWay :
                           OnTheWay[k] # OtherFrame =>
                             OnTheWay[k] = offered[Len(received) + EventsUpTo(OnTheWay, k)]
    BY DEF NothingLostWhileConnected, Forwarding
  <2>1. OnTheWay \in Seq(Frame) /\ offered \in Seq(Event) /\ Len(received) \in Nat
    BY OnTheWayIsRanked DEF PrefixInv, Typed, BusTyped, QueueTyped
  <2>2. PICK h \in [0..Len(OnTheWay) -> Nat] :
          /\ Ranks(h, OnTheWay, Len(received), offered)
          /\ h[Len(OnTheWay)] = Len(offered)
    BY OnTheWayIsRanked DEF PrefixInv
  <2>3. \A i \in 0..Len(OnTheWay) : h[i] = Len(received) + EventsUpTo(OnTheWay, i)
    BY <2>1, <2>2, RanksCount
  <2>4. Len(OnTheWay) \in 0..Len(OnTheWay) /\ DOMAIN OnTheWay = 1..Len(OnTheWay)
    BY <2>1
  <2>5. \A k \in 1..Len(OnTheWay) : k \in 0..Len(OnTheWay)
    OBVIOUS
  <2>6. \A k \in DOMAIN OnTheWay :
          OnTheWay[k] # OtherFrame => OnTheWay[k] = offered[h[k]]
    BY <2>2, <2>4 DEF Ranks, Rank
  <2>7. QED
    BY <2>2, <2>3, <2>4, <2>5, <2>6
<1>4. QED
  BY <1>1, <1>2, <1>3, PTL DEF Spec

-----------------------------------------------------------------------------
(* Presence *)

USE PresenceAssumption DEF PresenceAssumption

(* The user's tables and the work on them; what observers get and show. *)
Stored ==
  /\ status \in Statuses /\ preferred \in Preferences
  /\ {stamp, touches} \subseteq 0..MaxTouches
  /\ lease \in [Conn -> {"none", "fresh", "stale"}]
  /\ rowLock \in Task \cup {None}
  /\ open \subseteq Conn
  /\ step \in [Task -> Steps]
  /\ counted \in [Task -> Snapshots \cup {None}]
  /\ faults \in 0..MaxFaults
  /\ harm \subseteq {"skipped", "overtaken"}

Locked ==
  /\ \A t \in Task : rowLock = t <=> step[t] = "counted"
  /\ \A t \in Task : counted[t] # None <=> step[t] \in {"counted", "local", "notify"}

Shown ==
  /\ notices \in [Observed -> Seq(Snapshots)]
  /\ shown \in [Observed -> Snapshots]

LEMMA PresenceInitIsTyped == PresenceInit => PresenceTypeOK
  BY DEF PresenceInit, PresenceTypeOK, Task, Statuses, Preferences, Steps, Snapshots

LEMMA Distinct ==
  /\ None \notin Task /\ None \notin Snapshots
  /\ Conn \cap Sweeping = {} /\ Conn \subseteq Task /\ Sweeping \subseteq Task
  BY DEF Task

(* An effective status is a status. *)
LEMMA EffectiveIsStatus ==
  ASSUME preferred \in Preferences, NEW l
  PROVE  Effective(l) \in Statuses
  BY DEF Effective, Statuses

(* Sweeping a typed set of leases leaves one. *)
LEMMA WithoutStaleIsTyped ==
  ASSUME NEW l \in [Conn -> {"none", "fresh", "stale"}]
  PROVE  WithoutStale(l) \in [Conn -> {"none", "fresh", "stale"}]
  BY DEF WithoutStale

(* What is shown is what was shown or what has been sent. *)
LEMMA SendKeepsTypes ==
  ASSUME Shown, NEW i, NEW s \in Snapshots, SendTo(i, s)
  PROVE  shown' \in [Observed -> Snapshots]
  BY DEF Shown, SendTo, NewerPresence

LEMMA TouchKeepsTypes ==
  ASSUME Stored, TouchRow
  PROVE  /\ {stamp', touches'} \subseteq 0..MaxTouches
         /\ faults' \in 0..MaxFaults
         /\ harm' \subseteq {"skipped", "overtaken"}
         /\ rowLock = None
<1>1. MaxTouches \in Nat /\ MaxFaults \in Nat
  OBVIOUS
<1>2. stamp \in 0..MaxTouches /\ touches \in 0..MaxTouches
  BY DEF Stored
<1>3. touches' \in 0..MaxTouches
  BY <1>1, <1>2 DEF TouchRow
<1>4. stamp' \in 0..MaxTouches
  BY <1>1, <1>2, <1>3 DEF TouchRow
<1>5. QED
  BY <1>3, <1>4 DEF Stored, TouchRow

(* Requests, leases and the sweeper. *)
LEMMA RequestKeepsTypes ==
  ASSUME PresenceTypeOK, NEW c \in Conn,
         \/ Authenticate(c) \/ Heartbeat(c) \/ TouchLease(c) \/ LeaseAges(c)
         \/ RemovePresenceLease(c)
         \/ \E p \in Preferences : SetPreferredPresence(c, p)
  PROVE  PresenceTypeOK'
<1> USE DEF PresenceTypeOK, Stored, Locked, Shown, Steps, rowVars, taskVars, observerVars
<1>1. c \in Task /\ None \notin Task
  BY Distinct
<1>2. CASE Authenticate(c)
  BY <1>1, <1>2, TouchKeepsTypes DEF Authenticate, GoesOn
<1>3. CASE Heartbeat(c)
  BY <1>1, <1>3, TouchKeepsTypes DEF Heartbeat, GoesOn
<1>4. CASE TouchLease(c)
  BY <1>1, <1>4 DEF TouchLease, GoesOn
<1>5. CASE LeaseAges(c)
  BY <1>1, <1>5 DEF LeaseAges
<1>6. CASE RemovePresenceLease(c)
  BY <1>1, <1>6 DEF RemovePresenceLease, GoesOn
<1>7. CASE \E p \in Preferences : SetPreferredPresence(c, p)
  BY <1>1, <1>7, TouchKeepsTypes DEF SetPreferredPresence, GoesOn
<1>8. QED
  BY <1>2, <1>3, <1>4, <1>5, <1>6, <1>7

LEMMA SweepKeepsTypes ==
  ASSUME PresenceTypeOK, NEW i \in Sweeping, ExpireStalePresenceLeases(i)
  PROVE  PresenceTypeOK'
  BY Distinct, WithoutStaleIsTyped
     DEF PresenceTypeOK, Stored, Locked, Shown, Steps, rowVars, taskVars, observerVars,
         ExpireStalePresenceLeases, GoesOn

(* A recompute. *)
LEMMA CountKeepsTypes ==
  ASSUME PresenceTypeOK, NEW t \in Task, CountLeases(t)
  PROVE  PresenceTypeOK'
<1> USE DEF PresenceTypeOK, Stored, Locked, Shown, Steps, rowVars, taskVars, observerVars
<1>1. None \notin Task /\ None \notin Snapshots
  BY Distinct
<1>2. lease' \in [Conn -> {"none", "fresh", "stale"}]
  BY <1>1, WithoutStaleIsTyped DEF CountLeases, Count
<1>3. [status |-> Effective(lease'), stamp |-> stamp] \in Snapshots
  BY EffectiveIsStatus DEF Snapshots
<1>4. Stored'
  BY <1>1, <1>2, <1>3 DEF CountLeases, Count, GoesOn
<1>5. Locked'
  BY <1>1, <1>3 DEF CountLeases, Count, GoesOn
<1>6. QED
  BY <1>4, <1>5 DEF CountLeases, Count

LEMMA CommitKeepsTypes ==
  ASSUME PresenceTypeOK, NEW t \in Task, CommitStatus(t)
  PROVE  PresenceTypeOK'
<1> USE DEF PresenceTypeOK, Stored, Locked, Shown, Steps, rowVars, taskVars, observerVars
<1>1. None \notin Task /\ counted[t] \in Snapshots
  BY Distinct DEF CommitStatus
<1>2. counted[t].status \in Statuses
  BY <1>1 DEF Snapshots
<1>3. QED
  BY <1>1, <1>2 DEF CommitStatus, GoesOn

LEMMA BroadcastKeepsTypes ==
  ASSUME PresenceTypeOK, NEW t \in Task, BroadcastLocal(t) \/ NotifyPresence(t)
  PROVE  PresenceTypeOK'
<1> USE DEF PresenceTypeOK, Stored, Locked, Shown, Steps, rowVars, taskVars, observerVars
<1>1. None \notin Task /\ counted[t] \in Snapshots
  BY Distinct DEF BroadcastLocal, NotifyPresence, GoesOn
<1>2. CASE BroadcastLocal(t)
  BY <1>1, <1>2, SendKeepsTypes DEF BroadcastLocal, GoesOn
<1>3. CASE NotifyPresence(t)
  BY <1>1, <1>3 DEF NotifyPresence, GoesOn
<1>4. QED
  BY <1>2, <1>3

(* Failures. *)
LEMMA AbandonKeepsTypes ==
  ASSUME Stored, Locked, NEW T \in SUBSET Task, Abandon(T)
  PROVE  /\ rowLock' \in Task \cup {None}
         /\ step' \in [Task -> Steps]
         /\ counted' \in [Task -> Snapshots \cup {None}]
         /\ faults' \in 0..MaxFaults
         /\ harm' \subseteq {"skipped", "overtaken"}
         /\ Locked'
  BY Distinct DEF Stored, Locked, Abandon, Steps

LEMMA FailureKeepsTypes ==
  ASSUME PresenceTypeOK,
         (\E t \in Task : StatementFails(t)) \/ (\E i \in Instance : Crash(i))
  PROVE  PresenceTypeOK'
<1> USE DEF PresenceTypeOK, Stored, Locked, Shown
<1>1. CASE \E t \in Task : StatementFails(t)
  BY <1>1, AbandonKeepsTypes DEF StatementFails, observerVars
<1>2. CASE \E i \in Instance : Crash(i)
  BY <1>2, AbandonKeepsTypes DEF Crash, observerVars
<1>3. QED
  BY <1>1, <1>2

(* Observers. *)
LEMMA ObserverKeepsTypes ==
  ASSUME PresenceTypeOK, NEW i \in Observed, LoseNotices(i) \/ Observe(i)
  PROVE  PresenceTypeOK'
<1> USE DEF PresenceTypeOK, Stored, Locked, Shown, rowVars, taskVars, observerVars
<1>1. CASE LoseNotices(i)
  BY <1>1 DEF LoseNotices
<1>2. CASE HandlePresenceNotification(i)
  <2>1. /\ Head(notices[i]) \in Snapshots
        /\ Tail(notices[i]) \in Seq(Snapshots)
    BY <1>2 DEF HandlePresenceNotification
  <2>2. QED
    BY <1>2, <2>1, SendKeepsTypes DEF HandlePresenceNotification
<1>3. CASE SendPresenceSnapshot(i)
  BY <1>3, SendKeepsTypes DEF SendPresenceSnapshot, Snapshots
<1>4. QED
  BY <1>1, <1>2, <1>3 DEF Observe

LEMMA StepKeepsPresenceTypes == PresenceTypeOK /\ [PresenceNext]_presenceVars => PresenceTypeOK'
<1> SUFFICES ASSUME PresenceTypeOK, [PresenceNext]_presenceVars PROVE PresenceTypeOK'
  OBVIOUS
<1>1. CASE UNCHANGED presenceVars
  BY <1>1 DEF PresenceTypeOK, presenceVars, rowVars, taskVars, observerVars
<1>2. CASE PresenceNext
  BY <1>2, RequestKeepsTypes, SweepKeepsTypes, CountKeepsTypes, CommitKeepsTypes,
     BroadcastKeepsTypes, FailureKeepsTypes, ObserverKeepsTypes DEF PresenceNext, Work
<1>3. QED
  BY <1>1, <1>2

(* The variables of Presence have their types, one recompute at a time has  *)
(* the user's row, and a task has a snapshot exactly while it needs one.    *)
THEOREM PresenceTypeCorrect == PresenceSpec => []PresenceTypeOK
  BY PresenceInitIsTyped, StepKeepsPresenceTypes, PTL DEF PresenceSpec

-----------------------------------------------------------------------------
(* Whoever changes a lease or the preferred status owes a recompute, and a  *)
(* recompute that has counted holds what is true unless somebody owes one.  *)
Owed == \E t \in Task : step[t] = "due"

Accounted ==
  \/ "skipped" \in harm
  \/ Owed
  \/ /\ \A t \in Task : step[t] = "counted" => counted[t].status = Effective(lease)
     /\ (\A t \in Task : step[t] # "counted") => status = Effective(lease)

(* Stale leases do not count less than fresh ones. *)
LEMMA AgeingIsNoChange ==
  ASSUME PresenceTypeOK, NEW c \in Conn, LeaseAges(c)
  PROVE  Effective(lease)' = Effective(lease)
  BY DEF PresenceTypeOK, LeaseAges, Effective, rowVars

LEMMA StepKeepsAccounted ==
  ASSUME PresenceTypeOK, PresenceTypeOK', Accounted, [PresenceNext]_presenceVars
  PROVE  Accounted'
<1> USE Distinct
<1>0. step \in [Task -> Steps]
  BY DEF PresenceTypeOK
<1>1. CASE UNCHANGED presenceVars
  BY <1>1 DEF presenceVars, rowVars, taskVars, Accounted, Owed, Effective
<1>2. ASSUME NEW c \in Conn, Authenticate(c) \/ Heartbeat(c)
      PROVE  Accounted'
  <2>1. /\ rowLock = None /\ harm \subseteq harm'
        /\ UNCHANGED <<status, preferred, lease, counted>>
        /\ step[c] = "idle" /\ step' = [step EXCEPT ![c] = "touched"]
    BY <1>2 DEF Authenticate, Heartbeat, TouchRow, GoesOn
  <2>2. QED
    BY <1>0, <2>1 DEF Accounted, Owed, Effective
<1>3. ASSUME NEW c \in Conn,
             \/ TouchLease(c) \/ RemovePresenceLease(c)
             \/ \E p \in Preferences : SetPreferredPresence(c, p)
      PROVE  Accounted'
  <2>1. step'[c] = "due"
    BY <1>0, <1>3 DEF TouchLease, RemovePresenceLease, SetPreferredPresence, GoesOn
  <2>2. QED
    BY <2>1 DEF Accounted, Owed
<1>4. ASSUME NEW c \in Conn, LeaseAges(c) PROVE Accounted'
  BY <1>4, AgeingIsNoChange DEF LeaseAges, Accounted, Owed, rowVars, taskVars
<1>5. ASSUME NEW i \in Sweeping, ExpireStalePresenceLeases(i) PROVE Accounted'
  <2>1. step'[i] = "due"
    BY <1>0, <1>5 DEF ExpireStalePresenceLeases, GoesOn
  <2>2. QED
    BY <2>1 DEF Accounted, Owed
<1>6. ASSUME NEW t \in Task, CountLeases(t) PROVE Accounted'
  <2>1. /\ rowLock' = t /\ preferred' = preferred /\ lease' = WithoutStale(lease)
        /\ step'[t] = "counted"
        /\ counted'[t] = [status |-> Effective(lease'), stamp |-> stamp]
    BY <1>0, <1>6 DEF CountLeases, Count, GoesOn, PresenceTypeOK
  <2>2. counted'[t].status = Effective(lease)'
    BY <2>1 DEF Effective
  <2>3. \A u \in Task : step'[u] = "counted" => u = t
    BY <2>1 DEF PresenceTypeOK
  <2>4. QED
    BY <2>1, <2>2, <2>3 DEF Accounted
<1>7. ASSUME NEW t \in Task, CommitStatus(t) PROVE Accounted'
  <2>1. /\ step[t] = "counted" /\ status' = counted[t].status
        /\ UNCHANGED <<preferred, lease, harm>>
        /\ \/ step' = [step EXCEPT ![t] = "local"]
           \/ step' = [step EXCEPT ![t] = "idle"]
    BY <1>7 DEF CommitStatus, GoesOn
  <2>2. \A u \in Task : step[u] = "counted" => u = t
    BY <2>1 DEF PresenceTypeOK
  <2>3. \A u \in Task : step'[u] # "counted"
    BY <1>0, <2>1, <2>2
  <2>4. Owed => Owed'
    BY <1>0, <2>1 DEF Owed
  <2>5. QED
    BY <2>1, <2>3, <2>4 DEF Accounted, Effective
<1>8. ASSUME NEW T \in SUBSET Task, Abandon(T), UNCHANGED <<status, preferred, lease>>
      PROVE  Accounted'
  <2>1. /\ harm \subseteq harm'
        /\ step' = [t \in Task |-> IF t \in T THEN "idle" ELSE step[t]]
        /\ counted' = [t \in Task |-> IF t \in T THEN None ELSE counted[t]]
    BY <1>8 DEF Abandon
  <2>2. CASE \E t \in T : step[t] \in {"due", "counted"}
    BY <1>8, <2>2 DEF Abandon, Accounted
  <2>3. CASE \A t \in T : step[t] \notin {"due", "counted"}
    BY <1>0, <1>8, <2>1, <2>3 DEF Accounted, Owed, Effective
  <2>4. QED
    BY <2>2, <2>3
<1>9. ASSUME NEW t \in Task, StatementFails(t) PROVE Accounted'
  BY <1>8, <1>9 DEF StatementFails
<1>10. ASSUME NEW i \in Instance, Crash(i) PROVE Accounted'
  BY <1>8, <1>10 DEF Crash
<1>11. ASSUME NEW t \in Task, BroadcastLocal(t) \/ NotifyPresence(t) PROVE Accounted'
  <2>1. /\ UNCHANGED <<status, preferred, lease, harm>>
        /\ step[t] \notin {"due", "counted"}
        /\ \/ step' = [step EXCEPT ![t] = "notify"]
           \/ step' = [step EXCEPT ![t] = "idle"]
        /\ counted' = counted \/ counted' = [counted EXCEPT ![t] = None]
    BY <1>11 DEF BroadcastLocal, NotifyPresence, GoesOn, rowVars
  <2>2. \A u \in Task : step'[u] = "counted" => step[u] = "counted" /\ counted'[u] = counted[u]
    BY <1>0, <2>1 DEF PresenceTypeOK
  <2>3. \A u \in Task : step[u] \in {"due", "counted"} => step'[u] = step[u]
    BY <1>0, <2>1
  <2>4. QED
    BY <2>1, <2>2, <2>3 DEF Accounted, Owed, Effective
<1>12. ASSUME NEW i \in Observed, LoseNotices(i) \/ Observe(i) PROVE Accounted'
  BY <1>12 DEF LoseNotices, Observe, HandlePresenceNotification, SendPresenceSnapshot,
     rowVars, taskVars, Accounted, Owed, Effective
<1>13. QED
  BY <1>1, <1>2, <1>3, <1>4, <1>5, <1>6, <1>7, <1>9, <1>10, <1>11, <1>12 DEF PresenceNext, Work

(* The status in the row is the one the leases and the preferred status     *)
(* imply whenever no recompute is due or under way and none was skipped.    *)
THEOREM StatusIsThatOfLeases == PresenceSpec => []StatusFollowsLeases
<1>1. PresenceInit => Accounted
  BY DEF PresenceInit, Accounted, Effective
<1>2. PresenceTypeOK /\ Accounted => StatusFollowsLeases
  BY DEF Accounted, Owed, StatusFollowsLeases
<1>3. PresenceTypeOK /\ Accounted /\ [PresenceNext]_presenceVars => PresenceTypeOK' /\ Accounted'
  BY StepKeepsPresenceTypes, StepKeepsAccounted
<1>4. QED
  BY <1>1, <1>2, <1>3, PresenceInitIsTyped, PTL DEF PresenceSpec

-----------------------------------------------------------------------------
(* Unless a touch was overtaken, the row has the latest stamp and nothing   *)
(* that has been counted, is queued or is shown has a later one.            *)
StampIsLatest == stamp = touches

NothingCountedIsLater == \A t \in Task : counted[t] # None => counted[t].stamp <= stamp

NothingQueuedIsLater ==
  \A i \in Observed : \A k \in 1..Len(notices[i]) : notices[i][k].stamp <= stamp

NothingShownIsLater == \A i \in Observed : shown[i].stamp <= stamp

NothingIsLater ==
  "overtaken" \notin harm =>
    StampIsLatest /\ NothingCountedIsLater /\ NothingQueuedIsLater /\ NothingShownIsLater

(* The snapshot of a transport heartbeat repairs an observer: unless a      *)
(* touch of the row was overtaken by another, the observer's client never   *)
(* prefers what it shows to the row, whatever notices were lost, repeated   *)
(* on two ways or delivered late (sendDirectMessagePresenceSnapshot and     *)
(* newerPresenceEvent).                                                     *)
HeartbeatsRepair ==
  "overtaken" \notin harm =>
    \A i \in Observed :
      NewerPresence(shown[i], [status |-> status, stamp |-> stamp]).status = status

(* Stamps are numbers. *)
LEMMA StampsAreNumbers ==
  ASSUME PresenceTypeOK
  PROVE  /\ stamp \in Nat /\ touches \in Nat
         /\ \A t \in Task : counted[t] # None => counted[t] \in Snapshots
         /\ \A s \in Snapshots : s.stamp \in Nat
         /\ \A i \in Observed : shown[i] \in Snapshots /\ notices[i] \in Seq(Snapshots)
<1>1. 0..MaxTouches \subseteq Nat
  BY PresenceAssumption
<1>2. \A t \in Task : counted[t] # None => counted[t] \in Snapshots
  BY DEF PresenceTypeOK
<1>3. \A i \in Observed : shown[i] \in Snapshots /\ notices[i] \in Seq(Snapshots)
  BY DEF PresenceTypeOK
<1>4. \A s \in Snapshots : s.stamp \in Nat
  BY <1>1 DEF Snapshots
<1>5. stamp \in Nat /\ touches \in Nat
  BY <1>1 DEF PresenceTypeOK
<1>6. QED
  BY <1>2, <1>3, <1>4, <1>5

(* A later stamp of the row leaves everything no later. *)
LEMMA LaterRowKeepsStamps ==
  ASSUME PresenceTypeOK, NothingIsLater, TouchRow, UNCHANGED <<counted, notices, shown>>
  PROVE  NothingIsLater'
<1> SUFFICES ASSUME "overtaken" \notin harm' PROVE NothingIsLater'
  BY DEF NothingIsLater
<1>1. /\ stamp' = touches + 1 /\ touches' = touches + 1 /\ harm' = harm
  BY DEF TouchRow
<1>2. /\ stamp = touches
      /\ NothingCountedIsLater /\ NothingQueuedIsLater /\ NothingShownIsLater
  BY <1>1 DEF NothingIsLater, StampIsLatest
<1>3. stamp' = stamp + 1 /\ stamp \in Nat
  BY <1>1, <1>2, StampsAreNumbers
<1>4. NothingCountedIsLater'
  BY <1>2, <1>3, StampsAreNumbers DEF NothingCountedIsLater
<1>5. NothingShownIsLater'
  BY <1>2, <1>3, StampsAreNumbers DEF NothingShownIsLater
<1>6. NothingQueuedIsLater'
  <2> SUFFICES ASSUME NEW i \in Observed, NEW k \in 1..Len(notices[i])
               PROVE  notices[i][k].stamp <= stamp'
    BY DEF NothingQueuedIsLater
  <2>1. notices[i][k] \in Snapshots
    BY StampsAreNumbers
  <2>2. notices[i][k].stamp <= stamp /\ notices[i][k].stamp \in Nat
    BY <1>2, <2>1, StampsAreNumbers DEF NothingQueuedIsLater
  <2>3. QED
    BY <1>3, <2>2
<1>7. QED
  BY <1>1, <1>4, <1>5, <1>6 DEF NothingIsLater, StampIsLatest

(* What is sent is no later than the row, so what is shown is not either.   *)
LEMMA SendKeepsStamps ==
  ASSUME NothingShownIsLater, NEW i, NEW s, s.stamp <= stamp, SendTo(i, s), stamp' = stamp
  PROVE  NothingShownIsLater'
  BY DEF NothingShownIsLater, SendTo, NewerPresence

LEMMA StepKeepsStamps ==
  ASSUME PresenceTypeOK, NothingIsLater, [PresenceNext]_presenceVars
  PROVE  NothingIsLater'
<1> USE Distinct
<1>1. CASE UNCHANGED presenceVars
  BY <1>1 DEF presenceVars, rowVars, taskVars, observerVars, NothingIsLater, StampIsLatest,
     NothingCountedIsLater, NothingQueuedIsLater, NothingShownIsLater
<1>2. ASSUME NEW c \in Conn,
             \/ Authenticate(c) \/ Heartbeat(c)
             \/ \E p \in Preferences : SetPreferredPresence(c, p)
      PROVE  NothingIsLater'
  <2>1. TouchRow /\ UNCHANGED <<counted, notices, shown>>
    BY <1>2 DEF Authenticate, Heartbeat, SetPreferredPresence, observerVars
  <2>2. QED
    BY <2>1, LaterRowKeepsStamps
<1>3. ASSUME UNCHANGED <<stamp, touches, counted, notices, shown, harm>> PROVE NothingIsLater'
  BY <1>3 DEF NothingIsLater, StampIsLatest,
     NothingCountedIsLater, NothingQueuedIsLater, NothingShownIsLater
<1>4. ASSUME NEW c \in Conn, TouchLease(c) \/ LeaseAges(c) \/ RemovePresenceLease(c)
      PROVE  NothingIsLater'
  BY <1>3, <1>4 DEF TouchLease, LeaseAges, RemovePresenceLease, rowVars, taskVars, observerVars
<1>5. ASSUME NEW i \in Sweeping, ExpireStalePresenceLeases(i) PROVE NothingIsLater'
  BY <1>3, <1>5 DEF ExpireStalePresenceLeases, rowVars, observerVars
<1>6. ASSUME "overtaken" \notin harm', harm \subseteq harm',
             UNCHANGED <<stamp, touches, notices, shown>>,
             \A t \in Task : counted'[t] # None =>
               counted'[t] = counted[t] \/ counted'[t].stamp = stamp
      PROVE  NothingIsLater'
  <2>1. /\ StampIsLatest /\ NothingCountedIsLater
        /\ NothingQueuedIsLater /\ NothingShownIsLater
    BY <1>6 DEF NothingIsLater
  <2>2. NothingCountedIsLater'
    BY <1>6, <2>1, StampsAreNumbers DEF NothingCountedIsLater
  <2>3. QED
    BY <1>6, <2>1, <2>2 DEF NothingIsLater, StampIsLatest, NothingQueuedIsLater,
       NothingShownIsLater
<1>7. ASSUME NEW t \in Task, CountLeases(t) PROVE NothingIsLater'
  <2>1. /\ UNCHANGED <<stamp, touches, notices, shown, harm>>
        /\ counted' = [counted EXCEPT ![t] = [status |-> Effective(lease'), stamp |-> stamp]]
    BY <1>7 DEF CountLeases, Count, observerVars
  <2>2. \A u \in Task : counted'[u] = counted[u] \/ counted'[u].stamp = stamp
    BY <2>1 DEF PresenceTypeOK
  <2>3. QED
    BY <1>6, <2>1, <2>2 DEF NothingIsLater
<1>8. ASSUME NEW t \in Task, CommitStatus(t) PROVE NothingIsLater'
  <2>1. /\ UNCHANGED <<stamp, touches, notices, shown, harm>>
        /\ counted' = counted \/ counted' = [counted EXCEPT ![t] = None]
    BY <1>8 DEF CommitStatus, observerVars
  <2>2. \A u \in Task : counted'[u] # None => counted'[u] = counted[u]
    BY <2>1 DEF PresenceTypeOK
  <2>3. QED
    BY <1>6, <2>1, <2>2 DEF NothingIsLater
<1>9. ASSUME NEW T \in SUBSET Task, Abandon(T), UNCHANGED <<stamp, touches, notices, shown>>
      PROVE  NothingIsLater'
  <2>1. /\ harm \subseteq harm'
        /\ counted' = [t \in Task |-> IF t \in T THEN None ELSE counted[t]]
    BY <1>9 DEF Abandon
  <2>2. QED
    BY <1>6, <1>9, <2>1 DEF NothingIsLater
<1>10. ASSUME NEW t \in Task, StatementFails(t) PROVE NothingIsLater'
  BY <1>9, <1>10 DEF StatementFails, observerVars
<1>11. ASSUME NEW i \in Instance, Crash(i) PROVE NothingIsLater'
  BY <1>9, <1>11 DEF Crash, observerVars
<1>12. ASSUME "overtaken" \notin harm, harm' = harm, stamp' = stamp, touches' = touches,
              NothingCountedIsLater', NothingQueuedIsLater', NothingShownIsLater'
       PROVE  NothingIsLater'
  BY <1>12 DEF NothingIsLater, StampIsLatest
<1>13. ASSUME NEW t \in Task, BroadcastLocal(t), "overtaken" \notin harm PROVE NothingIsLater'
  <2>1. /\ SendTo(RunsOn(t), counted[t]) /\ step[t] = "local"
        /\ UNCHANGED <<stamp, touches, counted, notices, harm>>
    BY <1>13 DEF BroadcastLocal, GoesOn, rowVars
  <2>2. NothingCountedIsLater /\ NothingQueuedIsLater /\ NothingShownIsLater
    BY <1>13 DEF NothingIsLater
  <2>3. counted[t].stamp <= stamp
    BY <2>1, <2>2 DEF NothingCountedIsLater, PresenceTypeOK
  <2>4. NothingShownIsLater'
    BY <2>1, <2>2, <2>3, SendKeepsStamps
  <2>5. NothingCountedIsLater' /\ NothingQueuedIsLater'
    BY <2>1, <2>2 DEF NothingCountedIsLater, NothingQueuedIsLater
  <2>6. QED
    BY <1>12, <1>13, <2>1, <2>4, <2>5
<1>14. ASSUME NEW t \in Task, NotifyPresence(t), "overtaken" \notin harm PROVE NothingIsLater'
  <2>1. /\ step[t] = "notify" /\ counted' = [counted EXCEPT ![t] = None]
        /\ notices' = [i \in Observed |-> Append(notices[i], counted[t])]
        /\ UNCHANGED <<stamp, touches, shown, harm>>
    BY <1>14 DEF NotifyPresence, GoesOn, rowVars
  <2>2. NothingCountedIsLater /\ NothingQueuedIsLater /\ NothingShownIsLater
    BY <1>14 DEF NothingIsLater
  <2>3. counted[t].stamp <= stamp /\ counted[t] \in Snapshots
    BY <2>1, <2>2, StampsAreNumbers DEF NothingCountedIsLater, PresenceTypeOK
  <2>4. NothingCountedIsLater'
    BY <2>1, <2>2 DEF NothingCountedIsLater, PresenceTypeOK
  <2>5. NothingShownIsLater'
    BY <2>1, <2>2 DEF NothingShownIsLater
  <2>6. NothingQueuedIsLater'
    <3> SUFFICES ASSUME NEW i \in Observed, NEW k \in 1..Len(notices'[i])
                 PROVE  notices'[i][k].stamp <= stamp
      BY <2>1 DEF NothingQueuedIsLater
    <3>1. notices[i] \in Seq(Snapshots) /\ notices'[i] = Append(notices[i], counted[t])
      BY <2>1, StampsAreNumbers
    <3>2. notices'[i][k] = counted[t] \/ (k \in 1..Len(notices[i]) /\ notices'[i][k] = notices[i][k])
      BY <2>3, <3>1
    <3>3. QED
      BY <2>2, <2>3, <3>2 DEF NothingQueuedIsLater
  <2>7. QED
    BY <1>12, <1>14, <2>1, <2>4, <2>5, <2>6
<1>15. ASSUME NEW i \in Observed, LoseNotices(i) PROVE NothingIsLater'
  <2>1. /\ notices' = [notices EXCEPT ![i] = <<>>]
        /\ UNCHANGED <<stamp, touches, counted, shown, harm>>
    BY <1>15 DEF LoseNotices, rowVars, taskVars
  <2>2. \A j \in Observed : notices'[j] = <<>> \/ notices'[j] = notices[j]
    BY <2>1 DEF PresenceTypeOK
  <2>3. NothingQueuedIsLater => NothingQueuedIsLater'
    BY <2>1, <2>2 DEF NothingQueuedIsLater
  <2>4. QED
    BY <2>1, <2>3 DEF NothingIsLater, StampIsLatest, NothingCountedIsLater, NothingShownIsLater
<1>16. ASSUME NEW i \in Observed, HandlePresenceNotification(i), "overtaken" \notin harm
       PROVE  NothingIsLater'
  <2>1. /\ notices[i] # <<>> /\ SendTo(i, Head(notices[i]))
        /\ notices' = [notices EXCEPT ![i] = Tail(notices[i])]
        /\ UNCHANGED <<stamp, touches, counted, harm>>
    BY <1>16 DEF HandlePresenceNotification, rowVars, taskVars
  <2>2. NothingCountedIsLater /\ NothingQueuedIsLater /\ NothingShownIsLater
    BY <1>16 DEF NothingIsLater
  <2>3. notices[i] \in Seq(Snapshots) /\ Head(notices[i]) = notices[i][1] /\ 1 \in 1..Len(notices[i])
    BY <2>1, StampsAreNumbers
  <2>4. Head(notices[i]).stamp <= stamp
    BY <2>2, <2>3 DEF NothingQueuedIsLater
  <2>5. NothingShownIsLater'
    BY <2>1, <2>2, <2>4, SendKeepsStamps
  <2>6. NothingQueuedIsLater'
    <3> SUFFICES ASSUME NEW j \in Observed, NEW k \in 1..Len(notices'[j])
                 PROVE  notices'[j][k].stamp <= stamp
      BY <2>1 DEF NothingQueuedIsLater
    <3>1. CASE j = i
      <4>1. notices'[i] = Tail(notices[i])
        BY <2>1 DEF PresenceTypeOK
      <4>2. k + 1 \in 1..Len(notices[i]) /\ notices'[i][k] = notices[i][k + 1]
        <5> DEFINE q == notices[i]
        <5>1. q \in Seq(Snapshots) /\ q # <<>> /\ k \in 1..Len(Tail(q))
          BY <2>1, <2>3, <3>1, <4>1
        <5> HIDE DEF q
        <5>2. k + 1 \in 1..Len(q) /\ Tail(q)[k] = q[k + 1]
          BY <5>1
        <5>3. QED
          BY <4>1, <5>2 DEF q
      <4>3. QED
        BY <2>2, <3>1, <4>2 DEF NothingQueuedIsLater
    <3>2. CASE j # i
      <4>1. notices'[j] = notices[j]
        BY <2>1, <3>2 DEF PresenceTypeOK
      <4>2. QED
        BY <2>2, <4>1 DEF NothingQueuedIsLater
    <3>3. QED
      BY <3>1, <3>2
  <2>7. NothingCountedIsLater'
    BY <2>1, <2>2 DEF NothingCountedIsLater
  <2>8. QED
    BY <1>12, <1>16, <2>1, <2>5, <2>6, <2>7
<1>17. ASSUME NEW i \in Observed, SendPresenceSnapshot(i), "overtaken" \notin harm
       PROVE  NothingIsLater'
  <2> DEFINE row == [status |-> status, stamp |-> stamp]
  <2>1. SendTo(i, row) /\ UNCHANGED <<stamp, touches, counted, notices, harm>>
    BY <1>17 DEF SendPresenceSnapshot, rowVars, taskVars
  <2>2. NothingCountedIsLater /\ NothingQueuedIsLater /\ NothingShownIsLater
    BY <1>17 DEF NothingIsLater
  <2>3. row.stamp <= stamp
    BY StampsAreNumbers
  <2> HIDE DEF row
  <2>4. NothingShownIsLater'
    BY <2>1, <2>2, <2>3, SendKeepsStamps
  <2>5. NothingCountedIsLater' /\ NothingQueuedIsLater'
    BY <2>1, <2>2 DEF NothingCountedIsLater, NothingQueuedIsLater
  <2>6. QED
    BY <1>12, <1>17, <2>1, <2>4, <2>5
<1>18. ASSUME "overtaken" \in harm, harm' = harm PROVE NothingIsLater'
  BY <1>18 DEF NothingIsLater
<1>19. ASSUME NEW t \in Task, BroadcastLocal(t) \/ NotifyPresence(t) PROVE NothingIsLater'
  <2>1. harm' = harm
    BY <1>19 DEF BroadcastLocal, NotifyPresence
  <2>2. QED
    BY <1>13, <1>14, <1>18, <1>19, <2>1
<1>20. ASSUME NEW i \in Observed, Observe(i) PROVE NothingIsLater'
  <2>1. harm' = harm
    BY <1>20 DEF Observe, HandlePresenceNotification, SendPresenceSnapshot
  <2>2. QED
    BY <1>16, <1>17, <1>18, <1>20, <2>1 DEF Observe
<1>21. QED
  BY <1>1, <1>2, <1>4, <1>5, <1>7, <1>8, <1>10, <1>11, <1>15, <1>19, <1>20
     DEF PresenceNext, Work

(* An observer's next heartbeat shows it the status in the row, for every   *)
(* set of connections, sweepers and observers, as long as no touch of the   *)
(* row was overtaken by another: the safety half of ObserversConverge.      *)
THEOREM SnapshotsPrevail == PresenceSpec => []HeartbeatsRepair
<1>1. PresenceInit => NothingIsLater
  BY DEF PresenceInit, NothingIsLater, StampIsLatest, NothingCountedIsLater,
     NothingQueuedIsLater, NothingShownIsLater
<1>2. PresenceTypeOK /\ NothingIsLater => HeartbeatsRepair
  <2> SUFFICES ASSUME PresenceTypeOK, NothingIsLater, "overtaken" \notin harm,
                      NEW i \in Observed
               PROVE  NewerPresence(shown[i], [status |-> status, stamp |-> stamp]).status = status
    BY DEF HeartbeatsRepair
  <2>1. shown[i].stamp <= stamp /\ shown[i].stamp \in Nat /\ stamp \in Nat
    BY StampsAreNumbers DEF NothingIsLater, NothingShownIsLater
  <2>2. QED
    BY <2>1 DEF NewerPresence
<1>3. PresenceTypeOK /\ NothingIsLater /\ [PresenceNext]_presenceVars
        => PresenceTypeOK' /\ NothingIsLater'
  BY StepKeepsPresenceTypes, StepKeepsStamps
<1>4. QED
  BY <1>1, <1>2, <1>3, PresenceInitIsTyped, PTL DEF PresenceSpec
=============================================================================
