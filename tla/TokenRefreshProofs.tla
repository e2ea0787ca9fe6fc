------------------------- MODULE TokenRefreshProofs -------------------------
(***************************************************************************)
(* Shared tokens for every number of calls, logins and faults: the types,   *)
(* and that a living session keeps its token (LivingSessionIsKept).         *)
(***************************************************************************)
EXTENDS TokenRefresh, FiniteSetTheorems, TLAPS

USE RefreshAssumption DEF RefreshAssumption

-----------------------------------------------------------------------------
(* The inductive invariant *)

(* Calls that may still draw a token. *)
Asking ==
  {c \in Caller :
     call[c].phase \in {"waiting", "writing", "reading", "sent", "found", "refused"}}

(* Each token was issued for a login or a call that was started. *)
IssuedIsCounted ==
  /\ IsFiniteSet(late) /\ IsFiniteSet(Asking)
  /\ issued + Cardinality(late) + Cardinality(Asking) <= 1 + logins + starts

(* Where there are locks one call is at the server at a time. *)
OneTurn ==
  \A c \in Caller :
    /\ call[c].phase \in {"writing", "reading"} => ~locks
    /\ call[c].phase \in {"clearing", "returning"} => locks
    /\ locks /\ call[c].phase \in Requesting => holder = c

(* What a call knows in each phase. *)
CallIsShaped ==
  \A c \in Caller :
    /\ call[c].phase # "idle" => call[c].refresh \in 1..issued
    /\ call[c].phase \in {"waiting", "writing", "reading"} => call[c].tried = {}
    /\ call[c].phase \in Requesting =>
         call[c].using \in 1..issued /\ call[c].tried \subseteq 1..issued
    /\ call[c].phase = "answered" => call[c].answer \in 1..issued

(* No token is known before it is issued. *)
KnownIsIssued ==
  /\ live \subseteq 1..issued /\ late \subseteq 1..issued
  /\ refresh \in 0..issued /\ leaving \in 0..issued
  /\ \A t \in 1..issued : session[t] \in 1..(1 + logins)

OneLiveToken == \A t, u \in live : session[t] = session[u] => t = u

(* The session of the last login; the only one that can be kept. *)
Current == 1 + logins

LiveIsCurrent == \A t \in live : session[t] \notin lost => session[t] = Current

HeldIsCurrent ==
  Current \notin lost =>
    /\ refresh # 0 => session[refresh] = Current
    /\ leaving # 0 => session[leaving] = Current
    /\ \A c \in Caller :
         /\ call[c].phase # "idle" => session[call[c].refresh] = Current
         /\ call[c].phase \in Requesting => session[call[c].using] = Current
         /\ call[c].phase = "answered" => session[call[c].answer] = Current

(* Tokens that were refused or replaced are dead. *)
Dead(t) == t \notin live \/ session[t] \in lost

TriedIsDead ==
  \A c \in Caller :
    /\ call[c].phase = "refused" => Dead(call[c].using)
    /\ call[c].phase \in Requesting =>
         \A t \in call[c].tried \ {call[c].using} : Dead(t)

(* A token on its way is known to nobody else ...                           *)
AnswerIsNew ==
  \A c \in Caller : call[c].phase = "answered" =>
    /\ call[c].answer # refresh
    /\ \A d \in Caller :
         /\ call[d].phase \in Requesting => call[d].using # call[c].answer
         /\ d # c /\ call[d].phase = "answered" => call[d].answer # call[c].answer

(* ... and is the last one of its session.                                  *)
AnswerIsLast ==
  \A c \in Caller : call[c].phase = "answered" =>
    \A u \in live : /\ session[u] = session[call[c].answer]
                    /\ session[u] \notin lost
                    => u = call[c].answer

(* The types, in parts. *)
TokensTyped ==
  /\ live \subseteq Token /\ late \subseteq Token
  /\ session \in [Token -> {0} \cup Session]
  /\ issued \in Token
  /\ access \in {0} \cup Token /\ refresh \in {0} \cup Token
  /\ leaving \in {0} \cup Token
  /\ lost \subseteq Session

TurnTyped ==
  /\ locks \in BOOLEAN
  /\ holder \in Caller \cup {None}
  /\ \A c \in Caller : holder = c => call[c].phase \in Requesting
  /\ lease \in [owner : Caller \cup {None, Gone}, fresh : BOOLEAN]

CallRecord ==
  [phase : Phases, refresh : {0} \cup Token, access : {0} \cup Token,
   using : {0} \cup Token, usingAccess : {0} \cup Token,
   tried : SUBSET Token, answer : {0} \cup Token]

CallsTyped == call \in [Caller -> CallRecord]

BoundsTyped ==
  /\ starts \in 0..MaxStarts /\ logins \in 0..MaxLogins
  /\ faults \in 0..MaxFaults

Shape ==
  /\ TokensTyped /\ TurnTyped /\ CallsTyped /\ BoundsTyped
  /\ IssuedIsCounted /\ OneTurn /\ CallIsShaped /\ KnownIsIssued

TokenInv ==
  /\ OneLiveToken /\ LiveIsCurrent /\ HeldIsCurrent
  /\ TriedIsDead /\ AnswerIsNew /\ AnswerIsLast
  /\ LivingSessionIsKept

-----------------------------------------------------------------------------
(* Counting the tokens *)

Bounds ==
  /\ issued \in Nat /\ starts \in Nat /\ logins \in Nat

LEMMA CardsAreNat ==
  ASSUME IssuedIsCounted
  PROVE  Cardinality(late) \in Nat /\ Cardinality(Asking) \in Nat
  BY FS_CardinalityType DEF IssuedIsCounted

(* A step that draws no token. *)
LEMMA NothingDrawn ==
  ASSUME IssuedIsCounted, Bounds, Asking' \subseteq Asking,
         UNCHANGED <<issued, late, starts, logins>>
  PROVE  IssuedIsCounted'
<1>1. Asking' \in SUBSET Asking
  OBVIOUS
<1>2. IsFiniteSet(Asking') /\ Cardinality(Asking') <= Cardinality(Asking)
  BY <1>1, FS_Subset DEF IssuedIsCounted
<1>3. Cardinality(Asking') \in Nat
  BY <1>2, FS_CardinalityType
<1>4. QED
  BY <1>2, <1>3, CardsAreNat DEF IssuedIsCounted, Bounds

(* A call that is started may draw one. *)
LEMMA StartIsCounted ==
  ASSUME IssuedIsCounted, Bounds, NEW c, Asking' = Asking \cup {c},
         starts' = starts + 1, UNCHANGED <<issued, late, logins>>
  PROVE  IssuedIsCounted'
<1>1. /\ IsFiniteSet(Asking \cup {c})
      /\ Cardinality(Asking \cup {c}) =
           IF c \in Asking THEN Cardinality(Asking) ELSE Cardinality(Asking) + 1
  BY FS_AddElement DEF IssuedIsCounted
<1>2. IsFiniteSet(Asking') /\ Cardinality(Asking') <= Cardinality(Asking) + 1
  BY <1>1, CardsAreNat
<1>3. Cardinality(Asking') \in Nat
  BY <1>2, FS_CardinalityType
<1>4. QED
  BY <1>2, <1>3, CardsAreNat, SMTT(30) DEF IssuedIsCounted, Bounds

(* A call leaves a request behind, or none. *)
LEMMA LeavingIsCounted ==
  ASSUME IssuedIsCounted, Bounds, NEW c \in Asking, Asking' = Asking \ {c}, NEW t,
         late' = late \/ late' = late \cup {t},
         UNCHANGED <<issued, starts, logins>>
  PROVE  IssuedIsCounted'
<1>1. IsFiniteSet(Asking') /\ Cardinality(Asking') = Cardinality(Asking) - 1
  BY FS_RemoveElement DEF IssuedIsCounted
<1>2. IsFiniteSet(late') /\ Cardinality(late') <= Cardinality(late) + 1
  <2>1. CASE late' = late
    BY <2>1, CardsAreNat DEF IssuedIsCounted
  <2>2. CASE late' = late \cup {t}
    <3>1. /\ IsFiniteSet(late \cup {t})
          /\ Cardinality(late \cup {t}) =
               IF t \in late THEN Cardinality(late) ELSE Cardinality(late) + 1
      BY FS_AddElement DEF IssuedIsCounted
    <3>2. QED
      BY <2>2, <3>1, CardsAreNat
  <2>3. QED
    BY <2>1, <2>2
<1>3. Cardinality(late') \in Nat
  BY <1>2, FS_CardinalityType
<1>4. QED
  BY <1>1, <1>2, <1>3, CardsAreNat DEF IssuedIsCounted, Bounds

(* A call draws its token. *)
LEMMA DrawIsCounted ==
  ASSUME IssuedIsCounted, Bounds, NEW c \in Asking, Asking' = Asking \ {c},
         issued' = issued + 1, UNCHANGED <<late, starts, logins>>
  PROVE  IssuedIsCounted'
<1>1. IsFiniteSet(Asking') /\ Cardinality(Asking') = Cardinality(Asking) - 1
  BY FS_RemoveElement DEF IssuedIsCounted
<1>2. QED
  BY <1>1, CardsAreNat DEF IssuedIsCounted, Bounds

(* A late request draws a token, or none. *)
LEMMA LateDrawIsCounted ==
  ASSUME IssuedIsCounted, Bounds, Asking' = Asking, NEW t \in late, late' = late \ {t},
         issued' \in {issued, issued + 1}, UNCHANGED <<starts, logins>>
  PROVE  IssuedIsCounted'
<1>1. IsFiniteSet(late') /\ Cardinality(late') = Cardinality(late) - 1
  BY FS_RemoveElement DEF IssuedIsCounted
<1>2. QED
  BY <1>1, CardsAreNat DEF IssuedIsCounted, Bounds

(* There is a number left for the next token. *)
LEMMA NextTokenExists ==
  ASSUME TokensTyped, BoundsTyped, IssuedIsCounted, (Asking # {} \/ late # {})
  PROVE  issued + 1 \in Token
<1>1. Cardinality(late) # 0 \/ Cardinality(Asking) # 0
  BY FS_EmptySet DEF IssuedIsCounted
<1>2. issued + 1 <= 1 + logins + starts
  BY <1>1, CardsAreNat, SMTT(30) DEF IssuedIsCounted, TokensTyped, BoundsTyped, Token
<1>3. MaxStarts \in Nat /\ MaxLogins \in Nat
  OBVIOUS
<1>4. QED
  BY <1>2, <1>3 DEF TokensTyped, BoundsTyped, Token

LEMMA LoginTokenExists ==
  ASSUME TokensTyped, BoundsTyped, IssuedIsCounted, logins < MaxLogins
  PROVE  issued + 1 \in Token
<1>1. issued + 1 <= 2 + logins + starts
  BY CardsAreNat DEF IssuedIsCounted, TokensTyped, BoundsTyped, Token
<1>2. MaxStarts \in Nat /\ MaxLogins \in Nat
  OBVIOUS
<1>3. QED
  BY <1>1, <1>2 DEF TokensTyped, BoundsTyped, Token

LEMMA TypedIsBounded ==
  ASSUME TokensTyped, BoundsTyped
  PROVE  Bounds
<1>1. MaxStarts \in Nat /\ MaxLogins \in Nat
  OBVIOUS
<1>2. QED
  BY <1>1 DEF TokensTyped, BoundsTyped, Bounds, Token

-----------------------------------------------------------------------------
(* Types and counts *)

LEMMA IdleIsTyped == Idle \in CallRecord
  BY DEF Idle, CallRecord, Phases

LEMMA GoOnIsTyped ==
  ASSUME CallsTyped, NEW c \in Caller, NEW t \in {0} \cup Token
  PROVE  GoOn(c, t) \in CallRecord
<1>1. call[c].refresh \in {0} \cup Token
  BY DEF CallsTyped, CallRecord
<1>2. QED
  BY <1>1 DEF GoOn, Idle, CallRecord, Phases

LEMMA SendIsTyped ==
  ASSUME CallsTyped, TokensTyped, NEW c \in Caller, refresh # 0
  PROVE  Send(c) \in CallRecord
<1>1. call[c] \in CallRecord /\ refresh \in Token /\ access \in {0} \cup Token
  BY DEF CallsTyped, TokensTyped
<1>2. call[c].tried \cup {refresh} \subseteq Token
  BY <1>1 DEF CallRecord
<1>3. QED
  BY <1>1, <1>2 DEF Send, CallRecord, Phases

LEMMA PhaseIsTyped ==
  ASSUME CallsTyped, NEW c \in Caller, NEW p \in Phases
  PROVE  [call EXCEPT ![c].phase = p] \in [Caller -> CallRecord]
<1>1. [call[c] EXCEPT !.phase = p] \in CallRecord
  BY DEF CallsTyped, CallRecord
<1>2. QED
  BY <1>1 DEF CallsTyped

LEMMA ShapeIsTyped ==
  ASSUME Shape
  PROVE  TypeOK
<1>1. \A c \in Caller : call[c].phase \in Requesting => call[c].using \in Token
  BY DEF Shape, CallIsShaped, CallsTyped, CallRecord, TokensTyped, Token
<1>2. QED
  BY <1>1 DEF Shape, TokensTyped, TurnTyped, CallsTyped, CallRecord, BoundsTyped, TypeOK

LEMMA InitIsShaped == Init => Shape
<1> SUFFICES ASSUME Init PROVE Shape
  OBVIOUS
<1>1. MaxStarts \in Nat /\ MaxLogins \in Nat /\ MaxFaults \in Nat
  OBVIOUS
<1>2. 1 \in Token /\ 1 \in Session
  BY <1>1 DEF Token, Session
<1>3. TokensTyped /\ TurnTyped /\ CallsTyped /\ BoundsTyped
  BY <1>1, <1>2, IdleIsTyped
     DEF Init, TokensTyped, TurnTyped, CallsTyped, BoundsTyped, NoLease
<1>4. Asking = {} /\ late = {}
  BY DEF Init, Asking, Idle
<1>5. IssuedIsCounted
  BY <1>4, FS_EmptySet DEF Init, IssuedIsCounted
<1>6. OneTurn /\ CallIsShaped /\ KnownIsIssued
  BY <1>1 DEF Init, OneTurn, CallIsShaped, KnownIsIssued, Idle, Requesting, Token, Session
<1>7. QED
  BY <1>3, <1>5, <1>6 DEF Shape

(* A call begins. *)
LEMMA StartKeepsShape ==
  ASSUME Shape, NEW c \in Caller, Start(c)
  PROVE  Shape'
<1> USE DEF Shape, Start, serverVars, storedVars, turnVars
<1>1. MaxStarts \in Nat
  OBVIOUS
<1>2. TokensTyped' /\ BoundsTyped' /\ TurnTyped'
  BY <1>1 DEF TokensTyped, BoundsTyped, TurnTyped, CallsTyped, Idle, Requesting
<1>3. CallsTyped'
  BY <1>1, IdleIsTyped DEF TokensTyped, CallsTyped, CallRecord, Idle, Phases
<1>4. Asking' = Asking \cup {c}
  BY DEF CallsTyped, Asking, Idle
<1>5. IssuedIsCounted'
  BY <1>4, TypedIsBounded, StartIsCounted
<1>6. OneTurn' /\ CallIsShaped' /\ KnownIsIssued'
  BY TypedIsBounded
     DEF CallsTyped, Bounds, OneTurn, CallIsShaped, KnownIsIssued, Idle, Requesting
<1>7. QED
  BY <1>2, <1>3, <1>5, <1>6

(* Getting a lease. *)
LEMMA LeaseKeepsShape ==
  ASSUME Shape, NEW c \in Caller, SeeNoLease(c) \/ WriteLease(c) \/ RenewLease(c)
  PROVE  Shape'
<1> USE DEF Shape, SeeNoLease, WriteLease, RenewLease, serverVars, storedVars,
            turnVars, boundVars
<1>1. TokensTyped' /\ BoundsTyped' /\ TurnTyped' /\ CallsTyped'
  <2>1. TokensTyped' /\ BoundsTyped'
    BY DEF TokensTyped, BoundsTyped
  <2>2. /\ \A d \in Caller \ {c} : call'[d] = call[d]
        /\ call'[c].phase \in Requesting <=> call[c].phase \in Requesting
        /\ lease' \in [owner : Caller \cup {None, Gone}, fresh : BOOLEAN]
        /\ holder' = holder /\ locks' = locks
    <3>1. CASE SeeNoLease(c)
      BY <3>1 DEF CallsTyped, CallRecord, TurnTyped, Requesting
    <3>2. CASE WriteLease(c)
      BY <3>2 DEF CallsTyped, CallRecord, TurnTyped, Requesting
    <3>3. CASE RenewLease(c)
      BY <3>3 DEF CallsTyped, TurnTyped
    <3>4. QED
      BY <3>1, <3>2, <3>3
  <2>3. CallsTyped'
    <3>1. CASE UNCHANGED call
      BY <3>1 DEF CallsTyped
    <3>2. CASE \E p \in {"writing", "reading"} : call' = [call EXCEPT ![c].phase = p]
      <4>1. PICK p \in {"writing", "reading"} : call' = [call EXCEPT ![c].phase = p]
        BY <3>2
      <4>2. p \in Phases
        BY DEF Phases
      <4>3. [call EXCEPT ![c].phase = p] \in [Caller -> CallRecord]
        BY <4>2, PhaseIsTyped
      <4>4. QED
        BY <4>1, <4>3 DEF CallsTyped
    <3>3. QED
      BY <3>1, <3>2
  <2>4. TurnTyped'
    BY <2>2 DEF TurnTyped
  <2>5. QED
    BY <2>1, <2>3, <2>4
<1>2. Asking' = Asking
  BY DEF CallsTyped, CallRecord, Asking
<1>3. IssuedIsCounted'
  BY <1>2, TypedIsBounded, NothingDrawn
<1>4. OneTurn' /\ CallIsShaped' /\ KnownIsIssued'
  BY DEF CallsTyped, CallRecord, OneTurn, CallIsShaped, KnownIsIssued, Requesting
<1>5. QED
  BY <1>1, <1>3, <1>4

(* Steps of others. *)
LEMMA OthersKeepShape ==
  ASSUME Shape, LeaseLapses \/ BeginLogout \/ FinishLogout \/ (\E t \in Token : EndSession(t))
  PROVE  Shape'
<1> USE DEF Shape, LeaseLapses, BeginLogout, FinishLogout, EndSession, serverVars,
            storedVars, turnVars, boundVars
<1>1. MaxFaults \in Nat
  OBVIOUS
<1>2. TokensTyped' /\ BoundsTyped' /\ TurnTyped' /\ CallsTyped'
  <2>1. faults' \in 0..MaxFaults
    BY <1>1 DEF BoundsTyped
  <2>2. lost' \subseteq Session
    BY DEF TokensTyped, BoundsTyped, KnownIsIssued, Session
  <2>3. QED
    BY <2>1, <2>2 DEF TokensTyped, BoundsTyped, TurnTyped, CallsTyped, Requesting
<1>3. Asking' = Asking
  BY DEF Asking
<1>4. IssuedIsCounted'
  BY <1>3, TypedIsBounded, NothingDrawn
<1>5. OneTurn' /\ CallIsShaped' /\ KnownIsIssued'
  BY TypedIsBounded DEF Bounds, OneTurn, CallIsShaped, KnownIsIssued
<1>6. QED
  BY <1>2, <1>4, <1>5

(* A call leaves its turn: with its result, or because it failed. *)
LEMMA LeavingIsShaped ==
  ASSUME Shape, NEW c \in Caller, NEW r \in CallRecord,
         call' = [call EXCEPT ![c] = r],
         r = Idle \/ (\E t \in {0} \cup Token : r = GoOn(c, t)),
         call[c].phase # "idle",
         holder' = IF holder = c THEN None ELSE holder,
         lease' \in [owner : Caller \cup {None, Gone}, fresh : BOOLEAN],
         UNCHANGED <<locks, session, issued>>
  PROVE  /\ CallsTyped' /\ TurnTyped'
         /\ Asking' = Asking \ {c}
         /\ OneTurn' /\ CallIsShaped'
<1> USE DEF Shape
<1>1. /\ locks => r.phase \in {"idle", "clearing", "returning"}
      /\ ~locks => r.phase = "idle"
      /\ r.phase # "idle" => r.refresh = call[c].refresh
  <2>1. CASE r = Idle
    BY <2>1 DEF Idle
  <2>2. CASE \E t \in {0} \cup Token : r = GoOn(c, t)
    <3>1. PICK t \in {0} \cup Token : r = GoOn(c, t)
      BY <2>2
    <3>2. CASE locks
      <4>1. r = [Idle EXCEPT !.phase = IF t = 0 THEN "clearing" ELSE "returning",
                             !.refresh = call[c].refresh, !.answer = t]
        BY <3>1, <3>2 DEF GoOn
      <4>2. QED
        BY <3>2, <4>1 DEF Idle
    <3>3. CASE ~locks
      BY <3>1, <3>3 DEF GoOn, Idle
    <3>4. QED
      BY <3>2, <3>3
  <2>3. QED
    BY <2>1, <2>2
<1>2. call'[c] = r /\ \A d \in Caller \ {c} : call'[d] = call[d]
  BY DEF CallsTyped
<1>3. CallsTyped'
  BY DEF CallsTyped
<1>4. TurnTyped'
  BY <1>2 DEF TurnTyped
<1>5. Asking' = Asking \ {c}
  BY <1>1, <1>2 DEF Asking, TurnTyped
<1>6. OneTurn'
  BY <1>1, <1>2 DEF OneTurn, TurnTyped, Requesting
<1>7. CallIsShaped'
  <2>1. r.phase # "idle" => r.refresh \in 1..issued
    BY <1>1 DEF CallIsShaped
  <2>2. r.phase \in {"idle", "clearing", "returning"}
    BY <1>1 DEF TurnTyped
  <2>3. QED
    BY <1>2, <2>1, <2>2 DEF CallIsShaped, Requesting
<1>8. QED
  BY <1>3, <1>4, <1>5, <1>6, <1>7

(* A call goes to the server. *)
LEMMA SendingIsShaped ==
  ASSUME Shape, NEW c \in Caller, refresh # 0,
         call[c].phase \in {"waiting", "reading", "refused"},
         locks => holder' = c, ~locks => holder' = holder,
         call[c].phase = "reading" => ~locks,
         call[c].phase = "waiting" /\ locks => holder = None,
         call[c].phase = "refused" => holder' = holder,
         call' = [call EXCEPT ![c] = Send(c)],
         UNCHANGED <<lease, locks, session, issued, late, starts, logins, refresh>>
  PROVE  /\ CallsTyped' /\ TurnTyped'
         /\ IssuedIsCounted' /\ OneTurn' /\ CallIsShaped'
<1> USE DEF Shape
<1>1. Send(c) \in CallRecord
  BY SendIsTyped
<1>2. /\ Send(c).phase = "sent" /\ Send(c).using = refresh
      /\ Send(c).tried = call[c].tried \cup {refresh}
      /\ Send(c).refresh = call[c].refresh
  BY DEF Send, CallsTyped, CallRecord
<1>3. call'[c] = Send(c) /\ \A d \in Caller \ {c} : call'[d] = call[d]
  BY DEF CallsTyped
<1>4. CallsTyped'
  BY <1>1 DEF CallsTyped
<1>5. TurnTyped'
  BY <1>2, <1>3 DEF TurnTyped, Requesting
<1>6. Asking' = Asking
  BY <1>2, <1>3 DEF Asking
<1>7. IssuedIsCounted'
  BY <1>6, TypedIsBounded, NothingDrawn
<1>8. OneTurn'
  BY <1>2, <1>3 DEF OneTurn, Requesting
<1>9. CallIsShaped'
  <2>1. refresh \in 1..issued
    BY DEF KnownIsIssued, TokensTyped, Token
  <2>2. call[c].tried \subseteq 1..issued
    BY DEF CallIsShaped, Requesting
  <2>3. call[c].refresh \in 1..issued
    BY DEF CallIsShaped
  <2>4. QED
    BY <1>2, <1>3, <2>1, <2>2, <2>3 DEF CallIsShaped, Requesting
<1>10. QED
  BY <1>4, <1>5, <1>7, <1>8, <1>9

(* What a call finds when its turn has come. *)
LEMMA EnterKeepsShape ==
  ASSUME Shape, NEW c \in Caller, Enter(c),
         \/ call[c].phase = "waiting" /\ locks /\ holder = None
         \/ call[c].phase = "reading" /\ ~locks,
         UNCHANGED <<serverVars, locks, leaving, boundVars, lost>>
  PROVE  Shape'
<1> USE DEF serverVars, boundVars, storedVars
<1>1. TokensTyped' /\ BoundsTyped' /\ KnownIsIssued'
  BY DEF Shape, TokensTyped, BoundsTyped, KnownIsIssued, Enter, ReturnStored, ReturnNothing
<1>2. LeaseAfter(c) \in [owner : Caller \cup {None, Gone}, fresh : BOOLEAN]
  BY DEF Shape, TurnTyped, LeaseAfter, NoLease
<1>3. CASE /\ refresh # 0
           /\ call' = [call EXCEPT ![c] = Send(c)]
           /\ holder' = IF locks THEN c ELSE holder
           /\ UNCHANGED <<storedVars, lease>>
  <2>1. /\ locks => holder' = c
        /\ ~locks => holder' = holder
    BY <1>3
  <2>2. CallsTyped' /\ TurnTyped' /\ IssuedIsCounted' /\ OneTurn' /\ CallIsShaped'
    BY <1>3, <2>1, SendingIsShaped
  <2>3. QED
    BY <1>1, <2>2 DEF Shape
<1>4. CASE /\ call' = [call EXCEPT ![c] = GoOn(c, access)] \/ call' = [call EXCEPT ![c] = GoOn(c, 0)]
           /\ holder' = IF holder = c THEN None ELSE holder
           /\ lease' = LeaseAfter(c)
  <2>1. PICK t \in {0} \cup Token : call' = [call EXCEPT ![c] = GoOn(c, t)]
    BY <1>4 DEF Shape, TokensTyped
  <2>2. GoOn(c, t) \in CallRecord
    BY GoOnIsTyped DEF Shape
  <2>3. /\ CallsTyped' /\ TurnTyped' /\ Asking' = Asking \ {c}
        /\ OneTurn' /\ CallIsShaped'
    BY <1>2, <1>4, <2>1, <2>2, LeavingIsShaped
  <2>4. IssuedIsCounted'
    BY <2>3, TypedIsBounded, NothingDrawn DEF Shape
  <2>5. QED
    BY <1>1, <2>3, <2>4 DEF Shape
<1>5. QED
  BY <1>3, <1>4 DEF Enter, ReturnStored, ReturnNothing

LEMMA TurnKeepsShape ==
  ASSUME Shape, NEW c \in Caller, GrantLock(c) \/ ReadLeaseBack(c)
  PROVE  Shape'
<1>1. CASE GrantLock(c)
  BY <1>1, EnterKeepsShape DEF GrantLock
<1>2. CASE ReadLeaseBack(c) /\ lease.owner = c
  BY <1>2, EnterKeepsShape DEF ReadLeaseBack, Shape, OneTurn
<1>3. CASE ReadLeaseBack(c) /\ lease.owner # c
  <2> USE <1>3 DEF ReadLeaseBack, Shape, serverVars, storedVars, boundVars
  <2>1. TokensTyped' /\ BoundsTyped' /\ KnownIsIssued'
    BY DEF TokensTyped, BoundsTyped, KnownIsIssued
  <2>2. CallsTyped'
    <3>1. "waiting" \in Phases
      BY DEF Phases
    <3>2. [call EXCEPT ![c].phase = "waiting"] \in [Caller -> CallRecord]
      BY <3>1, PhaseIsTyped
    <3>3. QED
      BY <3>2 DEF CallsTyped
  <2>3. TurnTyped'
    BY DEF TurnTyped, CallsTyped, CallRecord, Requesting
  <2>4. Asking' = Asking
    BY DEF CallsTyped, CallRecord, Asking
  <2>5. IssuedIsCounted'
    BY <2>4, TypedIsBounded, NothingDrawn
  <2>6. OneTurn' /\ CallIsShaped'
    BY DEF CallsTyped, CallRecord, OneTurn, CallIsShaped, Requesting
  <2>7. QED
    BY <2>1, <2>2, <2>3, <2>5, <2>6
<1>4. QED
  BY <1>1, <1>2, <1>3

(* The server looks for the session, and finds it or not. *)
LEMMA MovingIsShaped ==
  ASSUME Shape, NEW c \in Caller, NEW p \in {"found", "refused"},
         call[c].phase \in {"sent", "found"},
         call' = [call EXCEPT ![c].phase = p],
         UNCHANGED <<holder, lease, locks, issued, late, starts, logins>>
  PROVE  /\ CallsTyped' /\ TurnTyped'
         /\ IssuedIsCounted' /\ OneTurn' /\ CallIsShaped'
<1> USE DEF Shape
<1>1. CallsTyped'
  BY PhaseIsTyped DEF CallsTyped, Phases
<1>2. TurnTyped'
  BY DEF TurnTyped, CallsTyped, CallRecord, Requesting
<1>3. Asking' = Asking
  BY DEF CallsTyped, CallRecord, Asking
<1>4. IssuedIsCounted'
  BY <1>3, TypedIsBounded, NothingDrawn
<1>5. OneTurn' /\ CallIsShaped'
  BY DEF CallsTyped, CallRecord, OneTurn, CallIsShaped, Requesting
<1>6. QED
  BY <1>1, <1>2, <1>4, <1>5

LEMMA LookupKeepsShape ==
  ASSUME Shape, NEW c \in Caller, GetActiveByTokenHash(c) \/ LookupFails(c)
  PROVE  Shape'
<1> USE DEF serverVars, storedVars, turnVars, boundVars
<1>1. CASE GetActiveByTokenHash(c)
  <2>1. PICK p \in {"found", "refused"} : call' = [call EXCEPT ![c].phase = p]
    BY <1>1 DEF GetActiveByTokenHash
  <2>2. CallsTyped' /\ TurnTyped' /\ IssuedIsCounted' /\ OneTurn' /\ CallIsShaped'
    BY <1>1, <2>1, MovingIsShaped DEF GetActiveByTokenHash
  <2>3. TokensTyped' /\ BoundsTyped' /\ KnownIsIssued'
    BY <1>1 DEF Shape, TokensTyped, BoundsTyped, KnownIsIssued, GetActiveByTokenHash
  <2>4. QED
    BY <2>2, <2>3 DEF Shape
<1>2. CASE LookupFails(c)
  <2>1. MaxFaults \in Nat
    OBVIOUS
  <2>2. CallsTyped' /\ TurnTyped' /\ IssuedIsCounted' /\ OneTurn' /\ CallIsShaped'
    BY <1>2, MovingIsShaped DEF LookupFails
  <2>3. session[call[c].using] \in Session
    BY <1>2 DEF Shape, CallIsShaped, KnownIsIssued, BoundsTyped, Session, LookupFails, Requesting
  <2>4. TokensTyped' /\ BoundsTyped' /\ KnownIsIssued'
    BY <1>2, <2>1, <2>3
       DEF Shape, TokensTyped, BoundsTyped, KnownIsIssued, LookupFails
  <2>5. QED
    BY <2>2, <2>4 DEF Shape
<1>3. QED
  BY <1>1, <1>2

(* A token is exchanged. *)
LEMMA ExchangeIsTyped ==
  ASSUME Shape, NEW t \in 1..issued, issued + 1 \in Token, Exchange(t)
  PROVE  /\ issued' \in Token /\ issued' = issued + 1
         /\ session' \in [Token -> {0} \cup Session]
         /\ \A u \in 1..issued : session'[u] = session[u]
         /\ session'[issued'] = session[t] /\ session[t] \in Session
         /\ \A u \in 1..issued' : session'[u] \in 1..(1 + logins)
<1> USE DEF Shape
<1>1. session[t] \in 1..(1 + logins) /\ session[t] \in Session
  BY DEF KnownIsIssued, BoundsTyped, Session
<1>2. issued \in Nat /\ issued' = issued + 1
  BY DEF TokensTyped, Token, Exchange
<1>3. \A u \in 1..issued : session'[u] = session[u]
  BY <1>2 DEF TokensTyped, Token, Exchange
<1>4. session'[issued'] = session[t]
  BY <1>2 DEF TokensTyped, Exchange
<1>5. session' \in [Token -> {0} \cup Session]
  BY <1>1 DEF TokensTyped, Exchange
<1>6. \A u \in 1..issued' : session'[u] \in 1..(1 + logins)
  BY <1>1, <1>2, <1>3, <1>4 DEF KnownIsIssued
<1>7. QED
  BY <1>1, <1>2, <1>3, <1>4, <1>5, <1>6

LEMMA RotateKeepsShape ==
  ASSUME Shape, NEW c \in Caller, RotateToken(c)
  PROVE  Shape'
<1> USE DEF serverVars, storedVars, turnVars, boundVars
<1>1. CASE call[c].using \notin live
  <2>1. CallsTyped' /\ TurnTyped' /\ IssuedIsCounted' /\ OneTurn' /\ CallIsShaped'
    BY <1>1, MovingIsShaped DEF RotateToken
  <2>2. TokensTyped' /\ BoundsTyped' /\ KnownIsIssued'
    BY <1>1 DEF Shape, TokensTyped, BoundsTyped, KnownIsIssued, RotateToken
  <2>3. QED
    BY <2>1, <2>2 DEF Shape
<1>2. CASE call[c].using \in live
  <2> USE DEF Shape
  <2>1. call[c].using \in 1..issued /\ c \in Asking
    BY <1>2 DEF RotateToken, KnownIsIssued, Asking
  <2>2. issued + 1 \in Token
    BY <2>1, NextTokenExists
  <2>3. Exchange(call[c].using)
    BY <1>2 DEF RotateToken
  <2>4. /\ issued' \in Token /\ issued' = issued + 1
        /\ session' \in [Token -> {0} \cup Session]
        /\ \A u \in 1..issued' : session'[u] \in 1..(1 + logins)
    BY <2>1, <2>2, <2>3, ExchangeIsTyped
  <2>5. call' = [call EXCEPT ![c].phase = "answered", ![c].answer = issued + 1]
    BY <1>2 DEF RotateToken
  <2>6. /\ call'[c] = [call[c] EXCEPT !.phase = "answered", !.answer = issued + 1]
        /\ \A d \in Caller \ {c} : call'[d] = call[d]
    BY <2>5 DEF CallsTyped
  <2>7. call'[c] \in CallRecord
    BY <2>2, <2>6 DEF CallsTyped, CallRecord, Phases
  <2>8. CallsTyped'
    BY <2>5, <2>6, <2>7 DEF CallsTyped
  <2>9. /\ call'[c].phase = "answered" /\ call'[c].answer = issued + 1
        /\ call'[c].using = call[c].using /\ call'[c].tried = call[c].tried
        /\ call'[c].refresh = call[c].refresh
    BY <2>6 DEF CallsTyped, CallRecord
  <2>10. TurnTyped'
    BY <2>6, <2>9 DEF TurnTyped, RotateToken, Requesting
  <2>11. Asking' = Asking \ {c}
    BY <2>6, <2>9 DEF Asking
  <2>12. IssuedIsCounted'
    BY <2>1, <2>4, <2>11, TypedIsBounded, DrawIsCounted DEF RotateToken
  <2>13. issued \in Nat
    BY DEF TokensTyped, Token
  <2>14. OneTurn' /\ CallIsShaped'
    <3>1. call[c].phase = "found" /\ UNCHANGED <<locks, holder>>
      BY DEF RotateToken
    <3>2. OneTurn'
      BY <2>6, <2>9, <3>1 DEF OneTurn, Requesting
    <3>3. /\ call[c].refresh \in 1..issued' /\ call[c].using \in 1..issued'
          /\ call[c].tried \subseteq 1..issued' /\ issued + 1 \in 1..issued'
      BY <2>4, <2>13, <3>1 DEF CallIsShaped, Requesting
    <3>4. \A d \in Caller \ {c} :
             /\ call[d].phase # "idle" => call[d].refresh \in 1..issued'
             /\ call[d].phase \in Requesting =>
                  call[d].using \in 1..issued' /\ call[d].tried \subseteq 1..issued'
             /\ call[d].phase = "answered" => call[d].answer \in 1..issued'
      BY <2>4, <2>13 DEF CallIsShaped
    <3>5. ASSUME NEW d \in Caller
          PROVE  /\ call'[d].phase # "idle" => call'[d].refresh \in 1..issued'
                 /\ call'[d].phase \in {"waiting", "writing", "reading"} => call'[d].tried = {}
                 /\ call'[d].phase \in Requesting =>
                      call'[d].using \in 1..issued' /\ call'[d].tried \subseteq 1..issued'
                 /\ call'[d].phase = "answered" => call'[d].answer \in 1..issued'
      <4>1. CASE d = c
        BY <2>9, <3>3, <4>1 DEF Requesting
      <4>2. CASE d # c
        BY <2>6, <3>4, <4>2 DEF CallIsShaped
      <4>3. QED
        BY <4>1, <4>2
    <3>6. CallIsShaped'
      BY <3>5 DEF CallIsShaped
    <3>7. QED
      BY <3>2, <3>6
  <2>15. TokensTyped' /\ BoundsTyped' /\ KnownIsIssued'
    <3>1. live' \subseteq live \cup {issued + 1}
      BY <2>3 DEF Exchange
    <3>2. live' \subseteq 1..issued' /\ live' \subseteq Token
      BY <2>2, <2>4, <2>13, <3>1 DEF TokensTyped, KnownIsIssued
    <3>3. QED
      BY <2>4, <2>13, <3>2 DEF TokensTyped, BoundsTyped, KnownIsIssued, RotateToken
  <2>16. QED
    BY <2>8, <2>10, <2>12, <2>14, <2>15
<1>3. QED
  BY <1>1, <1>2

LEMMA LateKeepsShape ==
  ASSUME Shape, NEW t \in Token, LateRequest(t)
  PROVE  Shape'
<1> USE DEF Shape, storedVars, turnVars, boundVars
<1>1. t \in late /\ t \in 1..issued /\ late' = late \ {t} /\ issued \in Nat
  BY DEF LateRequest, KnownIsIssued, TokensTyped, Token
<1>2. Asking' = Asking
  BY DEF LateRequest, Asking
<1>3. TurnTyped' /\ CallsTyped' /\ OneTurn' /\ BoundsTyped'
  BY DEF LateRequest, TurnTyped, CallsTyped, OneTurn, BoundsTyped
<1>4. CASE t \in live
  <2>1. issued + 1 \in Token
    BY <1>1, NextTokenExists
  <2>2. Exchange(t) /\ lost' = lost \cup {session[t]}
    BY <1>4 DEF LateRequest
  <2>3. /\ issued' \in Token /\ issued' = issued + 1
        /\ session' \in [Token -> {0} \cup Session]
        /\ session[t] \in Session
        /\ \A u \in 1..issued' : session'[u] \in 1..(1 + logins)
    BY <1>1, <2>1, <2>2, ExchangeIsTyped
  <2>4. IssuedIsCounted'
    BY <1>1, <1>2, <2>3, TypedIsBounded, LateDrawIsCounted DEF LateRequest
  <2>5. live' \subseteq 1..issued' /\ live' \subseteq Token
    BY <1>1, <2>1, <2>2, <2>3 DEF TokensTyped, KnownIsIssued, Exchange
  <2>6. TokensTyped' /\ KnownIsIssued'
    BY <1>1, <2>2, <2>3, <2>5 DEF TokensTyped, KnownIsIssued, LateRequest
  <2>7. CallIsShaped'
    BY <1>1, <2>3 DEF CallIsShaped, LateRequest
  <2>8. QED
    BY <1>3, <2>4, <2>6, <2>7
<1>5. CASE t \notin live
  <2>1. UNCHANGED <<live, session, issued, lost>>
    BY <1>5 DEF LateRequest
  <2>2. IssuedIsCounted'
    BY <1>1, <1>2, <2>1, TypedIsBounded, LateDrawIsCounted DEF LateRequest
  <2>3. TokensTyped' /\ KnownIsIssued' /\ CallIsShaped'
    BY <1>1, <2>1 DEF TokensTyped, KnownIsIssued, CallIsShaped, LateRequest
  <2>4. QED
    BY <1>3, <2>2, <2>3
<1>6. QED
  BY <1>4, <1>5

LEMMA LeaseAfterIsTyped ==
  ASSUME TurnTyped, NEW c \in Caller
  PROVE  LeaseAfter(c) \in [owner : Caller \cup {None, Gone}, fresh : BOOLEAN]
  BY DEF TurnTyped, LeaseAfter, NoLease

(* The answer comes. *)
LEMMA ReceiveKeepsShape ==
  ASSUME Shape, NEW c \in Caller, ReceiveTokens(c) \/ ReceiveRefusal(c)
  PROVE  Shape'
<1> USE DEF Shape, serverVars, storedVars, boundVars
<1>1. /\ BoundsTyped'
      /\ call[c].phase \in {"answered", "refused"}
      /\ UNCHANGED <<live, session, issued, late, locks, leaving, starts, logins, lost>>
  BY DEF BoundsTyped, ReceiveTokens, ReceiveRefusal
<1>2. CASE /\ refresh # 0
           /\ call[c].phase = "refused"
           /\ call' = [call EXCEPT ![c] = Send(c)]
           /\ UNCHANGED <<storedVars, holder, lease>>
  <2>1. locks => holder' = c
    BY <1>2 DEF OneTurn, Requesting
  <2>2. CallsTyped' /\ TurnTyped' /\ IssuedIsCounted' /\ OneTurn' /\ CallIsShaped'
    BY <1>1, <1>2, <2>1, SendingIsShaped
  <2>3. TokensTyped' /\ KnownIsIssued'
    BY <1>1, <1>2 DEF TokensTyped, KnownIsIssued
  <2>4. QED
    BY <1>1, <2>2, <2>3
<1>3. CASE /\ \E t \in {0} \cup Token : call' = [call EXCEPT ![c] = GoOn(c, t)]
           /\ holder' = IF holder = c THEN None ELSE holder
           /\ lease' = LeaseAfter(c)
           /\ {access', refresh'} \subseteq {0} \cup Token
           /\ refresh' \in 0..issued
  <2>1. PICK t \in {0} \cup Token : call' = [call EXCEPT ![c] = GoOn(c, t)]
    BY <1>3
  <2>2. GoOn(c, t) \in CallRecord
    BY GoOnIsTyped
  <2>3. lease' \in [owner : Caller \cup {None, Gone}, fresh : BOOLEAN]
    BY <1>3, LeaseAfterIsTyped
  <2>4. /\ CallsTyped' /\ TurnTyped' /\ Asking' = Asking \ {c}
        /\ OneTurn' /\ CallIsShaped'
    BY <1>1, <1>3, <2>1, <2>2, <2>3, LeavingIsShaped
  <2>5. IssuedIsCounted'
    BY <1>1, <2>4, TypedIsBounded, NothingDrawn
  <2>6. TokensTyped' /\ KnownIsIssued'
    BY <1>1, <1>3 DEF TokensTyped, KnownIsIssued
  <2>7. QED
    BY <1>1, <2>4, <2>5, <2>6
<1>4. access \in {0} \cup Token /\ refresh \in {0} \cup Token /\ refresh \in 0..issued
  BY DEF TokensTyped, KnownIsIssued
<1>5. CASE ReceiveTokens(c)
  <2>1. call[c].answer \in Token /\ call[c].answer \in 0..issued
    BY <1>5 DEF CallIsShaped, CallsTyped, CallRecord, TokensTyped, Token, ReceiveTokens
  <2>2. QED
    BY <1>3, <1>5, <2>1 DEF ReceiveTokens
<1>6. CASE ReceiveRefusal(c)
  <2>1. 0 \in 0..issued
    BY DEF TokensTyped, Token
  <2>2. QED
    BY <1>2, <1>3, <1>4, <1>6, <2>1 DEF ReceiveRefusal, ReturnStored, ReturnNothing
<1>7. QED
  BY <1>5, <1>6

LEMMA IssuedIsTyped ==
  ASSUME Shape, NEW t \in 1..issued
  PROVE  t \in Token /\ session[t] \in Session
<1>1. MaxStarts \in Nat /\ MaxLogins \in Nat
  OBVIOUS
<1>2. session[t] \in 1..(1 + logins) /\ logins \in 0..MaxLogins
  BY DEF Shape, KnownIsIssued, BoundsTyped
<1>3. session[t] \in Session
  BY <1>1, <1>2 DEF Session
<1>4. t \in Token
  BY <1>1 DEF Shape, TokensTyped, Token
<1>5. QED
  BY <1>3, <1>4

(* A call fails, or its tab is closed. *)
LEMMA FailingKeepsShape ==
  ASSUME Shape, NEW c \in Caller, GiveUp(c) \/ CloseTab(c)
  PROVE  Shape'
<1> USE DEF Shape, storedVars
<1>1. MaxFaults \in Nat
  OBVIOUS
<1>2. /\ BoundsTyped'
      /\ call' = [call EXCEPT ![c] = Idle]
      /\ call[c].phase # "idle"
      /\ late' = IF call[c].phase \in {"sent", "found"} THEN late \cup {call[c].using} ELSE late
      /\ lost' = IF call[c].phase = "answered" THEN lost \cup {session[call[c].answer]} ELSE lost
      /\ holder' = IF holder = c THEN None ELSE holder
      /\ access' \in {0} \cup Token
      /\ UNCHANGED <<live, session, issued, refresh, locks, leaving, starts, logins>>
  <2>1. call[c].access \in {0} \cup Token /\ access \in {0} \cup Token
    BY DEF CallsTyped, CallRecord, TokensTyped
  <2>2. CASE GiveUp(c)
    BY <1>1, <2>1, <2>2 DEF GiveUp, BoundsTyped, Requesting
  <2>3. CASE CloseTab(c)
    BY <1>1, <2>1, <2>3 DEF CloseTab, BoundsTyped
  <2>4. QED
    BY <2>2, <2>3
<1>3. lease' \in [owner : Caller \cup {None, Gone}, fresh : BOOLEAN]
  <2>1. CASE GiveUp(c)
    BY <2>1, LeaseAfterIsTyped DEF GiveUp
  <2>2. CASE CloseTab(c)
    BY <2>2 DEF CloseTab, TurnTyped
  <2>3. QED
    BY <2>1, <2>2
<1>4. /\ CallsTyped' /\ TurnTyped' /\ Asking' = Asking \ {c}
      /\ OneTurn' /\ CallIsShaped'
  BY <1>2, <1>3, IdleIsTyped, LeavingIsShaped
<1>5. call[c].phase \in {"sent", "found"} => c \in Asking /\ call[c].using \in 1..issued
  BY DEF Asking, CallIsShaped, Requesting
<1>6. IssuedIsCounted'
  <2>1. CASE c \in Asking
    BY <1>2, <1>4, <2>1, TypedIsBounded, LeavingIsCounted
  <2>2. CASE c \notin Asking
    BY <1>2, <1>4, <1>5, <2>2, TypedIsBounded, NothingDrawn
  <2>3. QED
    BY <2>1, <2>2
<1>7. lost' \subseteq Session
  BY <1>2, IssuedIsTyped DEF TokensTyped, CallIsShaped
<1>8. late' \subseteq 1..issued' /\ late' \subseteq Token
  BY <1>2, <1>5, IssuedIsTyped DEF TokensTyped, KnownIsIssued
<1>9. TokensTyped' /\ KnownIsIssued'
  BY <1>2, <1>7, <1>8 DEF TokensTyped, KnownIsIssued
<1>10. QED
  BY <1>2, <1>4, <1>6, <1>9

(* A caller goes on. *)
LEMMA GoingOnKeepsShape ==
  ASSUME Shape, NEW c \in Caller, GoOnWithTokens(c) \/ GoOnWithNothing(c)
  PROVE  Shape'
<1> USE DEF Shape, GoOnWithTokens, GoOnWithNothing, serverVars, turnVars, boundVars
<1>1. /\ call' = [call EXCEPT ![c] = Idle]
      /\ call[c].phase \in {"returning", "clearing"}
      /\ UNCHANGED <<holder, lease>>
  OBVIOUS
<1>2. holder # c
  BY <1>1 DEF TurnTyped, Requesting
<1>3. lease' \in [owner : Caller \cup {None, Gone}, fresh : BOOLEAN]
  BY <1>1 DEF TurnTyped
<1>4. /\ CallsTyped' /\ TurnTyped' /\ Asking' = Asking \ {c}
      /\ OneTurn' /\ CallIsShaped'
  BY <1>1, <1>2, <1>3, IdleIsTyped, LeavingIsShaped
<1>5. IssuedIsCounted'
  BY <1>4, TypedIsBounded, NothingDrawn
<1>6. TokensTyped' /\ KnownIsIssued' /\ BoundsTyped'
  <2>1. call[c].answer \in {0} \cup Token /\ 0 \in 0..issued
    BY DEF CallsTyped, CallRecord, TokensTyped, Token
  <2>2. QED
    BY <2>1 DEF TokensTyped, KnownIsIssued, BoundsTyped
<1>7. QED
  BY <1>4, <1>5, <1>6

(* A login. *)
LEMMA LoginKeepsShape ==
  ASSUME Shape, Login
  PROVE  Shape'
<1> USE DEF Shape, turnVars
<1>1. MaxLogins \in Nat /\ issued \in Nat /\ logins \in Nat
  BY DEF TokensTyped, BoundsTyped, Token
<1>2. issued + 1 \in Token /\ issued' = issued + 1
  BY LoginTokenExists DEF Login
<1>3. 2 + logins \in Session /\ 2 + logins = 1 + logins'
  BY <1>1 DEF Login, BoundsTyped, Session
<1>4. session' \in [Token -> {0} \cup Session]
  BY <1>3 DEF Login, TokensTyped
<1>5. \A t \in 1..issued' : session'[t] \in 1..(1 + logins')
  BY <1>1, <1>2, <1>3 DEF Login, TokensTyped, KnownIsIssued, Token
<1>6. lost' \subseteq Session
  BY <1>3, IssuedIsTyped DEF Login, TokensTyped, KnownIsIssued
<1>7. live' \subseteq 1..issued' /\ late' \subseteq 1..issued'
  BY <1>1, <1>2 DEF Login, KnownIsIssued
<1>8. TokensTyped'
  BY <1>2, <1>4, <1>6 DEF Login, TokensTyped
<1>9. KnownIsIssued'
  BY <1>1, <1>2, <1>5, <1>7 DEF Login, KnownIsIssued
<1>10. BoundsTyped' /\ TurnTyped' /\ CallsTyped' /\ OneTurn'
  BY <1>1 DEF Login, BoundsTyped, TurnTyped, CallsTyped, OneTurn
<1>11. CallIsShaped'
  BY <1>1, <1>2 DEF Login, CallIsShaped
<1>12. IssuedIsCounted'
  <2>1. Asking' = Asking
    BY DEF Login, Asking
  <2>2. QED
    BY <1>1, <1>2, <2>1, TypedIsBounded, CardsAreNat DEF Login, IssuedIsCounted, Bounds
<1>13. QED
  BY <1>8, <1>9, <1>10, <1>11, <1>12

LEMMA NextKeepsShape ==
  ASSUME Shape, [Next]_vars
  PROVE  Shape'
<1>1. CASE UNCHANGED vars
  BY <1>1 DEF vars, serverVars, storedVars, turnVars, boundVars, Shape, TokensTyped,
              TurnTyped, CallsTyped, BoundsTyped, IssuedIsCounted, Asking, OneTurn,
              CallIsShaped, KnownIsIssued
<1>2. CASE Next
  BY <1>2, StartKeepsShape, LeaseKeepsShape, TurnKeepsShape, LookupKeepsShape,
     RotateKeepsShape, ReceiveKeepsShape, FailingKeepsShape, GoingOnKeepsShape,
     LateKeepsShape, OthersKeepShape, LoginKeepsShape
     DEF Next, Turn, Server, Answer
<1>3. QED
  BY <1>1, <1>2

(* Every reachable state is typed: tokens never outrun their numbers, a call *)
(* that has the turn is at the server, and what is recorded is a token, a    *)
(* session, a call.                                                          *)
THEOREM TokenRefreshTypeCorrect == Spec => []TypeOK
<1>1. Init => Shape
  BY InitIsShaped
<1>2. Shape /\ [Next]_vars => Shape'
  BY NextKeepsShape
<1>3. Shape => TypeOK
  BY ShapeIsTyped
<1>4. QED
  BY <1>1, <1>2, <1>3, PTL DEF Spec

-----------------------------------------------------------------------------
(* Living sessions *)

(* Most steps draw and store no token: a call takes the stored one along,    *)
(* learns that its own is dead, or ends.                                     *)
DeadThen(t) == t \notin live' \/ session[t] \in lost'

CallMoves(c) ==
  /\ call'[c].phase # "idle" =>
       \/ call[c].phase # "idle" /\ call'[c].refresh = call[c].refresh
       \/ refresh # 0 /\ call'[c].refresh = refresh
  /\ call'[c].phase \in Requesting =>
       \/ call[c].phase \in Requesting /\ call'[c].using = call[c].using
       \/ refresh # 0 /\ call'[c].using = refresh
  /\ call'[c].phase \in Requesting =>
       \A t \in call'[c].tried \ {call'[c].using} : DeadThen(t)
  /\ call'[c].phase = "refused" => DeadThen(call'[c].using)
  /\ call'[c].phase = "answered" =>
       call[c].phase = "answered" /\ call'[c].answer = call[c].answer
  /\ call[c].phase = "answered" =>
       \/ call'[c].phase = "answered" /\ call'[c].answer = call[c].answer
       \/ session[call[c].answer] \in lost'
  /\ locks /\ call'[c].phase = "clearing" =>
       \/ call[c].phase = "clearing" /\ call'[c].refresh = call[c].refresh
       \/ \A t \in live : session[t] \notin lost => session[t] # session[call'[c].refresh]

Quiet ==
  /\ live' \subseteq live /\ lost \subseteq lost'
  /\ UNCHANGED <<session, issued, logins, locks>>
  /\ refresh' \in {refresh, 0} /\ leaving' \in {leaving, refresh, 0}
  /\ refresh' # refresh => \A t \in live' : session[t] \notin lost' => t # refresh
  /\ \A c \in Caller : CallMoves(c)

LEMMA QuietKeepsTokens ==
  ASSUME Shape, TokenInv, Quiet
  PROVE  TokenInv'
<1> USE DEF TokenInv
<1>1. OneLiveToken'
  BY DEF Quiet, OneLiveToken
<1>2. LiveIsCurrent'
  BY DEF Quiet, LiveIsCurrent, Current
<1>3. HeldIsCurrent'
  BY DEF Quiet, CallMoves, HeldIsCurrent, Current
<1>4. TriedIsDead'
  BY DEF Quiet, CallMoves, TriedIsDead, Dead, DeadThen
<1>5. AnswerIsNew'
  BY DEF Quiet, CallMoves, AnswerIsNew, Shape, CallIsShaped, TokensTyped, Token
<1>6. AnswerIsLast'
  BY DEF Quiet, CallMoves, AnswerIsLast
<1>7. LivingSessionIsKept'
  <2> SUFFICES ASSUME NEW t \in live', session[t] \notin lost'
               PROVE  /\ \/ refresh' = t
                         \/ \E c \in Caller : call'[c].phase = "answered" /\ call'[c].answer = t
                      /\ locks => \A c \in Caller :
                           call'[c].phase = "clearing" => session[t] # session[call'[c].refresh]
    BY DEF Quiet, LivingSessionIsKept
  <2>1. t \in live /\ session[t] \notin lost
    BY DEF Quiet
  <2>2. CASE refresh = t
    BY <2>1, <2>2 DEF Quiet, CallMoves, LivingSessionIsKept
  <2>3. CASE \E c \in Caller : call[c].phase = "answered" /\ call[c].answer = t
    BY <2>1, <2>3 DEF Quiet, CallMoves, LivingSessionIsKept
  <2>4. QED
    BY <2>1, <2>2, <2>3 DEF LivingSessionIsKept
<1>8. QED
  BY <1>1, <1>2, <1>3, <1>4, <1>5, <1>6, <1>7

(* A call that is not concerned. *)
LEMMA StayingMoves ==
  ASSUME TokenInv, NEW c \in Caller, call'[c] = call[c],
         live' \subseteq live, lost \subseteq lost'
  PROVE  CallMoves(c)
  BY DEF CallMoves, TokenInv, TriedIsDead, Dead, DeadThen

(* A step of one call. *)
LEMMA OneCallMoves ==
  ASSUME Shape, TokenInv, NEW c \in Caller, CallMoves(c),
         \A d \in Caller \ {c} : call'[d] = call[d],
         live' \subseteq live, lost \subseteq lost',
         UNCHANGED <<session, issued, logins, locks, leaving>>,
         refresh' \in {refresh, 0},
         refresh' # refresh => \A t \in live' : session[t] \notin lost' => t # refresh
  PROVE  TokenInv'
<1>1. \A d \in Caller : CallMoves(d)
  BY StayingMoves
<1>2. QED
  BY <1>1, QuietKeepsTokens DEF Quiet

LEMMA StartKeepsTokens ==
  ASSUME Shape, TokenInv, NEW c \in Caller, Start(c)
  PROVE  TokenInv'
<1> USE DEF Start, serverVars, storedVars, turnVars
<1>1. /\ call'[c].phase = "waiting" /\ call'[c].refresh = refresh
      /\ call[c].phase = "idle"
      /\ \A d \in Caller \ {c} : call'[d] = call[d]
  BY DEF Shape, CallsTyped, Idle
<1>2. CallMoves(c)
  BY <1>1 DEF CallMoves, Requesting
<1>3. QED
  BY <1>1, <1>2, OneCallMoves

LEMMA LeaseKeepsTokens ==
  ASSUME Shape, TokenInv, NEW c \in Caller,
         \/ SeeNoLease(c) \/ WriteLease(c) \/ RenewLease(c)
         \/ ReadLeaseBack(c) /\ lease.owner # c
  PROVE  TokenInv'
<1> USE DEF serverVars, storedVars, turnVars, boundVars
<1>1. CASE RenewLease(c)
  <2>1. \A d \in Caller : call'[d] = call[d]
    BY <1>1 DEF RenewLease
  <2>2. CallMoves(c)
    BY <1>1, <2>1, StayingMoves DEF RenewLease
  <2>3. QED
    BY <1>1, <2>1, <2>2, OneCallMoves DEF RenewLease
<1>2. CASE SeeNoLease(c) \/ WriteLease(c) \/ (ReadLeaseBack(c) /\ lease.owner # c)
  <2>1. /\ call'[c].phase \in {"waiting", "writing", "reading"}
        /\ call'[c].refresh = call[c].refresh
        /\ call[c].phase \in {"waiting", "writing", "reading"}
        /\ \A d \in Caller \ {c} : call'[d] = call[d]
        /\ UNCHANGED <<live, session, issued, lost, logins, locks, leaving, refresh>>
    <3>1. CASE SeeNoLease(c)
      BY <3>1 DEF SeeNoLease, Shape, CallsTyped, CallRecord
    <3>2. CASE WriteLease(c)
      BY <3>2 DEF WriteLease, Shape, CallsTyped, CallRecord
    <3>3. CASE ReadLeaseBack(c) /\ lease.owner # c
      BY <3>3 DEF ReadLeaseBack, Shape, CallsTyped, CallRecord
    <3>4. QED
      BY <1>2, <3>1, <3>2, <3>3
  <2>2. CallMoves(c)
    BY <2>1 DEF CallMoves, Requesting
  <2>3. QED
    BY <2>1, <2>2, OneCallMoves
<1>3. QED
  BY <1>1, <1>2

(* The stored token is taken along: what was tried before is dead.          *)
LEMMA SendingMoves ==
  ASSUME Shape, TokenInv, NEW c \in Caller, refresh # 0,
         call[c].phase \in {"waiting", "reading", "refused"},
         call' = [call EXCEPT ![c] = Send(c)],
         UNCHANGED <<live, session, lost>>
  PROVE  CallMoves(c) /\ \A d \in Caller \ {c} : call'[d] = call[d]
<1>1. call'[c] = Send(c) /\ \A d \in Caller \ {c} : call'[d] = call[d]
  BY DEF Shape, CallsTyped
<1>2. /\ call'[c].phase = "sent" /\ call'[c].using = refresh
      /\ call'[c].tried = call[c].tried \cup {refresh}
      /\ call'[c].refresh = call[c].refresh
  BY <1>1 DEF Send, Shape, CallsTyped, CallRecord
<1>3. \A t \in call'[c].tried \ {refresh} : DeadThen(t)
  <2> SUFFICES ASSUME NEW t \in call[c].tried, t # refresh PROVE DeadThen(t)
    BY <1>2
  <2>1. call[c].phase = "refused"
    BY DEF Shape, CallIsShaped
  <2>2. Dead(t)
    BY <2>1 DEF TokenInv, TriedIsDead, Requesting
  <2>3. QED
    BY <2>2 DEF Dead, DeadThen
<1>4. CallMoves(c)
  BY <1>2, <1>3 DEF CallMoves, Requesting
<1>5. QED
  BY <1>1, <1>4

(* A call that comes back: with nothing only if no session lives.            *)
LEMMA ComingBackMoves ==
  ASSUME Shape, TokenInv, NEW c \in Caller, NEW u \in {0} \cup Token,
         call[c].phase \in {"waiting", "reading", "refused"},
         call' = [call EXCEPT ![c] = GoOn(c, u)],
         locks /\ u = 0 => \A t \in live : session[t] \in lost
  PROVE  CallMoves(c) /\ \A d \in Caller \ {c} : call'[d] = call[d]
<1>1. call'[c] = GoOn(c, u) /\ \A d \in Caller \ {c} : call'[d] = call[d]
  BY DEF Shape, CallsTyped
<1>2. CASE locks
  <2>1. GoOn(c, u) = [Idle EXCEPT !.phase = IF u = 0 THEN "clearing" ELSE "returning",
                                  !.refresh = call[c].refresh, !.answer = u]
    BY <1>2 DEF GoOn
  <2>2. /\ call'[c].phase = IF u = 0 THEN "clearing" ELSE "returning"
        /\ call'[c].refresh = call[c].refresh
    BY <1>1, <2>1, ZenonT(30) DEF Idle
  <2>3. /\ call'[c].phase \in {"clearing", "returning"}
        /\ call'[c].phase = "clearing" => \A t \in live : session[t] \in lost
        /\ call[c].phase \notin {"idle", "answered"}
    BY <1>2, <2>2
  <2>4. CallMoves(c)
    BY <2>2, <2>3 DEF CallMoves, Requesting
  <2>5. QED
    BY <1>1, <2>4
<1>3. CASE ~locks
  <2>1. call'[c].phase = "idle"
    BY <1>1, <1>3 DEF GoOn, Idle
  <2>2. CallMoves(c)
    BY <1>3, <2>1 DEF CallMoves, Requesting
  <2>3. QED
    BY <1>1, <2>2
<1>4. QED
  BY <1>2, <1>3 DEF Shape, TurnTyped

(* With the lock held by nobody, or by a call that was refused, no token is  *)
(* on its way.                                                               *)
LEMMA NoneOnTheWay ==
  ASSUME Shape, NEW c \in Caller, locks, holder = None \/ call[c].phase = "refused"
  PROVE  \A d \in Caller : call[d].phase # "answered"
<1> SUFFICES ASSUME NEW d \in Caller, call[d].phase = "answered" PROVE FALSE
  OBVIOUS
<1>1. holder = d
  BY DEF Shape, OneTurn, Requesting
<1>2. call[c].phase = "refused" => holder = c
  BY DEF Shape, OneTurn, Requesting
<1>3. None \notin Caller
  OBVIOUS
<1>4. QED
  BY <1>1, <1>2, <1>3

LEMMA EnterKeepsTokens ==
  ASSUME Shape, TokenInv, NEW c \in Caller, Enter(c),
         \/ call[c].phase = "waiting" /\ locks /\ holder = None
         \/ call[c].phase = "reading" /\ ~locks,
         UNCHANGED <<serverVars, locks, leaving, boundVars, lost>>
  PROVE  TokenInv'
<1> USE DEF serverVars, boundVars, storedVars
<1>1. CASE /\ refresh # 0
           /\ call' = [call EXCEPT ![c] = Send(c)]
           /\ UNCHANGED storedVars
  BY <1>1, SendingMoves, OneCallMoves
<1>2. CASE /\ access # 0
           /\ call' = [call EXCEPT ![c] = GoOn(c, access)]
           /\ UNCHANGED storedVars
  <2>1. access \in {0} \cup Token
    BY DEF Shape, TokensTyped
  <2>2. QED
    BY <1>2, <2>1, ComingBackMoves, OneCallMoves
<1>3. CASE refresh = 0 /\ refresh' = 0 /\ call' = [call EXCEPT ![c] = GoOn(c, 0)]
  <2>1. locks => \A t \in live : session[t] \in lost
    <3> SUFFICES ASSUME locks, NEW t \in live, session[t] \notin lost PROVE FALSE
      OBVIOUS
    <3>1. t # 0
      BY DEF Shape, TokensTyped, Token
    <3>2. \A d \in Caller : call[d].phase # "answered"
      BY NoneOnTheWay
    <3>3. QED
      BY <1>3, <3>1, <3>2 DEF TokenInv, LivingSessionIsKept
  <2>2. CallMoves(c) /\ \A d \in Caller \ {c} : call'[d] = call[d]
    BY <1>3, <2>1, ComingBackMoves
  <2>3. QED
    BY <1>3, <2>2, OneCallMoves
<1>4. QED
  BY <1>1, <1>2, <1>3 DEF Enter, Rotated, ReturnStored, ReturnNothing

(* The server, when it does not exchange. *)
LEMMA LookupKeepsTokens ==
  ASSUME Shape, TokenInv, NEW c \in Caller,
         \/ GetActiveByTokenHash(c) \/ LookupFails(c)
         \/ RotateToken(c) /\ call[c].using \notin live
  PROVE  TokenInv'
<1> USE DEF serverVars, storedVars, turnVars, boundVars
<1>1. PICK p \in {"found", "refused"} : call' = [call EXCEPT ![c].phase = p]
  BY DEF GetActiveByTokenHash, LookupFails, RotateToken
<1>2. /\ call[c].phase \in {"sent", "found"}
      /\ call'[c].phase = p
      /\ call'[c].refresh = call[c].refresh /\ call'[c].using = call[c].using
      /\ call'[c].tried = call[c].tried
      /\ \A d \in Caller \ {c} : call'[d] = call[d]
  BY <1>1 DEF GetActiveByTokenHash, LookupFails, RotateToken, Shape, CallsTyped, CallRecord
<1>3. /\ UNCHANGED <<live, session, issued, locks, leaving, refresh, logins>>
      /\ lost \subseteq lost'
  BY DEF GetActiveByTokenHash, LookupFails, RotateToken
<1>4. p = "refused" => DeadThen(call[c].using)
  <2>1. CASE GetActiveByTokenHash(c)
    BY <2>1, <1>2 DEF GetActiveByTokenHash, DeadThen
  <2>2. CASE LookupFails(c)
    BY <2>2 DEF LookupFails, DeadThen
  <2>3. CASE RotateToken(c) /\ call[c].using \notin live
    BY <2>3 DEF RotateToken, DeadThen
  <2>4. QED
    BY <2>1, <2>2, <2>3
<1>5. \A t \in call[c].tried \ {call[c].using} : DeadThen(t)
  BY <1>2, <1>3 DEF TokenInv, TriedIsDead, Requesting, Dead, DeadThen
<1>6. CallMoves(c)
  BY <1>2, <1>4, <1>5 DEF CallMoves, Requesting
<1>7. QED
  BY <1>2, <1>3, <1>6, OneCallMoves

(* A refusal. *)
LEMMA RefusalKeepsTokens ==
  ASSUME Shape, TokenInv, NEW c \in Caller, ReceiveRefusal(c)
  PROVE  TokenInv'
<1> USE DEF ReceiveRefusal, serverVars, storedVars, boundVars
<1>1. CASE /\ refresh # 0
           /\ call' = [call EXCEPT ![c] = Send(c)]
           /\ UNCHANGED storedVars
  BY <1>1, SendingMoves, OneCallMoves
<1>2. CASE /\ access # 0
           /\ call' = [call EXCEPT ![c] = GoOn(c, access)]
           /\ UNCHANGED storedVars
  <2>1. access \in {0} \cup Token
    BY DEF Shape, TokensTyped
  <2>2. QED
    BY <1>2, <2>1, ComingBackMoves, OneCallMoves
<1>3. CASE /\ refresh = 0 \/ refresh \in call[c].tried
           /\ refresh' = 0 /\ call' = [call EXCEPT ![c] = GoOn(c, 0)]
  <2>1. \A t \in live : session[t] \notin lost => t # refresh
    <3> SUFFICES ASSUME refresh \in live, session[refresh] \notin lost PROVE FALSE
      OBVIOUS
    <3>1. refresh \in call[c].tried
      BY <1>3 DEF Shape, TokensTyped, Token
    <3>2. Dead(refresh)
      BY <3>1 DEF TokenInv, TriedIsDead, Requesting
    <3>3. QED
      BY <3>2 DEF Dead
  <2>2. locks => \A t \in live : session[t] \in lost
    <3> SUFFICES ASSUME locks, NEW t \in live, session[t] \notin lost PROVE FALSE
      OBVIOUS
    <3>1. \A d \in Caller : call[d].phase # "answered"
      BY NoneOnTheWay
    <3>2. QED
      BY <2>1, <3>1 DEF TokenInv, LivingSessionIsKept
  <2>3. CallMoves(c) /\ \A d \in Caller \ {c} : call'[d] = call[d]
    BY <1>3, <2>2, ComingBackMoves
  <2>4. QED
    BY <1>3, <2>1, <2>3, OneCallMoves
<1>4. QED
  BY <1>1, <1>2, <1>3 DEF Rotated, ReturnStored, ReturnNothing

(* A call that ends without a result: a token on its way is lost.            *)
LEMMA EndingKeepsTokens ==
  ASSUME Shape, TokenInv, NEW c \in Caller,
         GiveUp(c) \/ CloseTab(c) \/ GoOnWithTokens(c) \/ GoOnWithNothing(c)
  PROVE  TokenInv'
<1> USE DEF GiveUp, CloseTab, GoOnWithTokens, GoOnWithNothing, serverVars, storedVars,
            turnVars, boundVars
<1>1. call'[c] = Idle /\ \A d \in Caller \ {c} : call'[d] = call[d]
  BY DEF Shape, CallsTyped
<1>2. /\ UNCHANGED <<live, session, issued, locks, leaving, logins>>
      /\ lost \subseteq lost'
      /\ call[c].phase = "answered" => session[call[c].answer] \in lost'
      /\ refresh' # refresh => GoOnWithNothing(c) /\ refresh' = 0 /\ lost' = lost
  OBVIOUS
<1>3. CallMoves(c)
  BY <1>1, <1>2 DEF CallMoves, Idle, Requesting
<1>4. refresh' # refresh => \A t \in live' : session[t] \notin lost' => t # refresh
  <2> SUFFICES ASSUME GoOnWithNothing(c), refresh \in live, session[refresh] \notin lost
               PROVE  FALSE
    BY <1>2
  <2>1. locks /\ call[c].phase = "clearing"
    BY DEF Shape, OneTurn
  <2>2. session[refresh] # session[call[c].refresh]
    BY <2>1 DEF TokenInv, LivingSessionIsKept
  <2>3. session[refresh] = Current
    BY DEF TokenInv, LiveIsCurrent
  <2>4. session[call[c].refresh] = Current
    BY <2>1, <2>3 DEF TokenInv, HeldIsCurrent
  <2>5. QED
    BY <2>2, <2>3, <2>4
<1>5. QED
  BY <1>1, <1>2, <1>3, <1>4, OneCallMoves

(* Steps of others, when nothing is exchanged. *)
LEMMA OthersKeepTokens ==
  ASSUME Shape, TokenInv,
         \/ LeaseLapses \/ BeginLogout \/ FinishLogout
         \/ \E t \in Token : EndSession(t) \/ (LateRequest(t) /\ t \notin live)
  PROVE  TokenInv'
<1> USE DEF LeaseLapses, BeginLogout, FinishLogout, EndSession, LateRequest,
            serverVars, storedVars, turnVars, boundVars
<1>1. /\ call' = call /\ live' \subseteq live /\ lost \subseteq lost'
      /\ UNCHANGED <<session, issued, logins, locks>>
      /\ refresh' \in {refresh, 0} /\ leaving' \in {leaving, refresh, 0}
      /\ refresh' # refresh => FinishLogout
  OBVIOUS
<1>2. \A c \in Caller : CallMoves(c)
  BY <1>1, StayingMoves
<1>3. FinishLogout => \A t \in live' : session[t] \notin lost' => t # refresh
  <2> SUFFICES ASSUME FinishLogout, refresh \in live', session[refresh] \notin lost'
               PROVE  FALSE
    OBVIOUS
  <2>1. session[refresh] = Current /\ Current \notin lost
    BY <1>1 DEF TokenInv, LiveIsCurrent
  <2>2. session[leaving] = Current
    BY <2>1 DEF TokenInv, HeldIsCurrent
  <2>3. QED
    BY <2>1, <2>2
<1>4. QED
  BY <1>1, <1>2, <1>3, QuietKeepsTokens DEF Quiet

(* A token is exchanged: what its session has now is the new one.            *)
LEMMA ExchangeFacts ==
  ASSUME Shape, NEW t \in live, Exchange(t), issued + 1 \in Token
  PROVE  /\ issued \in Nat /\ t \in 1..issued
         /\ live' = (live \ {t}) \cup {issued + 1}
         /\ \A u \in 1..issued : session'[u] = session[u]
         /\ session'[issued + 1] = session[t]
         /\ \A u \in live : u \in 1..issued
<1>1. t \in 1..issued /\ issued \in Nat
  BY DEF Shape, KnownIsIssued, TokensTyped, Token
<1>2. QED
  BY <1>1, ExchangeIsTyped DEF Exchange, Shape, KnownIsIssued

LEMMA ExchangeKeepsOne ==
  ASSUME Shape, OneLiveToken, NEW t \in live, Exchange(t), issued + 1 \in Token
  PROVE  OneLiveToken'
<1>1. /\ issued \in Nat /\ t \in 1..issued
      /\ live' = (live \ {t}) \cup {issued + 1}
      /\ \A u \in 1..issued : session'[u] = session[u]
      /\ session'[issued + 1] = session[t]
      /\ \A u \in live : u \in 1..issued
  BY ExchangeFacts
<1> SUFFICES ASSUME NEW u \in live', NEW v \in live', session'[u] = session'[v]
             PROVE  u = v
  BY DEF OneLiveToken
<1>2. ASSUME NEW w \in live \ {t} PROVE session'[w] = session[w] /\ session[w] # session[t]
  BY <1>1 DEF OneLiveToken
<1>3. QED
  BY <1>1, <1>2 DEF OneLiveToken

LEMMA RotateKeepsTokens ==
  ASSUME Shape, TokenInv, NEW c \in Caller, RotateToken(c), call[c].using \in live
  PROVE  TokenInv'
<1> DEFINE old == call[c].using
           new == issued + 1
<1> USE DEF serverVars, storedVars, turnVars, boundVars
<1>1. Exchange(old)
  BY DEF RotateToken
<1>2. new \in Token
  BY NextTokenExists DEF Shape, Asking, RotateToken
<1>3. /\ issued \in Nat /\ old \in 1..issued
      /\ live' = (live \ {old}) \cup {new}
      /\ \A u \in 1..issued : session'[u] = session[u]
      /\ session'[new] = session[old]
      /\ \A u \in live : u \in 1..issued
  BY <1>1, <1>2, ExchangeFacts
<1>4. /\ call'[c].phase = "answered" /\ call'[c].answer = new
      /\ call'[c].using = old /\ call'[c].tried = call[c].tried
      /\ call'[c].refresh = call[c].refresh
      /\ \A d \in Caller \ {c} : call'[d] = call[d]
      /\ call[c].phase = "found"
  BY DEF RotateToken, Shape, CallsTyped, CallRecord
<1>5. UNCHANGED <<refresh, leaving, lost, logins, locks>>
  BY DEF RotateToken
<1>6. refresh \in 0..issued /\ leaving \in 0..issued
  BY DEF Shape, KnownIsIssued
<1>7. \A d \in Caller :
        /\ call[d].phase # "idle" => call[d].refresh \in 1..issued
        /\ call[d].phase \in Requesting =>
             call[d].using \in 1..issued /\ call[d].tried \subseteq 1..issued
        /\ call[d].phase = "answered" => call[d].answer \in 1..issued
  BY DEF Shape, CallIsShaped
<1> HIDE DEF old, new
<1>8. new \notin 1..issued /\ new # 0 /\ new \notin live
  BY <1>3 DEF new
<1> USE DEF TokenInv
<1>9. OneLiveToken'
  BY <1>1, <1>2, ExchangeKeepsOne DEF old, new, RotateToken
<1>10. LiveIsCurrent'
  BY <1>3, <1>5 DEF old, LiveIsCurrent, Current
<1>11. HeldIsCurrent'
  <2> SUFFICES ASSUME Current \notin lost
               PROVE  /\ refresh # 0 => session'[refresh] = Current
                      /\ leaving # 0 => session'[leaving] = Current
                      /\ \A d \in Caller :
                           /\ call'[d].phase # "idle" => session'[call'[d].refresh] = Current
                           /\ call'[d].phase \in Requesting => session'[call'[d].using] = Current
                           /\ call'[d].phase = "answered" => session'[call'[d].answer] = Current
    BY <1>5 DEF HeldIsCurrent, Current
  <2>1. session[old] = Current
    BY <1>4 DEF old, HeldIsCurrent, Requesting
  <2>2. (refresh # 0 => session'[refresh] = Current) /\ (leaving # 0 => session'[leaving] = Current)
    BY <1>3, <1>6 DEF HeldIsCurrent
  <2>3. session'[call'[c].refresh] = Current /\ session'[call'[c].using] = Current
        /\ session'[call'[c].answer] = Current
    BY <1>3, <1>4, <1>7, <2>1 DEF HeldIsCurrent
  <2>4. ASSUME NEW d \in Caller \ {c}
        PROVE  /\ call[d].phase # "idle" => session'[call[d].refresh] = Current
               /\ call[d].phase \in Requesting => session'[call[d].using] = Current
               /\ call[d].phase = "answered" => session'[call[d].answer] = Current
    BY <1>3, <1>7 DEF HeldIsCurrent
  <2>5. QED
    BY <1>4, <2>2, <2>3, <2>4
<1>12. \A t \in 1..issued : Dead(t) => t \notin live' \/ session'[t] \in lost
  BY <1>3, <1>5, <1>8 DEF Dead
<1>13. TriedIsDead'
  <2> SUFFICES ASSUME NEW d \in Caller
               PROVE  /\ call'[d].phase = "refused" =>
                           call'[d].using \notin live' \/ session'[call'[d].using] \in lost
                      /\ call'[d].phase \in Requesting =>
                           \A t \in call'[d].tried \ {call'[d].using} :
                             t \notin live' \/ session'[t] \in lost
    BY <1>5 DEF TriedIsDead, Dead
  <2>1. CASE d = c
    BY <1>4, <1>7, <1>12, <2>1 DEF TriedIsDead, old, Requesting
  <2>2. CASE d # c
    BY <1>4, <1>7, <1>12, <2>2 DEF TriedIsDead, Requesting
  <2>3. QED
    BY <2>1, <2>2
<1>14. AnswerIsNew'
  <2> SUFFICES ASSUME NEW d \in Caller, call'[d].phase = "answered"
               PROVE  /\ call'[d].answer # refresh
                      /\ \A e \in Caller :
                           /\ call'[e].phase \in Requesting => call'[e].using # call'[d].answer
                           /\ e # d /\ call'[e].phase = "answered" =>
                                call'[e].answer # call'[d].answer
    BY <1>5 DEF AnswerIsNew
  <2>1. \A e \in Caller : call'[e].phase \in Requesting =>
          call[e].phase \in Requesting /\ call'[e].using = call[e].using
    BY <1>4 DEF old, Requesting
  <2>2. CASE d = c
    BY <1>4, <1>6, <1>7, <1>8, <2>1, <2>2
  <2>3. CASE d # c
    <3>1. call[d].phase = "answered" /\ call'[d].answer = call[d].answer
      BY <1>4, <2>3
    <3>2. call[d].answer # new
      BY <1>7, <1>8, <3>1
    <3>3. ASSUME NEW e \in Caller, e # d, call'[e].phase = "answered"
          PROVE  call'[e].answer # call[d].answer
      BY <1>4, <3>1, <3>2, <3>3 DEF AnswerIsNew
    <3>4. QED
      BY <2>1, <3>1, <3>3 DEF AnswerIsNew
  <2>4. QED
    BY <2>2, <2>3
<1>15. AnswerIsLast'
  <2> SUFFICES ASSUME NEW d \in Caller, call'[d].phase = "answered", NEW u \in live',
                      session'[u] = session'[call'[d].answer], session'[u] \notin lost
               PROVE  u = call'[d].answer
    BY <1>5 DEF AnswerIsLast
  <2>1. CASE d = c
    BY <1>3, <1>4, <2>1 DEF OneLiveToken, old
  <2>2. CASE d # c
    <3>1. call[d].phase = "answered" /\ call[d].answer = call'[d].answer
          /\ session'[call[d].answer] = session[call[d].answer]
      BY <1>3, <1>4, <1>7, <2>2
    <3>2. old # call[d].answer
      BY <1>4, <3>1 DEF AnswerIsNew, Requesting, old
    <3>3. u # new
      BY <1>3, <3>1, <3>2 DEF AnswerIsLast, old
    <3>4. u \in live /\ session'[u] = session[u]
      BY <1>3, <3>3
    <3>5. QED
      BY <3>1, <3>4 DEF AnswerIsLast
  <2>3. QED
    BY <2>1, <2>2
<1>16. LivingSessionIsKept'
  <2> SUFFICES ASSUME NEW t \in live', session'[t] \notin lost
               PROVE  /\ \/ refresh = t
                         \/ \E d \in Caller : call'[d].phase = "answered" /\ call'[d].answer = t
                      /\ locks => \A d \in Caller :
                           call'[d].phase = "clearing" => session'[t] # session'[call'[d].refresh]
    BY <1>5 DEF LivingSessionIsKept
  <2>1. PICK u \in live : session[u] = session'[t] /\ (t # new => u = t)
    BY <1>3 DEF old, RotateToken
  <2>2. \/ refresh = t
        \/ \E d \in Caller : call'[d].phase = "answered" /\ call'[d].answer = t
    <3>1. CASE t = new
      BY <1>4, <3>1
    <3>2. CASE t # new
      BY <1>4, <2>1, <3>2 DEF LivingSessionIsKept
    <3>3. QED
      BY <3>1, <3>2
  <2>3. ASSUME locks, NEW d \in Caller, call'[d].phase = "clearing"
        PROVE  session'[t] # session'[call'[d].refresh]
    BY <1>3, <1>4, <1>7, <2>1, <2>3 DEF LivingSessionIsKept
  <2>4. QED
    BY <2>2, <2>3
<1>17. QED
  BY <1>9, <1>10, <1>11, <1>13, <1>14, <1>15, <1>16

(* A request nobody waits for: its session is given up.                      *)
LEMMA LateKeepsTokens ==
  ASSUME Shape, TokenInv, NEW t \in Token, LateRequest(t), t \in live
  PROVE  TokenInv'
<1> DEFINE new == issued + 1
<1> USE DEF TokenInv, storedVars, turnVars, boundVars
<1>1. Exchange(t) /\ lost' = lost \cup {session[t]}
  BY DEF LateRequest
<1>2. new \in Token
  BY NextTokenExists DEF Shape, LateRequest
<1>3. /\ issued \in Nat /\ t \in 1..issued
      /\ live' = (live \ {t}) \cup {new}
      /\ \A u \in 1..issued : session'[u] = session[u]
      /\ session'[new] = session[t]
      /\ \A u \in live : u \in 1..issued
  BY <1>1, <1>2, ExchangeFacts
<1>4. UNCHANGED <<call, refresh, leaving, logins, locks>>
  BY DEF LateRequest
<1>5. refresh \in 0..issued /\ leaving \in 0..issued
  BY DEF Shape, KnownIsIssued
<1>6. \A d \in Caller :
        /\ call[d].phase # "idle" => call[d].refresh \in 1..issued
        /\ call[d].phase \in Requesting =>
             call[d].using \in 1..issued /\ call[d].tried \subseteq 1..issued
        /\ call[d].phase = "answered" => call[d].answer \in 1..issued
  BY DEF Shape, CallIsShaped
<1> HIDE DEF new
<1>7. new \notin 1..issued
  BY <1>3 DEF new
<1>8. \A u \in live' : session'[u] \notin lost' =>
        u \in live /\ u # t /\ session'[u] = session[u] /\ session[u] \notin lost
  BY <1>1, <1>3
<1>9. OneLiveToken'
  BY <1>1, <1>2, ExchangeKeepsOne DEF new
<1>10. LiveIsCurrent'
  BY <1>4, <1>8 DEF LiveIsCurrent, Current
<1>11. HeldIsCurrent'
  BY <1>1, <1>3, <1>4, <1>5, <1>6 DEF HeldIsCurrent, Current, Requesting
<1>12. TriedIsDead'
  <2>1. \A u \in 1..issued : Dead(u) => u \notin live' \/ session'[u] \in lost'
    BY <1>1, <1>3, <1>7 DEF Dead
  <2>2. QED
    BY <1>4, <1>6, <2>1 DEF TriedIsDead, Dead, Requesting
<1>13. AnswerIsNew'
  BY <1>4 DEF AnswerIsNew
<1>14. AnswerIsLast'
  BY <1>3, <1>4, <1>6, <1>8 DEF AnswerIsLast
<1>15. LivingSessionIsKept'
  BY <1>3, <1>4, <1>6, <1>8 DEF LivingSessionIsKept
<1>16. QED
  BY <1>9, <1>10, <1>11, <1>12, <1>13, <1>14, <1>15

(* The new token is stored: nothing else lives in its session.               *)
LEMMA ReceiveKeepsTokens ==
  ASSUME Shape, TokenInv, NEW c \in Caller, ReceiveTokens(c)
  PROVE  TokenInv'
<1> DEFINE new == call[c].answer
<1> USE DEF TokenInv, serverVars, boundVars
<1>1. /\ call[c].phase = "answered" /\ refresh' = new
      /\ UNCHANGED <<live, session, issued, lost, logins, locks, leaving>>
  BY DEF ReceiveTokens
<1>2. call'[c] = GoOn(c, new) /\ \A d \in Caller \ {c} : call'[d] = call[d]
  BY DEF ReceiveTokens, Shape, CallsTyped
<1>3. new \in 1..issued /\ issued \in Nat
  BY <1>1 DEF Shape, CallIsShaped, TokensTyped, Token
<1> HIDE DEF new
<1>4. /\ call'[c].phase \in {"idle", "returning"}
      /\ call'[c].phase = "returning" => call'[c].refresh = call[c].refresh
  <2>1. CASE locks
    <3>1. GoOn(c, new) = [Idle EXCEPT !.phase = IF new = 0 THEN "clearing" ELSE "returning",
                                      !.refresh = call[c].refresh, !.answer = new]
      BY <2>1 DEF GoOn
    <3>2. new # 0
      BY <1>3
    <3>3. QED
      BY <1>2, <3>1, <3>2 DEF Idle
  <2>2. CASE ~locks
    BY <1>2, <2>2 DEF GoOn, Idle
  <2>3. QED
    BY <2>1, <2>2 DEF Shape, TurnTyped
<1>5. OneLiveToken' /\ LiveIsCurrent'
  BY <1>1 DEF OneLiveToken, LiveIsCurrent, Current
<1>6. HeldIsCurrent'
  BY <1>1, <1>2, <1>4 DEF HeldIsCurrent, Current, Requesting, new
<1>7. TriedIsDead'
  BY <1>1, <1>2, <1>4 DEF TriedIsDead, Dead, Requesting
<1>8. AnswerIsNew'
  BY <1>1, <1>2, <1>4 DEF AnswerIsNew, Requesting, new
<1>9. AnswerIsLast'
  BY <1>1, <1>2, <1>4 DEF AnswerIsLast
<1>10. LivingSessionIsKept'
  <2> SUFFICES ASSUME NEW t \in live, session[t] \notin lost
               PROVE  /\ refresh' = t
                      /\ locks => \A d \in Caller :
                           call'[d].phase = "clearing" => session[t] # session[call'[d].refresh]
    BY <1>1 DEF LivingSessionIsKept
  <2>1. session[t] = Current /\ Current \notin lost
    BY DEF LiveIsCurrent
  <2>2. session[new] = Current
    BY <1>1, <2>1 DEF HeldIsCurrent, new
  <2>3. t = new
    BY <1>1, <2>1, <2>2 DEF AnswerIsLast, new
  <2>4. \A d \in Caller : call'[d].phase = "clearing" =>
          call[d].phase = "clearing" /\ call'[d].refresh = call[d].refresh
    BY <1>2, <1>4
  <2>5. QED
    BY <1>1, <2>3, <2>4 DEF LivingSessionIsKept
<1>11. QED
  BY <1>5, <1>6, <1>7, <1>8, <1>9, <1>10

(* A login: what was alive before is given up, or nothing was.               *)
LEMMA LoginKeepsTokens ==
  ASSUME Shape, TokenInv, Login
  PROVE  TokenInv'
<1> DEFINE new == issued + 1
<1> USE DEF TokenInv, turnVars
<1>1. /\ issued \in Nat /\ logins \in Nat /\ new \in Token
      /\ \A u \in live : u \in 1..issued
  BY LoginTokenExists DEF Login, Shape, TokensTyped, BoundsTyped, KnownIsIssued, Token
<1>2. /\ live' = live \cup {new} /\ logins' = logins + 1
      /\ session'[new] = 2 + logins
      /\ \A u \in 1..issued : session'[u] = session[u] /\ session[u] # 2 + logins
      /\ refresh' = new /\ refresh = 0
      /\ UNCHANGED <<call, leaving, locks>>
  BY <1>1 DEF Login, Shape, TokensTyped, KnownIsIssued, Token
<1>3. \A d \in Caller :
        /\ call[d].phase # "idle" => call[d].refresh \in 1..issued
        /\ call[d].phase \in Requesting =>
             call[d].using \in 1..issued /\ call[d].tried \subseteq 1..issued
        /\ call[d].phase = "answered" => call[d].answer \in 1..issued
  BY DEF Shape, CallIsShaped
<1>4. Current' = 2 + logins
  BY <1>1, <1>2 DEF Current
<1> HIDE DEF new
<1>5. new \notin 1..issued /\ new # 0
  BY <1>1 DEF new
<1>6. \A u \in live : session[u] \in lost'
  <2>1. CASE Underway = {} /\ leaving = 0
    <3> SUFFICES ASSUME NEW u \in live, session[u] \notin lost PROVE FALSE
      BY <2>1 DEF Login
    <3>1. u # 0
      BY <1>1
    <3>2. \A d \in Caller : call[d].phase # "answered"
      BY <2>1 DEF Underway
    <3>3. QED
      BY <1>2, <3>1, <3>2 DEF LivingSessionIsKept
  <2>2. CASE ~(Underway = {} /\ leaving = 0)
    BY <2>2 DEF Login
  <2>3. QED
    BY <2>1, <2>2
<1>7. \A u \in live' : session'[u] \notin lost' =>
        u = new /\ Underway = {} /\ leaving = 0
  <2>1. session'[new] \notin lost' => Underway = {} /\ leaving = 0
    BY <1>2 DEF Login
  <2>2. \A u \in live : session'[u] \in lost'
    BY <1>1, <1>2, <1>6
  <2>3. QED
    BY <1>2, <2>1, <2>2
<1>8. \A d \in Caller : call[d].phase # "idle" => Underway # {}
  BY DEF Underway
<1>9. OneLiveToken'
  BY <1>1, <1>2 DEF OneLiveToken
<1>10. LiveIsCurrent'
  BY <1>2, <1>4, <1>7 DEF LiveIsCurrent
<1>11. HeldIsCurrent'
  <2> SUFFICES ASSUME 2 + logins \notin lost'
               PROVE  /\ refresh' # 0 => session'[refresh'] = 2 + logins
                      /\ leaving = 0
                      /\ \A d \in Caller : call[d].phase = "idle"
    BY <1>2, <1>4 DEF HeldIsCurrent, Requesting
  <2>1. Underway = {} /\ leaving = 0
    BY DEF Login
  <2>2. QED
    BY <1>2, <2>1, <1>8
<1>12. TriedIsDead'
  <2>1. \A u \in 1..issued : Dead(u) => u \notin live' \/ session'[u] \in lost'
    BY <1>1, <1>2, <1>5, <1>6 DEF Dead
  <2>2. QED
    BY <1>2, <1>3, <2>1 DEF TriedIsDead, Dead, Requesting
<1>13. AnswerIsNew'
  BY <1>2, <1>3, <1>5 DEF AnswerIsNew
<1>14. AnswerIsLast'
  BY <1>2, <1>3, <1>7, <1>8 DEF AnswerIsLast
<1>15. LivingSessionIsKept'
  BY <1>2, <1>7, <1>8 DEF LivingSessionIsKept
<1>16. QED
  BY <1>9, <1>10, <1>11, <1>12, <1>13, <1>14, <1>15

LEMMA InitKeepsTokens == Init => TokenInv
<1> SUFFICES ASSUME Init PROVE TokenInv
  OBVIOUS
<1>1. /\ live = {1} /\ refresh = 1 /\ leaving = 0 /\ logins = 0
      /\ \A c \in Caller : call[c].phase = "idle"
  BY DEF Init, Idle
<1>2. session[1] = 1
  BY DEF Init, Token
<1>3. Current = 1
  BY <1>1 DEF Current
<1>4. QED
  BY <1>1, <1>2, <1>3
     DEF TokenInv, OneLiveToken, LiveIsCurrent, HeldIsCurrent, TriedIsDead, AnswerIsNew,
         AnswerIsLast, LivingSessionIsKept, Requesting

LEMMA NextKeepsTokens ==
  ASSUME Shape, TokenInv, [Next]_vars
  PROVE  TokenInv'
<1>1. CASE UNCHANGED vars
  <2>1. Quiet
    <3>1. /\ UNCHANGED <<live, lost, session, issued, logins, locks, refresh, leaving>>
          /\ \A c \in Caller : call'[c] = call[c]
      BY <1>1 DEF vars, serverVars, storedVars, turnVars, boundVars
    <3>2. QED
      BY <3>1, StayingMoves DEF Quiet
  <2>2. QED
    BY <2>1, QuietKeepsTokens
<1>2. CASE Next
  <2>1. ASSUME NEW c \in Caller, Turn(c) \/ RenewLease(c)
        PROVE  TokenInv'
    <3>1. CASE GrantLock(c)
      BY <3>1, EnterKeepsTokens DEF GrantLock
    <3>2. CASE ReadLeaseBack(c) /\ lease.owner = c
      BY <3>2, EnterKeepsTokens DEF ReadLeaseBack, Shape, OneTurn
    <3>3. QED
      BY <2>1, <3>1, <3>2, LeaseKeepsTokens DEF Turn
  <2>2. ASSUME NEW c \in Caller, Server(c) \/ LookupFails(c)
        PROVE  TokenInv'
    BY <2>2, LookupKeepsTokens, RotateKeepsTokens DEF Server
  <2>3. ASSUME NEW c \in Caller, Answer(c) \/ GiveUp(c) \/ CloseTab(c)
        PROVE  TokenInv'
    BY <2>3, ReceiveKeepsTokens, RefusalKeepsTokens, EndingKeepsTokens DEF Answer
  <2>4. QED
    BY <1>2, <2>1, <2>2, <2>3, StartKeepsTokens, OthersKeepTokens, LateKeepsTokens,
       LoginKeepsTokens DEF Next
<1>3. QED
  BY <1>1, <1>2

(* The token of a session that has not ended stays within reach of the tabs, *)
(* and with locks no call comes back empty-handed while its session lives:   *)
(* for any number of calls of refreshSharedSessionTokens at once, with locks *)
(* or with the lease, under requests given up, late exchanges, tabs closed,   *)
(* sessions ended, logouts and logins.                                       *)
THEOREM LivingSessionsKept == Spec => []LivingSessionIsKept
<1>1. Init => Shape /\ TokenInv
  BY InitIsShaped, InitKeepsTokens
<1>2. Shape /\ TokenInv /\ [Next]_vars => (Shape /\ TokenInv)'
  BY NextKeepsShape, NextKeepsTokens
<1>3. TokenInv => LivingSessionIsKept
  BY DEF TokenInv
<1>4. QED
  BY <1>1, <1>2, <1>3, PTL DEF Spec

=============================================================================
