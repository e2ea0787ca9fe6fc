----------------------------- MODULE CallsProofs -----------------------------
(***************************************************************************)
(* The call service for every set of users, conversations and calls: the   *)
(* types, the participants of live calls, the invites, the queues and the  *)
(* announced numbers of calls.                                             *)
(***************************************************************************)
EXTENDS Calls, FiniteSetTheorems, SequenceTheorems, TLAPS

USE CallsAssumption DEF CallsAssumption

LEMMA CountIsNat ==
  ASSUME NEW S \in SUBSET Call
  PROVE  IsFiniteSet(S) /\ Cardinality(S) \in Nat
  BY FS_Subset, FS_CardinalityType

(* The steps of a transaction, or of a reader, that change no call. *)
Counting(c) ==
  \/ Begin(c) \/ Recount(c) \/ Rollback(c)
  \/ RoomFinishedRead(c) \/ RoomFinishedQuits(c)
  \/ \E u \in User : LockOthers(c, u)

LEMMA CountingChangesNoCall ==
  ASSUME NEW c \in Call, Counting(c)
  PROVE  UNCHANGED <<status, seat, hand, nextHand, invited, ringing, told, listed, shown, raced>>
  BY DEF Counting, Begin, Recount, Rollback, RoomFinishedRead, RoomFinishedQuits, LockOthers

LEMMA ElsewhereIsCount ==
  ASSUME NEW c \in Call
  PROVE  Elsewhere(c) \in [User -> Nat]
<1>1. ASSUME NEW u \in User
      PROVE  Cardinality({d \in ActiveIn(u) : d # c /\ <<c, u, d>> \notin leaving}) \in Nat
  <2>1. {d \in ActiveIn(u) : d # c /\ <<c, u, d>> \notin leaving} \in SUBSET Call
    BY DEF ActiveIn
  <2>2. QED
    BY <2>1, CountIsNat
<1>2. QED
  BY <1>1 DEF Elsewhere

LEMMA ActiveCountIsNat ==
  ASSUME NEW u \in User
  PROVE  ActiveCount(u) \in Nat
<1>1. ActiveIn(u) \in SUBSET Call
  BY DEF ActiveIn
<1>2. QED
  BY <1>1, CountIsNat DEF ActiveCount

(* The types of the tables and of the transactions, taken apart. *)
TableTypes ==
  /\ status \in [Call -> {"none", "active", "ended"}]
  /\ seat \in [Call -> [User -> {"none", "in", "left"}]]
  /\ hand \in [Call -> [User -> Nat]] /\ nextHand \in [Call -> Nat]
  /\ \A c \in Call, u \in User : hand[c][u] <= nextHand[c] /\ nextHand[c] <= MaxRaise[c]
  /\ invited \subseteq Call \X User
  /\ ringing \subseteq User \X Conversation
  /\ told \in [User -> Nat]
  /\ listed \subseteq Call
  /\ shown \in [Call -> [User -> Nat]]
  /\ raced \subseteq User

LockTypes ==
  /\ counts \in [Call -> Seq([User -> Nat])] /\ \A c \in Call : Len(counts[c]) <= 2
  /\ leaving \subseteq Call \X User \X Call /\ \A l \in leaving : l[1] # l[3]
  /\ overlaps \in 0..MaxOverlaps

ReadTypes ==
  /\ finishing = [c \in Call |-> finishing[c]]
  /\ \A c \in Call : /\ DOMAIN finishing[c] \subseteq User
                    /\ finishing[c] \in [DOMAIN finishing[c] -> Nat]

LEMMA TypesSplit == TypeOK <=> TableTypes /\ LockTypes /\ ReadTypes
  BY DEF TypeOK, TableTypes, LockTypes, ReadTypes

LEMMA TypesJoin == TableTypes' /\ LockTypes' /\ ReadTypes' => TypeOK'
  BY DEF TypeOK, TableTypes, LockTypes, ReadTypes

LEMMA InitHasTypes == Init => TypeOK
<1> SUFFICES ASSUME Init PROVE TypeOK
  OBVIOUS
<1>1. TableTypes
  BY DEF Init, TableTypes, Nobody
<1>2. LockTypes
  BY DEF Init, LockTypes
<1>3. NotFinishing \in [{} -> Nat]
  BY DEF NotFinishing
<1>4. ReadTypes
  BY <1>3 DEF Init, ReadTypes
<1>5. QED
  BY <1>1, <1>2, <1>4, TypesSplit

LEMMA OverlapTypes ==
  ASSUME LockTypes, NEW another \in BOOLEAN, Overlap(another)
  PROVE  overlaps' \in 0..MaxOverlaps
  BY DEF LockTypes, Overlap

LEMMA UnlockTypes ==
  ASSUME LockTypes, NEW c \in Call, Unlock(c), overlaps' = overlaps
  PROVE  LockTypes'
  BY DEF LockTypes, Unlock

LEMMA CountingKeepsTypes ==
  ASSUME TypeOK, NEW c \in Call, Counting(c)
  PROVE  TypeOK'
<1>1. TableTypes /\ LockTypes /\ ReadTypes
  BY TypesSplit
<1>2. TableTypes'
  BY <1>1, CountingChangesNoCall DEF TableTypes
<1>3. CASE Begin(c)
  <2>1. <<Elsewhere(c)>> \in Seq([User -> Nat]) /\ Len(<<Elsewhere(c)>>) = 1
    BY ElsewhereIsCount
  <2>2. counts' = [counts EXCEPT ![c] = <<Elsewhere(c)>>] /\ UNCHANGED <<leaving, finishing>>
    BY <1>3 DEF Begin
  <2>3. overlaps' \in 0..MaxOverlaps
    BY <1>1, <1>3, OverlapTypes DEF Begin
  <2>4. LockTypes' /\ ReadTypes'
    BY <1>1, <2>1, <2>2, <2>3 DEF LockTypes, ReadTypes
  <2>5. QED
    BY <1>2, <2>4, TypesJoin
<1>4. CASE Recount(c)
  <2>1. counts[c] \in Seq([User -> Nat]) /\ Len(counts[c]) = 1
    BY <1>1, <1>4 DEF LockTypes, Recount
  <2>2. Append(counts[c], Elsewhere(c)) \in Seq([User -> Nat])
        /\ Len(Append(counts[c], Elsewhere(c))) = 2
    <3>1. Elsewhere(c) \in [User -> Nat]
      BY ElsewhereIsCount
    <3>2. /\ Append(counts[c], Elsewhere(c)) \in Seq([User -> Nat])
          /\ Len(Append(counts[c], Elsewhere(c))) = Len(counts[c]) + 1
      <4> DEFINE Value == [User -> Nat]
      <4>1. counts[c] \in Seq(Value) /\ Elsewhere(c) \in Value
        BY <2>1, <3>1
      <4> HIDE DEF Value
      <4>2. Append(counts[c], Elsewhere(c)) \in Seq(Value)
            /\ Len(Append(counts[c], Elsewhere(c))) = Len(counts[c]) + 1
        BY <4>1, AppendProperties
      <4>3. QED
        BY <4>2 DEF Value
    <3>3. QED
      BY <2>1, <3>2
  <2>3. counts' = [counts EXCEPT ![c] = Append(@, Elsewhere(c))]
        /\ UNCHANGED <<leaving, overlaps, finishing>>
    BY <1>4 DEF Recount
  <2>4. LockTypes' /\ ReadTypes'
    BY <1>1, <2>2, <2>3 DEF LockTypes, ReadTypes
  <2>5. QED
    BY <1>2, <2>4, TypesJoin
<1>5. CASE Rollback(c)
  <2>1. LockTypes' /\ ReadTypes'
    BY <1>1, <1>5, UnlockTypes DEF Rollback, ReadTypes
  <2>2. QED
    BY <1>2, <2>1, TypesJoin
<1>6. CASE RoomFinishedRead(c)
  <2> DEFINE read == [u \in InCall(c) |-> ActiveCount(u)]
  <2>1. InCall(c) \in SUBSET User
    BY DEF InCall
  <2>2. read \in [InCall(c) -> Nat]
    BY <2>1, ActiveCountIsNat
  <2>3. DOMAIN read \subseteq User /\ read \in [DOMAIN read -> Nat]
    BY <2>1, <2>2
  <2>4. finishing' = [finishing EXCEPT ![c] = read] /\ UNCHANGED <<counts, leaving>>
    BY <1>6 DEF RoomFinishedRead, openVars
  <2> HIDE DEF read
  <2>5. ReadTypes'
    BY <1>1, <2>3, <2>4 DEF ReadTypes
  <2>6. overlaps' \in 0..MaxOverlaps
    BY <1>1, <1>6, OverlapTypes DEF RoomFinishedRead
  <2>7. LockTypes'
    BY <1>1, <2>4, <2>6 DEF LockTypes
  <2>8. QED
    BY <1>2, <2>5, <2>7, TypesJoin
<1>7. CASE RoomFinishedQuits(c)
  <2>1. NotFinishing \in [{} -> Nat]
    BY DEF NotFinishing
  <2>2. ReadTypes' /\ LockTypes'
    BY <1>1, <1>7, <2>1 DEF RoomFinishedQuits, ReadTypes, LockTypes, openVars
  <2>3. QED
    BY <1>2, <2>2, TypesJoin
<1>8. ASSUME NEW u \in User, LockOthers(c, u) PROVE TypeOK'
  <2>1. LockTypes' /\ ReadTypes'
    BY <1>1, <1>8 DEF LockOthers, LockTypes, ReadTypes, ActiveIn
  <2>2. QED
    BY <1>2, <2>1, TypesJoin
<1>9. QED
  BY <1>3, <1>4, <1>5, <1>6, <1>7, <1>8 DEF Counting

(* What upsertParticipantTx and the announcements do to the types. *)
LEMMA SeatTypes ==
  ASSUME TableTypes, NEW c \in Call, NEW u \in User, Seat(c, u), nextHand' = nextHand
  PROVE  /\ seat' \in [Call -> [User -> {"none", "in", "left"}]]
         /\ hand' \in [Call -> [User -> Nat]]
         /\ \A d \in Call, w \in User : hand'[d][w] <= nextHand'[d] /\ nextHand'[d] <= MaxRaise[d]
  BY DEF TableTypes, Seat, InCall

LEMMA PresenceTypes ==
  ASSUME TableTypes, LockTypes, NEW c \in Call, Len(counts[c]) = 2,
         NEW before, NEW overlooked, DOMAIN before \subseteq User,
         AnnouncePresence(c, before, overlooked)
  PROVE  told' \in [User -> Nat] /\ raced' \subseteq User
<1>1. counts[c] \in Seq([User -> Nat]) /\ 2 \in DOMAIN counts[c]
  BY DEF LockTypes
<1>2. counts[c][2] \in [User -> Nat]
  BY <1>1
<1>3. ASSUME NEW u \in User PROVE After(c, u) \in Nat
  <2>1. counts[c][2][u] \in Nat /\ Here(c, u)' \in Nat
    BY <1>2 DEF Here
  <2>2. QED
    BY <2>1 DEF After
<1>4. QED
  BY <1>3 DEF TableTypes, AnnouncePresence

LEMMA ShownTypes ==
  ASSUME TableTypes, NEW calls \in SUBSET Call, ShowHands(calls),
         hand' \in [Call -> [User -> Nat]]
  PROVE  shown' \in [Call -> [User -> Nat]]
  BY DEF TableTypes, ShowHands, RaisedHands

LEMMA CloseTypes ==
  ASSUME TableTypes, NEW invites, Close(invites)
  PROVE  invited' \subseteq Call \X User /\ ringing' \subseteq User \X Conversation
  BY DEF TableTypes, Close

LEMMA InviteTypes ==
  ASSUME TableTypes, NEW c \in Call, NEW users \in SUBSET User, Invite(c, users)
  PROVE  invited' \subseteq Call \X User /\ ringing' \subseteq User \X Conversation
  BY DEF TableTypes, Invite

LEMMA CountedBeforeAreUsers ==
  ASSUME NEW c \in Call, NEW users \in SUBSET User
  PROVE  DOMAIN Before(c, users) = users /\ users \subseteq User
  BY DEF Before

LEMMA EndingKeepsTypes ==
  ASSUME TypeOK, NEW c \in Call, RoomFinishedEnd(c)
  PROVE  TypeOK'
<1>1. TableTypes /\ LockTypes /\ ReadTypes
  BY TypesSplit
<1>2. DOMAIN finishing[c] \subseteq User
  BY <1>1 DEF ReadTypes
<1>3. told' \in [User -> Nat] /\ raced' \subseteq User
  BY <1>1, <1>2, PresenceTypes DEF RoomFinishedEnd, Commits
<1>4. invited' \subseteq Call \X User /\ ringing' \subseteq User \X Conversation
  BY <1>1, CloseTypes DEF RoomFinishedEnd
<1>5. status' \in [Call -> {"none", "active", "ended"}] /\ listed' \subseteq Call
  BY <1>1 DEF RoomFinishedEnd, TableTypes
<1>6. UNCHANGED <<seat, hand, nextHand, shown>>
  BY DEF RoomFinishedEnd
<1>7. TableTypes'
  BY <1>1, <1>3, <1>4, <1>5, <1>6 DEF TableTypes
<1>8. LockTypes'
  BY <1>1, UnlockTypes DEF RoomFinishedEnd, Commits
<1>9. ReadTypes'
  <2>1. NotFinishing \in [{} -> Nat]
    BY DEF NotFinishing
  <2>2. QED
    BY <1>1, <2>1 DEF RoomFinishedEnd, ReadTypes
<1>10. QED
  BY <1>7, <1>8, <1>9, TypesJoin

LEMMA StepHasTypes ==
  ASSUME TypeOK, Next
  PROVE  TypeOK'
<1> PICK c \in Call :
      \/ Counting(c)
      \/ RoomFinishedEnd(c)
      \/ \E u \in User : UserStep(c, u) /\ ~LockOthers(c, u)
  BY DEF Next, Counting
<1>1. TableTypes /\ LockTypes /\ ReadTypes
  BY TypesSplit
<1>2. ASSUME Commits(c), UNCHANGED <<overlaps, finishing>> PROVE LockTypes' /\ ReadTypes'
  BY <1>1, <1>2, UnlockTypes DEF Commits, ReadTypes
<1>3. ASSUME UNCHANGED <<openVars, overlaps, finishing>> PROVE LockTypes' /\ ReadTypes'
  BY <1>1, <1>3 DEF LockTypes, ReadTypes, openVars
<1>4. ASSUME NEW u \in User, NEW invitees \in SUBSET User, CreateCall(c, u, invitees)
      PROVE  TypeOK'
  <2>1. told' \in [User -> Nat] /\ raced' \subseteq User
    BY <1>1, <1>4, CountedBeforeAreUsers, PresenceTypes DEF CreateCall, Commits
  <2>2. invited' \subseteq Call \X User /\ ringing' \subseteq User \X Conversation
    BY <1>1, <1>4, InviteTypes DEF CreateCall
  <2>3. TableTypes'
    BY <1>1, <1>4, <2>1, <2>2, SeatTypes DEF CreateCall, TableTypes
  <2>4. QED
    BY <1>2, <1>4, <2>3, TypesJoin DEF CreateCall
<1>5. ASSUME NEW u \in User, NEW invitees \in SUBSET User, InviteCallMembers(c, u, invitees)
      PROVE  TypeOK'
  <2>1. TableTypes'
    BY <1>1, <1>5, InviteTypes DEF InviteCallMembers, TableTypes
  <2>2. QED
    BY <1>3, <1>5, <2>1, TypesJoin DEF InviteCallMembers
<1>6. ASSUME NEW u \in User, JoinCallToken(c, u) \/ ParticipantJoined(c, u)
      PROVE  TypeOK'
  <2>1. /\ Commits(c) /\ Seat(c, u) /\ AnnouncePresence(c, Before(c, {u}), {})
        /\ UNCHANGED <<status, nextHand, invited, ringing, finishing, listed, shown, overlaps>>
    BY <1>6 DEF JoinCallToken, ParticipantJoined
  <2>2. told' \in [User -> Nat] /\ raced' \subseteq User
    BY <1>1, <2>1, CountedBeforeAreUsers, PresenceTypes DEF Commits
  <2>3. TableTypes'
    BY <1>1, <2>1, <2>2, SeatTypes DEF TableTypes
  <2>4. QED
    BY <1>2, <2>1, <2>3, TypesJoin
<1>7. ASSUME NEW u \in User, RaiseHand(c, u) \/ LowerHand(c, u)
      PROVE  TypeOK'
  <2>1. /\ hand' \in [Call -> [User -> Nat]] /\ nextHand' \in [Call -> Nat]
        /\ \A d \in Call, w \in User : hand'[d][w] <= nextHand'[d] /\ nextHand'[d] <= MaxRaise[d]
    <3>1. CASE RaiseHand(c, u)
      <4>1. /\ hand' = [hand EXCEPT ![c][u] = nextHand[c] + 1]
            /\ nextHand' = [nextHand EXCEPT ![c] = @ + 1]
            /\ nextHand[c] < MaxRaise[c]
        BY <3>1 DEF RaiseHand
      <4>2. QED
        BY <1>1, <4>1 DEF TableTypes
    <3>2. CASE LowerHand(c, u)
      BY <1>1, <3>2 DEF LowerHand, TableTypes
    <3>3. QED
      BY <1>7, <3>1, <3>2
  <2>2. /\ ShowHands({c}) /\ listed' = listed \cup {c}
        /\ UNCHANGED <<status, seat, invited, ringing, told, raced>>
        /\ UNCHANGED <<openVars, overlaps, finishing>>
    BY <1>7 DEF RaiseHand, LowerHand
  <2>3. shown' \in [Call -> [User -> Nat]]
    BY <1>1, <2>1, <2>2, ShownTypes
  <2>4. TableTypes'
    BY <1>1, <2>1, <2>2, <2>3 DEF TableTypes
  <2>5. QED
    BY <1>3, <2>2, <2>4, TypesJoin
<1>8. ASSUME NEW u \in User, AcceptInvite(c, u)
      PROVE  TypeOK'
  <2> DEFINE others  == {d \in Call : <<c, u, d>> \in leaving}
             raised  == {d \in others : hand[d][u] > 0}
             emptied == Emptied(u, others)
  <2>1. hand' \in [Call -> [User -> Nat]] /\ UNCHANGED nextHand
    BY <1>1, <1>8 DEF AcceptInvite, TableTypes
  <2>2. \A d \in Call, w \in User : hand'[d][w] <= nextHand'[d] /\ nextHand'[d] <= MaxRaise[d]
    BY <1>1, <1>8 DEF AcceptInvite, TableTypes
  <2>3. shown' \in [Call -> [User -> Nat]]
    <3>1. ShowHands(raised) /\ raised \in SUBSET Call
      BY <1>8 DEF AcceptInvite
    <3>2. QED
      BY <1>1, <3>1, <2>1, ShownTypes
  <2>4. told' \in [User -> Nat] /\ raced' \subseteq User
    BY <1>1, <1>8, CountedBeforeAreUsers, PresenceTypes DEF AcceptInvite, Commits
  <2>5. invited' \subseteq Call \X User /\ ringing' \subseteq User \X Conversation
    BY <1>1, <1>8, CloseTypes DEF AcceptInvite
  <2>6. /\ seat' \in [Call -> [User -> {"none", "in", "left"}]]
        /\ status' \in [Call -> {"none", "active", "ended"}]
        /\ listed' \subseteq Call
    BY <1>1, <1>8 DEF AcceptInvite, TableTypes
  <2>7. TableTypes'
    BY <1>1, <2>1, <2>2, <2>3, <2>4, <2>5, <2>6 DEF TableTypes
  <2>8. QED
    BY <1>2, <1>8, <2>7, TypesJoin DEF AcceptInvite
<1>9. ASSUME NEW u \in User, EndInvite(c, u)
      PROVE  TypeOK'
  <2>1. TableTypes'
    BY <1>1, <1>9, CloseTypes DEF EndInvite, TableTypes
  <2>2. QED
    BY <1>3, <1>9, <2>1, TypesJoin DEF EndInvite
<1>10. ASSUME NEW u \in User, NEW emptyRoom \in BOOLEAN, ParticipantLeft(c, u, emptyRoom)
       PROVE  TypeOK'
  <2> DEFINE was     == u \in InCall(c)
             ends    == status[c] = "active" /\ (InCall(c) \subseteq {u} \/ emptyRoom)
             counted == LeaverAndRemaining(c, u, was, ends)
  <2>1. counted \in SUBSET User
    BY DEF LeaverAndRemaining, InCall
  <2>2. Commits(c) /\ AnnouncePresence(c, Before(c, counted), {})
        /\ UNCHANGED <<hand, nextHand, finishing, overlaps>>
    BY <1>10 DEF ParticipantLeft
  <2> HIDE DEF counted
  <2>3. told' \in [User -> Nat] /\ raced' \subseteq User
    BY <1>1, <2>1, <2>2, CountedBeforeAreUsers, PresenceTypes DEF Commits
  <2>4. shown' \in [Call -> [User -> Nat]]
    BY <1>1, <1>10, ShownTypes DEF ParticipantLeft, TableTypes
  <2>5. invited' \subseteq Call \X User /\ ringing' \subseteq User \X Conversation
    BY <1>1, <1>10, CloseTypes DEF ParticipantLeft
  <2>6. /\ seat' \in [Call -> [User -> {"none", "in", "left"}]]
        /\ status' \in [Call -> {"none", "active", "ended"}]
        /\ listed' \subseteq Call
    BY <1>1, <1>10 DEF ParticipantLeft, TableTypes
  <2>7. TableTypes'
    BY <1>1, <2>2, <2>3, <2>4, <2>5, <2>6 DEF TableTypes
  <2>8. QED
    BY <1>2, <2>2, <2>7, TypesJoin
<1>11. QED
  BY <1>4, <1>5, <1>6, <1>7, <1>8, <1>9, <1>10, CountingKeepsTypes, EndingKeepsTypes
  DEF UserStep

LEMMA TypesStutter ==
  ASSUME TypeOK, UNCHANGED vars
  PROVE  TypeOK'
  BY DEF TypeOK, vars, openVars

(* The types of the call tables hold in every behaviour; a raised hand has a *)
(* sequence the call has counted.                                            *)
THEOREM CallsTypeCorrect == Spec => []TypeOK
<1>1. TypeOK /\ [Next]_vars => TypeOK'
  <2>1. ASSUME TypeOK, UNCHANGED vars PROVE TypeOK'
    BY <2>1, TypesStutter
  <2>2. QED
    BY <2>1, StepHasTypes
<1>2. QED
  BY <1>1, InitHasTypes, PTL DEF Spec
-----------------------------------------------------------------------------
(* Live calls have participants *)

(* A step that ends no call and takes nobody's seat. *)
LEMMA SeatingKeepsCallsLive ==
  ASSUME TypeOK, LiveCallHasParticipant, NEW c \in Call, NEW u \in User, Seat(c, u),
         \A d \in Call \ {c} : status'[d] = status[d]
  PROVE  LiveCallHasParticipant'
  BY DEF TypeOK, LiveCallHasParticipant, Seat, InCall

LEMMA LeavingKeepsCallsLive ==
  ASSUME TypeOK, LiveCallHasParticipant, NEW c \in Call, NEW u \in User,
         NEW emptyRoom \in BOOLEAN, ParticipantLeft(c, u, emptyRoom)
  PROVE  LiveCallHasParticipant'
<1>1. ASSUME NEW d \in Call \ {c}, status'[d] = "active" PROVE InCall(d)' # {}
  <2>1. status[d] = "active" /\ InCall(d)' = InCall(d)
    BY <1>1 DEF ParticipantLeft, TypeOK, InCall
  <2>2. QED
    BY <2>1 DEF LiveCallHasParticipant
<1>2. ASSUME status'[c] = "active" PROVE InCall(c)' # {}
  <2>1. status[c] = "active" /\ ~(InCall(c) \subseteq {u})
    BY <1>2 DEF ParticipantLeft, TypeOK
  <2>2. PICK w \in InCall(c) : w # u
    BY <2>1
  <2>3. w \in InCall(c)'
    BY <2>2 DEF ParticipantLeft, TypeOK, InCall
  <2>4. QED
    BY <2>3
<1>3. QED
  BY <1>1, <1>2 DEF LiveCallHasParticipant

(* leaveOtherActiveCallsForUserTx ends exactly the calls it empties. *)
LEMMA AcceptingKeepsCallsLive ==
  ASSUME TypeOK, LiveCallHasParticipant, NEW c \in Call, NEW u \in User, AcceptInvite(c, u)
  PROVE  LiveCallHasParticipant'
<1> DEFINE others == {d \in Call : <<c, u, d>> \in leaving}
<1>1. u \in InCall(c)'
  BY DEF AcceptInvite, TypeOK, InCall
<1>2. ASSUME NEW d \in others, d # c, status'[d] = "active" PROVE InCall(d)' # {}
  <2>1. status[d] = "active" /\ InCall(d) # {u}
    BY <1>2 DEF AcceptInvite, Emptied, TypeOK
  <2>2. PICK w \in InCall(d) : w # u
    BY <2>1 DEF LiveCallHasParticipant
  <2>3. w \in InCall(d)'
    BY <1>2, <2>2 DEF AcceptInvite, TypeOK, InCall
  <2>4. QED
    BY <2>3
<1>3. ASSUME NEW d \in (Call \ {c}) \ others, status'[d] = "active" PROVE InCall(d)' # {}
  <2>1. status[d] = "active" /\ seat'[d] = seat[d]
    BY <1>3 DEF AcceptInvite, Emptied, TypeOK
  <2>2. QED
    BY <2>1 DEF LiveCallHasParticipant, InCall
<1>4. QED
  BY <1>1, <1>2, <1>3 DEF LiveCallHasParticipant

LEMMA StepKeepsCallsLive ==
  ASSUME TypeOK, LiveCallHasParticipant, Next
  PROVE  LiveCallHasParticipant'
<1> PICK c \in Call :
      \/ Counting(c)
      \/ RoomFinishedEnd(c)
      \/ \E u \in User : UserStep(c, u) /\ ~LockOthers(c, u)
  BY DEF Next, Counting
<1>1. CASE RoomFinishedEnd(c)
  <2>1. /\ UNCHANGED seat
        /\ \A d \in Call : status'[d] = "active" => status[d] = "active"
    BY <1>1 DEF RoomFinishedEnd, TypeOK
  <2>2. QED
    BY <2>1 DEF LiveCallHasParticipant, InCall
<1>2. ASSUME NEW u \in User, NEW invitees \in SUBSET User, CreateCall(c, u, invitees)
      PROVE  LiveCallHasParticipant'
  BY <1>2, SeatingKeepsCallsLive DEF CreateCall, TypeOK
<1>3. ASSUME NEW u \in User, JoinCallToken(c, u) \/ ParticipantJoined(c, u)
      PROVE  LiveCallHasParticipant'
  BY <1>3, SeatingKeepsCallsLive DEF JoinCallToken, ParticipantJoined
<1>4. ASSUME UNCHANGED <<status, seat>>
      PROVE  LiveCallHasParticipant'
  BY <1>4 DEF LiveCallHasParticipant, InCall
<1>5. QED
  BY <1>1, <1>2, <1>3, <1>4, LeavingKeepsCallsLive, AcceptingKeepsCallsLive, CountingChangesNoCall
  DEF UserStep, InviteCallMembers, RaiseHand, LowerHand, EndInvite

(* Whatever requests and webhooks come, a call that goes on has someone in it. *)
THEOREM NoCallIsDeserted == Spec => []LiveCallHasParticipant
<1> DEFINE Inv == TypeOK /\ LiveCallHasParticipant
<1>1. Init => Inv
  BY InitHasTypes DEF Init, LiveCallHasParticipant
<1>2. Inv /\ [Next]_vars => Inv'
  <2>1. ASSUME Inv, UNCHANGED vars PROVE Inv'
    BY <2>1, TypesStutter DEF LiveCallHasParticipant, InCall, vars
  <2>2. QED
    BY <2>1, StepHasTypes, StepKeepsCallsLive
<1>3. QED
  BY <1>1, <1>2, PTL DEF Spec
-----------------------------------------------------------------------------
(* Invites *)

LEMMA ClosingKeepsInvitesLive ==
  ASSUME TypeOK, InviteIsLive, NEW invites, Close(invites),
         \A i \in invited \ invites : status'[i[1]] = "active"
  PROVE  InviteIsLive'
<1>1. ASSUME NEW r \in ringing'
      PROVE  \E i \in invited' : i[2] = r[1] /\ ConversationOf[i[1]] = r[2]
  <2>1. PICK i \in invited : i[2] = r[1] /\ ConversationOf[i[1]] = r[2]
    BY <1>1 DEF Close, InviteIsLive
  <2>2. i \notin invites
    <3>1. SUFFICES ASSUME i \in invites PROVE FALSE
      OBVIOUS
    <3>2. <<i[2], ConversationOf[i[1]]>> \notin ringing'
      BY <3>1 DEF Close
    <3>3. PICK x, y : r = <<x, y>>
      BY <1>1 DEF TypeOK, Close
    <3>4. QED
      BY <1>1, <2>1, <3>2, <3>3
  <2>3. QED
    BY <2>1, <2>2 DEF Close
<1>2. QED
  BY <1>1 DEF InviteIsLive, Close

(* An older invite of the same user goes, and what rang for it. *)
LEMMA InvitingKeepsInvitesLive ==
  ASSUME TypeOK, InviteIsLive, NEW c \in Call, NEW users \in SUBSET User, Invite(c, users),
         status'[c] = "active", \A d \in Call : status[d] = "active" => status'[d] = "active"
  PROVE  InviteIsLive'
<1>1. ASSUME NEW i \in invited' PROVE status'[i[1]] = "active"
  BY <1>1 DEF Invite, InviteIsLive, TypeOK
<1>2. ASSUME NEW r \in ringing'
      PROVE  \E i \in invited' : i[2] = r[1] /\ ConversationOf[i[1]] = r[2]
  <2>1. CASE r \in {<<u, ConversationOf[c]>> : u \in users}
    <3>1. PICK u \in users : r = <<u, ConversationOf[c]>>
      BY <2>1
    <3>2. <<c, u>> \in invited'
      BY DEF Invite
    <3>3. r[1] = u /\ r[2] = ConversationOf[c]
      BY <3>1
    <3>4. QED
      BY <3>2, <3>3
  <2>2. CASE r \in ringing /\ r[1] \notin users
    <3>1. PICK i \in invited : i[2] = r[1] /\ ConversationOf[i[1]] = r[2]
      BY <2>2 DEF InviteIsLive
    <3>2. i \in invited'
      BY <2>2, <3>1 DEF Invite
    <3>3. QED
      BY <3>1, <3>2
  <2>3. CASE r \in ringing /\ \A i \in invited : i[2] = r[1] => ConversationOf[i[1]] # r[2]
    BY <2>3 DEF InviteIsLive
  <2>4. QED
    BY <1>2, <2>1, <2>2, <2>3 DEF Invite
<1>3. QED
  BY <1>1, <1>2 DEF InviteIsLive

LEMMA StepKeepsInvitesLive ==
  ASSUME TypeOK, InviteIsLive, Next
  PROVE  InviteIsLive'
<1> PICK c \in Call :
      \/ Counting(c)
      \/ RoomFinishedEnd(c)
      \/ \E u \in User : UserStep(c, u) /\ ~LockOthers(c, u)
  BY DEF Next, Counting
<1>1. ASSUME UNCHANGED <<status, invited, ringing>>
      PROVE  InviteIsLive'
  BY <1>1 DEF InviteIsLive
<1>2. CASE RoomFinishedEnd(c)
  <2>1. \A i \in invited \ PendingOf({c}) : status'[i[1]] = "active"
    BY <1>2 DEF RoomFinishedEnd, PendingOf, InviteIsLive, TypeOK
  <2>2. QED
    BY <1>2, <2>1, ClosingKeepsInvitesLive DEF RoomFinishedEnd
<1>3. ASSUME NEW u \in User, NEW invitees \in SUBSET User, CreateCall(c, u, invitees)
      PROVE  InviteIsLive'
  BY <1>3, InvitingKeepsInvitesLive DEF CreateCall, TypeOK
<1>4. ASSUME NEW u \in User, NEW invitees \in SUBSET User, InviteCallMembers(c, u, invitees)
      PROVE  InviteIsLive'
  BY <1>4, InvitingKeepsInvitesLive DEF InviteCallMembers, TypeOK
<1>5. ASSUME NEW u \in User, AcceptInvite(c, u)
      PROVE  InviteIsLive'
  <2> DEFINE others  == {d \in Call : <<c, u, d>> \in leaving}
             closed  == {<<c, u>>} \cup PendingOf(Emptied(u, others))
  <2>1. \A i \in invited \ closed : status'[i[1]] = "active"
    BY <1>5 DEF AcceptInvite, PendingOf, InviteIsLive, TypeOK
  <2>2. Close(closed)
    BY <1>5 DEF AcceptInvite
  <2>3. QED
    BY <2>1, <2>2, ClosingKeepsInvitesLive
<1>6. ASSUME NEW u \in User, EndInvite(c, u)
      PROVE  InviteIsLive'
  <2>1. \A i \in invited \ {<<c, u>>} : status'[i[1]] = "active"
    BY <1>6 DEF EndInvite, InviteIsLive
  <2>2. QED
    BY <1>6, <2>1, ClosingKeepsInvitesLive DEF EndInvite
<1>7. ASSUME NEW u \in User, NEW emptyRoom \in BOOLEAN, ParticipantLeft(c, u, emptyRoom)
      PROVE  InviteIsLive'
  <2> DEFINE ends   == status[c] = "active" /\ (InCall(c) \subseteq {u} \/ emptyRoom)
             closed == IF ends THEN PendingOf({c}) ELSE {}
  <2>1. \A i \in invited \ closed : status'[i[1]] = "active"
    BY <1>7 DEF ParticipantLeft, PendingOf, InviteIsLive, TypeOK
  <2>2. Close(closed)
    BY <1>7 DEF ParticipantLeft
  <2>3. QED
    BY <2>1, <2>2, ClosingKeepsInvitesLive
<1>8. QED
  BY <1>1, <1>2, <1>3, <1>4, <1>5, <1>6, <1>7, CountingChangesNoCall
  DEF UserStep, JoinCallToken, RaiseHand, LowerHand, ParticipantJoined

(* Every way a call can end takes its invites and what rings for them along. *)
THEOREM NoInviteOutlivesItsCall == Spec => []InviteIsLive
<1> DEFINE Inv == TypeOK /\ InviteIsLive
<1>1. Init => Inv
  BY InitHasTypes DEF Init, InviteIsLive
<1>2. Inv /\ [Next]_vars => Inv'
  <2>1. ASSUME Inv, UNCHANGED vars PROVE Inv'
    BY <2>1, TypesStutter DEF InviteIsLive, vars
  <2>2. QED
    BY <2>1, StepHasTypes, StepKeepsInvitesLive
<1>3. QED
  BY <1>1, <1>2, PTL DEF Spec
-----------------------------------------------------------------------------
(* Queues *)

(* A call not yet created has no rows, nobody leaves it, and its queue was   *)
(* never shown.                                                             *)
FreshCall ==
  /\ \A c \in Call : status[c] = "none" =>
       seat[c] = [u \in User |-> "none"] /\ shown[c] = Nobody
  /\ \A l \in leaving : status[l[3]] # "none"

(* Only calls in progress are locked to be left. *)
LEMMA LeavingIsOfBegunCalls ==
  ASSUME TypeOK, FreshCall, Next
  PROVE  \A l \in leaving' : l[3] \in Call /\ status[l[3]] # "none"
<1>1. \A l \in leaving : l[3] \in Call /\ status[l[3]] # "none"
  BY DEF TypeOK, FreshCall
<1>2. ASSUME leaving' \subseteq leaving
      PROVE  \A l \in leaving' : l[3] \in Call /\ status[l[3]] # "none"
  BY <1>1, <1>2
<1>3. ASSUME NEW c \in Call, NEW u \in User, LockOthers(c, u)
      PROVE  \A l \in leaving' : l[3] \in Call /\ status[l[3]] # "none"
  <2>1. leaving' = leaving \cup {<<c, u, d>> : d \in {e \in ActiveIn(u) : e # c}}
    BY <1>3 DEF LockOthers
  <2>2. \A d \in ActiveIn(u) : d \in Call /\ status[d] # "none"
    BY DEF ActiveIn
  <2>3. QED
    BY <1>1, <2>1, <2>2
<1>4. ASSUME NEW c \in Call, Unlock(c) \/ UNCHANGED leaving \/ UNCHANGED openVars
      PROVE  leaving' \subseteq leaving
  BY <1>4 DEF Unlock, openVars
<1>5. PICK c \in Call :
        \/ Counting(c)
        \/ RoomFinishedEnd(c)
        \/ \E u \in User : UserStep(c, u) /\ ~LockOthers(c, u)
  BY DEF Next, Counting
<1>6. CASE Counting(c)
  BY <1>2, <1>3, <1>4, <1>6
  DEF Counting, Begin, Recount, Rollback, RoomFinishedRead, RoomFinishedQuits
<1>7. CASE RoomFinishedEnd(c)
  BY <1>2, <1>4, <1>7 DEF RoomFinishedEnd, Commits
<1>8. ASSUME NEW u \in User, UserStep(c, u), ~LockOthers(c, u)
      PROVE  Unlock(c) \/ UNCHANGED leaving \/ UNCHANGED openVars
  BY <1>8, Zenon DEF UserStep, Commits, CreateCall, JoinCallToken, AcceptInvite, ParticipantJoined,
            ParticipantLeft, RaiseHand, LowerHand, InviteCallMembers, EndInvite
<1>9. QED
  BY <1>2, <1>4, <1>5, <1>6, <1>7, <1>8

LEMMA StepKeepsCallsFresh ==
  ASSUME TypeOK, FreshCall, Next
  PROVE  FreshCall'
<1> PICK c \in Call :
      \/ Counting(c)
      \/ RoomFinishedEnd(c)
      \/ \E u \in User : UserStep(c, u) /\ ~LockOthers(c, u)
  BY DEF Next, Counting
<1> DEFINE Still == \A d \in Call : status'[d] = "none" =>
                      status[d] = "none" /\ seat'[d] = seat[d] /\ shown'[d] = shown[d]
<1>1. \A d \in Call, u \in User : status[d] = "none" => seat[d][u] = "none"
  BY DEF FreshCall
<1>2. ASSUME UNCHANGED <<status, seat, shown>> PROVE Still
  BY <1>2
<1>3. ASSUME NEW u \in User, NEW invitees \in SUBSET User, CreateCall(c, u, invitees)
      PROVE  Still
  BY <1>3 DEF CreateCall, Seat, TypeOK
<1>4. ASSUME status[c] = "active", NEW u \in User, Seat(c, u), UNCHANGED <<status, shown>>
      PROVE  Still
  BY <1>4 DEF Seat, TypeOK
<1>5. ASSUME status[c] = "active", ShowHands({c}), UNCHANGED <<status, seat>>
      PROVE  Still
  BY <1>5 DEF ShowHands
<1>6. ASSUME NEW u \in User, AcceptInvite(c, u)
      PROVE  Still
  <2> DEFINE others  == {d \in Call : <<c, u, d>> \in leaving}
             emptied == Emptied(u, others)
             raised  == {d \in others : hand[d][u] > 0}
  <2>1. /\ status[c] = "active" /\ \A d \in others : status[d] # "none"
        /\ emptied \subseteq others /\ raised \subseteq others
    BY <1>6 DEF AcceptInvite, Emptied, FreshCall
  <2>2. /\ status' = [d \in Call |-> IF d \in emptied THEN "ended" ELSE status[d]]
        /\ seat' = [d \in Call |-> CASE d = c -> [seat[d] EXCEPT ![u] = "in"]
                                     [] d \in others -> [seat[d] EXCEPT ![u] = "left"]
                                     [] OTHER -> seat[d]]
        /\ ShowHands(raised)
    BY <1>6 DEF AcceptInvite
  <2> HIDE DEF others, emptied, raised
  <2>3. QED
    BY <2>1, <2>2 DEF ShowHands
<1>7. ASSUME NEW u \in User, ParticipantJoined(c, u)
      PROVE  Still
  BY <1>1, <1>7 DEF ParticipantJoined, Seat, TypeOK
<1>8. ASSUME NEW u \in User, NEW emptyRoom \in BOOLEAN, ParticipantLeft(c, u, emptyRoom)
      PROVE  Still
  <2>1. status[c] # "none"
    BY <1>1, <1>8 DEF ParticipantLeft
  <2>2. \A d \in Call \ {c} : UNCHANGED <<status[d], seat[d], shown[d]>>
    BY <1>8 DEF ParticipantLeft, ShowHands, TypeOK
  <2>3. status'[c] # "none"
    BY <1>8, <2>1 DEF ParticipantLeft, TypeOK
  <2>4. QED
    BY <2>2, <2>3
<1>9. ASSUME RoomFinishedEnd(c) PROVE Still
  BY <1>9 DEF RoomFinishedEnd, TypeOK
<1>10. ASSUME NEW u \in User, UserStep(c, u), ~LockOthers(c, u) PROVE Still
  <2>1. CASE JoinCallToken(c, u)
    BY <1>4, <2>1 DEF JoinCallToken
  <2>2. CASE RaiseHand(c, u) \/ LowerHand(c, u)
    BY <1>5, <2>2 DEF RaiseHand, LowerHand
  <2>3. CASE EndInvite(c, u) \/ \E invitees \in SUBSET User : InviteCallMembers(c, u, invitees)
    BY <1>2, <2>3 DEF EndInvite, InviteCallMembers
  <2>4. QED
    BY <1>3, <1>6, <1>7, <1>8, <1>10, <2>1, <2>2, <2>3, Zenon DEF UserStep
<1>11. Still
  BY <1>2, <1>9, <1>10, CountingChangesNoCall
<1>12. \A l \in leaving' : l[3] \in Call /\ status[l[3]] # "none"
  BY LeavingIsOfBegunCalls DEF TypeOK
<1>13. QED
  BY <1>11, <1>12 DEF FreshCall

(* Taking a seat changes nobody's place in the queue of a call. *)
LEMMA SeatingKeepsQueues ==
  ASSUME TypeOK, NEW c \in Call, NEW u \in User, Seat(c, u), NEW d \in Call
  PROVE  RaisedHands(d)' = RaisedHands(d)
<1>1. ASSUME NEW w \in User
      PROVE  (IF w \in InCall(d) THEN hand[d][w] ELSE 0)' = IF w \in InCall(d) THEN hand[d][w] ELSE 0
  <2>1. CASE d = c /\ w = u
    BY <2>1 DEF Seat, InCall, TypeOK
  <2>2. CASE ~(d = c /\ w = u)
    <3>1. seat'[d][w] = seat[d][w] /\ hand'[d][w] = hand[d][w]
      BY <2>2 DEF Seat, TypeOK
    <3>2. QED
      BY <3>1 DEF InCall
  <2>3. QED
    BY <2>1, <2>2
<1>2. QED
  BY <1>1 DEF RaisedHands

LEMMA StepKeepsQueuesAnnounced ==
  ASSUME TypeOK, FreshCall, QueueIsAnnounced, Next
  PROVE  QueueIsAnnounced'
<1> PICK c \in Call :
      \/ Counting(c)
      \/ RoomFinishedEnd(c)
      \/ \E u \in User : UserStep(c, u) /\ ~LockOthers(c, u)
  BY DEF Next, Counting
<1>1. ASSUME NEW u \in User, NEW invitees \in SUBSET User, CreateCall(c, u, invitees)
      PROVE  QueueIsAnnounced'
  <2>1. RaisedHands(c) = Nobody /\ shown[c] = Nobody
    BY <1>1 DEF CreateCall, FreshCall, RaisedHands, InCall, Nobody
  <2>2. \A d \in Call : RaisedHands(d)' = RaisedHands(d)
    BY <1>1, SeatingKeepsQueues DEF CreateCall
  <2>3. shown' = shown /\ listed' = listed \cup {c}
        /\ \A d \in Call \ {c} : status'[d] = status[d]
    BY <1>1 DEF CreateCall, TypeOK
  <2>4. QED
    BY <2>1, <2>2, <2>3 DEF QueueIsAnnounced
<1>2. ASSUME NEW u \in User, JoinCallToken(c, u) \/ ParticipantJoined(c, u)
      PROVE  QueueIsAnnounced'
  <2>1. \A d \in Call : RaisedHands(d)' = RaisedHands(d)
    BY <1>2, SeatingKeepsQueues DEF JoinCallToken, ParticipantJoined
  <2>2. UNCHANGED <<status, shown, listed>>
    BY <1>2 DEF JoinCallToken, ParticipantJoined
  <2>3. QED
    BY <2>1, <2>2 DEF QueueIsAnnounced
<1>3. ASSUME UNCHANGED <<seat, hand, shown>>,
             \A d \in Call : status'[d] = "active" => status[d] = "active" /\ (d \in listed => d \in listed')
      PROVE  QueueIsAnnounced'
  BY <1>3 DEF QueueIsAnnounced, RaisedHands, InCall
<1>4. CASE RoomFinishedEnd(c)
  <2>1. UNCHANGED <<seat, hand, shown>>
    BY <1>4 DEF RoomFinishedEnd
  <2>2. \A d \in Call : status'[d] = "active" => status[d] = "active" /\ (d \in listed => d \in listed')
    BY <1>4 DEF RoomFinishedEnd, TypeOK
  <2>3. QED
    BY <2>1, <2>2, <1>3
<1>5. ASSUME NEW u \in User, RaiseHand(c, u) \/ LowerHand(c, u)
      PROVE  QueueIsAnnounced'
  <2>1. ShowHands({c}) /\ listed' = listed \cup {c} /\ UNCHANGED <<status, seat>>
    BY <1>5 DEF RaiseHand, LowerHand
  <2>2. \A d \in Call \ {c} : RaisedHands(d)' = RaisedHands(d)
    BY <1>5, <2>1 DEF RaiseHand, LowerHand, RaisedHands, InCall, TypeOK
  <2>3. QED
    BY <2>1, <2>2 DEF QueueIsAnnounced, ShowHands
<1>6. ASSUME NEW u \in User, AcceptInvite(c, u)
      PROVE  QueueIsAnnounced'
  <2> DEFINE others  == {d \in Call : <<c, u, d>> \in leaving}
             raised  == {d \in others : hand[d][u] > 0}
             emptied == Emptied(u, others)
  <2>1. /\ ShowHands(raised)
        /\ listed' = (listed \cup raised) \ emptied
        /\ \A d \in Call : status'[d] = "active" => status[d] = "active" /\ d \notin emptied
    BY <1>6 DEF AcceptInvite, TypeOK
  <2>2. ASSUME NEW d \in Call \ raised PROVE RaisedHands(d)' = RaisedHands(d)
    <3>1. ASSUME NEW w \in User
          PROVE  (IF w \in InCall(d) THEN hand[d][w] ELSE 0)' = IF w \in InCall(d) THEN hand[d][w] ELSE 0
      <4>1. CASE w # u
        BY <1>6, <4>1 DEF AcceptInvite, InCall, TypeOK
      <4>2. CASE w = u /\ d = c
        BY <1>6, <4>2 DEF AcceptInvite, InCall, TypeOK
      <4>3. CASE w = u /\ d \in others
        <5>1. d # c /\ hand[d][w] = 0
          BY <1>6, <2>2, <4>3 DEF TypeOK
        <5>2. hand'[d][w] = 0
          BY <1>6, <5>1 DEF AcceptInvite, TypeOK
        <5>3. QED
          BY <5>1, <5>2
      <4>4. CASE w = u /\ d \notin others /\ d # c
        BY <1>6, <4>4 DEF AcceptInvite, InCall, TypeOK
      <4>5. QED
        BY <4>1, <4>2, <4>3, <4>4
    <3>2. QED
      BY <3>1 DEF RaisedHands
  <2>3. QED
    BY <2>1, <2>2 DEF QueueIsAnnounced, ShowHands
<1>7. ASSUME NEW u \in User, NEW emptyRoom \in BOOLEAN, ParticipantLeft(c, u, emptyRoom)
      PROVE  QueueIsAnnounced'
  <2>1. CASE u \in InCall(c)
    <3>1. /\ ShowHands({c})
          /\ \A d \in Call : status'[d] = "active" => status[d] = "active"
          /\ \A d \in Call : status'[d] = "active" /\ d \in listed \cup {c} => d \in listed'
      BY <1>7, <2>1 DEF ParticipantLeft, TypeOK
    <3>2. \A d \in Call \ {c} : RaisedHands(d)' = RaisedHands(d)
      BY <1>7, <2>1 DEF ParticipantLeft, RaisedHands, InCall, TypeOK
    <3>3. QED
      BY <3>1, <3>2 DEF QueueIsAnnounced, ShowHands
  <2>2. CASE u \notin InCall(c)
    <3>1. UNCHANGED <<seat, hand>> /\ ShowHands({})
      BY <1>7, <2>2 DEF ParticipantLeft
    <3>2. \A d \in Call : status'[d] = "active" => status[d] = "active" /\ (d \in listed => d \in listed')
      BY <1>7, <2>2 DEF ParticipantLeft, TypeOK
    <3>3. \A d \in Call : shown'[d] = shown[d]
      BY <3>1 DEF ShowHands
    <3>4. QED
      BY <3>1, <3>2, <3>3 DEF QueueIsAnnounced, RaisedHands, InCall
  <2>3. QED
    BY <2>1, <2>2
<1>8. ASSUME UNCHANGED <<status, seat, hand, listed, shown>>
      PROVE  QueueIsAnnounced'
  BY <1>8 DEF QueueIsAnnounced, RaisedHands, InCall
<1>9. QED
  BY <1>1, <1>2, <1>4, <1>5, <1>6, <1>7, <1>8, CountingChangesNoCall
  DEF UserStep, InviteCallMembers, EndInvite

(* No path changes the queue of a call without announcing it. *)
THEOREM EveryQueueIsAnnounced == Spec => []QueueIsAnnounced
<1> DEFINE Inv == TypeOK /\ FreshCall /\ QueueIsAnnounced
<1>1. Init => Inv
  BY InitHasTypes DEF Init, FreshCall, QueueIsAnnounced
<1>2. Inv /\ [Next]_vars => Inv'
  <2>1. ASSUME Inv, UNCHANGED vars PROVE Inv'
    BY <2>1, TypesStutter DEF FreshCall, QueueIsAnnounced, RaisedHands, InCall, Nobody, vars, openVars
  <2>2. QED
    BY <2>1, StepHasTypes, StepKeepsCallsFresh, StepKeepsQueuesAnnounced
<1>3. QED
  BY <1>1, <1>2, PTL DEF Spec
-----------------------------------------------------------------------------
(* Presence *)

(* A user whose calls stay the same keeps the count. *)
LEMMA SameCallsSameCount ==
  ASSUME NEW w \in User,
         \A d \in Call : (status[d] = "active" /\ w \in InCall(d))' <=> (status[d] = "active" /\ w \in InCall(d))
  PROVE  ActiveCount(w)' = ActiveCount(w)
<1>1. ActiveIn(w)' = ActiveIn(w)
  BY DEF ActiveIn
<1>2. QED
  BY <1>1 DEF ActiveCount

(* The transaction of c commits: of the user's other calls only those it     *)
(* had locked to leave change, so that what it counted elsewhere, if that is  *)
(* still so, and its own call make up the new count.                         *)
LEMMA CountsAddUp ==
  ASSUME NEW c \in Call, NEW w \in User,
         \A d \in Call \ {c} : (status[d] = "active" /\ w \in InCall(d))' <=>
                                (status[d] = "active" /\ w \in InCall(d) /\ <<c, w, d>> \notin leaving)
  PROVE  ActiveCount(w)' = Elsewhere(c)[w] + Here(c, w)'
<1> DEFINE elsewhere == {d \in ActiveIn(w) : d # c /\ <<c, w, d>> \notin leaving}
<1>1. Elsewhere(c)[w] = Cardinality(elsewhere)
  BY DEF Elsewhere
<1>2. IsFiniteSet(elsewhere) /\ Cardinality(elsewhere) \in Nat /\ c \notin elsewhere
  <2>1. elsewhere \in SUBSET Call /\ c \notin elsewhere
    BY DEF ActiveIn
  <2>2. QED
    BY <2>1, CountIsNat
<1>3. CASE c \in ActiveIn(w)'
  <2>1. ActiveIn(w)' = elsewhere \cup {c}
    BY <1>3 DEF ActiveIn
  <2>2. Cardinality(elsewhere \cup {c}) = Cardinality(elsewhere) + 1
    BY <1>2, FS_AddElement
  <2>3. Here(c, w)' = 1
    BY <1>3 DEF Here
  <2>4. ActiveCount(w)' = Cardinality(elsewhere \cup {c})
    BY <2>1 DEF ActiveCount
  <2>5. QED
    BY <1>1, <2>2, <2>3, <2>4
<1>4. CASE c \notin ActiveIn(w)'
  <2>1. ActiveIn(w)' = elsewhere
    BY <1>4 DEF ActiveIn
  <2>2. Here(c, w)' = 0
    BY <1>4 DEF Here
  <2>3. ActiveCount(w)' = Cardinality(elsewhere)
    BY <2>1 DEF ActiveCount
  <2> HIDE DEF elsewhere
  <2>4. QED
    BY <1>1, <1>2, <2>2, <2>3
<1>5. QED
  BY <1>3, <1>4

(* Who is counted is told the new count or had it already; who is neither    *)
(* counted nor overlooked keeps the count.                                   *)
LEMMA AnnouncingKeepsCounts ==
  ASSUME PresenceIsAnnounced, NEW c \in Call, NEW before, NEW overlooked,
         AnnouncePresence(c, before, overlooked),
         \A w \in User : w \in DOMAIN before => ActiveCount(w)' = Elsewhere(c)[w] + Here(c, w)',
         \A w \in User : w \notin DOMAIN before /\ w \notin overlooked => ActiveCount(w)' = ActiveCount(w)
  PROVE  PresenceIsAnnounced'
<1>1. ASSUME NEW w \in User, w \notin raced' PROVE told'[w] = ActiveCount(w)'
  <2> DEFINE announced == w \in DOMAIN before /\ before[w] # After(c, w)
  <2>1. /\ w \in DOMAIN before => counts[c][2][w] = Elsewhere(c)[w]
        /\ w \in DOMAIN before /\ ~announced => before[w] = ActiveCount(w)
        /\ w \notin overlooked
        /\ ~announced => w \notin raced
    BY <1>1 DEF AnnouncePresence
  <2>2. told'[w] = IF announced THEN After(c, w) ELSE told[w]
    BY DEF AnnouncePresence
  <2>3. CASE w \in DOMAIN before
    <3>1. After(c, w) = ActiveCount(w)'
      BY <2>1, <2>3 DEF After
    <3>2. CASE announced
      BY <2>2, <3>1, <3>2
    <3>3. CASE ~announced
      <4>1. told[w] = ActiveCount(w) /\ before[w] = After(c, w) /\ before[w] = ActiveCount(w)
        BY <2>1, <2>3, <3>3 DEF PresenceIsAnnounced
      <4>2. QED
        BY <2>2, <3>1, <3>3, <4>1
    <3>4. QED
      BY <3>2, <3>3
  <2>4. CASE w \notin DOMAIN before
    <3>1. told'[w] = told[w] /\ told[w] = ActiveCount(w)
      BY <2>1, <2>2, <2>4 DEF PresenceIsAnnounced
    <3>2. QED
      BY <2>1, <2>4, <3>1
  <2>5. QED
    BY <2>3, <2>4
<1>2. QED
  BY <1>1 DEF PresenceIsAnnounced

(* A call that was, or becomes, active: its participants are those seated. *)
LEMMA SeatingIsCounted ==
  ASSUME TypeOK, FreshCall, NEW c \in Call, NEW u \in User, Seat(c, u), LeavesNone(c),
         \/ status' = status
         \/ status[c] = "none" /\ status' = [status EXCEPT ![c] = "active"],
         PresenceIsAnnounced, AnnouncePresence(c, Before(c, {u}), {})
  PROVE  PresenceIsAnnounced'
<1>1. \A w \in User \ {u}, d \in Call : w \in InCall(d)' <=> w \in InCall(d)
  BY DEF Seat, InCall, TypeOK
<1>2. \A w \in User : status[c] = "none" => w \notin InCall(c)
  BY DEF FreshCall, InCall
<1>3. ASSUME NEW w \in User \ {u} PROVE ActiveCount(w)' = ActiveCount(w)
  <2>1. \A d \in Call : (status[d] = "active" /\ w \in InCall(d))' <=> (status[d] = "active" /\ w \in InCall(d))
    BY <1>1, <1>2 DEF TypeOK
  <2>2. QED
    BY <2>1, SameCallsSameCount
<1>4. ActiveCount(u)' = Elsewhere(c)[u] + Here(c, u)'
  <2>1. \A d \in Call \ {c} : <<c, u, d>> \notin leaving
    BY DEF LeavesNone
  <2>2. \A d \in Call \ {c} : status'[d] = status[d] /\ seat'[d] = seat[d]
    BY DEF Seat, TypeOK
  <2>3. \A d \in Call \ {c} : (status[d] = "active" /\ u \in InCall(d))' <=>
                               (status[d] = "active" /\ u \in InCall(d) /\ <<c, u, d>> \notin leaving)
    BY <2>1, <2>2 DEF InCall
  <2>4. QED
    BY <2>3, CountsAddUp
<1>5. DOMAIN Before(c, {u}) = {u}
  BY DEF Before
<1>6. QED
  BY <1>3, <1>4, <1>5, AnnouncingKeepsCounts

(* Accepting leaves the calls that were locked, and no others. *)
LEMMA AcceptingKeepsCounts ==
  ASSUME TypeOK, PresenceIsAnnounced, NEW c \in Call, NEW u \in User, AcceptInvite(c, u)
  PROVE  PresenceIsAnnounced'
<1> DEFINE others == {d \in Call : <<c, u, d>> \in leaving}
<1>1. ASSUME NEW w \in User \ {u} PROVE ActiveCount(w)' = ActiveCount(w)
  <2>1. ASSUME NEW d \in Call
        PROVE  (status[d] = "active" /\ w \in InCall(d))' <=> (status[d] = "active" /\ w \in InCall(d))
    <3>1. w \in InCall(d)' <=> w \in InCall(d)
      BY DEF AcceptInvite, InCall, TypeOK
    <3>2. w \in InCall(d) => status'[d] = status[d]
      BY DEF AcceptInvite, Emptied, TypeOK
    <3>3. QED
      BY <3>1, <3>2
  <2>2. QED
    BY <2>1, SameCallsSameCount
<1>2. ActiveCount(u)' = Elsewhere(c)[u] + Here(c, u)'
  <2>1. ASSUME NEW d \in Call \ {c}
        PROVE  (status[d] = "active" /\ u \in InCall(d))' <=>
               (status[d] = "active" /\ u \in InCall(d) /\ <<c, u, d>> \notin leaving)
    <3>1. CASE d \in others
      BY <3>1 DEF AcceptInvite, InCall, TypeOK
    <3>2. CASE d \notin others
      BY <3>2 DEF AcceptInvite, Emptied, InCall, TypeOK
    <3>3. QED
      BY <3>1, <3>2
  <2>2. QED
    BY <2>1, CountsAddUp
<1>3. DOMAIN Before(c, {u}) = {u} /\ AnnouncePresence(c, Before(c, {u}), {})
  BY DEF Before, AcceptInvite
<1>4. QED
  BY <1>1, <1>2, <1>3, AnnouncingKeepsCounts

(* Who leaves is counted, and everyone else where the call ends. *)
LEMMA LeavingKeepsCounts ==
  ASSUME TypeOK, PresenceIsAnnounced, NEW c \in Call, NEW u \in User,
         NEW emptyRoom \in BOOLEAN, ParticipantLeft(c, u, emptyRoom)
  PROVE  PresenceIsAnnounced'
<1> DEFINE was     == u \in InCall(c)
           ends    == status[c] = "active" /\ (InCall(c) \subseteq {u} \/ emptyRoom)
           counted == LeaverAndRemaining(c, u, was, ends)
<1>1. AnnouncePresence(c, Before(c, counted), {}) /\ LeavesNone(c)
  BY DEF ParticipantLeft
<1>2. \A w \in User, d \in Call : w \in InCall(d)' <=> w \in InCall(d) /\ ~(d = c /\ w = u)
  BY DEF ParticipantLeft, InCall, TypeOK
<1>3. /\ \A d \in Call \ {c} : status'[d] = status[d]
      /\ ~ends => status' = status
  BY DEF ParticipantLeft, TypeOK
<1>4. \A w \in User : w \notin counted => w \notin InCall(c) \/ (w # u /\ ~ends)
  BY DEF LeaverAndRemaining
<1> HIDE DEF was, ends, counted
<1>5. ASSUME NEW w \in User PROVE ActiveCount(w)' = Elsewhere(c)[w] + Here(c, w)'
  <2>1. \A d \in Call \ {c} : <<c, w, d>> \notin leaving
    BY <1>1 DEF LeavesNone
  <2>2. \A d \in Call \ {c} : (status[d] = "active" /\ w \in InCall(d))' <=>
                               (status[d] = "active" /\ w \in InCall(d) /\ <<c, w, d>> \notin leaving)
    BY <1>2, <1>3, <2>1
  <2>3. QED
    BY <2>2, CountsAddUp
<1>6. ASSUME NEW w \in User, w \notin counted PROVE ActiveCount(w)' = ActiveCount(w)
  <2>1. \A d \in Call : (status[d] = "active" /\ w \in InCall(d))' <=> (status[d] = "active" /\ w \in InCall(d))
    BY <1>2, <1>3, <1>4, <1>6
  <2>2. QED
    BY <2>1, SameCallsSameCount
<1>7. DOMAIN Before(c, counted) = counted
  BY DEF Before
<1>8. QED
  BY <1>1, <1>5, <1>6, <1>7, AnnouncingKeepsCounts

(* room_finished counts whom it had listed; a participant who came since is  *)
(* overlooked.                                                               *)
LEMMA RoomFinishedKeepsCounts ==
  ASSUME TypeOK, PresenceIsAnnounced, NEW c \in Call, RoomFinishedEnd(c)
  PROVE  PresenceIsAnnounced'
<1> DEFINE overlooked == InCall(c) \ DOMAIN finishing[c]
<1>1. /\ AnnouncePresence(c, finishing[c], overlooked) /\ LeavesNone(c)
      /\ status' = [status EXCEPT ![c] = "ended"] /\ seat' = seat
  BY DEF RoomFinishedEnd
<1>2. \A w \in User, d \in Call : w \in InCall(d)' <=> w \in InCall(d)
  BY <1>1 DEF InCall
<1>3. \A d \in Call \ {c} : status'[d] = status[d]
  BY <1>1 DEF TypeOK
<1>4. ASSUME NEW w \in User PROVE ActiveCount(w)' = Elsewhere(c)[w] + Here(c, w)'
  <2>1. \A d \in Call \ {c} : <<c, w, d>> \notin leaving
    BY <1>1 DEF LeavesNone
  <2>2. \A d \in Call \ {c} : (status[d] = "active" /\ w \in InCall(d))' <=>
                               (status[d] = "active" /\ w \in InCall(d) /\ <<c, w, d>> \notin leaving)
    BY <1>2, <1>3, <2>1
  <2>3. QED
    BY <2>2, CountsAddUp
<1>5. ASSUME NEW w \in User, w \notin DOMAIN finishing[c], w \notin overlooked
      PROVE  ActiveCount(w)' = ActiveCount(w)
  <2>1. w \notin InCall(c)
    BY <1>5
  <2>2. \A d \in Call : (status[d] = "active" /\ w \in InCall(d))' <=> (status[d] = "active" /\ w \in InCall(d))
    BY <1>2, <1>3, <2>1
  <2>3. QED
    BY <2>2, SameCallsSameCount
<1> HIDE DEF overlooked
<1>6. QED
  BY <1>1, <1>4, <1>5, AnnouncingKeepsCounts

LEMMA StepKeepsPresenceAnnounced ==
  ASSUME TypeOK, FreshCall, PresenceIsAnnounced, Next
  PROVE  PresenceIsAnnounced'
<1> PICK c \in Call :
      \/ Counting(c)
      \/ RoomFinishedEnd(c)
      \/ \E u \in User : UserStep(c, u) /\ ~LockOthers(c, u)
  BY DEF Next, Counting
<1>1. ASSUME UNCHANGED <<status, seat, told, raced>>
      PROVE  PresenceIsAnnounced'
  BY <1>1 DEF PresenceIsAnnounced, ActiveCount, ActiveIn, InCall
<1>2. ASSUME NEW u \in User, NEW invitees \in SUBSET User, CreateCall(c, u, invitees)
      PROVE  PresenceIsAnnounced'
  BY <1>2, SeatingIsCounted DEF CreateCall
<1>3. ASSUME NEW u \in User, JoinCallToken(c, u) \/ ParticipantJoined(c, u)
      PROVE  PresenceIsAnnounced'
  BY <1>3, SeatingIsCounted DEF JoinCallToken, ParticipantJoined
<1>4. QED
  BY <1>1, <1>2, <1>3, CountingChangesNoCall, AcceptingKeepsCounts, LeavingKeepsCounts,
     RoomFinishedKeepsCounts
  DEF UserStep, InviteCallMembers, RaiseHand, LowerHand, EndInvite

(* The number of calls the workspace was told of is the number of active     *)
(* calls the user is in, whatever transactions of several calls overlap: but  *)
(* for a user whose other calls changed while a transaction counted them, or  *)
(* whom room_finished overlooked, until the next announcement that was not    *)
(* overtaken itself.                                                         *)
THEOREM EveryCountIsAnnounced == Spec => []PresenceIsAnnounced
<1> DEFINE Inv == TypeOK /\ FreshCall /\ PresenceIsAnnounced
<1>1. Init => Inv
  <2>1. ASSUME Init, NEW u \in User PROVE ActiveCount(u) = 0
    <3>1. ActiveIn(u) = {}
      BY <2>1 DEF Init, ActiveIn
    <3>2. QED
      BY <3>1, FS_EmptySet DEF ActiveCount
  <2>2. Init => PresenceIsAnnounced
    BY <2>1 DEF Init, Nobody, PresenceIsAnnounced
  <2>3. QED
    BY <2>2, InitHasTypes DEF Init, FreshCall
<1>2. Inv /\ [Next]_vars => Inv'
  <2>1. ASSUME Inv, UNCHANGED vars PROVE Inv'
    BY <2>1, TypesStutter
    DEF FreshCall, PresenceIsAnnounced, ActiveCount, ActiveIn, InCall, Nobody, vars, openVars
  <2>2. QED
    BY <2>1, StepHasTypes, StepKeepsCallsFresh, StepKeepsPresenceAnnounced
<1>3. QED
  BY <1>1, <1>2, PTL DEF Spec
=============================================================================
