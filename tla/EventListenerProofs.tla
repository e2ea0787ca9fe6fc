------------------------ MODULE EventListenerProofs ------------------------
(***************************************************************************)
(* Proofs about EventListener for any writers, bounds and page size.       *)
(*                                                                         *)
(* First type correctness and an ascending published stream, then that an  *)
(* idle listener has nothing left to learn, and last that it passes over   *)
(* excused rows only and so implements EventFeed.                          *)
(***************************************************************************)
EXTENDS EventListener, SequenceTheorems, FiniteSetTheorems, TLAPS

-----------------------------------------------------------------------------
(* Facts about Elems, the set of a sequence's elements. *)

LEMMA ElemsType ==
  ASSUME NEW S, NEW s \in Seq(S)
  PROVE  Elems(s) \subseteq S /\ (Elems(s) = {} <=> s = <<>>)
BY EmptySeq, LenProperties, ElementOfSeq DEF Elems

LEMMA ElemsOfNumbers ==
  ASSUME NEW n, NEW s \in Seq(1..n), s # <<>>
  PROVE  Elems(s) \subseteq 1..n /\ Elems(s) # {}
<1>. DEFINE S == 1..n
<1>1. s \in Seq(S)
  OBVIOUS
<1>. HIDE DEF S
<1>2. Elems(s) \subseteq S /\ Elems(s) # {}
  BY <1>1, ElemsType
<1>. QED
  BY <1>2 DEF S

LEMMA ElemsAppend ==
  ASSUME NEW S, NEW s \in Seq(S), NEW e \in S
  PROVE  Elems(Append(s, e)) = Elems(s) \cup {e}
<1>1. /\ DOMAIN s = 1..Len(s)
      /\ DOMAIN Append(s, e) = 1..(Len(s) + 1)
      /\ Len(s) \in Nat
  BY AppendProperties, LenProperties
<1>2. \A i \in 1..Len(s) : Append(s, e)[i] = s[i]
  BY AppendProperties
<1>3. Append(s, e)[Len(s) + 1] = e
  BY AppendProperties
<1>. QED
  BY <1>1, <1>2, <1>3 DEF Elems

LEMMA ElemsConcat ==
  ASSUME NEW S, NEW s \in Seq(S), NEW t \in Seq(S)
  PROVE  Elems(s \o t) = Elems(s) \cup Elems(t)
<1>1. /\ DOMAIN s = 1..Len(s)
      /\ DOMAIN t = 1..Len(t)
      /\ DOMAIN (s \o t) = 1..(Len(s) + Len(t))
      /\ Len(s) \in Nat /\ Len(t) \in Nat
  BY ConcatProperties, LenProperties
<1>2. \A i \in 1..(Len(s) + Len(t)) :
        (s \o t)[i] = IF i <= Len(s) THEN s[i] ELSE t[i - Len(s)]
  BY ConcatProperties
<1>3. \A x \in Elems(s \o t) : x \in Elems(s) \cup Elems(t)
  BY <1>1, <1>2 DEF Elems
<1>4. \A x \in Elems(s) : x \in Elems(s \o t)
  BY <1>1, <1>2 DEF Elems
<1>5. \A x \in Elems(t) : x \in Elems(s \o t)
  <2>. SUFFICES ASSUME NEW j \in 1..Len(t)
                PROVE  t[j] \in Elems(s \o t)
    BY <1>1 DEF Elems
  <2>1. /\ j + Len(s) \in 1..(Len(s) + Len(t))
        /\ ~(j + Len(s) <= Len(s))
        /\ (j + Len(s)) - Len(s) = j
    BY <1>1
  <2>2. (s \o t)[j + Len(s)] = t[j]
    BY <2>1, <1>2
  <2>. QED
    BY <2>1, <2>2, <1>1 DEF Elems
<1>. QED
  BY <1>3, <1>4, <1>5

LEMMA ElemsTail ==
  ASSUME NEW S, NEW s \in Seq(S), s # <<>>
  PROVE  Elems(s) = {Head(s)} \cup Elems(Tail(s))
<1>1. /\ Len(s) \in Nat \ {0}
      /\ DOMAIN s = 1..Len(s)
      /\ Tail(s) \in Seq(S)
      /\ Len(Tail(s)) = Len(s) - 1
      /\ DOMAIN Tail(s) = 1..(Len(s) - 1)
      /\ Head(s) = s[1]
  BY EmptySeq, LenProperties, HeadTailProperties
<1>2. \A i \in 1..(Len(s) - 1) : Tail(s)[i] = s[i + 1]
  BY <1>1, HeadTailProperties
<1>3. \A x \in Elems(s) : x = s[1] \/ x \in Elems(Tail(s))
  <2>. SUFFICES ASSUME NEW i \in 1..Len(s), i # 1
                PROVE  s[i] \in Elems(Tail(s))
    BY <1>1 DEF Elems
  <2>1. i - 1 \in 1..(Len(s) - 1) /\ (i - 1) + 1 = i
    BY <1>1
  <2>2. Tail(s)[i - 1] = s[i]
    BY <2>1, <1>2
  <2>. QED
    BY <2>1, <2>2, <1>1 DEF Elems
<1>4. \A x \in Elems(Tail(s)) : x \in Elems(s)
  BY <1>1, <1>2 DEF Elems
<1>5. s[1] \in Elems(s)
  BY <1>1 DEF Elems
<1>. QED
  BY <1>1, <1>3, <1>4, <1>5

(* Sequences of numbers in ascending order. *)
Ascending(s) == \A i, j \in DOMAIN s : i < j => s[i] < s[j]

LEMMA EmptyAscending == Ascending(<<>>) /\ Elems(<<>>) = {}
<1>1. Len(<<>>) = 0 /\ DOMAIN <<>> = {}
  OBVIOUS
<1>. QED
  BY <1>1 DEF Ascending, Elems

LEMMA SeqsAreNat == ASSUME MaxSeq \in Nat, NEW s \in Seq(1..MaxSeq)
                    PROVE  s \in Seq(Nat)
<1>1. 1..MaxSeq \subseteq Nat
  OBVIOUS
<1>2. \A i \in 1..Len(s) : s[i] \in Nat
  BY <1>1, ElementOfSeq
<1>. QED
  BY <1>2, LenProperties, SeqDef

LEMMA AscendingAppend ==
  ASSUME NEW s \in Seq(Nat), NEW n \in Nat, Ascending(s),
         \A x \in Elems(s) : x < n
  PROVE  Ascending(Append(s, n))
<1>1. /\ Len(s) \in Nat
      /\ DOMAIN s = 1..Len(s)
      /\ DOMAIN Append(s, n) = 1..(Len(s) + 1)
      /\ \A i \in 1..Len(s) : Append(s, n)[i] = s[i]
      /\ Append(s, n)[Len(s) + 1] = n
  BY AppendProperties, LenProperties
<1>2. \A i \in 1..Len(s) : s[i] < n
  BY <1>1 DEF Elems
<1>. SUFFICES ASSUME NEW i \in 1..(Len(s) + 1), NEW j \in 1..(Len(s) + 1), i < j
              PROVE  Append(s, n)[i] < Append(s, n)[j]
  BY <1>1 DEF Ascending
<1>3. i \in 1..Len(s)
  BY <1>1
<1>4. CASE j \in 1..Len(s)
  <2>1. s[i] < s[j]
    BY <1>1, <1>3, <1>4 DEF Ascending
  <2>. QED
    BY <1>1, <1>3, <1>4, <2>1
<1>5. CASE j = Len(s) + 1
  BY <1>1, <1>2, <1>3, <1>5
<1>. QED
  BY <1>1, <1>4, <1>5

(* Sequences in which the members of P come after everything smaller.       *)
LEMMA OrderedConcat ==
  ASSUME NEW s \in Seq(Nat), NEW t \in Seq(Nat), NEW P,
         \A i, j \in DOMAIN s : i < j /\ s[j] \in P => s[i] < s[j],
         \A i, j \in DOMAIN t : i < j => t[i] < t[j],
         \A x \in Elems(s) : \A y \in Elems(t) : y \in P => x < y
  PROVE  \A i, j \in DOMAIN (s \o t) :
           i < j /\ (s \o t)[j] \in P => (s \o t)[i] < (s \o t)[j]
<1>1. /\ Len(s) \in Nat /\ Len(t) \in Nat
      /\ DOMAIN s = 1..Len(s)
      /\ DOMAIN t = 1..Len(t)
      /\ DOMAIN (s \o t) = 1..(Len(s) + Len(t))
      /\ \A i \in 1..(Len(s) + Len(t)) :
           (s \o t)[i] = IF i <= Len(s) THEN s[i] ELSE t[i - Len(s)]
  BY ConcatProperties, LenProperties
<1>. SUFFICES ASSUME NEW i \in 1..(Len(s) + Len(t)),
                     NEW j \in 1..(Len(s) + Len(t)), i < j,
                     (s \o t)[j] \in P
              PROVE  (s \o t)[i] < (s \o t)[j]
  BY <1>1
<1>2. CASE j <= Len(s)
  <2>1. i \in 1..Len(s) /\ j \in 1..Len(s)
    BY <1>1, <1>2
  <2>2. s[i] < s[j]
    BY <1>1, <1>2, <2>1
  <2>. QED
    BY <1>1, <1>2, <2>1, <2>2
<1>3. CASE i <= Len(s) /\ ~(j <= Len(s))
  <2>1. i \in 1..Len(s) /\ j - Len(s) \in 1..Len(t)
    BY <1>1, <1>3
  <2>2. s[i] \in Elems(s) /\ t[j - Len(s)] \in Elems(t)
    BY <1>1, <2>1 DEF Elems
  <2>3. s[i] < t[j - Len(s)]
    BY <1>1, <1>3, <2>2
  <2>. QED
    BY <1>1, <1>3, <2>3
<1>4. CASE ~(i <= Len(s))
  <2>1. /\ i - Len(s) \in 1..Len(t)
        /\ j - Len(s) \in 1..Len(t)
        /\ i - Len(s) < j - Len(s)
        /\ ~(j <= Len(s))
    BY <1>1, <1>4
  <2>2. t[i - Len(s)] < t[j - Len(s)]
    BY <1>1, <2>1
  <2>. QED
    BY <1>1, <1>4, <2>1, <2>2
<1>. QED
  BY <1>1, <1>2, <1>3, <1>4

LEMMA AscendingLast ==
  ASSUME NEW s \in Seq(Nat), Ascending(s), s # <<>>
  PROVE  \A x \in Elems(s) : x <= s[Len(s)]
<1>1. /\ Len(s) \in Nat \ {0}
      /\ DOMAIN s = 1..Len(s)
      /\ \A i \in 1..Len(s) : s[i] \in Nat
  BY EmptySeq, LenProperties, ElementOfSeq
<1>. SUFFICES ASSUME NEW i \in 1..Len(s)
              PROVE  s[i] <= s[Len(s)]
  BY <1>1 DEF Elems
<1>. DEFINE n == Len(s)
<1>2. n \in 1..n /\ (i = n \/ i < n)
  <2>1. n \in Nat \ {0} /\ i \in 1..n
    BY <1>1
  <2>. HIDE DEF n
  <2>. QED
    BY <2>1
<1>3. s[i] = s[Len(s)] \/ s[i] < s[Len(s)]
  BY <1>1, <1>2 DEF Ascending
<1>4. s[i] \in Nat /\ s[Len(s)] \in Nat
  BY <1>1, <1>2
<1>. QED
  BY <1>3, <1>4

-----------------------------------------------------------------------------
(* Type correctness *)

LEMMA InitTypeOK == Init => TypeOK
<1>1. <<>> \in Seq(1..MaxSeq)
  BY EmptySeq
<1>. SUFFICES ASSUME Init PROVE TypeOK
  OBVIOUS
<1>2. linked \in BOOLEAN /\ more \in BOOLEAN
  BY Zenon DEF Init, LogInit
<1>3. LogTypeOK
  BY <1>1, <1>2, LogAssumption DEF Init, LogInit, LogTypeOK, Seqs
<1>. QED
  BY <1>1, <1>2, <1>3, LogAssumption, ListenerAssumption
  DEF Init, TypeOK, Phases, Seqs

(* Every variable of the outbox and the listener keeps its type; the rows  *)
(* in the table are committed ones.                                         *)
THEOREM TypeCorrect == Spec => []TypeOK
<1>1. Init => TypeOK
  BY InitTypeOK
<1>2. TypeOK /\ [Next]_vars => TypeOK'
  <2>. SUFFICES ASSUME TypeOK, [Next]_vars
                PROVE  TypeOK'
    OBVIOUS
  <2>. USE LogAssumption, ListenerAssumption DEF TypeOK, LogTypeOK, Phases, Seqs
  <2>1. CASE DatabaseStep
    <3>1. committed \subseteq committed' /\ UNCHANGED listenerVars
      BY <2>1
      DEF DatabaseStep, AppendEventTx, CommitTx, RollbackTx, PruneWorkspaceEvents
    <3>2. overtaken' \subseteq committed' /\ unfetched' \subseteq committed'
      BY <2>1, <3>1 DEF DatabaseStep
    <3>3. ASSUME NEW w \in Writer, AppendEventTx(w)
          PROVE  LogTypeOK'
      <4>1. Append(tx[w], lastSeq + 1) \in Seq(1..MaxSeq)
        BY <3>3, AppendProperties DEF AppendEventTx
      <4>. QED
        BY <3>3, <4>1 DEF AppendEventTx
    <3>4. ASSUME NEW w \in Writer, CommitTx(w)
          PROVE  LogTypeOK'
      <4>1. Elems(tx[w]) \subseteq 1..MaxSeq
        BY ElemsType
      <4>2. wire' \in Seq(1..MaxSeq)
        BY <3>4, ConcatProperties DEF CommitTx
      <4>3. tx' \in [Writer -> Seq(1..MaxSeq)]
        BY <3>4, EmptySeq DEF CommitTx
      <4>. QED
        BY <3>4, <4>1, <4>2, <4>3 DEF CommitTx
    <3>5. ASSUME NEW w \in Writer, RollbackTx(w)
          PROVE  LogTypeOK'
      BY <3>5, EmptySeq DEF RollbackTx
    <3>6. ASSUME NEW k \in Seqs, PruneWorkspaceEvents(k)
          PROVE  LogTypeOK'
      BY <3>6 DEF PruneWorkspaceEvents
    <3>7. LogTypeOK'
      BY <2>1, <3>3, <3>4, <3>5, <3>6, Zenon DEF DatabaseStep
    <3>. HIDE DEF LogTypeOK
    <3>. QED
      BY <3>1, <3>2, <3>7 DEF listenerVars
  <2>2. CASE Connect
    BY <2>2, EmptySeq DEF Connect, ForgiveAbove
  <2>3. CASE CatchUpQuery /\ UNCHANGED historyVars
    BY <2>3 DEF historyVars, CatchUpQuery, IsPage, RowsAfter, logVars
  <2>4. CASE CatchUpPublish /\ UNCHANGED historyVars
    <3>1. PICK seq \in page : /\ published' = Append(published, seq)
                              /\ lastDelivered' = seq
                              /\ page' = page \ {seq}
      BY <2>4 DEF CatchUpPublish, Oldest
    <3>2. published' \in Seq(1..MaxSeq)
      BY <3>1, AppendProperties
    <3>. QED
      BY <2>4, <3>1, <3>2 DEF CatchUpPublish, logVars, historyVars
  <2>5. CASE SkipNotification /\ UNCHANGED historyVars
    BY <2>5, HeadTailProperties DEF SkipNotification, listenerVars, historyVars
  <2>6. CASE DeliverNotification /\ UNCHANGED historyVars
    <3>1. Head(wire) \in 1..MaxSeq /\ Tail(wire) \in Seq(1..MaxSeq)
      BY <2>6, HeadTailProperties DEF DeliverNotification
    <3>2. Append(published, Head(wire)) \in Seq(1..MaxSeq)
      BY <3>1, AppendProperties
    <3>. QED
      BY <2>6, <3>1, <3>2 DEF DeliverNotification, historyVars
  <2>7. CASE FailFetch
    BY <2>7, HeadTailProperties DEF FailFetch, listenerVars
  <2>8. CASE NoticeLoss /\ UNCHANGED historyVars
    BY <2>8, EmptySeq DEF NoticeLoss, historyVars
  <2>9. CASE LoseConnection
    <3>1. linked' \in BOOLEAN
      BY <2>9, Zenon DEF LoseConnection
    <3>. QED
      BY <2>9, <3>1 DEF LoseConnection, historyVars
  <2>10. CASE Restart
    <3>1. linked' \in BOOLEAN /\ more' \in BOOLEAN
      BY <2>10, Zenon DEF Restart
    <3>. QED
      BY <2>10, <3>1, EmptySeq DEF Restart
  <2>11. CASE UNCHANGED vars
    BY <2>11 DEF vars, logVars, listenerVars, historyVars
  <2>. QED
    BY <2>1, <2>2, <2>3, <2>4, <2>5, <2>6, <2>7, <2>8, <2>9, <2>10, <2>11,
       Zenon
    DEF Next, ListenerStep
<1>. QED
  BY <1>1, <1>2, PTL DEF Spec

-----------------------------------------------------------------------------
(* The published stream, whatever the order of commits *)

(* What makes the stream ascending: besides being exactly the published     *)
(* maximum, lastDelivered stays below every row of the page at hand, and    *)
(* rows are at hand only while a page is being published.                   *)
PageAhead ==
  /\ \A s \in page : s > lastDelivered
  /\ page # {} <=> phase = "page"

StreamInv ==
  /\ TypeOK
  /\ PublishedAscending
  /\ DeliveredIsPublished
  /\ PageAhead

(* Publishing an event above lastDelivered keeps the stream in order. *)
LEMMA PublishAbove ==
  ASSUME TypeOK, PublishedAscending, DeliveredIsPublished,
         NEW e \in Seqs, e > lastDelivered,
         published' = Append(published, e), lastDelivered' = e
  PROVE  PublishedAscending' /\ DeliveredIsPublished'
<1>. USE DEF TypeOK, Seqs
<1>1. /\ Len(published) \in Nat
      /\ DOMAIN published = 1..Len(published)
      /\ \A i \in 1..Len(published) : published[i] \in 1..MaxSeq
  BY LenProperties, ElementOfSeq
<1>2. /\ published' # <<>>
      /\ Len(published') = Len(published) + 1
      /\ DOMAIN published' = 1..(Len(published) + 1)
      /\ \A i \in 1..Len(published) : published'[i] = published[i]
      /\ published'[Len(published) + 1] = e
  BY AppendProperties, LenProperties
<1>3. \A i \in 1..Len(published) : published[i] <= lastDelivered
  <2>. SUFFICES ASSUME NEW i \in 1..Len(published)
                PROVE  published[i] <= lastDelivered
    OBVIOUS
  <2>1. published # <<>> /\ published[i] \in Elems(published)
    BY <1>1, EmptySeq DEF Elems
  <2>2. lastDelivered = published[Len(published)]
    BY <2>1 DEF DeliveredIsPublished
  <2>3. published \in Seq(Nat) /\ Ascending(published)
    BY SeqsAreNat, LogAssumption DEF PublishedAscending, Ascending
  <2>. QED
    BY <2>1, <2>2, <2>3, AscendingLast
<1>4. PublishedAscending'
  BY <1>1, <1>2, <1>3, LogAssumption DEF PublishedAscending
<1>5. DeliveredIsPublished'
  BY <1>2 DEF DeliveredIsPublished
<1>. QED
  BY <1>4, <1>5

LEMMA StreamInductive == StreamInv /\ TypeOK' /\ [Next]_vars => StreamInv'
<1>. SUFFICES ASSUME StreamInv, TypeOK', [Next]_vars
              PROVE  StreamInv'
  OBVIOUS
<1>. USE DEF StreamInv
<1>1. CASE DatabaseStep
  BY <1>1 DEF DatabaseStep, listenerVars, PublishedAscending,
              DeliveredIsPublished, PageAhead
<1>2. CASE Connect
  BY <1>2 DEF Connect, PublishedAscending, DeliveredIsPublished, PageAhead
<1>3. CASE CatchUpQuery
  BY <1>3 DEF CatchUpQuery, IsPage, RowsAfter, PublishedAscending,
              DeliveredIsPublished, PageAhead
<1>4. CASE CatchUpPublish
  <2>1. PICK seq \in Oldest(page) :
          /\ published' = Append(published, seq)
          /\ lastDelivered' = seq
          /\ page' = page \ {seq}
          /\ phase' = IF page' # {} THEN "page"
                      ELSE IF more THEN "query" ELSE "notified"
    BY <1>4 DEF CatchUpPublish
  <2>2. seq \in Seqs /\ seq > lastDelivered
    BY <2>1 DEF Oldest, PageAhead, TypeOK, LogTypeOK
  <2>3. PublishedAscending' /\ DeliveredIsPublished'
    BY <2>1, <2>2, PublishAbove
  <2>4. \A s \in page' : s > seq
    BY <2>1 DEF Oldest, TypeOK, LogTypeOK, Seqs
  <2>5. page' # {} <=> phase' = "page"
    BY <2>1
  <2>. QED
    BY <2>1, <2>3, <2>4, <2>5 DEF PageAhead
<1>5. CASE SkipNotification
  BY <1>5 DEF SkipNotification, listenerVars, PublishedAscending,
              DeliveredIsPublished, PageAhead
<1>6. CASE DeliverNotification
  <2>1. Head(wire) \in Seqs
    BY <1>6, HeadTailProperties DEF DeliverNotification, TypeOK, LogTypeOK
  <2>2. PublishedAscending' /\ DeliveredIsPublished'
    BY <1>6, <2>1, PublishAbove DEF DeliverNotification
  <2>3. PageAhead'
    BY <1>6 DEF DeliverNotification, PageAhead
  <2>. QED
    BY <2>2, <2>3
<1>7. CASE FailFetch
  BY <1>7 DEF FailFetch, listenerVars, PublishedAscending,
              DeliveredIsPublished, PageAhead
<1>8. CASE NoticeLoss
  BY <1>8 DEF NoticeLoss, PublishedAscending, DeliveredIsPublished, PageAhead
<1>9. CASE LoseConnection
  BY <1>9 DEF LoseConnection, PublishedAscending, DeliveredIsPublished,
              PageAhead
<1>10. CASE Restart
  BY <1>10 DEF Restart, PublishedAscending, DeliveredIsPublished, PageAhead
<1>11. CASE UNCHANGED vars
  BY <1>11 DEF vars, listenerVars, PublishedAscending, DeliveredIsPublished,
               PageAhead
<1>. QED
  BY <1>1, <1>2, <1>3, <1>4, <1>5, <1>6, <1>7, <1>8, <1>9, <1>10, <1>11
  DEF Next, ListenerStep

LEMMA StreamInvariant == Spec => []StreamInv
<1>1. Init => StreamInv
  BY InitTypeOK
  DEF Init, StreamInv, PublishedAscending, DeliveredIsPublished, PageAhead
<1>. QED
  BY <1>1, TypeCorrect, StreamInductive, PTL DEF Spec

(* For any number of concurrent writers: the Bus never sees an event twice  *)
(* or after a later one.                                                    *)
THEOREM StreamIsAscending == Spec => []PublishedAscending
<1>1. StreamInv => PublishedAscending
  BY DEF StreamInv
<1>. QED
  BY <1>1, StreamInvariant, PTL

(* lastDelivered neither runs ahead of what was published nor falls behind   *)
(* it, through failed fetches, catch-up pages, reconnects and restarts.      *)
THEOREM NothingCountedUnpublished == Spec => []DeliveredIsPublished
<1>1. StreamInv => DeliveredIsPublished
  BY DEF StreamInv
<1>. QED
  BY <1>1, StreamInvariant, PTL

-----------------------------------------------------------------------------
(* Whatever the writers do, an idle listener has nothing left to learn *)

(* Once the last catch-up page has been read, a row above lastDelivered is  *)
(* on that page, or its notification is on the connection, or its own fetch *)
(* has failed.                                                              *)
NothingLeft ==
  /\ phase # "page" => page = {}
  /\ linked /\ (phase = "notified" \/ (phase = "page" /\ ~more)) =>
       \A s \in retained \ unfetched :
         s <= lastDelivered \/ s \in page \/ s \in Elems(wire)

LEMMA DatabaseLeavesNothing ==
  ASSUME TypeOK, NothingLeft, DatabaseStep
  PROVE  NothingLeft'
<1>1. ASSUME NEW w \in Writer, CommitTx(w), UNCHANGED <<listenerVars, unfetched>>
      PROVE  NothingLeft'
  <2>1. wire \in Seq(Seqs) /\ tx[w] \in Seq(Seqs)
    BY DEF TypeOK, LogTypeOK
  <2>2. Elems(wire \o tx[w]) = Elems(wire) \cup Elems(tx[w])
    BY <2>1, ElemsConcat
  <2>. QED
    BY <1>1, <2>2 DEF CommitTx, listenerVars, NothingLeft
<1>2. CASE (\E w \in Writer : AppendEventTx(w) \/ RollbackTx(w)) /\ UNCHANGED <<listenerVars, unfetched>>
  BY <1>2 DEF AppendEventTx, RollbackTx, listenerVars, NothingLeft
<1>3. CASE (\E k \in Seqs : PruneWorkspaceEvents(k)) /\ UNCHANGED <<listenerVars, unfetched>>
  BY <1>3 DEF PruneWorkspaceEvents, listenerVars, NothingLeft
<1>. QED
  BY <1>1, <1>2, <1>3 DEF DatabaseStep

LEMMA ListenerLeavesNothing ==
  ASSUME StreamInv, TypeOK, NothingLeft, ListenerStep
  PROVE  NothingLeft'
<1>1. CASE Connect
  BY <1>1 DEF Connect, NothingLeft
<1>2. CASE CatchUpQuery /\ UNCHANGED historyVars
  <2>1. PICK rows \in SUBSET RowsAfter(lastDelivered) :
          /\ IsPage(rows, lastDelivered, CatchUpBatch)
          /\ page' = rows
          /\ more' = (Cardinality(rows) = CatchUpBatch)
          /\ phase' = IF rows = {} THEN "notified" ELSE "page"
    BY <1>2 DEF CatchUpQuery
  <2>2. rows = {} => Cardinality(rows) # CatchUpBatch
    BY FS_EmptySet, ListenerAssumption
  <2>3. ~more' => rows = RowsAfter(lastDelivered)
    BY <2>1 DEF IsPage
  <2>4. phase' = "notified" => rows = RowsAfter(lastDelivered)
    BY <2>1, <2>2, <2>3
  <2>5. lastDelivered \in Int /\ \A s \in retained : s \in Int
    BY LogAssumption DEF TypeOK, LogTypeOK, Seqs
  <2>6. \A s \in retained : s <= lastDelivered \/ s \in RowsAfter(lastDelivered)
    BY <2>5 DEF RowsAfter
  <2>. QED
    BY <1>2, <2>1, <2>3, <2>4, <2>6 DEF CatchUpQuery, logVars, historyVars, NothingLeft
<1>3. CASE CatchUpPublish /\ UNCHANGED historyVars
  <2>1. PICK seq \in Oldest(page) :
          /\ lastDelivered' = seq /\ page' = page \ {seq}
          /\ phase' = IF page' # {} THEN "page" ELSE IF more THEN "query" ELSE "notified"
    BY <1>3 DEF CatchUpPublish
  <2>2. /\ phase = "page" /\ UNCHANGED <<retained, unfetched, wire, linked, more>>
        /\ page \subseteq 1..MaxSeq /\ seq \in page
    BY <1>3, <2>1 DEF CatchUpPublish, logVars, historyVars, Oldest, TypeOK, LogTypeOK, Seqs
  <2>3. \A s \in retained : s <= lastDelivered => s <= seq
    <3>1. lastDelivered < seq /\ lastDelivered \in Int /\ seq \in Int
      BY <2>2, LogAssumption DEF StreamInv, PageAhead, TypeOK
    <3>2. \A s \in retained : s \in Int
      BY LogAssumption DEF TypeOK, LogTypeOK, Seqs
    <3>. QED
      BY <3>1, <3>2
  <2>4. /\ retained' = retained /\ wire' = wire /\ linked' = linked /\ more' = more
        /\ lastDelivered' = seq /\ unfetched' = unfetched
    BY <2>1, <2>2
  <2>5. ASSUME linked', phase' = "notified" \/ (phase' = "page" /\ ~more')
        PROVE  \A s \in retained \ unfetched :
                 s <= lastDelivered \/ s \in page \/ s \in Elems(wire)
    <3>1. linked /\ ~more
      BY <2>1, <2>4, <2>5
    <3>. QED
      BY <2>2, <3>1 DEF NothingLeft
  <2>6. ASSUME linked', phase' = "notified" \/ (phase' = "page" /\ ~more'), 
               NEW s \in (retained \ unfetched)'
        PROVE  s <= lastDelivered' \/ s \in page' \/ s \in Elems(wire')
    <3>1. s \in retained /\ s \notin unfetched /\ seq <= seq
      BY <2>2, <2>4, <2>6
    <3>2. s <= seq \/ s \in page' \/ s \in Elems(wire)
      BY <2>1, <2>3, <2>5, <2>6, <3>1
    <3>. QED
      BY <2>4, <3>2
  <2>7. phase' # "page" => page' = {}
    BY <2>1
  <2>. QED
    BY <2>6, <2>7 DEF NothingLeft
<1>4. CASE \/ (SkipNotification \/ DeliverNotification) /\ UNCHANGED historyVars
           \/ FailFetch
  <2>1. /\ phase = "notified" /\ wire # <<>> /\ wire' = Tail(wire)
        /\ UNCHANGED <<retained, linked, phase, page, more>>
        /\ unfetched \subseteq unfetched'
    BY <1>4
    DEF SkipNotification, DeliverNotification, FailFetch, listenerVars, historyVars
  <2>2. /\ Head(wire) \in retained \ unfetched' => Head(wire) <= lastDelivered'
        /\ lastDelivered <= lastDelivered'
    <3>1. lastDelivered \in Int
      BY LogAssumption DEF TypeOK
    <3>2. CASE SkipNotification
      BY <3>1, <3>2 DEF SkipNotification, listenerVars
    <3>3. CASE DeliverNotification
      <4>1. Head(wire) \in Int
        BY <3>3, LogAssumption DEF DeliverNotification, TypeOK, LogTypeOK, Seqs
      <4>. QED
        BY <3>1, <3>3, <4>1 DEF DeliverNotification
    <3>4. CASE FailFetch
      BY <3>1, <3>4 DEF FailFetch, listenerVars
    <3>. QED
      BY <1>4, <3>2, <3>3, <3>4
  <2>3. wire \in Seq(Seqs)
    BY DEF TypeOK, LogTypeOK
  <2>4. Elems(wire) = {Head(wire)} \cup Elems(Tail(wire))
    BY <2>1, <2>3, ElemsTail
  <2>5. page = {}
    BY <2>1 DEF NothingLeft
  <2>6. lastDelivered' \in Int /\ lastDelivered \in Int /\ \A s \in retained : s \in Int
    <3>1. lastDelivered \in Int /\ \A s \in retained : s \in Int
      BY LogAssumption DEF TypeOK, LogTypeOK, Seqs
    <3>2. lastDelivered' = lastDelivered \/ (lastDelivered' = Head(wire) /\ Head(wire) \in retained)
      BY <1>4 DEF SkipNotification, DeliverNotification, FailFetch, listenerVars
    <3>. QED
      BY <3>1, <3>2
  <2>. QED
    BY <2>1, <2>2, <2>4, <2>5, <2>6 DEF NothingLeft
<1>5. CASE NoticeLoss /\ UNCHANGED historyVars
  BY <1>5 DEF NoticeLoss, NothingLeft
<1>. QED
  BY <1>1, <1>2, <1>3, <1>4, <1>5 DEF ListenerStep

(* Nothing stored is above the lastDelivered of an idle listener, whatever   *)
(* the writers do and whatever fetches fail, but for a row whose own fetch   *)
(* failed since the last catch-up.                                          *)
THEOREM IdleHasNothingLeft == Spec => []IdleIsCaughtUp
<1>1. Init => NothingLeft
  BY DEF Init, NothingLeft
<1>2. TypeOK /\ StreamInv /\ NothingLeft /\ [Next]_vars => NothingLeft'
  <2>. SUFFICES ASSUME TypeOK, StreamInv, NothingLeft, [Next]_vars
                PROVE  NothingLeft'
    OBVIOUS
  <2>1. CASE DatabaseStep
    BY <2>1, DatabaseLeavesNothing
  <2>2. CASE ListenerStep
    BY <2>2, ListenerLeavesNothing
  <2>3. CASE LoseConnection \/ Restart
    BY <2>3 DEF LoseConnection, Restart, historyVars, NothingLeft
  <2>4. CASE UNCHANGED vars
    BY <2>4 DEF vars, logVars, listenerVars, historyVars, NothingLeft
  <2>. QED
    BY <2>1, <2>2, <2>3, <2>4 DEF Next
<1>3. NothingLeft => IdleIsCaughtUp
  <2>1. Elems(<<>>) = {}
    BY EmptyAscending
  <2>. QED
    BY <2>1 DEF NothingLeft, IdleIsCaughtUp
<1>. QED
  BY <1>1, <1>2, <1>3, TypeCorrect, StreamInvariant, PTL DEF Spec

-----------------------------------------------------------------------------
(* Nothing but excused rows is passed over *)

(* Rows the listener owes: stored, committed in the order of their numbers, *)
(* and not let go by a failed fetch.                                        *)
Owed == retained \ Excused

(* The numbers open transactions hold are ascending, drawn, not committed   *)
(* and nobody else's.                                                       *)
TxFresh ==
  \A w \in Writer :
    /\ Ascending(tx[w])
    /\ \A n \in Elems(tx[w]) : n <= lastSeq /\ n \notin committed
    /\ \A v \in Writer : v # w => Elems(tx[v]) \cap Elems(tx[w]) = {}

(* A row is announced after every older one, unless it is excused. *)
OwedInOrder(s) ==
  \A i, j \in DOMAIN s : i < j /\ s[j] \in Owed => s[i] < s[j]

(* What is announced and published is committed, and so is lastDelivered.   *)
WireInOrder ==
  /\ OwedInOrder(wire)
  /\ \A s \in committed : s <= lastSeq
  /\ Elems(wire) \subseteq committed
  /\ Elems(published) \subseteq committed
  /\ lastDelivered \in committed \cup {0}

(* The row s is announced on this connection, or it was committed after the *)
(* connection broke.                                                        *)
Announced(s) ==
  \/ s \in Elems(wire)
  \/ ~linked /\ \A t \in Elems(wire) : t < s

(* Once the last catch-up page has been read, every row still owed is on    *)
(* that page or announced.                                                  *)
CaughtUp ==
  (phase = "notified" \/ (phase = "page" /\ ~more)) =>
    \A s \in Owed : s <= lastDelivered \/ s \in page \/ Announced(s)

(* No row that is owed hides between lastDelivered and a row of the page. *)
PageClosed ==
  \A p \in page : \A s \in Owed : lastDelivered < s /\ s < p => s \in page

NoSkipInv ==
  /\ StreamInv
  /\ TxFresh
  /\ WireInOrder
  /\ CaughtUp
  /\ PageClosed
  /\ OnlyExcusedAreSkipped

(* A step that neither commits nor forgives only takes rows from Owed, and  *)
(* what the invariant says of the others stays.                             *)
LEMMA OwedShrinks ==
  ASSUME NoSkipInv, Owed' \subseteq Owed,
         UNCHANGED <<lastSeq, committed, linked, wire, listenerVars>>
  PROVE  WireInOrder' /\ CaughtUp' /\ PageClosed' /\ OnlyExcusedAreSkipped'
BY DEF NoSkipInv, WireInOrder, OwedInOrder, CaughtUp, Announced, PageClosed,
       OnlyExcusedAreSkipped, Owed, listenerVars

LEMMA AppendKeepsFresh ==
  ASSUME NoSkipInv, NEW w \in Writer, AppendEventTx(w)
  PROVE  TxFresh'
<1>. USE DEF NoSkipInv, StreamInv, TypeOK, LogTypeOK, Seqs
<1>1. /\ tx[w] \in Seq(1..MaxSeq) /\ tx[w] \in Seq(Nat)
      /\ lastSeq \in Nat /\ lastSeq + 1 \in 1..MaxSeq
      /\ tx'[w] = Append(tx[w], lastSeq + 1)
      /\ \A v \in Writer : v # w => tx'[v] = tx[v]
      /\ lastSeq' = lastSeq + 1 /\ committed' = committed
  BY LogAssumption, SeqsAreNat DEF AppendEventTx
<1>2. \A v \in Writer : Elems(tx[v]) \subseteq 1..MaxSeq
  BY ElemsType
<1>3. \A v \in Writer : \A n \in Elems(tx[v]) : n < lastSeq + 1
  BY <1>1, <1>2 DEF TxFresh
<1>4. Ascending(tx'[w])
  BY <1>1, <1>3, AscendingAppend DEF TxFresh
<1>5. Elems(tx'[w]) = Elems(tx[w]) \cup {lastSeq + 1}
  BY <1>1, ElemsAppend
<1>6. lastSeq + 1 \notin committed
  BY <1>1 DEF WireInOrder
<1>7. \A v \in Writer : \A n \in Elems(tx'[v]) : n <= lastSeq' /\ n \notin committed'
  <2>. SUFFICES ASSUME NEW v \in Writer, NEW n \in Elems(tx'[v])
                PROVE  n <= lastSeq' /\ n \notin committed'
    OBVIOUS
  <2>1. CASE n \in Elems(tx[v])
    <3>1. n \in Nat /\ n < lastSeq + 1 /\ n \notin committed
      BY <1>2, <1>3, <2>1 DEF TxFresh
    <3>. QED
      BY <1>1, <3>1
  <2>2. CASE n = lastSeq + 1
    BY <1>1, <1>6, <2>2
  <2>. QED
    BY <1>1, <1>5, <2>1, <2>2
<1>8. \A v, u \in Writer : v # u => Elems(tx'[v]) \cap Elems(tx'[u]) = {}
  <2>1. \A v \in Writer : v # w => lastSeq + 1 \notin Elems(tx[v])
    BY <1>1, <1>3
  <2>2. \A v \in Writer : v # w => Elems(tx'[v]) = Elems(tx[v])
    BY <1>1
  <2>3. \A v, u \in Writer : v # u => Elems(tx[v]) \cap Elems(tx[u]) = {}
    BY DEF TxFresh
  <2>4. \A v \in Writer : v # w => Elems(tx'[v]) \cap Elems(tx'[w]) = {}
    BY <1>5, <2>1, <2>2, <2>3, Zenon
  <2>. QED
    BY <2>2, <2>3, <2>4, Zenon
<1>9. \A v \in Writer : Ascending(tx'[v])
  BY <1>1, <1>4 DEF TxFresh
<1>. QED
  BY <1>7, <1>8, <1>9, Zenon DEF TxFresh

(* A commit: the new rows that are owed are newer than all that was         *)
(* committed before, so they follow whatever is announced.                  *)
LEMMA CommitKeepsNoSkip ==
  ASSUME NoSkipInv, NEW w \in Writer, CommitTx(w), DatabaseStep, StreamInv'
  PROVE  NoSkipInv'
<1>. USE DEF NoSkipInv, StreamInv, TypeOK, LogTypeOK, Seqs
<1>. DEFINE new == Elems(tx[w])
<1>1. /\ tx[w] \in Seq(1..MaxSeq) /\ tx[w] \in Seq(Nat)
      /\ wire \in Seq(1..MaxSeq) /\ wire \in Seq(Nat)
      /\ new \subseteq 1..MaxSeq
      /\ committed' = committed \cup new
      /\ retained' = retained \cup new
      /\ linked' = linked /\ lastSeq' = lastSeq
      /\ UNCHANGED <<listenerVars, unfetched>>
  BY ElemsType, SeqsAreNat, LogAssumption DEF CommitTx, DatabaseStep
<1>2. \A n \in new : n <= lastSeq /\ n \notin committed
  BY DEF TxFresh
<1>3. /\ committed' \subseteq 1..MaxSeq /\ committed \subseteq 1..MaxSeq
      /\ page \subseteq committed
      /\ lastDelivered \in Nat /\ lastSeq \in Nat
      /\ lastDelivered \in committed \cup {0}
  <2>1. committed \subseteq 1..MaxSeq /\ page \subseteq committed
    OBVIOUS
  <2>2. committed' \subseteq 1..MaxSeq
    BY <1>1, <2>1
  <2>3. lastDelivered \in Nat /\ lastSeq \in Nat
    BY LogAssumption
  <2>. QED
    BY <2>1, <2>2, <2>3 DEF WireInOrder
<1>4. overtaken' = overtaken \cup {s \in new : \E t \in committed : t > s}
  BY <1>1, <1>2 DEF DatabaseStep
<1>5. \A n \in new \cap Owed' : \A t \in committed : t < n
  <2>. SUFFICES ASSUME NEW n \in new, n \in Owed', NEW t \in committed
                PROVE  t < n
    OBVIOUS
  <2>1. ~(t > n)
    BY <1>4 DEF Owed, Excused
  <2>. QED
    BY <1>1, <1>2, <1>3, <2>1
<1>6. Owed' \subseteq Owed \cup new
  BY <1>1, <1>4 DEF Owed, Excused
<1>7. wire' = IF linked THEN wire \o tx[w] ELSE wire
  BY DEF CommitTx
<1>8. Elems(wire') = IF linked THEN Elems(wire) \cup new ELSE Elems(wire)
  <2>1. Elems(wire \o tx[w]) = Elems(wire) \cup Elems(tx[w])
    BY <1>1, ElemsConcat
  <2>. QED
    BY <1>7, <2>1
<1>9. TxFresh'
  <2>1. tx'[w] = <<>> /\ \A v \in Writer : v # w => tx'[v] = tx[v]
    BY DEF CommitTx
  <2>2. Ascending(<<>>) /\ Elems(<<>>) = {}
    BY EmptyAscending
  <2>3. \A v \in Writer : v # w => Elems(tx[v]) \cap new = {}
    BY DEF TxFresh
  <2>. QED
    BY <1>1, <2>1, <2>2, <2>3 DEF TxFresh
<1>10. \A n \in Owed : n \notin new
  BY <1>2 DEF Owed
<1>11. OwedInOrder(wire)'
  <2>1. \A j \in DOMAIN wire : wire[j] \in committed /\ wire[j] \notin new
    BY <1>2 DEF WireInOrder, Elems
  <2>2. \A i, j \in DOMAIN wire : i < j /\ wire[j] \in Owed' => wire[i] < wire[j]
    BY <1>6, <2>1 DEF WireInOrder, OwedInOrder
  <2>3. CASE linked
    <3>. DEFINE u == tx[w]
    <3>1. \A i, j \in DOMAIN u : i < j => u[i] < u[j]
      BY DEF TxFresh, Ascending
    <3>2. \A x \in Elems(wire) : \A y \in Elems(u) : y \in Owed' => x < y
      BY <1>5 DEF WireInOrder
    <3>3. \A i, j \in DOMAIN (wire \o u) :
            i < j /\ (wire \o u)[j] \in Owed' => (wire \o u)[i] < (wire \o u)[j]
      <4>1. u \in Seq(Nat)
        BY <1>1
      <4>. HIDE DEF u
      <4>. QED
        BY <1>1, <2>2, <3>1, <3>2, <4>1, OrderedConcat
    <3>. QED
      BY <1>7, <2>3, <3>3 DEF OwedInOrder
  <2>4. CASE ~linked
    BY <1>7, <2>2, <2>4 DEF OwedInOrder
  <2>. QED
    BY <2>3, <2>4
<1>12. WireInOrder'
  BY <1>1, <1>2, <1>8, <1>11 DEF WireInOrder, listenerVars
<1>13. \A s \in Owed' : s \in new => Announced(s)'
  <2>1. \A s \in Owed' : s \in new => \A t \in Elems(wire) : t < s
    BY <1>5 DEF WireInOrder
  <2>. QED
    BY <1>1, <1>8, <2>1 DEF Announced
<1>14. \A s \in Owed : Announced(s) => Announced(s)'
  BY <1>1, <1>8 DEF Announced
<1>15. CaughtUp'
  BY <1>1, <1>6, <1>13, <1>14 DEF CaughtUp, listenerVars
<1>16. Owed' \subseteq 1..MaxSeq
  BY <1>1, <1>3 DEF Owed
<1>17. PageClosed'
  <2>. SUFFICES ASSUME NEW p \in page, NEW s \in Owed', lastDelivered < s, s < p
                PROVE  s \in page
    BY <1>1 DEF PageClosed, listenerVars
  <2>1. s \in Nat /\ p \in Nat /\ p \in committed
    BY <1>3, <1>16
  <2>2. s \notin new
    <3>1. s \in new => p < s
      BY <1>5, <2>1
    <3>. QED
      BY <2>1, <3>1
  <2>. QED
    BY <1>6, <2>2 DEF PageClosed
<1>18. OnlyExcusedAreSkipped'
  <2>. SUFFICES ASSUME NEW s \in Owed', s <= lastDelivered
                PROVE  s \in Elems(published)
    BY <1>1 DEF OnlyExcusedAreSkipped, Owed, listenerVars
  <2>1. s \notin new
    <3>1. s \in Nat /\ s > 0
      BY <1>16, LogAssumption
    <3>2. s \in new /\ lastDelivered \in committed => lastDelivered < s
      BY <1>5
    <3>. QED
      BY <1>3, <3>1, <3>2
  <2>. QED
    BY <1>6, <2>1 DEF OnlyExcusedAreSkipped, Owed
<1>. QED
  BY <1>9, <1>12, <1>15, <1>17, <1>18

LEMMA DatabaseKeepsNoSkip ==
  ASSUME NoSkipInv, DatabaseStep, StreamInv'
  PROVE  NoSkipInv'
<1>1. /\ UNCHANGED <<listenerVars, unfetched>>
      /\ overtaken \subseteq overtaken'
  BY DEF DatabaseStep
<1>2. ASSUME NEW w \in Writer, CommitTx(w)
      PROVE  NoSkipInv'
  BY <1>2, CommitKeepsNoSkip
<1>3. ASSUME NEW w \in Writer, AppendEventTx(w)
      PROVE  NoSkipInv'
  <2>1. TxFresh'
    BY <1>3, AppendKeepsFresh
  <2>2. /\ \A s \in committed' : s <= lastSeq'
        /\ UNCHANGED <<committed, retained, linked, wire>>
    BY <1>3, LogAssumption
    DEF AppendEventTx, NoSkipInv, WireInOrder, StreamInv, TypeOK, LogTypeOK, Seqs
  <2>3. Owed' \subseteq Owed
    BY <1>1, <2>2 DEF Owed, Excused
  <2>. QED
    BY <1>1, <2>1, <2>2, <2>3
    DEF NoSkipInv, WireInOrder, OwedInOrder, CaughtUp, Announced, PageClosed,
        OnlyExcusedAreSkipped, Owed, listenerVars
<1>4. ASSUME NEW w \in Writer, RollbackTx(w)
      PROVE  NoSkipInv'
  <2>1. \A v \in Writer : v # w => tx'[v] = tx[v]
    BY <1>4 DEF RollbackTx, NoSkipInv, StreamInv, TypeOK, LogTypeOK
  <2>2. Ascending(tx'[w]) /\ Elems(tx'[w]) = {}
    BY <1>4, EmptyAscending DEF RollbackTx, NoSkipInv, StreamInv, TypeOK, LogTypeOK
  <2>3. TxFresh'
    BY <1>4, <2>1, <2>2 DEF RollbackTx, NoSkipInv, TxFresh
  <2>4. UNCHANGED <<lastSeq, committed, retained, linked, wire>>
    BY <1>4 DEF RollbackTx
  <2>5. Owed' \subseteq Owed
    BY <1>1, <2>4 DEF Owed, Excused
  <2>. QED
    BY <1>1, <2>3, <2>4, <2>5, OwedShrinks DEF NoSkipInv
<1>5. ASSUME NEW k \in Seqs, PruneWorkspaceEvents(k)
      PROVE  NoSkipInv'
  <2>1. /\ UNCHANGED <<lastSeq, tx, committed, linked, wire>>
        /\ retained' \subseteq retained
    BY <1>5 DEF PruneWorkspaceEvents
  <2>2. Owed' \subseteq Owed
    BY <1>1, <2>1 DEF Owed, Excused
  <2>3. TxFresh'
    BY <2>1 DEF NoSkipInv, TxFresh
  <2>. QED
    BY <1>1, <2>1, <2>2, <2>3, OwedShrinks DEF NoSkipInv
<1>. QED
  BY <1>2, <1>3, <1>4, <1>5 DEF DatabaseStep

(* Every row older than the next notification that is owed was published. *)
LEMMA NothingBeforeHead ==
  ASSUME NoSkipInv, phase = "notified", wire # <<>>
  PROVE  \A s \in Owed : s < Head(wire) => s <= lastDelivered
<1>. USE DEF NoSkipInv
<1>. DEFINE h == Head(wire)
<1>1. /\ wire \in Seq(1..MaxSeq)
      /\ Len(wire) \in Nat /\ DOMAIN wire = 1..Len(wire) /\ wire[1] = h
      /\ 1 \in DOMAIN wire /\ h \in Elems(wire)
  <2>1. wire \in Seq(1..MaxSeq)
    BY DEF StreamInv, TypeOK, LogTypeOK, Seqs
  <2>2. Len(wire) \in Nat \ {0} /\ DOMAIN wire = 1..Len(wire) /\ wire[1] = h
    BY <2>1, EmptySeq, LenProperties, HeadTailProperties
  <2>. QED
    BY <2>1, <2>2 DEF Elems
<1>2. h \in Nat /\ retained \subseteq Nat /\ page = {}
  BY <1>1, HeadTailProperties, LogAssumption
  DEF StreamInv, PageAhead, TypeOK, LogTypeOK, Seqs
<1>. HIDE DEF h
<1>. SUFFICES ASSUME NEW s \in Owed, s < h
              PROVE  s <= lastDelivered
  BY DEF h
<1>3. s \in Nat
  BY <1>2 DEF Owed
<1>4. s \notin Elems(wire)
  <2>. SUFFICES ASSUME NEW j \in DOMAIN wire, wire[j] = s
                PROVE  FALSE
    BY DEF Elems
  <2>1. j # 1 /\ j \in 1..Len(wire)
    BY <1>1, <1>2, <1>3
  <2>2. 1 < j
    BY <1>1, <2>1
  <2>3. h < s
    BY <1>1, <2>2 DEF WireInOrder, OwedInOrder
  <2>. QED
    BY <1>2, <1>3, <2>3
<1>5. ~Announced(s)
  BY <1>1, <1>2, <1>3, <1>4 DEF Announced
<1>. QED
  BY <1>2, <1>5 DEF CaughtUp

(* One notification taken: it is skipped, let go or published. *)
LEMMA HeadTaken ==
  ASSUME NoSkipInv, phase = "notified", wire # <<>>, wire' = Tail(wire),
         UNCHANGED <<lastSeq, tx, committed, retained, linked, phase, page, more>>,
         overtaken' = overtaken, unfetched \subseteq unfetched', StreamInv',
         \/ /\ Head(wire) \in Owed' => Head(wire) <= lastDelivered
            /\ UNCHANGED <<lastDelivered, published>>
         \/ /\ Head(wire) > lastDelivered
            /\ Head(wire) \in retained
            /\ lastDelivered' = Head(wire)
            /\ published' = Append(published, Head(wire))
  PROVE  NoSkipInv'
<1>. USE DEF NoSkipInv
<1>. DEFINE h == Head(wire)
<1>1. /\ wire \in Seq(1..MaxSeq) /\ published \in Seq(1..MaxSeq)
      /\ lastDelivered \in Nat /\ retained \subseteq Nat
      /\ Owed' \subseteq Owed /\ Owed \subseteq retained
  BY LogAssumption DEF StreamInv, TypeOK, LogTypeOK, Seqs, Owed, Excused
<1>2. h \in 1..MaxSeq /\ h \in Nat /\ h \in committed
  <2>1. h \in 1..MaxSeq
    BY <1>1, HeadTailProperties
  <2>2. h \in Elems(wire)
    BY <1>1, ElemsTail
  <2>. QED
    BY <2>1, <2>2 DEF WireInOrder
<1>3. Elems(wire) = {h} \cup Elems(wire')
  BY <1>1, ElemsTail
<1>4. page = {}
  BY DEF StreamInv, PageAhead
<1>5. Elems(Append(published, h)) = Elems(published) \cup {h}
  <2>1. published \in Seq(Nat) /\ h \in Nat
    BY <1>1, <1>2, SeqsAreNat, LogAssumption
  <2>. HIDE DEF h
  <2>. QED
    BY <2>1, ElemsAppend
<1>6. \A s \in Owed : s < h => s <= lastDelivered
  BY NothingBeforeHead
<1>7. TxFresh'
  BY DEF TxFresh
<1>8. \A i, j \in DOMAIN Tail(wire) :
        i < j /\ Tail(wire)[j] \in Owed' => Tail(wire)[i] < Tail(wire)[j]
  <2>1. /\ Len(wire) \in Nat \ {0} /\ DOMAIN wire = 1..Len(wire)
        /\ DOMAIN Tail(wire) = 1..(Len(wire) - 1)
        /\ \A i \in 1..(Len(wire) - 1) : Tail(wire)[i] = wire[i + 1]
    BY <1>1, EmptySeq, LenProperties, HeadTailProperties
  <2>. SUFFICES ASSUME NEW i \in 1..(Len(wire) - 1), NEW j \in 1..(Len(wire) - 1),
                       i < j, wire[j + 1] \in Owed'
                PROVE  wire[i + 1] < wire[j + 1]
    BY <2>1
  <2>2. i + 1 \in DOMAIN wire /\ j + 1 \in DOMAIN wire /\ i + 1 < j + 1
    BY <2>1
  <2>. QED
    BY <1>1, <2>2 DEF WireInOrder, OwedInOrder
<1>9. Elems(published') \subseteq Elems(published) \cup {h}
  <2>1. published' = published \/ published' = Append(published, h)
    OBVIOUS
  <2>2. CASE published' = published
    BY <2>2
  <2>3. CASE published' = Append(published, h)
    BY <2>3, <1>5, Zenon
  <2>. QED
    BY <2>1, <2>2, <2>3
<1>10. WireInOrder'
  <2>1. OwedInOrder(wire)'
    BY <1>8 DEF OwedInOrder
  <2>. QED
    BY <1>2, <1>3, <1>9, <2>1 DEF WireInOrder
<1>11. \A s \in Owed' : Announced(s) => s = h \/ Announced(s)'
  BY <1>3 DEF Announced
<1>12. lastDelivered' \in Nat /\ lastDelivered <= lastDelivered'
       /\ (h \in Owed' => h <= lastDelivered')
  BY <1>1, <1>2
<1>13. CaughtUp'
  <2>. SUFFICES ASSUME NEW s \in Owed'
                PROVE  s <= lastDelivered' \/ s \in page' \/ Announced(s)'
    BY DEF CaughtUp
  <2>1. s \in Nat /\ (s <= lastDelivered \/ Announced(s))
    BY <1>1, <1>4 DEF CaughtUp
  <2>. QED
    BY <1>1, <1>11, <1>12, <2>1
<1>14. PageClosed'
  BY <1>4 DEF PageClosed
<1>15. OnlyExcusedAreSkipped'
  <2>. SUFFICES ASSUME NEW s \in Owed', s <= lastDelivered'
                PROVE  s \in Elems(published')
    BY DEF OnlyExcusedAreSkipped, Owed
  <2>1. CASE UNCHANGED <<lastDelivered, published>>
    BY <1>1, <2>1 DEF OnlyExcusedAreSkipped, Owed
  <2>2. CASE lastDelivered' = h /\ published' = Append(published, h)
    <3>1. Elems(published') = Elems(published) \cup {h}
      BY <1>5, <2>2, Zenon
    <3>2. s = h \/ s < h
      BY <1>1, <1>2, <2>2
    <3>. QED
      BY <1>1, <1>6, <3>1, <3>2 DEF OnlyExcusedAreSkipped, Owed
  <2>. QED
    BY <2>1, <2>2
<1>. QED
  BY <1>7, <1>10, <1>13, <1>14, <1>15

LEMMA ListenerKeepsNoSkip ==
  ASSUME NoSkipInv, ListenerStep, StreamInv'
  PROVE  NoSkipInv'
<1>. USE DEF NoSkipInv
<1>1. CASE Connect
  <2>1. /\ Elems(wire') = {} /\ DOMAIN wire' = {}
        /\ UNCHANGED <<lastSeq, tx, committed, retained, page, lastDelivered, published>>
    BY <1>1, EmptyAscending DEF Connect
  <2>2. \A s \in Owed' : s <= lastDelivered => s \in Owed
    BY <1>1 DEF Connect, ForgiveAbove, Owed, Excused
  <2>3. PageClosed' /\ phase' = "query"
    BY <1>1 DEF Connect, PageClosed, StreamInv, PageAhead
  <2>4. WireInOrder'
    BY <2>1 DEF WireInOrder, OwedInOrder
  <2>5. TxFresh' /\ CaughtUp'
    BY <2>1, <2>3 DEF TxFresh, CaughtUp
  <2>6. OnlyExcusedAreSkipped'
    BY <2>1, <2>2 DEF OnlyExcusedAreSkipped, Owed
  <2>. QED
    BY <2>3, <2>4, <2>5, <2>6
<1>2. CASE CatchUpQuery /\ UNCHANGED historyVars
  <2>1. PICK rows \in SUBSET RowsAfter(lastDelivered) :
          /\ IsPage(rows, lastDelivered, CatchUpBatch)
          /\ page' = rows
          /\ more' = (Cardinality(rows) = CatchUpBatch)
          /\ phase' = IF rows = {} THEN "notified" ELSE "page"
    BY <1>2 DEF CatchUpQuery
  <2>2. /\ phase = "query" /\ UNCHANGED <<logVars, lastDelivered, published>>
        /\ Owed' = Owed /\ retained' = retained
    BY <1>2 DEF CatchUpQuery, Owed, Excused, logVars, historyVars
  <2>3. rows = {} => Cardinality(rows) # CatchUpBatch
    BY FS_EmptySet, ListenerAssumption
  <2>4. ~more' => rows = RowsAfter(lastDelivered)
    BY <2>1 DEF IsPage
  <2>5. lastDelivered \in Int /\ retained \subseteq Int /\ Owed \subseteq retained
    BY LogAssumption DEF StreamInv, TypeOK, LogTypeOK, Seqs, Owed
  <2>6. CaughtUp'
    <3>. SUFFICES ASSUME phase' = "notified" \/ ~more', NEW s \in Owed
                  PROVE  s <= lastDelivered' \/ s \in page'
      BY <2>2 DEF CaughtUp
    <3>1. ~more'
      BY <2>1, <2>3
    <3>. QED
      BY <2>1, <2>2, <2>4, <2>5, <3>1 DEF RowsAfter
  <2>7. PageClosed'
    <3>. SUFFICES ASSUME NEW p \in rows, NEW s \in Owed, lastDelivered < s, s < p
                  PROVE  s \in rows
      BY <2>1, <2>2 DEF PageClosed
    <3>. QED
      BY <2>1, <2>5 DEF IsPage, RowsAfter
  <2>8. WireInOrder' /\ TxFresh' /\ OnlyExcusedAreSkipped'
    BY <2>2
    DEF logVars, WireInOrder, OwedInOrder, TxFresh, OnlyExcusedAreSkipped, Owed
  <2>. QED
    BY <2>6, <2>7, <2>8
<1>3. CASE CatchUpPublish /\ UNCHANGED historyVars
  <2>1. PICK seq \in Oldest(page) :
          /\ published' = Append(published, seq)
          /\ lastDelivered' = seq
          /\ page' = page \ {seq}
          /\ phase' = IF page' # {} THEN "page"
                      ELSE IF more THEN "query" ELSE "notified"
    BY <1>3 DEF CatchUpPublish
  <2>2. /\ UNCHANGED <<logVars, more>> /\ phase = "page"
        /\ Owed' = Owed /\ UNCHANGED <<lastSeq, tx, committed, retained, linked, wire>>
    BY <1>3 DEF CatchUpPublish, Owed, Excused, logVars, historyVars
  <2>3. /\ seq \in page /\ seq \in committed /\ seq \in Nat
        /\ seq > lastDelivered /\ lastDelivered \in Nat
        /\ \A t \in page : seq <= t
    BY <2>1 DEF Oldest, StreamInv, PageAhead, TypeOK, LogTypeOK, Seqs
  <2>4. Elems(published') = Elems(published) \cup {seq}
    BY <2>1, <2>3, ElemsAppend DEF StreamInv, TypeOK, LogTypeOK
  <2>5. Owed \subseteq Nat /\ page \subseteq Nat
    <3>1. retained \subseteq Nat /\ page \subseteq Nat
      BY LogAssumption DEF StreamInv, TypeOK, LogTypeOK, Seqs
    <3>. QED
      BY <3>1 DEF Owed
  <2>6. OnlyExcusedAreSkipped'
    <3>. SUFFICES ASSUME NEW s \in Owed, s <= seq
                  PROVE  s \in Elems(published')
      BY <2>1, <2>2 DEF OnlyExcusedAreSkipped, Owed
    <3>1. CASE s <= lastDelivered
      BY <2>4, <3>1 DEF OnlyExcusedAreSkipped, Owed
    <3>2. CASE ~(s <= lastDelivered) /\ s # seq
      <4>1. s \in page
        BY <2>3, <2>5, <3>2 DEF PageClosed
      <4>. QED
        BY <2>3, <2>5, <3>2, <4>1
    <3>. QED
      BY <2>4, <3>1, <3>2
  <2>7. CaughtUp'
    <3>. SUFFICES ASSUME phase' = "notified" \/ ~more, NEW s \in Owed
                  PROVE  s <= seq \/ s \in page' \/ Announced(s)
      BY <2>1, <2>2 DEF CaughtUp, Announced
    <3>1. ~more
      BY <2>1
    <3>2. s <= lastDelivered \/ s \in page \/ Announced(s)
      BY <2>2, <3>1 DEF CaughtUp
    <3>. QED
      BY <2>1, <2>3, <2>5, <3>2
  <2>8. PageClosed'
    BY <2>1, <2>2, <2>3, <2>5 DEF PageClosed
  <2>9. WireInOrder' /\ TxFresh'
    BY <2>1, <2>2, <2>3, <2>4 DEF WireInOrder, OwedInOrder, TxFresh
  <2>. QED
    BY <2>6, <2>7, <2>8, <2>9
<1>4. CASE SkipNotification /\ UNCHANGED historyVars
  BY <1>4, HeadTaken DEF SkipNotification, listenerVars, historyVars
<1>5. CASE DeliverNotification /\ UNCHANGED historyVars
  BY <1>5, HeadTaken DEF DeliverNotification, historyVars
<1>6. CASE FailFetch
  <2>1. Head(wire) \notin Owed'
    BY <1>6 DEF FailFetch, Owed, Excused
  <2>. QED
    BY <1>6, <2>1, HeadTaken DEF FailFetch, listenerVars
<1>7. CASE NoticeLoss /\ UNCHANGED historyVars
  <2>1. /\ Elems(wire') = {} /\ DOMAIN wire' = {} /\ Owed' = Owed
        /\ phase' = "disconnected"
        /\ UNCHANGED <<lastSeq, tx, committed, retained, page, lastDelivered, published>>
    BY <1>7, EmptyAscending DEF NoticeLoss, Owed, Excused, historyVars
  <2>. QED
    BY <2>1
    DEF TxFresh, WireInOrder, OwedInOrder, CaughtUp, PageClosed,
        OnlyExcusedAreSkipped, Owed
<1>. QED
  BY <1>1, <1>2, <1>3, <1>4, <1>5, <1>6, <1>7 DEF ListenerStep

LEMMA FailureKeepsNoSkip ==
  ASSUME NoSkipInv, LoseConnection \/ Restart, StreamInv'
  PROVE  NoSkipInv'
<1>. USE DEF NoSkipInv
<1>1. CASE LoseConnection
  <2>1. /\ Owed' = Owed
        /\ UNCHANGED <<lastSeq, tx, committed, retained, wire, phase, page, more,
                       lastDelivered, published>>
    BY <1>1 DEF LoseConnection, Owed, Excused, historyVars
  <2>2. \A s \in Owed : Announced(s) => Announced(s)'
    BY <1>1 DEF LoseConnection, Announced
  <2>. QED
    BY <2>1, <2>2
    DEF TxFresh, WireInOrder, OwedInOrder, CaughtUp, PageClosed,
        OnlyExcusedAreSkipped, Owed
<1>2. CASE Restart
  <2>1. Elems(<<>>) = {} /\ DOMAIN <<>> = {}
    BY EmptyAscending
  <2>2. \A s \in retained : ~(s <= 0)
    BY DEF StreamInv, TypeOK, LogTypeOK, Seqs
  <2>3. /\ wire' = <<>> /\ page' = {} /\ lastDelivered' = 0 /\ published' = <<>>
        /\ phase' = "disconnected"
        /\ UNCHANGED <<lastSeq, tx, committed, retained>>
    BY <1>2 DEF Restart
  <2>4. TxFresh' /\ CaughtUp' /\ PageClosed'
    BY <2>3 DEF TxFresh, CaughtUp, PageClosed
  <2>5. WireInOrder'
    BY <2>1, <2>3 DEF WireInOrder, OwedInOrder
  <2>6. OnlyExcusedAreSkipped'
    BY <2>2, <2>3 DEF OnlyExcusedAreSkipped
  <2>. QED
    BY <2>4, <2>5, <2>6
<1>. QED
  BY <1>1, <1>2

LEMMA NoSkipInvariant == Spec => []NoSkipInv
<1>1. Init /\ StreamInv => NoSkipInv
  <2>. SUFFICES ASSUME Init, StreamInv
                PROVE  NoSkipInv
    OBVIOUS
  <2>1. Ascending(<<>>) /\ Elems(<<>>) = {} /\ DOMAIN <<>> = {}
    BY EmptyAscending
  <2>2. TxFresh
    BY <2>1 DEF Init, LogInit, TxFresh
  <2>. QED
    BY <2>1, <2>2
    DEF Init, LogInit, NoSkipInv, WireInOrder, OwedInOrder, CaughtUp,
        PageClosed, OnlyExcusedAreSkipped
<1>2. NoSkipInv /\ StreamInv' /\ [Next]_vars => NoSkipInv'
  <2>. SUFFICES ASSUME NoSkipInv, StreamInv', [Next]_vars
                PROVE  NoSkipInv'
    OBVIOUS
  <2>1. CASE DatabaseStep
    BY <2>1, DatabaseKeepsNoSkip
  <2>2. CASE ListenerStep
    BY <2>2, ListenerKeepsNoSkip
  <2>3. CASE LoseConnection \/ Restart
    BY <2>3, FailureKeepsNoSkip
  <2>4. CASE UNCHANGED vars
    <3>1. Owed' = Owed
      BY <2>4 DEF vars, logVars, historyVars, Owed, Excused
    <3>. QED
      BY <2>4, <3>1
      DEF vars, logVars, listenerVars, historyVars, NoSkipInv, TxFresh,
          WireInOrder, OwedInOrder, CaughtUp, Announced, PageClosed,
          OnlyExcusedAreSkipped, Owed
  <2>. QED
    BY <2>1, <2>2, <2>3, <2>4 DEF Next
<1>. QED
  BY <1>1, <1>2, StreamInvariant, PTL DEF Spec

(* However transactions overlap and fetches fail, the listener passes over  *)
(* a stored row only if it was committed after a later one or its own fetch *)
(* failed: no reconnect, page, pruning or other row's trouble costs a row.  *)
THEOREM NothingSkipped == Spec => []OnlyExcusedAreSkipped
<1>1. NoSkipInv => OnlyExcusedAreSkipped
  BY DEF NoSkipInv
<1>. QED
  BY <1>1, NoSkipInvariant, PTL

-----------------------------------------------------------------------------
(* The listener implements the feed *)

LEMMA PublishedAreDelivered ==
  ASSUME StreamInv
  PROVE  /\ \A x \in Elems(published) : x <= lastDelivered
         /\ Feed!LastFed = lastDelivered
<1>1. /\ published \in Seq(Nat)
      /\ Ascending(published) /\ DeliveredIsPublished
  BY SeqsAreNat, LogAssumption
  DEF StreamInv, TypeOK, Seqs, PublishedAscending, Ascending
<1>2. CASE published = <<>>
  BY <1>2, <1>1, EmptyAscending DEF DeliveredIsPublished, Feed!LastFed
<1>3. CASE published # <<>>
  BY <1>3, <1>1, AscendingLast DEF DeliveredIsPublished, Feed!LastFed
<1>. QED
  BY <1>2, <1>3

LEMMA FeedStep ==
  ASSUME NoSkipInv, NoSkipInv', [Next]_vars
  PROVE  [Feed!Next]_(Feed!feedVars)
<1>. DEFINE stored == retained \cup page \cup Elems(published)
<1>1. /\ retained \subseteq 1..MaxSeq /\ page \subseteq 1..MaxSeq
      /\ Elems(published) \subseteq committed
      /\ retained \subseteq committed /\ page \subseteq committed
      /\ committed \subseteq 1..MaxSeq /\ lastDelivered \in 0..MaxSeq
      /\ published \in Seq(1..MaxSeq) /\ published \in Seq(Nat)
      /\ MaxSeq \in Nat
  BY LogAssumption, SeqsAreNat
  DEF NoSkipInv, StreamInv, TypeOK, LogTypeOK, WireInOrder, Seqs
<1>2. /\ \A x \in Elems(published) : x <= lastDelivered
      /\ Feed!LastFed = lastDelivered
  BY PublishedAreDelivered DEF NoSkipInv
<1>3. ASSUME NEW s \in retained \cup page, s > lastDelivered,
             published' = Append(published, s),
             \A t \in retained \cup page : t > lastDelivered /\ t \notin Excused => s <= t,
             retained' \cup page' \cup {s} = retained \cup page,
             UNCHANGED <<committed, historyVars>>
      PROVE  Feed!Deliver
  <2>1. s \in Nat
    BY <1>1
  <2>2. Elems(Append(published, s)) = Elems(published) \cup {s}
    BY <1>1, <2>1, ElemsAppend
  <2>3. Elems(published') = Elems(published) \cup {s}
    BY <1>3, <2>2, Zenon
  <2>4. \A t \in stored : t > lastDelivered => t \in retained \cup page
    BY <1>1, <1>2
  <2>5. s \in Feed!Undelivered /\ \A t \in Feed!Owed : s <= t
    BY <1>2, <1>3, <2>4 DEF Feed!Undelivered, Feed!Owed
  <2>6. Excused' = Excused /\ committed' = committed
    BY <1>3 DEF Excused, historyVars
  <2>. QED
    BY <1>3, <2>3, <2>5, <2>6 DEF Feed!Deliver
<1>4. CASE DatabaseStep
  <2>1. published' = published /\ page' = page /\ unfetched' = unfetched
    BY <1>4 DEF DatabaseStep, listenerVars
  <2>2. overtaken' = overtaken \cup {s \in committed' \ committed : \E t \in committed : t > s}
    BY <1>4 DEF DatabaseStep
  <2>3. ASSUME NEW w \in Writer, CommitTx(w)
        PROVE  Feed!Store
    <3> DEFINE new == Elems(tx[w])
    <3>1. /\ tx[w] \in Seq(1..MaxSeq) /\ tx[w] # <<>>
          /\ retained' = retained \cup new /\ committed' = committed \cup new
      BY <2>3 DEF CommitTx, NoSkipInv, StreamInv, TypeOK, LogTypeOK, Seqs
    <3>2. new \subseteq 1..MaxSeq /\ new # {}
      <4>. DEFINE t == tx[w]
      <4>1. t \in Seq(1..MaxSeq) /\ t # <<>>
        BY <3>1
      <4>. HIDE DEF t
      <4>2. Elems(t) \subseteq 1..MaxSeq /\ Elems(t) # {}
        BY <4>1, ElemsOfNumbers
      <4>. QED
        BY <4>2 DEF t
    <3>3. \A s \in new : s \notin committed
      BY DEF NoSkipInv, TxFresh
    <3>4. Excused' = Excused \cup {s \in new : \E t \in committed : t > s}
      BY <2>1, <2>2, <3>1, <3>3 DEF Excused
    <3>5. retained' \cup page' \cup Elems(published') = stored \cup new
      BY <2>1, <3>1
    <3>. QED
      BY <2>1, <3>1, <3>2, <3>3, <3>4, <3>5 DEF Feed!Store
  <2>4. ASSUME committed' = committed
        PROVE  Excused' = Excused
    BY <2>1, <2>2, <2>4 DEF Excused
  <2>5. ASSUME NEW w \in Writer, AppendEventTx(w) \/ RollbackTx(w)
        PROVE  UNCHANGED Feed!feedVars
    BY <2>1, <2>4, <2>5 DEF AppendEventTx, RollbackTx, Feed!feedVars
  <2>6. ASSUME NEW k \in Seqs, PruneWorkspaceEvents(k)
        PROVE  Feed!Prune
    BY <2>1, <2>4, <2>6 DEF PruneWorkspaceEvents, Feed!Prune
  <2>. QED
    BY <1>4, <2>3, <2>5, <2>6 DEF DatabaseStep, Feed!Next
<1>5. CASE \/ LoseConnection
           \/ (SkipNotification \/ NoticeLoss) /\ UNCHANGED historyVars
  BY <1>5
  DEF SkipNotification, NoticeLoss, LoseConnection, listenerVars, historyVars,
      Excused, Feed!feedVars
<1>6. CASE CatchUpQuery /\ UNCHANGED historyVars
  <2>1. page = {} /\ page' \subseteq retained /\ retained' = retained
        /\ committed' = committed
    BY <1>6
    DEF CatchUpQuery, RowsAfter, logVars, NoSkipInv, StreamInv, PageAhead
  <2>2. published' = published /\ Excused' = Excused
    BY <1>6 DEF CatchUpQuery, Excused, historyVars
  <2>. QED
    BY <2>1, <2>2 DEF Feed!feedVars
<1>7. CASE CatchUpPublish /\ UNCHANGED historyVars
  <2>1. PICK s \in Oldest(page) :
          /\ published' = Append(published, s)
          /\ page' = page \ {s}
    BY <1>7 DEF CatchUpPublish
  <2>2. /\ s \in page /\ s > lastDelivered /\ retained' = retained
        /\ \A t \in page : s <= t
        /\ committed' = committed
    BY <1>7, <2>1
    DEF CatchUpPublish, logVars, Oldest, NoSkipInv, StreamInv, PageAhead
  <2>3. \A t \in retained \cup page : t > lastDelivered /\ t \notin Excused => s <= t
    <3>. SUFFICES ASSUME NEW t \in retained, t > lastDelivered, t \notin Excused,
                         ~(s <= t)
                  PROVE  FALSE
      BY <2>2
    <3>1. t < s /\ lastDelivered < t
      BY <1>1, <2>2
    <3>2. t \in page
      BY <2>2, <3>1 DEF NoSkipInv, PageClosed, Owed
    <3>. QED
      BY <2>2, <3>2
  <2>4. retained' \cup page' \cup {s} = retained \cup page
    BY <2>1, <2>2
  <2>. QED
    BY <1>3, <1>7, <2>1, <2>2, <2>3, <2>4 DEF Feed!Next
<1>8. CASE DeliverNotification /\ UNCHANGED historyVars
  <2> DEFINE s == Head(wire)
  <2>1. /\ s \in retained /\ s > lastDelivered
        /\ published' = Append(published, s)
        /\ retained' = retained /\ page' = page /\ committed' = committed
    BY <1>8 DEF DeliverNotification
  <2>2. page = {}
    BY <1>8 DEF DeliverNotification, NoSkipInv, StreamInv, PageAhead
  <2>3. \A t \in retained : t < s /\ t \notin Excused => t <= lastDelivered
    BY <1>8, NothingBeforeHead DEF DeliverNotification, Owed
  <2>. HIDE DEF s
  <2>4. s \in Nat
    BY <1>1, <2>1
  <2>5. \A t \in retained \cup page : t > lastDelivered /\ t \notin Excused => s <= t
    BY <1>1, <2>2, <2>3, <2>4
  <2>6. retained' \cup page' \cup {s} = retained \cup page
    BY <2>1
  <2>. QED
    BY <1>3, <1>8, <2>1, <2>5, <2>6 DEF Feed!Next
<1>9. CASE FailFetch
  <2> DEFINE s == Head(wire)
  <2>1. /\ s > lastDelivered
        /\ Excused' = Excused \cup ({s} \cap retained)
        /\ UNCHANGED <<committed, retained, page, published>>
    BY <1>9 DEF FailFetch, listenerVars, Excused
  <2>. HIDE DEF s
  <2>2. CASE s \in retained
    <3>1. s \in Feed!Undelivered
      BY <1>2, <2>1, <2>2 DEF Feed!Undelivered
    <3>2. Excused' = Excused \cup {s}
      BY <2>1, <2>2
    <3>. QED
      BY <2>1, <3>1, <3>2 DEF Feed!GiveUp, Feed!Next
  <2>3. CASE s \notin retained
    BY <2>1, <2>3 DEF Feed!feedVars
  <2>. QED
    BY <2>2, <2>3
<1>10. CASE Connect
  <2>1. /\ Excused' = {s \in Excused : s <= lastDelivered}
        /\ UNCHANGED <<committed, retained, page, published>>
    BY <1>10 DEF Connect, ForgiveAbove, Excused
  <2>. QED
    BY <1>2, <2>1 DEF Feed!Resume, Feed!Next
<1>11. CASE Restart
  <2>1. Elems(<<>>) = {}
    BY EmptyAscending
  <2>2. /\ Excused' = {} /\ published' = <<>> /\ page' = {}
        /\ UNCHANGED <<committed, retained>>
    BY <1>11 DEF Restart, Excused
  <2>. QED
    BY <2>1, <2>2 DEF Feed!NewProcess, Feed!Next
<1>12. CASE UNCHANGED vars
  BY <1>12 DEF vars, logVars, listenerVars, historyVars, Excused, Feed!feedVars
<1>. QED
  BY <1>4, <1>5, <1>6, <1>7, <1>8, <1>9, <1>10, <1>11, <1>12
  DEF Next, ListenerStep

(* The listener implements the safety part of EventFeed: whoever subscribes *)
(* to the Bus sees ascending numbers, none twice and no row left out but an *)
(* excused one, until the process ends.                                     *)
THEOREM ListenerImplementsFeed == Spec => Feed!SafeSpec
<1>1. Init => Feed!Init
  <2>1. Elems(<<>>) = {}
    BY EmptyAscending
  <2>. QED
    BY <2>1 DEF Init, LogInit, Excused, Feed!Init
<1>2. NoSkipInv /\ NoSkipInv' /\ [Next]_vars => [Feed!Next]_(Feed!feedVars)
  BY FeedStep
<1>. QED
  BY <1>1, <1>2, NoSkipInvariant, PTL DEF Spec, Feed!SafeSpec
=============================================================================
