----------------------- MODULE MessageDeliveryProofs -----------------------
(***************************************************************************)
(* Message delivery for any number of messages, breaks, refusals, bad       *)
(* answers, bootstraps, reloads and logouts: the types, that a message is   *)
(* stored once, written once per connection and saved before it is written, *)
(* and that a message shown as pending has its record in the replay queue.  *)
(***************************************************************************)
EXTENDS MessageDelivery, FiniteSetTheorems, TLAPS

-----------------------------------------------------------------------------
(* Sequences in which nothing is twice *)

NoneTwice(s) == \A i, j \in 1..Len(s) : s[i] = s[j] => i = j

LEMMA Members ==
  ASSUME NEW S, NEW s \in Seq(S)
  PROVE  /\ Len(s) \in Nat
         /\ \A i \in 1..Len(s) : s[i] \in ToSet(s)
         /\ \A x \in ToSet(s) : x \in S /\ \E i \in 1..Len(s) : s[i] = x
  BY DEF ToSet

LEMMA EmptyIs ==
  ToSet(<<>>) = {} /\ NoneTwice(<<>>) /\ \A a, b : ~Before(<<>>, a, b)
  BY DEF ToSet, NoneTwice, Before

LEMMA AppendIs ==
  ASSUME NEW S, NEW s \in Seq(S), NEW x \in S
  PROVE  /\ Append(s, x) \in Seq(S)
         /\ ToSet(Append(s, x)) = ToSet(s) \cup {x}
         /\ NoneTwice(s) /\ x \notin ToSet(s) => NoneTwice(Append(s, x))
<1> DEFINE t == Append(s, x)
<1>1. /\ t \in Seq(S) /\ Len(t) = Len(s) + 1 /\ Len(s) \in Nat
      /\ \A i \in 1..Len(s) : t[i] = s[i]
      /\ t[Len(s) + 1] = x
  OBVIOUS
<1> HIDE DEF t
<1>2. ToSet(t) = ToSet(s) \cup {x}
  <2>1. ASSUME NEW y \in ToSet(t)
        PROVE  y \in ToSet(s) \cup {x}
    <3>1. PICK i \in 1..(Len(s) + 1) : t[i] = y
      BY <1>1, Members
    <3>2. CASE i = Len(s) + 1
      BY <1>1, <3>1, <3>2
    <3>3. CASE i # Len(s) + 1
      <4>1. i \in 1..Len(s) /\ s[i] = y
        BY <1>1, <3>1, <3>3
      <4>2. QED
        BY <4>1, Members
    <3>4. QED
      BY <3>2, <3>3
  <2>2. ASSUME NEW y \in ToSet(s) \cup {x}
        PROVE  y \in ToSet(t)
    <3>1. PICK i \in 1..(Len(s) + 1) : t[i] = y
      BY <1>1, Members
    <3>2. i \in 1..Len(t)
      BY <1>1
    <3>3. QED
      BY <1>1, <3>1, <3>2, Members
  <2>3. QED
    BY <2>1, <2>2
<1>3. NoneTwice(s) /\ x \notin ToSet(s) => NoneTwice(t)
  BY <1>1, Members DEF NoneTwice
<1>4. QED
  BY <1>1, <1>2, <1>3 DEF t

LEMMA TailIs ==
  ASSUME NEW S, NEW s \in Seq(S), s # <<>>
  PROVE  /\ Head(s) \in ToSet(s) /\ Head(s) \in S
         /\ Tail(s) \in Seq(S)
         /\ ToSet(s) = ToSet(Tail(s)) \cup {Head(s)}
         /\ \A a, b : Before(Tail(s), a, b) => Before(s, a, b)
         /\ \A b \in ToSet(Tail(s)) : Before(s, Head(s), b)
         /\ NoneTwice(s) =>
              /\ NoneTwice(Tail(s)) /\ ToSet(Tail(s)) = ToSet(s) \ {Head(s)}
              /\ \A a, b : Before(s, a, b) /\ a # Head(s) => Before(Tail(s), a, b)
              /\ \A a : ~Before(s, a, Head(s))
<1>1. /\ Tail(s) \in Seq(S) /\ Len(s) \in Nat \ {0} /\ Len(Tail(s)) = Len(s) - 1
      /\ \A i \in 1..Len(Tail(s)) : Tail(s)[i] = s[i + 1] /\ i + 1 \in 1..Len(s)
      /\ 1 \in 1..Len(s) /\ s[1] = Head(s)
  OBVIOUS
<1>9. ToSet(Tail(s)) = {Tail(s)[i] : i \in 1..Len(Tail(s))}
  <2>1. ASSUME NEW t \in Seq(S)
        PROVE  ToSet(t) = {t[i] : i \in 1..Len(t)}
    BY DEF ToSet
  <2>2. QED
    BY <1>1, <2>1, Zenon
<1>2. \A i \in 1..Len(s) : i = 1 \/ (i - 1 \in 1..Len(Tail(s)) /\ s[i] = Tail(s)[i - 1])
  BY <1>1
<1>3. Head(s) \in ToSet(s) /\ Head(s) \in S
  BY <1>1, Members
<1>4. ToSet(s) = ToSet(Tail(s)) \cup {Head(s)}
  <2>1. ASSUME NEW y \in ToSet(s)
        PROVE  y \in ToSet(Tail(s)) \cup {Head(s)}
    <3>1. PICK i \in 1..Len(s) : s[i] = y
      BY Members
    <3>2. QED
      BY <1>1, <1>2, <1>9, <3>1
  <2>2. ASSUME NEW y \in ToSet(Tail(s))
        PROVE  y \in ToSet(s)
    <3>1. PICK i \in 1..Len(Tail(s)) : Tail(s)[i] = y
      BY <1>9
    <3>2. QED
      BY <1>1, <3>1, Members
  <2>3. QED
    BY <1>3, <2>1, <2>2
<1>5. ASSUME NEW a, NEW b, Before(Tail(s), a, b)
      PROVE  Before(s, a, b)
  <2>1. PICK i, j \in 1..Len(Tail(s)) : i < j /\ Tail(s)[i] = a /\ Tail(s)[j] = b
    BY <1>5 DEF Before
  <2>2. i + 1 < j + 1 /\ s[i + 1] = a /\ s[j + 1] = b
    BY <1>1, <2>1
  <2>3. QED
    BY <1>1, <2>2 DEF Before
<1>6. ASSUME NEW b \in ToSet(Tail(s))
      PROVE  Before(s, Head(s), b)
  <2>1. PICK i \in 1..Len(Tail(s)) : Tail(s)[i] = b
    BY <1>9
  <2>2. 1 < i + 1 /\ s[i + 1] = b
    BY <1>1, <2>1
  <2>3. QED
    BY <1>1, <2>2 DEF Before
<1>7. ASSUME NoneTwice(s)
      PROVE  /\ NoneTwice(Tail(s)) /\ ToSet(Tail(s)) = ToSet(s) \ {Head(s)}
             /\ \A a, b : Before(s, a, b) /\ a # Head(s) => Before(Tail(s), a, b)
             /\ \A a : ~Before(s, a, Head(s))
  <2>1. NoneTwice(Tail(s))
    BY <1>1, <1>7 DEF NoneTwice
  <2>2. Head(s) \notin ToSet(Tail(s))
    <3>1. SUFFICES ASSUME Head(s) \in ToSet(Tail(s)) PROVE FALSE
      OBVIOUS
    <3>2. PICK i \in 1..Len(Tail(s)) : Tail(s)[i] = Head(s)
      BY <1>9, <3>1
    <3>3. s[i + 1] = s[1] /\ i + 1 \in 1..Len(s) /\ 1 \in 1..Len(s) /\ i + 1 # 1
      BY <1>1, <3>2
    <3>4. QED
      BY <1>7, <3>3 DEF NoneTwice
  <2>3. ASSUME NEW a, NEW b, Before(s, a, b), a # Head(s)
        PROVE  Before(Tail(s), a, b)
    <3>1. PICK i, j \in 1..Len(s) : i < j /\ s[i] = a /\ s[j] = b
      BY <2>3 DEF Before
    <3>2. /\ i # 1 /\ j # 1 /\ i - 1 < j - 1
          /\ i - 1 \in 1..Len(Tail(s)) /\ Tail(s)[i - 1] = a
          /\ j - 1 \in 1..Len(Tail(s)) /\ Tail(s)[j - 1] = b
      BY <1>1, <1>2, <2>3, <3>1
    <3>3. QED
      BY <3>2 DEF Before
  <2>4. ASSUME NEW a, Before(s, a, Head(s))
        PROVE  FALSE
    <3>1. PICK i, j \in 1..Len(s) : i < j /\ s[i] = a /\ s[j] = Head(s)
      BY <2>4 DEF Before
    <3>2. j = 1
      BY <1>1, <1>7, <3>1 DEF NoneTwice
    <3>3. QED
      BY <3>1, <3>2
  <2>5. QED
    BY <1>4, <2>1, <2>2, <2>3, <2>4
<1>8. QED
  BY <1>1, <1>3, <1>4, <1>5, <1>6, <1>7

LEMMA PrefixIs ==
  ASSUME NEW S, NEW s \in Seq(S), NEW n \in 0..Len(s)
  PROVE  /\ SubSeq(s, 1, n) \in Seq(S)
         /\ ToSet(SubSeq(s, 1, n)) \subseteq ToSet(s)
         /\ NoneTwice(s) => NoneTwice(SubSeq(s, 1, n))
<1>1. /\ SubSeq(s, 1, n) \in Seq(S) /\ Len(SubSeq(s, 1, n)) = n /\ Len(s) \in Nat
      /\ \A i \in 1..n : SubSeq(s, 1, n)[i] = s[i] /\ i \in 1..Len(s)
  OBVIOUS
<1>2. ToSet(SubSeq(s, 1, n)) \subseteq ToSet(s)
  <2>1. SUFFICES ASSUME NEW x \in ToSet(SubSeq(s, 1, n))
                 PROVE  x \in ToSet(s)
    OBVIOUS
  <2>2. PICK i \in 1..n : SubSeq(s, 1, n)[i] = x
    BY <1>1, Members
  <2>3. QED
    BY <1>1, <2>2, Members
<1>3. NoneTwice(s) => NoneTwice(SubSeq(s, 1, n))
  BY <1>1 DEF NoneTwice
<1>4. QED
  BY <1>1, <1>2, <1>3

LEMMA ConcatIs ==
  ASSUME NEW S, NEW s \in Seq(S), NEW t \in Seq(S)
  PROVE  /\ s \o t \in Seq(S)
         /\ ToSet(s \o t) = ToSet(s) \cup ToSet(t)
         /\ NoneTwice(s) /\ NoneTwice(t) /\ ToSet(s) \cap ToSet(t) = {}
              => NoneTwice(s \o t)
         /\ \A a, b : Before(s, a, b) => Before(s \o t, a, b)
         /\ \A a \in ToSet(s), b \in ToSet(t) : Before(s \o t, a, b)
         /\ \A a, b : Before(s \o t, a, b) =>
              \/ Before(s, a, b)
              \/ a \in ToSet(s) /\ b \in ToSet(t)
              \/ Before(t, a, b)
<1>1. /\ s \o t \in Seq(S) /\ Len(s \o t) = Len(s) + Len(t)
      /\ Len(s) \in Nat /\ Len(t) \in Nat
      /\ \A i \in 1..Len(s) : (s \o t)[i] = s[i] /\ i \in 1..Len(s \o t)
  OBVIOUS
<1>2. \A i \in 1..Len(t) : (s \o t)[Len(s) + i] = t[i] /\ Len(s) + i \in 1..Len(s \o t)
  OBVIOUS
<1>3. \A i \in 1..Len(s \o t) :
        \/ i \in 1..Len(s) /\ (s \o t)[i] = s[i]
        \/ i > Len(s) /\ i - Len(s) \in 1..Len(t) /\ (s \o t)[i] = t[i - Len(s)]
  OBVIOUS
<1>4. ToSet(s \o t) = ToSet(s) \cup ToSet(t)
  <2>1. ASSUME NEW x \in ToSet(s \o t)
        PROVE  x \in ToSet(s) \cup ToSet(t)
    <3>1. PICK i \in 1..Len(s \o t) : (s \o t)[i] = x
      BY <1>1, Members
    <3>2. QED
      BY <1>3, <3>1, Members
  <2>2. ASSUME NEW x \in ToSet(s)
        PROVE  x \in ToSet(s \o t)
    <3>1. PICK i \in 1..Len(s) : s[i] = x
      BY Members
    <3>2. QED
      BY <1>1, <3>1, Members
  <2>3. ASSUME NEW x \in ToSet(t)
        PROVE  x \in ToSet(s \o t)
    <3>1. PICK i \in 1..Len(t) : t[i] = x
      BY Members
    <3>2. QED
      BY <1>1, <1>2, <3>1, Members
  <2>4. QED
    BY <2>1, <2>2, <2>3
<1>5. ASSUME NoneTwice(s), NoneTwice(t), ToSet(s) \cap ToSet(t) = {}
      PROVE  NoneTwice(s \o t)
  <2>1. SUFFICES ASSUME NEW i \in 1..Len(s \o t), NEW j \in 1..Len(s \o t),
                        (s \o t)[i] = (s \o t)[j]
                 PROVE  i = j
    BY DEF NoneTwice
  <2>2. CASE i \in 1..Len(s) /\ j \in 1..Len(s)
    BY <1>1, <1>5, <2>1, <2>2 DEF NoneTwice
  <2>3. CASE i > Len(s) /\ j > Len(s)
    <3>1. /\ i - Len(s) \in 1..Len(t) /\ j - Len(s) \in 1..Len(t)
          /\ t[i - Len(s)] = t[j - Len(s)]
      BY <1>1, <1>3, <2>1, <2>3
    <3>2. i - Len(s) = j - Len(s)
      BY <1>5, <3>1 DEF NoneTwice
    <3>3. QED
      BY <1>1, <3>2
  <2>4. CASE i \in 1..Len(s) /\ j > Len(s)
    <3>1. s[i] \in ToSet(s) /\ t[j - Len(s)] \in ToSet(t) /\ s[i] = t[j - Len(s)]
      BY <1>1, <1>3, <2>1, <2>4, Members
    <3>2. QED
      BY <1>5, <3>1
  <2>5. CASE j \in 1..Len(s) /\ i > Len(s)
    <3>1. s[j] \in ToSet(s) /\ t[i - Len(s)] \in ToSet(t) /\ s[j] = t[i - Len(s)]
      BY <1>1, <1>3, <2>1, <2>5, Members
    <3>2. QED
      BY <1>5, <3>1
  <2>6. QED
    BY <1>1, <2>2, <2>3, <2>4, <2>5
<1>6. ASSUME NEW a, NEW b, Before(s, a, b)
      PROVE  Before(s \o t, a, b)
  <2>1. PICK i, j \in 1..Len(s) : i < j /\ s[i] = a /\ s[j] = b
    BY <1>6 DEF Before
  <2>2. QED
    BY <1>1, <2>1 DEF Before
<1>7. ASSUME NEW a \in ToSet(s), NEW b \in ToSet(t)
      PROVE  Before(s \o t, a, b)
  <2>1. PICK i \in 1..Len(s) : s[i] = a
    BY Members
  <2>2. PICK j \in 1..Len(t) : t[j] = b
    BY Members
  <2>3. i < Len(s) + j /\ (s \o t)[i] = a /\ (s \o t)[Len(s) + j] = b
    BY <1>1, <1>2, <2>1, <2>2
  <2>4. QED
    BY <1>1, <1>2, <2>3 DEF Before
<1>8. ASSUME NEW a, NEW b, Before(s \o t, a, b)
      PROVE  \/ Before(s, a, b)
             \/ a \in ToSet(s) /\ b \in ToSet(t)
             \/ Before(t, a, b)
  <2>1. PICK i, j \in 1..Len(s \o t) : i < j /\ (s \o t)[i] = a /\ (s \o t)[j] = b
    BY <1>8 DEF Before
  <2>2. CASE i \in 1..Len(s) /\ j \in 1..Len(s)
    BY <1>1, <2>1, <2>2 DEF Before
  <2>3. CASE i \in 1..Len(s) /\ j > Len(s)
    BY <1>1, <1>3, <2>1, <2>3, Members
  <2>4. CASE i > Len(s) /\ j > Len(s)
    <3>1. /\ i - Len(s) \in 1..Len(t) /\ j - Len(s) \in 1..Len(t)
          /\ i - Len(s) < j - Len(s) /\ t[i - Len(s)] = a /\ t[j - Len(s)] = b
      BY <1>1, <1>3, <2>1, <2>4
    <3>2. QED
      BY <3>1 DEF Before
  <2>5. QED
    BY <1>1, <2>1, <2>2, <2>3, <2>4
<1>9. QED
  BY <1>1, <1>4, <1>5, <1>6, <1>7, <1>8

(* The sequence of a finite set has each of its elements once. *)
LEMMA SetToSeqIs ==
  ASSUME NEW S, IsFiniteSet(S)
  PROVE  /\ SetToSeq(S) \in Seq(S)
         /\ ToSet(SetToSeq(S)) = S
         /\ NoneTwice(SetToSeq(S))
<1> DEFINE n == Cardinality(S)
           t == SetToSeq(S)
<1>1. n \in Nat /\ ExistsBijection(1..n, S)
  BY FS_CardinalityType
<1>2. \E f \in [1..n -> S] : IsInjective(f)
  BY <1>1 DEF ExistsBijection, Bijection, Injection
<1>3. t \in [1..n -> S] /\ IsInjective(t)
  BY <1>2 DEF SetToSeq
<1>4. t \in Injection(1..n, S)
  BY <1>3 DEF Injection
<1>5. IsFiniteSet(1..n) /\ Cardinality(1..n) = n
  BY <1>1, FS_Interval
<1>6. t \in Surjection(1..n, S)
  BY <1>4, <1>5, FS_Injection
<1>7. \A x \in S : \E i \in 1..n : t[i] = x
  BY <1>6 DEF Surjection
<1> HIDE DEF t, n
<1>8. t \in Seq(S) /\ Len(t) = n
  BY <1>1, <1>3
<1>9. ToSet(t) = S
  <2>1. \A i \in 1..Len(t) : t[i] \in ToSet(t)
    BY <1>8, Members
  <2>2. S \subseteq ToSet(t)
    BY <1>7, <1>8, <2>1
  <2>3. ToSet(t) \subseteq S
    BY <1>8, Members
  <2>4. QED
    BY <2>2, <2>3
<1>10. NoneTwice(t)
  BY <1>3, <1>8 DEF NoneTwice, IsInjective
<1>11. QED
  BY <1>8, <1>9, <1>10 DEF t

(* An arrangement of a set of messages. *)
LEMMA ArrangementIs ==
  ASSUME NEW S, IsFiniteSet(S), NEW t \in SetToSeqs(S)
  PROVE  t \in Seq(S) /\ ToSet(t) \subseteq S
<1>1. Cardinality(S) \in Nat /\ t \in [1..Cardinality(S) -> S]
  BY FS_CardinalityType DEF SetToSeqs
<1>2. t \in Seq(S)
  BY <1>1
<1>3. QED
  BY <1>2, Members

(* Records put behind those of a sequence. *)
LEMMA PutIs ==
  ASSUME NEW S, IsFiniteSet(S), NEW s \in Seq(S), NEW ms \in SUBSET S
  PROVE  /\ Put(s, ms) \in Seq(S)
         /\ ToSet(Put(s, ms)) = ToSet(s) \cup ms
         /\ NoneTwice(s) => NoneTwice(Put(s, ms))
         /\ ms \subseteq ToSet(s) => Put(s, ms) = s
         /\ \A a, b : Before(s, a, b) => Before(Put(s, ms), a, b)
         /\ \A a \in ToSet(s), b \in ms \ ToSet(s) : Before(Put(s, ms), a, b)
         /\ \A m : ms = {m} =>
              \A a, b : Before(Put(s, ms), a, b) =>
                \/ Before(s, a, b)
                \/ a \in ToSet(s) /\ b = m /\ m \notin ToSet(s)
<1> DEFINE r == ms \ ToSet(s)
           t == SetToSeq(r)
<1>1. IsFiniteSet(r)
  BY FS_Subset
<1>2. t \in Seq(r) /\ ToSet(t) = r /\ NoneTwice(t)
  BY <1>1, SetToSeqIs
<1>3. Put(s, ms) = s \o t
  BY DEF Put
<1>4. t \in Seq(S)
  <2>1. r \subseteq S
    OBVIOUS
  <2> HIDE DEF t, r
  <2>2. QED
    BY <1>2, <2>1
<1>5. ms \subseteq ToSet(s) => s \o t = s
  <2>1. SUFFICES ASSUME ms \subseteq ToSet(s) PROVE s \o t = s
    OBVIOUS
  <2>2. r = {}
    BY <2>1
  <2> HIDE DEF t, r
  <2>3. t = <<>>
    <3>1. Len(t) \in Nat /\ \A i \in 1..Len(t) : t[i] \in ToSet(t)
      BY <1>4, Members
    <3>2. Len(t) = 0
      BY <1>2, <2>2, <3>1
    <3>3. QED
      BY <1>4, <3>2
  <2>4. QED
    BY <2>3
<1>6. ASSUME NEW m, ms = {m}, NEW a, NEW b
      PROVE  ~Before(t, a, b)
  <2>1. SUFFICES ASSUME Before(t, a, b) PROVE FALSE
    OBVIOUS
  <2>2. r \subseteq {m}
    BY <1>6
  <2> HIDE DEF t, r
  <2>3. PICK i, j \in 1..Len(t) : i < j
    BY <2>1 DEF Before
  <2>4. t[i] \in r /\ t[j] \in r /\ Len(t) \in Nat
    BY <1>2, <1>4, <2>3, Members
  <2>5. i = j
    BY <1>2, <2>2, <2>4 DEF NoneTwice
  <2>6. QED
    BY <2>3, <2>4, <2>5
<1>7. ToSet(s) \cap r = {} /\ ToSet(s) \cup r = ToSet(s) \cup ms
  OBVIOUS
<1>8. ASSUME NEW m, ms = {m}, NEW b \in r
      PROVE  b = m /\ m \notin ToSet(s)
  BY <1>8
<1> HIDE DEF t, r
<1>9. /\ s \o t \in Seq(S)
      /\ ToSet(s \o t) = ToSet(s) \cup r
      /\ NoneTwice(s) => NoneTwice(s \o t)
      /\ \A a, b : Before(s, a, b) => Before(s \o t, a, b)
      /\ \A a \in ToSet(s), b \in r : Before(s \o t, a, b)
      /\ \A a, b : Before(s \o t, a, b) =>
           Before(s, a, b) \/ (a \in ToSet(s) /\ b \in r) \/ Before(t, a, b)
  BY <1>2, <1>4, <1>7, ConcatIs
<1>10. \A a \in ToSet(s), b \in ms \ ToSet(s) : Before(s \o t, a, b)
  BY <1>9 DEF r
<1>11. ASSUME NEW m, ms = {m}, NEW a, NEW b, Before(s \o t, a, b)
       PROVE  Before(s, a, b) \/ (a \in ToSet(s) /\ b = m /\ m \notin ToSet(s))
  BY <1>6, <1>8, <1>9, <1>11
<1>12. \A m : ms = {m} =>
         \A a, b : Before(s \o t, a, b) =>
           Before(s, a, b) \/ (a \in ToSet(s) /\ b = m /\ m \notin ToSet(s))
  BY <1>11
<1>13. /\ s \o t \in Seq(S) /\ ToSet(s \o t) = ToSet(s) \cup ms
       /\ NoneTwice(s) => NoneTwice(s \o t)
       /\ \A a, b : Before(s, a, b) => Before(s \o t, a, b)
  BY <1>7, <1>9
<1>14. QED
  BY <1>3, <1>5, <1>10, <1>12, <1>13, Zenon

(* A record taken out. *)
LEMMA WithoutIs ==
  ASSUME NEW S, NEW s \in Seq(S), NEW m, NoneTwice(s)
  PROVE  /\ Without(s, m) \in Seq(S)
         /\ ToSet(Without(s, m)) = ToSet(s) \ {m}
         /\ NoneTwice(Without(s, m))
         /\ \A a, b : Before(Without(s, m), a, b) => Before(s, a, b)
<1>1. CASE m \notin ToSet(s)
  BY <1>1 DEF Without
<1>2. CASE m \in ToSet(s)
  <2> DEFINE k == CHOOSE i \in DOMAIN s : s[i] = m
             t == RemoveAt(s, k)
  <2>1. k \in 1..Len(s) /\ s[k] = m /\ Len(s) \in Nat
    BY <1>2 DEF ToSet
  <2>2. Without(s, m) = t
    BY <1>2 DEF Without
  <2> HIDE DEF k
  <2>3. /\ t \in Seq(S) /\ Len(t) = Len(s) - 1
        /\ \A i \in 1..(Len(s) - 1) :
             t[i] = IF i < k THEN s[i] ELSE s[i + 1]
    <3>1. /\ SubSeq(s, 1, k - 1) \in Seq(S) /\ Len(SubSeq(s, 1, k - 1)) = k - 1
          /\ \A i \in 1..(k - 1) : SubSeq(s, 1, k - 1)[i] = s[i]
      BY <2>1
    <3>2. /\ SubSeq(s, k + 1, Len(s)) \in Seq(S)
          /\ Len(SubSeq(s, k + 1, Len(s))) = Len(s) - k
          /\ \A i \in 1..(Len(s) - k) : SubSeq(s, k + 1, Len(s))[i] = s[k + i]
      BY <2>1
    <3> DEFINE p == SubSeq(s, 1, k - 1)
               q == SubSeq(s, k + 1, Len(s))
    <3>3. t = p \o q
      BY DEF RemoveAt
    <3> HIDE DEF p, q, t
    <3>4. p \in Seq(S) /\ q \in Seq(S) /\ Len(p) = k - 1 /\ Len(q) = Len(s) - k
      BY <3>1, <3>2 DEF p, q
    <3>5. /\ p \o q \in Seq(S) /\ Len(p \o q) = Len(s) - 1
          /\ \A i \in 1..(Len(s) - 1) :
               (p \o q)[i] = IF i < k THEN p[i] ELSE q[i - (k - 1)]
      BY <2>1, <3>4
    <3>6. ASSUME NEW i \in 1..(Len(s) - 1)
          PROVE  t[i] = IF i < k THEN s[i] ELSE s[i + 1]
      <4>1. CASE i < k
        BY <2>1, <3>1, <3>3, <3>5, <4>1 DEF p
      <4>2. CASE ~(i < k)
        <5>1. i - (k - 1) \in 1..(Len(s) - k) /\ k + (i - (k - 1)) = i + 1
          BY <2>1, <4>2
        <5>2. q[i - (k - 1)] = s[i + 1]
          BY <3>2, <5>1 DEF q
        <5>3. QED
          BY <3>3, <3>5, <4>2, <5>2
      <4>3. QED
        BY <4>1, <4>2
    <3>7. QED
      BY <3>3, <3>5, <3>6
  <2> HIDE DEF t
  <2> DEFINE at(i) == IF i < k THEN i ELSE i + 1
  <2>4. /\ \A i \in 1..Len(t) : at(i) \in 1..Len(s) /\ at(i) # k /\ t[i] = s[at(i)]
        /\ \A i, j \in 1..Len(t) : i < j => at(i) < at(j)
        /\ \A i, j \in 1..Len(t) : at(i) = at(j) => i = j
    <3>1. /\ \A i \in 1..(Len(s) - 1) : at(i) \in 1..Len(s) /\ at(i) # k
          /\ \A i, j \in 1..(Len(s) - 1) : i < j => at(i) < at(j)
          /\ \A i, j \in 1..(Len(s) - 1) : at(i) = at(j) => i = j
      BY <2>1
    <3>2. \A i \in 1..(Len(s) - 1) : t[i] = s[at(i)]
      BY <2>3
    <3> HIDE DEF at
    <3>3. QED
      BY <2>3, <3>1, <3>2
  <2>5. \A i \in 1..Len(s) : i # k => \E j \in 1..Len(t) : at(j) = i
    <3>1. SUFFICES ASSUME NEW i \in 1..Len(s), i # k
                   PROVE  \E j \in 1..Len(t) : at(j) = i
      OBVIOUS
    <3>2. CASE i < k
      BY <2>1, <2>3, <3>1, <3>2
    <3>3. CASE i > k
      <4>1. i - 1 \in 1..Len(t) /\ at(i - 1) = i
        BY <2>1, <2>3, <3>1, <3>3
      <4>2. QED
        BY <4>1
    <3>4. QED
      BY <2>1, <3>1, <3>2, <3>3
  <2> HIDE DEF at
  <2>6. ToSet(t) = ToSet(s) \ {m}
    <3>1. ASSUME NEW x \in ToSet(t)
          PROVE  x \in ToSet(s) \ {m}
      <4>1. PICK i \in 1..Len(t) : t[i] = x
        BY <2>3, Members
      <4>2. s[at(i)] # s[k]
        BY <2>1, <2>4, <4>1 DEF NoneTwice
      <4>3. QED
        BY <2>1, <2>4, <4>1, <4>2, Members
    <3>2. ASSUME NEW x \in ToSet(s) \ {m}
          PROVE  x \in ToSet(t)
      <4>1. PICK i \in 1..Len(s) : s[i] = x
        BY Members
      <4>2. PICK j \in 1..Len(t) : at(j) = i
        BY <2>1, <2>5, <3>2, <4>1
      <4>3. QED
        BY <2>3, <2>4, <4>1, <4>2, Members
    <3>3. QED
      BY <3>1, <3>2
  <2>7. NoneTwice(t)
    BY <2>4 DEF NoneTwice
  <2>8. ASSUME NEW a, NEW b, Before(t, a, b)
        PROVE  Before(s, a, b)
    <3>1. PICK i, j \in 1..Len(t) : i < j /\ t[i] = a /\ t[j] = b
      BY <2>8 DEF Before
    <3>2. at(i) < at(j) /\ s[at(i)] = a /\ s[at(j)] = b
      BY <2>4, <3>1
    <3>3. QED
      BY <2>4, <3>2 DEF Before
  <2>9. QED
    BY <2>2, <2>3, <2>6, <2>7, <2>8
<1>3. QED
  BY <1>1, <1>2

-----------------------------------------------------------------------------
(* Types *)

USE DeliveryAssumption DEF DeliveryAssumption

Request == [msg : Messages, known : BOOLEAN]
Answer == [msg : Messages, ok : BOOLEAN]
FlushCall == [todo : Seq(Messages), ready : {"next", "waiting", "saved", "unsaved"}]
Kinds == {"break", "unsaved", "answer", "rebootstrap", "reload", "logout"}

StoreTyped ==
  /\ bubble \in [Messages -> {None, "queued", "sending", "failed", "confirmed"}]
  /\ timers \subseteq Messages
  /\ attempt \in [Messages -> {"none", "waiting", "saved", "unsaved"}]

OutboxTyped ==
  /\ queue \in Seq(Messages) /\ persisting \in Seq(Messages) /\ idb \in Seq(Messages)
  /\ inFlight \subseteq Messages /\ durable \subseteq Messages
  /\ flushes \subseteq FlushCall
  /\ \A f \in flushes : f.ready # "next" => f.todo # <<>>

LinkTyped ==
  /\ state \in {"down", "booting", "live"}
  /\ socket \in {"open", "deaf", "closing", "gone"}
  /\ socket = "gone" <=> state = "down"
  /\ up \in Seq(Messages) /\ down \in Seq(Answer)

ServerTyped ==
  /\ handling \in Request \cup {None} /\ late \subseteq Request
  /\ rows \in [Messages -> Nat]

BoundsTyped ==
  /\ fresh \subseteq Messages
  /\ left \in [Kinds -> Nat]
  /\ left.unsaved <= MaxUnsaved /\ left.logout <= MaxLogouts
  /\ left.rebootstrap <= MaxRebootstraps

Typed == StoreTyped /\ OutboxTyped /\ LinkTyped /\ ServerTyped /\ BoundsTyped

LEMMA TypedIsTypeOK == Typed => TypeOK
<1> SUFFICES ASSUME Typed PROVE TypeOK
  OBVIOUS
<1>1. \A s \in Seq(Messages) : ToSet(s) \subseteq Messages
  BY Members
<1>2. \A f \in flushes :
        /\ ToSet(f.todo) \subseteq Messages
        /\ f.ready \in {"next", "waiting", "saved", "unsaved"}
        /\ f.ready # "next" => f.todo # <<>>
  BY <1>1 DEF Typed, OutboxTyped, FlushCall
<1>3. \A r \in late \cup ({handling} \ {None}) : r.msg \in Messages
  BY DEF Typed, ServerTyped, Request
<1>4. \A s \in {queue, persisting, idb, up} : ToSet(s) \subseteq Messages
  BY <1>1 DEF Typed, OutboxTyped, LinkTyped
<1>5. QED
  BY <1>2, <1>3, <1>4
     DEF Typed, TypeOK, StoreTyped, OutboxTyped, LinkTyped, ServerTyped, BoundsTyped

LEMMA InitIsTyped == Init => Typed
  BY DEF Init, Typed, StoreTyped, OutboxTyped, LinkTyped, ServerTyped, BoundsTyped,
         Kinds

(* A bound is spent, and nothing else of left changes. *)
LEMMA SpendIs ==
  ASSUME BoundsTyped, NEW k \in Kinds, Spend(k)
  PROVE  /\ left' \in [Kinds -> Nat]
         /\ left'[k] < left[k]
         /\ \A j \in Kinds : left'[j] <= left[j]
         /\ left'.unsaved <= MaxUnsaved /\ left'.logout <= MaxLogouts
         /\ left'.rebootstrap <= MaxRebootstraps
<1>1. left \in [Kinds -> Nat] /\ left[k] > 0 /\ left' = [left EXCEPT ![k] = left[k] - 1]
  BY DEF BoundsTyped, Spend
<1>2. left' \in [Kinds -> Nat] /\ \A j \in Kinds : left'[j] <= left[j]
  BY <1>1
<1>3. {"unsaved", "logout", "rebootstrap"} \subseteq Kinds
  BY DEF Kinds
<1>4. /\ left'.unsaved <= left.unsaved /\ left'.logout <= left.logout
      /\ left'.rebootstrap <= left.rebootstrap
  BY <1>2, <1>3
<1>5. /\ {left.unsaved, left.logout, left.rebootstrap} \subseteq Nat
      /\ {left'.unsaved, left'.logout, left'.rebootstrap} \subseteq Nat
  BY <1>1, <1>2, <1>3
<1>6. QED
  BY <1>1, <1>2, <1>4, <1>5 DEF BoundsTyped

LEMMA EnqueueIsTyped ==
  ASSUME OutboxTyped, NEW ms \in SUBSET Messages, Enqueue(ms)
  PROVE  queue' \in Seq(Messages) /\ persisting' \in Seq(Messages)
  BY PutIs DEF OutboxTyped, Enqueue

LEMMA LeaveBehindIsTyped ==
  ASSUME LinkTyped, ServerTyped, LeaveBehind
  PROVE  ServerTyped' /\ up' = <<>> /\ down' = <<>> /\ handling' = None
<1>1. PICK n \in 0..Len(up) :
        late' = late \cup ({handling} \ {None})
                     \cup {[msg |-> m, known |-> FALSE] : m \in ToSet(SubSeq(up, 1, n))}
  BY DEF LeaveBehind
<1>2. ToSet(SubSeq(up, 1, n)) \subseteq Messages
  BY PrefixIs, Members DEF LinkTyped
<1>3. late' \subseteq Request
  <2>1. late \subseteq Request /\ {handling} \ {None} \subseteq Request
    BY DEF ServerTyped
  <2>2. \A m \in Messages : [msg |-> m, known |-> FALSE] \in Request
    BY DEF Request
  <2>3. {[msg |-> m, known |-> FALSE] : m \in ToSet(SubSeq(up, 1, n))} \subseteq Request
    BY <1>2, <2>2, Zenon
  <2>4. QED
    BY <1>1, <2>1, <2>3
<1>4. QED
  BY <1>3 DEF LeaveBehind, ServerTyped

LEMMA RequeueIsTyped ==
  ASSUME StoreTyped, OutboxTyped, Requeue
  PROVE  /\ bubble' \in [Messages -> {None, "queued", "sending", "failed", "confirmed"}]
         /\ timers' \subseteq Messages
         /\ inFlight' \subseteq Messages
         /\ queue' \in Seq(Messages) /\ persisting' \in Seq(Messages)
<1>1. {m \in Messages : bubble[m] = "sending"} \in SUBSET Messages
  OBVIOUS
<1>2. queue' \in Seq(Messages) /\ persisting' \in Seq(Messages)
  BY <1>1, EnqueueIsTyped DEF Requeue
<1>3. QED
  BY <1>2 DEF Requeue, StoreTyped

LEMMA InvalidateIsTyped ==
  ASSUME LinkTyped, ServerTyped, InvalidateTransport
  PROVE  /\ ServerTyped'
         /\ state' = "down" /\ socket' = "gone"
         /\ up' \in Seq(Messages) /\ down' \in Seq(Answer)
<1>1. CASE socket = "closing"
  BY <1>1 DEF InvalidateTransport, server, ServerTyped, LinkTyped
<1>2. CASE socket # "closing"
  BY <1>2, LeaveBehindIsTyped DEF InvalidateTransport
<1>3. QED
  BY <1>1, <1>2

LEMMA CutIsTyped ==
  ASSUME LinkTyped, ServerTyped, CutConnection
  PROVE  /\ ServerTyped'
         /\ state' = "down" /\ socket' = "gone"
         /\ up' \in Seq(Messages) /\ down' \in Seq(Answer)
<1>1. CASE ~CanWrite
  BY <1>1 DEF CutConnection, server, ServerTyped, LinkTyped
<1>2. CASE CanWrite
  BY <1>2, LeaveBehindIsTyped DEF CutConnection
<1>3. QED
  BY <1>1, <1>2

LEMMA RemoveIsTyped ==
  ASSUME OutboxTyped, NEW m, RemoveRecord(m), NoneTwice(queue), NoneTwice(idb)
  PROVE  OutboxTyped'
  BY WithoutIs DEF OutboxTyped, RemoveRecord

-----------------------------------------------------------------------------
(* The connection: what has been written on it and is not answered yet *)

Answers == [i \in 1..Len(down) |-> down[i].msg]
Executed == IF handling = None THEN {} ELSE {handling.msg}
OnWire == ToSet(up) \cup Executed \cup ToSet(Answers)

WireInv ==
  /\ NoneTwice(up) /\ NoneTwice(Answers)
  /\ ToSet(up) \cap Executed = {} /\ ToSet(up) \cap ToSet(Answers) = {}
  /\ Executed \cap ToSet(Answers) = {}
  /\ ~CanWrite => OnWire = {}

wire == <<up, down, handling>>

LEMMA SameSequence ==
  ASSUME NEW S, NEW s \in Seq(S), NEW t \in Seq(S), Len(s) = Len(t),
         \A i \in 1..Len(s) : s[i] = t[i]
  PROVE  s = t
  OBVIOUS

LEMMA AnswersIs ==
  ASSUME down \in Seq(Answer)
  PROVE  /\ Answers \in Seq(Messages) /\ Len(Answers) = Len(down) /\ Len(down) \in Nat
         /\ \A i \in 1..Len(down) : Answers[i] = down[i].msg
         /\ Answers = <<>> <=> down = <<>>
         /\ down # <<>> => Head(Answers) = Head(down).msg
<1>1. Len(down) \in Nat /\ \A i \in 1..Len(down) : down[i] \in Answer
  OBVIOUS
<1>2. \A i \in 1..Len(down) : down[i].msg \in Messages
  BY <1>1 DEF Answer
<1>3. /\ Answers \in Seq(Messages) /\ Len(Answers) = Len(down)
      /\ \A i \in 1..Len(down) : Answers[i] = down[i].msg
  BY <1>1, <1>2 DEF Answers
<1>4. Answers = <<>> <=> down = <<>>
  BY <1>3
<1>5. down # <<>> => Head(Answers) = Head(down).msg
  <2>1. SUFFICES ASSUME down # <<>> PROVE Head(Answers) = Head(down).msg
    OBVIOUS
  <2>2. 1 \in 1..Len(down) /\ Head(down) = down[1]
    BY <2>1
  <2>3. Answers # <<>> /\ Head(Answers) = Answers[1]
    BY <1>3, <1>4, <2>1
  <2>4. QED
    BY <1>3, <2>2, <2>3
<1>6. QED
  BY <1>1, <1>3, <1>4, <1>5

LEMMA AnswersGrow ==
  ASSUME down \in Seq(Answer), NEW m \in Messages, NEW b \in BOOLEAN,
         down' = Append(down, [msg |-> m, ok |-> b])
  PROVE  Answers' = Append(Answers, m)
<1> DEFINE a == [msg |-> m, ok |-> b]
<1>1. a \in Answer /\ a.msg = m
  BY DEF Answer
<1> HIDE DEF a
<1>2. /\ down' \in Seq(Answer) /\ Len(down') = Len(down) + 1 /\ Len(down) \in Nat
      /\ down'[Len(down) + 1] = a
      /\ \A i \in 1..Len(down) : down'[i] = down[i]
  BY <1>1 DEF a
<1>3. /\ Answers' \in Seq(Messages) /\ Len(Answers') = Len(down) + 1
      /\ \A i \in 1..(Len(down) + 1) : Answers'[i] = down'[i].msg
  <2>1. \A i \in 1..(Len(down) + 1) : down'[i] \in Answer
    BY <1>2
  <2>2. \A i \in 1..(Len(down) + 1) : down'[i].msg \in Messages
    BY <2>1 DEF Answer
  <2>3. QED
    BY <1>2, <2>2 DEF Answers
<1>4. /\ Answers \in Seq(Messages) /\ Len(Answers) = Len(down)
      /\ \A i \in 1..Len(down) : Answers[i] = down[i].msg
  BY AnswersIs
<1>5. /\ Append(Answers, m) \in Seq(Messages) /\ Len(Append(Answers, m)) = Len(down) + 1
      /\ Append(Answers, m)[Len(down) + 1] = m
      /\ \A i \in 1..Len(down) : Append(Answers, m)[i] = Answers[i]
  BY <1>2, <1>4
<1>6. ASSUME NEW i \in 1..(Len(down) + 1)
      PROVE  Answers'[i] = Append(Answers, m)[i]
  <2>1. CASE i = Len(down) + 1
    BY <1>1, <1>2, <1>3, <1>5, <2>1
  <2>2. CASE i \in 1..Len(down)
    <3>1. Answers'[i] = down[i].msg
      BY <1>2, <1>3, <2>2
    <3>2. Append(Answers, m)[i] = down[i].msg
      BY <1>4, <1>5, <2>2
    <3>3. QED
      BY <3>1, <3>2
  <2>3. Len(down) \in Nat
    BY <1>2
  <2>4. i = Len(down) + 1 \/ i \in 1..Len(down)
    BY <2>3
  <2>5. QED
    BY <2>1, <2>2, <2>4
<1>7. QED
  BY <1>3, <1>5, <1>6, SameSequence

LEMMA AnswersShrink ==
  ASSUME down \in Seq(Answer), down # <<>>, down' = Tail(down)
  PROVE  Answers # <<>> /\ Answers' = Tail(Answers)
<1>1. /\ down' \in Seq(Answer) /\ Len(down') = Len(down) - 1 /\ Len(down) \in Nat \ {0}
      /\ \A i \in 1..(Len(down) - 1) : down'[i] = down[i + 1]
  OBVIOUS
<1>2. /\ Answers' \in Seq(Messages) /\ Len(Answers') = Len(down) - 1
      /\ \A i \in 1..(Len(down) - 1) : Answers'[i] = down'[i].msg
  <2>1. \A i \in 1..(Len(down) - 1) : down'[i] \in Answer
    BY <1>1
  <2>2. \A i \in 1..(Len(down) - 1) : down'[i].msg \in Messages
    BY <2>1 DEF Answer
  <2>3. QED
    BY <1>1, <2>2 DEF Answers
<1>3. /\ Answers \in Seq(Messages) /\ Len(Answers) = Len(down) /\ Answers # <<>>
      /\ \A i \in 1..Len(down) : Answers[i] = down[i].msg
  BY AnswersIs
<1>4. /\ Tail(Answers) \in Seq(Messages) /\ Len(Tail(Answers)) = Len(down) - 1
      /\ \A i \in 1..(Len(down) - 1) : Tail(Answers)[i] = Answers[i + 1]
  BY <1>1, <1>3
<1>5. \A i \in 1..Len(Answers') : Answers'[i] = Tail(Answers)[i]
  <2>1. SUFFICES ASSUME NEW i \in 1..(Len(down) - 1)
                 PROVE  Answers'[i] = Tail(Answers)[i]
    BY <1>2
  <2>2. i + 1 \in 1..Len(down)
    BY <1>1
  <2>3. Answers'[i] = down[i + 1].msg
    BY <1>1, <1>2
  <2>4. Tail(Answers)[i] = down[i + 1].msg
    BY <1>3, <1>4, <2>2
  <2>5. QED
    BY <2>3, <2>4
<1>6. Len(Answers') = Len(Tail(Answers))
  BY <1>2, <1>4
<1>7. QED
  BY <1>2, <1>3, <1>4, <1>5, <1>6, SameSequence

LEMMA WireIsTyped ==
  ASSUME LinkTyped, ServerTyped
  PROVE  OnWire \subseteq Messages /\ Executed \subseteq Messages
<1>1. Executed \subseteq Messages
  BY DEF Executed, ServerTyped, Request
<1>2. ToSet(up) \subseteq Messages /\ ToSet(Answers) \subseteq Messages
  BY AnswersIs, Members DEF LinkTyped
<1>3. QED
  BY <1>1, <1>2 DEF OnWire

(* Nothing is on a connection that ended. *)
LEMMA EmptyWire ==
  ASSUME up' = <<>>, down' = <<>>, handling' = None
  PROVE  OnWire' = {} /\ WireInv'
<1>1. Answers' = <<>>
  BY DEF Answers
<1>2. Executed' = {}
  BY DEF Executed
<1>3. OnWire' = {}
  BY <1>1, <1>2, EmptyIs DEF OnWire
<1>4. QED
  BY <1>1, <1>2, <1>3, EmptyIs DEF WireInv

LEMMA SameWire ==
  ASSUME WireInv, UNCHANGED wire, CanWrite => CanWrite'
  PROVE  OnWire' = OnWire /\ WireInv'
  BY DEF wire, WireInv, OnWire, Answers, Executed

LEMMA InvalidateEmptiesWire ==
  ASSUME LinkTyped, ServerTyped, WireInv, InvalidateTransport
  PROVE  OnWire' = {} /\ WireInv'
<1>1. CASE socket = "closing"
  <2>1. UNCHANGED wire /\ OnWire = {}
    BY <1>1 DEF InvalidateTransport, server, wire, WireInv, CanWrite
  <2>2. QED
    BY <2>1 DEF wire, WireInv, OnWire, Answers, Executed
<1>2. CASE socket # "closing"
  BY <1>2, EmptyWire DEF InvalidateTransport, LeaveBehind
<1>3. QED
  BY <1>1, <1>2

LEMMA CutEmptiesWire ==
  ASSUME LinkTyped, ServerTyped, WireInv, CutConnection
  PROVE  OnWire' = {} /\ WireInv'
<1>1. CASE ~CanWrite
  <2>1. UNCHANGED wire /\ OnWire = {}
    BY <1>1 DEF CutConnection, server, wire, WireInv
  <2>2. QED
    BY <2>1 DEF wire, WireInv, OnWire, Answers, Executed
<1>2. CASE CanWrite
  BY <1>2, EmptyWire DEF CutConnection, LeaveBehind
<1>3. QED
  BY <1>1, <1>2

(* A message that is not on the wire is written. *)
LEMMA WriteIs ==
  ASSUME LinkTyped, ServerTyped, WireInv, NEW m \in Messages, m \notin OnWire, Write(m),
         CanWrite, UNCHANGED <<socket, down, handling>>
  PROVE  up' \in Seq(Messages) /\ OnWire' \subseteq OnWire \cup {m} /\ WireInv'
<1>1. /\ up' \in Seq(Messages) /\ ToSet(up') \subseteq ToSet(up) \cup {m}
      /\ NoneTwice(up')
  <2>1. CASE socket = "open"
    BY <2>1, AppendIs DEF Write, LinkTyped, WireInv, OnWire
  <2>2. CASE socket # "open"
    BY <2>2 DEF Write, LinkTyped, WireInv
  <2>3. QED
    BY <2>1, <2>2
<1>2. Answers' = Answers /\ Executed' = Executed
  BY DEF Answers, Executed
<1>3. CanWrite'
  BY DEF CanWrite
<1>4. QED
  BY <1>1, <1>2, <1>3 DEF OnWire, WireInv

LEMMA PathDiesOnWire ==
  ASSUME LinkTyped, ServerTyped, WireInv, PathDies
  PROVE  up' \in Seq(Messages) /\ OnWire' \subseteq OnWire /\ WireInv'
<1>1. PICK n \in 0..Len(up) : up' = SubSeq(up, 1, n)
  BY DEF PathDies
<1>2. up' \in Seq(Messages) /\ ToSet(up') \subseteq ToSet(up) /\ NoneTwice(up')
  BY <1>1, PrefixIs DEF LinkTyped, WireInv
<1>3. Answers' = Answers /\ Executed' = Executed
  BY DEF Answers, Executed, PathDies, server
<1>4. CanWrite'
  BY DEF CanWrite, PathDies
<1>5. QED
  BY <1>2, <1>3, <1>4 DEF OnWire, WireInv

LEMMA ReceivesOnWire ==
  ASSUME LinkTyped, ServerTyped, WireInv, ServerReceives
  PROVE  /\ up' \in Seq(Messages) /\ handling' \in Request /\ handling' # None
         /\ OnWire' = OnWire /\ WireInv'
<1>1. /\ up # <<>> /\ up' = Tail(up) /\ handling = None /\ CanWrite
      /\ handling' = [msg |-> Head(up), known |-> rows[Head(up)] > 0]
      /\ UNCHANGED <<socket, down>>
  BY DEF ServerReceives
<1>2. /\ up' \in Seq(Messages) /\ ToSet(up') = ToSet(up) \ {Head(up)}
      /\ NoneTwice(up') /\ Head(up) \in ToSet(up) /\ Head(up) \in Messages
  BY <1>1, TailIs DEF LinkTyped, WireInv
<1>3. handling' \in Request /\ handling' # None /\ handling'.msg = Head(up)
  <2>1. \A b \in BOOLEAN : [msg |-> Head(up), known |-> b] \in Request
    BY <1>2 DEF Request
  <2>2. (rows[Head(up)] > 0) \in BOOLEAN
    BY <1>2 DEF ServerTyped
  <2>3. handling' \in Request
    BY <1>1, <2>1, <2>2, Zenon
  <2>4. handling'.msg = Head(up) /\ None \notin Request
    BY <1>1 DEF Request
  <2>5. QED
    BY <2>3, <2>4
<1>4. Executed = {} /\ Executed' = {Head(up)} /\ Answers' = Answers
  BY <1>1, <1>3 DEF Executed, Answers
<1>5. CanWrite'
  BY <1>1 DEF CanWrite
<1>6. QED
  BY <1>2, <1>3, <1>4, <1>5 DEF OnWire, WireInv

LEMMA AnswersOnWire ==
  ASSUME LinkTyped, ServerTyped, WireInv, ServerAnswers
  PROVE  down' \in Seq(Answer) /\ OnWire' \subseteq OnWire /\ WireInv'
<1>1. /\ handling # None /\ handling' = None /\ UNCHANGED <<socket, up>>
      /\ \/ \E b \in BOOLEAN : down' = Append(down, [msg |-> handling.msg, ok |-> b])
         \/ down' = down
  BY DEF ServerAnswers
<1>2. handling.msg \in Messages /\ Executed = {handling.msg} /\ Executed' = {}
  BY <1>1 DEF ServerTyped, Request, Executed
<1>3. CanWrite
  BY <1>2 DEF WireInv, OnWire
<1>4. CanWrite'
  BY <1>1, <1>3 DEF CanWrite
<1>5. /\ down' \in Seq(Answer) /\ NoneTwice(Answers')
      /\ ToSet(Answers') \subseteq ToSet(Answers) \cup {handling.msg}
  <2>1. CASE down' = down
    BY <2>1 DEF LinkTyped, WireInv, Answers
  <2>2. ASSUME NEW b \in BOOLEAN, down' = Append(down, [msg |-> handling.msg, ok |-> b])
        PROVE  /\ down' \in Seq(Answer) /\ NoneTwice(Answers')
               /\ ToSet(Answers') \subseteq ToSet(Answers) \cup {handling.msg}
    <3>1. Answers' = Append(Answers, handling.msg) /\ Answers \in Seq(Messages)
      BY <1>2, <2>2, AnswersGrow, AnswersIs DEF LinkTyped
    <3>2. handling.msg \notin ToSet(Answers) /\ NoneTwice(Answers)
      BY <1>2 DEF WireInv
    <3>3. /\ ToSet(Answers') = ToSet(Answers) \cup {handling.msg}
          /\ NoneTwice(Answers')
      BY <1>2, <3>1, <3>2, AppendIs
    <3>4. [msg |-> handling.msg, ok |-> b] \in Answer
      BY <1>2 DEF Answer
    <3>5. down' \in Seq(Answer)
      BY <2>2, <3>4, AppendIs DEF LinkTyped
    <3>6. QED
      BY <3>3, <3>5
  <2>3. QED
    BY <1>1, <2>1, <2>2
<1>6. QED
  BY <1>1, <1>2, <1>4, <1>5 DEF OnWire, WireInv

(* An answer that arrives ends the claim of its message. *)
LEMMA ArrivalOnWire ==
  ASSUME LinkTyped, ServerTyped, WireInv, CanWrite, down # <<>>, down' = Tail(down),
         UNCHANGED <<socket, up, handling>>
  PROVE  /\ down' \in Seq(Answer) /\ Head(down).msg \in OnWire
         /\ OnWire' = OnWire \ {Head(down).msg} /\ WireInv'
<1>1. /\ Answers \in Seq(Messages) /\ Answers # <<>> /\ Answers' = Tail(Answers)
      /\ Head(Answers) = Head(down).msg
  BY AnswersShrink, AnswersIs DEF LinkTyped
<1>2. /\ ToSet(Answers') = ToSet(Answers) \ {Head(down).msg} /\ NoneTwice(Answers')
      /\ Head(down).msg \in ToSet(Answers)
  BY <1>1, TailIs DEF WireInv
<1>3. Executed' = Executed /\ CanWrite'
  BY DEF Executed, CanWrite
<1>4. down' \in Seq(Answer)
  BY DEF LinkTyped
<1>5. QED
  BY <1>2, <1>3, <1>4 DEF OnWire, WireInv

-----------------------------------------------------------------------------
(* The invariant of the records and of who waits for them *)

(* What is written has been claimed and saved. *)
ClaimInv == OnWire \subseteq inFlight \cap durable

(* The queue, the commits under way and the table of IndexedDB. *)
RecordInv ==
  /\ NoneTwice(queue) /\ NoneTwice(persisting) /\ NoneTwice(idb)
  /\ durable = ToSet(idb) /\ durable \subseteq ToSet(queue)
  /\ durable \cap ToSet(persisting) = {}

(* What a suspended or woken call may rely on. *)
Knows(result, m) ==
  /\ result = "waiting" => m \in ToSet(persisting)
  /\ result = "saved" => m \in durable
  /\ result = "unsaved" => m \notin durable

WaitInv ==
  /\ \A m \in Messages : Knows(attempt[m], m)
  /\ \A f \in flushes : f.ready # "next" => Knows(f.ready, Head(f.todo))

(* A message on the wire is not shown as failed, and an attempt that could   *)
(* still change it runs before the connection leaves LIVE_SYNCED.           *)
ShownInv ==
  \A m \in OnWire : bubble[m] # "failed" /\ (attempt[m] = "saved" => state = "live")

(* Nothing is known of a message before it is composed. *)
FreshInv ==
  \A m \in fresh :
    /\ bubble[m] = None /\ attempt[m] = "none"
    /\ m \notin ToSet(queue) \cup ToSet(persisting)
    /\ \A f \in flushes : m \notin ToSet(f.todo)

Safe == Typed /\ WireInv /\ ClaimInv /\ RecordInv /\ WaitInv /\ ShownInv /\ FreshInv

LEMMA InitIsSafe == Init => Safe
<1> SUFFICES ASSUME Init PROVE Safe
  OBVIOUS
<1>1. Typed
  BY InitIsTyped
<1>2. Answers = <<>> /\ Executed = {} /\ OnWire = {}
  BY EmptyIs DEF Init, Answers, Executed, OnWire
<1>3. WireInv /\ ClaimInv /\ ShownInv
  BY <1>2, EmptyIs DEF Init, WireInv, ClaimInv, ShownInv
<1>4. RecordInv /\ WaitInv /\ FreshInv
  BY EmptyIs DEF Init, RecordInv, WaitInv, FreshInv, Knows
<1>5. QED
  BY <1>1, <1>3, <1>4 DEF Safe

LEMMA FlushIs ==
  ASSUME Typed, NEW f \in flushes
  PROVE  /\ f.todo \in Seq(Messages) /\ f.ready \in {"next", "waiting", "saved", "unsaved"}
         /\ f = [todo |-> f.todo, ready |-> f.ready]
         /\ ToSet(f.todo) \subseteq Messages
         /\ f.todo # <<>> => Head(f.todo) \in ToSet(f.todo) /\ Head(f.todo) \in Messages
         /\ f.ready # "next" => f.todo # <<>>
<1>1. /\ f.todo \in Seq(Messages) /\ f.ready \in {"next", "waiting", "saved", "unsaved"}
      /\ f = [todo |-> f.todo, ready |-> f.ready]
      /\ f.ready # "next" => f.todo # <<>>
  BY DEF Typed, OutboxTyped, FlushCall
<1>2. QED
  BY <1>1, Members, TailIs

(* Where no call is ready to run, all of them wait. *)
LEMMA QuietIs ==
  ASSUME Typed, ~Runnable
  PROVE  /\ \A m \in Messages : attempt[m] \in {"none", "waiting"}
         /\ \A f \in flushes : f.ready = "waiting"
  BY DEF Runnable, Typed, StoreTyped

LEMMA EnqueueIs ==
  ASSUME Typed, RecordInv, NEW ms \in SUBSET Messages, Enqueue(ms),
         UNCHANGED <<durable, idb>>
  PROVE  /\ queue' \in Seq(Messages) /\ persisting' \in Seq(Messages)
         /\ ToSet(queue') = ToSet(queue) \cup ms
         /\ ToSet(persisting') = ToSet(persisting) \cup (ms \ durable)
         /\ RecordInv'
<1>1. /\ queue' \in Seq(Messages) /\ ToSet(queue') = ToSet(queue) \cup ms
      /\ NoneTwice(queue')
  BY PutIs DEF Enqueue, Typed, OutboxTyped, RecordInv
<1> DEFINE new == ms \ durable
<1>2. new \in SUBSET Messages /\ persisting' = Put(persisting, new)
  BY DEF Enqueue
<1> HIDE DEF new
<1>3. /\ persisting' \in Seq(Messages) /\ NoneTwice(persisting')
      /\ ToSet(persisting') = ToSet(persisting) \cup new
  BY <1>2, PutIs DEF Typed, OutboxTyped, RecordInv
<1>4. QED
  BY <1>1, <1>3 DEF RecordInv, new

LEMMA RemoveIs ==
  ASSUME Typed, RecordInv, NEW m, RemoveRecord(m)
  PROVE  /\ OutboxTyped' /\ RecordInv'
         /\ ToSet(queue') = ToSet(queue) \ {m} /\ durable' = durable \ {m}
         /\ inFlight' = inFlight \ {m} /\ UNCHANGED <<persisting, flushes>>
         /\ \A a, b : Before(queue', a, b) => Before(queue, a, b)
<1>1. /\ queue' \in Seq(Messages) /\ ToSet(queue') = ToSet(queue) \ {m}
      /\ NoneTwice(queue')
      /\ \A a, b : Before(queue', a, b) => Before(queue, a, b)
  BY WithoutIs DEF RemoveRecord, Typed, OutboxTyped, RecordInv
<1>2. /\ idb' \in Seq(Messages) /\ ToSet(idb') = ToSet(idb) \ {m}
      /\ NoneTwice(idb')
  BY WithoutIs DEF RemoveRecord, Typed, OutboxTyped, RecordInv
<1>3. QED
  BY <1>1, <1>2 DEF RemoveRecord, Typed, OutboxTyped, RecordInv

-----------------------------------------------------------------------------
(* Safe is inductive: what the kinds of steps have in common *)

LEMMA SameBoundsTyped ==
  ASSUME BoundsTyped, fresh' \subseteq fresh,
         \/ left' = left
         \/ \E k \in Kinds : Spend(k)
  PROVE  BoundsTyped'
<1>1. CASE left' = left
  BY <1>1 DEF BoundsTyped
<1>2. ASSUME NEW k \in Kinds, Spend(k)
      PROVE  BoundsTyped'
  BY <1>2, SpendIs DEF BoundsTyped
<1>3. QED
  BY <1>1, <1>2

(* Steps of the network and the server. *)
LEMMA LinkStep ==
  ASSUME Safe, UNCHANGED <<store, outbox, fresh>>,
         LinkTyped', ServerTyped', BoundsTyped', WireInv', OnWire' \subseteq OnWire,
         \A m \in Messages : attempt[m] = "saved" => state' = state
  PROVE  Safe'
<1> USE DEF Safe, store, outbox
<1>1. Typed'
  BY DEF Typed, StoreTyped, OutboxTyped
<1>2. RecordInv' /\ ClaimInv' /\ FreshInv'
  BY DEF RecordInv, ClaimInv, FreshInv
<1>3. WaitInv'
  BY DEF WaitInv, Knows
<1>4. ShownInv'
  BY WireIsTyped DEF ShownInv, Typed
<1>5. QED
  BY <1>1, <1>2, <1>3, <1>4

(* Steps that only change what is shown and who waits. *)
LEMMA StatusStep ==
  ASSUME Safe,
         UNCHANGED <<queue, inFlight, durable, persisting, idb, link, server, fresh, left>>,
         StoreTyped', flushes' \subseteq FlushCall,
         \A m \in Messages : attempt'[m] \in {attempt[m], "none"},
         \A g \in flushes' :
           g \in flushes \/ (g.ready = "next" /\ ToSet(g.todo) \cap fresh = {}),
         \A m \in Messages : bubble'[m] # bubble[m] =>
           m \notin fresh /\ (m \in OnWire => bubble'[m] # "failed")
  PROVE  Safe'
<1> USE DEF Safe, link, server
<1>1. Typed'
  BY DEF Typed, OutboxTyped, LinkTyped, ServerTyped, BoundsTyped
<1>2. OnWire' = OnWire /\ WireInv'
  BY SameWire DEF wire, CanWrite
<1>3. RecordInv' /\ ClaimInv'
  BY <1>2 DEF RecordInv, ClaimInv
<1>4. FreshInv'
  BY DEF FreshInv, Typed, BoundsTyped
<1>5. WaitInv'
  BY DEF WaitInv, Knows
<1>6. ShownInv'
  BY <1>2, WireIsTyped DEF ShownInv, Typed
<1>7. QED
  BY <1>1, <1>2, <1>3, <1>4, <1>5, <1>6

(* Steps that end the connection and take back what was being sent. *)
LEMMA RequeueStep ==
  ASSUME Safe, Requeue, OnWire' = {}, WireInv', LinkTyped', ServerTyped', BoundsTyped',
         attempt' \in [Messages -> {"none", "waiting", "saved", "unsaved"}],
         \A m \in Messages : attempt'[m] \in {attempt[m], "none"},
         UNCHANGED <<durable, flushes, idb, fresh>>
  PROVE  Safe'
<1> DEFINE sending == {m \in Messages : bubble[m] = "sending"}
<1> USE DEF Safe
<1>1. StoreTyped' /\ OutboxTyped'
  BY RequeueIsTyped DEF Typed, StoreTyped, OutboxTyped
<1>2. Typed'
  BY <1>1 DEF Typed
<1>3. sending \in SUBSET Messages /\ Enqueue(sending)
  BY DEF Requeue
<1>4. \A m \in fresh : m \notin sending /\ bubble'[m] = None
  <2>1. ASSUME NEW m \in fresh
        PROVE  m \notin sending /\ bubble'[m] = None
    <3>1. m \in Messages /\ bubble[m] = None
      BY DEF FreshInv, Typed, BoundsTyped
    <3>2. QED
      BY <3>1 DEF Requeue
  <2>2. QED
    BY <2>1
<1> HIDE DEF sending
<1>5. /\ ToSet(queue') = ToSet(queue) \cup sending
      /\ ToSet(persisting') = ToSet(persisting) \cup (sending \ durable)
      /\ RecordInv'
  BY <1>3, EnqueueIs
<1>6. ClaimInv' /\ ShownInv'
  BY DEF ClaimInv, ShownInv
<1>7. FreshInv'
  BY <1>4, <1>5 DEF FreshInv, Typed, BoundsTyped
<1>8. WaitInv'
  BY <1>5 DEF WaitInv, Knows
<1>9. QED
  BY <1>2, <1>5, <1>6, <1>7, <1>8

(* A record that is taken out after its answer, or when it is discarded. *)
LEMMA RemoveStep ==
  ASSUME Safe, ~Runnable, NEW m \in Messages, RemoveRecord(m),
         UNCHANGED <<attempt, state, fresh, server>>,
         bubble' \in [Messages -> {None, "queued", "sending", "failed", "confirmed"}],
         timers' \subseteq Messages,
         LinkTyped', BoundsTyped', WireInv', OnWire' \subseteq OnWire \ {m},
         \A x \in Messages : bubble'[x] = bubble[x] \/ (x = m /\ m \notin fresh)
  PROVE  Safe'
<1> USE DEF Safe
<1>1. /\ OutboxTyped' /\ RecordInv'
      /\ ToSet(queue') = ToSet(queue) \ {m} /\ durable' = durable \ {m}
      /\ inFlight' = inFlight \ {m} /\ UNCHANGED <<persisting, flushes>>
  BY RemoveIs
<1>2. Typed'
  BY <1>1 DEF Typed, StoreTyped, ServerTyped, server
<1>3. ClaimInv'
  BY <1>1 DEF ClaimInv
<1>4. WaitInv'
  BY <1>1, QuietIs DEF WaitInv, Knows
<1>5. ShownInv'
  BY QuietIs, WireIsTyped DEF ShownInv, Typed
<1>6. FreshInv'
  BY <1>1 DEF FreshInv, Typed, BoundsTyped
<1>7. QED
  BY <1>1, <1>2, <1>3, <1>4, <1>5, <1>6

(* A saved message is claimed and written. *)
LEMMA WriteStep ==
  ASSUME Safe, NEW m \in Messages, m \in durable, m \notin inFlight, CanWrite, Write(m),
         state = "live", inFlight' = inFlight \cup {m},
         StoreTyped', flushes' \subseteq FlushCall,
         bubble'[m] # "failed",
         \A x \in Messages : bubble'[x] = bubble[x] \/ (x = m /\ m \notin fresh),
         \A x \in Messages : attempt'[x] \in {attempt[x], "none"},
         \A g \in flushes' :
           g \in flushes \/ (g.ready = "next" /\ ToSet(g.todo) \cap fresh = {}),
         UNCHANGED <<queue, durable, persisting, idb, state, socket, down, server, fresh,
                     left>>
  PROVE  Safe'
<1> USE DEF Safe, server
<1>1. m \notin OnWire
  BY DEF ClaimInv
<1>2. up' \in Seq(Messages) /\ OnWire' \subseteq OnWire \cup {m} /\ WireInv'
  BY <1>1, WriteIs DEF Typed
<1>3. Typed'
  BY <1>2 DEF Typed, OutboxTyped, LinkTyped, ServerTyped, BoundsTyped
<1>4. RecordInv' /\ ClaimInv'
  BY <1>2 DEF RecordInv, ClaimInv
<1>5. FreshInv'
  BY DEF FreshInv, Typed, BoundsTyped
<1>6. WaitInv'
  BY DEF WaitInv, Knows
<1>7. ShownInv'
  BY <1>2, WireIsTyped DEF ShownInv, Typed
<1>8. QED
  BY <1>2, <1>3, <1>4, <1>5, <1>6, <1>7

-----------------------------------------------------------------------------
(* Safe is inductive: the actions *)

LEMMA InsertIsTyped ==
  ASSUME rows \in [Messages -> Nat], NEW r \in Request, InsertMessage(r)
  PROVE  rows' \in [Messages -> Nat]
  BY DEF InsertMessage, Request

LEMMA NetworkKeeps ==
  ASSUME Safe, PathDies \/ ConnectionBreaks
  PROVE  Safe'
<1> USE DEF Safe
<1>1. BoundsTyped'
  <2>1. "break" \in Kinds
    BY DEF Kinds
  <2>2. QED
    BY <2>1, SameBoundsTyped DEF PathDies, ConnectionBreaks, Typed
<1>2. CASE PathDies
  <2>1. up' \in Seq(Messages) /\ OnWire' \subseteq OnWire /\ WireInv'
    BY <1>2, PathDiesOnWire DEF Typed
  <2>2. LinkTyped' /\ ServerTyped'
    BY <1>2, <2>1 DEF PathDies, Typed, LinkTyped, ServerTyped, server
  <2>3. QED
    BY <1>1, <1>2, <2>1, <2>2, LinkStep DEF PathDies
<1>3. CASE ConnectionBreaks
  <2>1. ServerTyped' /\ up' = <<>> /\ down' = <<>> /\ handling' = None
    BY <1>3, LeaveBehindIsTyped DEF ConnectionBreaks, Typed
  <2>2. LinkTyped'
    BY <1>3, <2>1 DEF ConnectionBreaks, CanWrite, Typed, LinkTyped
  <2>3. OnWire' = {} /\ WireInv'
    BY <2>1, EmptyWire
  <2>4. QED
    BY <1>1, <1>3, <2>1, <2>2, <2>3, LinkStep DEF ConnectionBreaks
<1>4. QED
  BY <1>2, <1>3

LEMMA ServerKeeps ==
  ASSUME Safe, \/ ServerReceives \/ ServerAnswers
               \/ \E r \in late : LateHandlerEnds(r)
  PROVE  Safe'
<1> USE DEF Safe
<1>1. BoundsTyped'
  <2>1. "answer" \in Kinds
    BY DEF Kinds
  <2>2. QED
    BY <2>1, SameBoundsTyped DEF ServerReceives, ServerAnswers, LateHandlerEnds, Typed
<1>2. CASE ServerReceives
  <2>1. /\ up' \in Seq(Messages) /\ handling' \in Request /\ handling' # None
        /\ OnWire' = OnWire /\ WireInv'
    BY <1>2, ReceivesOnWire DEF Typed
  <2>2. LinkTyped' /\ ServerTyped'
    BY <1>2, <2>1 DEF ServerReceives, Typed, LinkTyped, ServerTyped
  <2>3. QED
    BY <1>1, <1>2, <2>1, <2>2, LinkStep DEF ServerReceives
<1>3. CASE ServerAnswers
  <2>1. down' \in Seq(Answer) /\ OnWire' \subseteq OnWire /\ WireInv'
    BY <1>3, AnswersOnWire DEF Typed
  <2>2. rows' \in [Messages -> Nat]
    BY <1>3, InsertIsTyped DEF ServerAnswers, Typed, ServerTyped
  <2>3. LinkTyped' /\ ServerTyped'
    BY <1>3, <2>1, <2>2 DEF ServerAnswers, Typed, LinkTyped, ServerTyped
  <2>4. QED
    BY <1>1, <1>3, <2>1, <2>3, LinkStep DEF ServerAnswers
<1>4. ASSUME NEW r \in late, LateHandlerEnds(r)
      PROVE  Safe'
  <2>1. rows' \in [Messages -> Nat]
    BY <1>4, InsertIsTyped DEF LateHandlerEnds, Typed, ServerTyped
  <2>2. UNCHANGED wire /\ UNCHANGED <<store, outbox, link, fresh, left>>
    BY <1>4 DEF LateHandlerEnds, wire, link
  <2>3. LinkTyped' /\ ServerTyped'
    BY <1>4, <2>1, <2>2 DEF LateHandlerEnds, link, Typed, LinkTyped, ServerTyped
  <2>4. OnWire' = OnWire /\ WireInv'
    BY <2>2, SameWire DEF link, CanWrite
  <2>5. QED
    BY <1>1, <2>2, <2>3, <2>4, LinkStep DEF link
<1>5. QED
  BY <1>2, <1>3, <1>4

LEMMA RebootstrapKeeps ==
  ASSUME Safe, Rebootstrap
  PROVE  Safe'
<1> USE DEF Safe
<1>1. BoundsTyped'
  <2>1. "rebootstrap" \in Kinds
    BY DEF Kinds
  <2>2. QED
    BY <2>1, SameBoundsTyped DEF Rebootstrap, Typed
<1>2. UNCHANGED wire /\ UNCHANGED <<store, outbox, fresh, socket>>
  BY DEF Rebootstrap, wire, server
<1>3. LinkTyped' /\ ServerTyped'
  BY DEF Rebootstrap, server, Typed, LinkTyped, ServerTyped
<1>4. OnWire' = OnWire /\ WireInv'
  BY <1>2, SameWire DEF CanWrite
<1>5. \A m \in Messages : attempt[m] # "saved"
  BY QuietIs DEF Rebootstrap
<1>6. QED
  BY <1>1, <1>2, <1>3, <1>4, <1>5, LinkStep

LEMMA DropKeeps ==
  ASSUME Safe, CloseEvent \/ HeartbeatFails
  PROVE  Safe'
<1> USE DEF Safe
<1>1. BoundsTyped'
  BY SameBoundsTyped DEF CloseEvent, HeartbeatFails, Typed
<1>2. attempt' = attempt /\ attempt \in [Messages -> {"none", "waiting", "saved", "unsaved"}]
  BY DEF CloseEvent, HeartbeatFails, Typed, StoreTyped
<1>3. CASE CloseEvent
  <2>1. UNCHANGED wire /\ OnWire = {}
    BY <1>3 DEF CloseEvent, server, wire, WireInv, CanWrite
  <2>2. OnWire' = {} /\ WireInv'
    BY <2>1 DEF wire, WireInv, OnWire, Answers, Executed
  <2>3. LinkTyped' /\ ServerTyped'
    BY <1>3 DEF CloseEvent, server, Typed, LinkTyped, ServerTyped
  <2>4. QED
    BY <1>1, <1>2, <1>3, <2>2, <2>3, RequeueStep DEF CloseEvent
<1>4. CASE HeartbeatFails
  <2>1. OnWire' = {} /\ WireInv'
    BY <1>4, InvalidateEmptiesWire DEF HeartbeatFails, Typed
  <2>2. LinkTyped' /\ ServerTyped'
    BY <1>4, InvalidateIsTyped DEF HeartbeatFails, Typed, LinkTyped
  <2>3. QED
    BY <1>1, <1>2, <1>4, <2>1, <2>2, RequeueStep DEF HeartbeatFails
<1>5. QED
  BY <1>3, <1>4

LEMMA ConnectKeeps ==
  ASSUME Safe, Connect
  PROVE  Safe'
<1> USE DEF Safe
<1>1. UNCHANGED wire /\ UNCHANGED <<store, queue, durable, persisting, flushes, idb>>
      /\ UNCHANGED <<server, up, down, fresh, left>>
  BY DEF Connect, wire, server
<1>2. OnWire = {} /\ OnWire' = {} /\ WireInv'
  BY <1>1 DEF Connect, CanWrite, wire, WireInv, OnWire, Answers, Executed
<1>3. Typed'
  BY <1>1 DEF Connect, store, server, Typed, StoreTyped, OutboxTyped, LinkTyped,
              ServerTyped, BoundsTyped
<1>4. RecordInv' /\ ClaimInv' /\ ShownInv'
  BY <1>1, <1>2 DEF RecordInv, ClaimInv, ShownInv
<1>5. WaitInv' /\ FreshInv'
  BY <1>1 DEF WaitInv, FreshInv, Knows, store
<1>6. QED
  BY <1>2, <1>3, <1>4, <1>5

(* A flush begins with records of the queue, in their order. *)
LEMMA StartFlushIs ==
  ASSUME Typed, StartFlush
  PROVE  \E todo \in Seq(Messages) :
           /\ ToSet(todo) \subseteq ToSet(queue)
           /\ \A a, b : Before(todo, a, b) => Before(queue, a, b)
           /\ flushes' = flushes \cup {[todo |-> todo, ready |-> "next"]}
<1>1. PICK todo \in SetToSeqs(ToSet(queue) \ inFlight) :
        /\ \A i, j \in 1..Len(todo) : i < j => Before(queue, todo[i], todo[j])
        /\ flushes' = flushes \cup {[todo |-> todo, ready |-> "next"]}
  BY DEF StartFlush
<1> DEFINE S == ToSet(queue) \ inFlight
<1>2. S \subseteq Messages /\ S \subseteq ToSet(queue)
  BY Members DEF Typed, OutboxTyped
<1>3. IsFiniteSet(S)
  BY <1>2, FS_Subset
<1> HIDE DEF S
<1>4. todo \in Seq(S) /\ ToSet(todo) \subseteq S
  BY <1>1, <1>3, ArrangementIs DEF S
<1>5. todo \in Seq(Messages)
  BY <1>2, <1>4
<1>6. ASSUME NEW a, NEW b, Before(todo, a, b)
      PROVE  Before(queue, a, b)
  <2>1. PICK i, j \in 1..Len(todo) : i < j /\ todo[i] = a /\ todo[j] = b
    BY <1>6 DEF Before
  <2>2. Before(queue, todo[i], todo[j])
    BY <1>1, <2>1
  <2>3. QED
    BY <2>1, <2>2
<1>7. QED
  BY <1>1, <1>2, <1>4, <1>5, <1>6

LEMMA FinishBootstrapKeeps ==
  ASSUME Safe, FinishBootstrap
  PROVE  Safe'
<1> USE DEF Safe
<1>1. PICK todo \in Seq(Messages) :
        /\ ToSet(todo) \subseteq ToSet(queue)
        /\ flushes' = flushes \cup {[todo |-> todo, ready |-> "next"]}
  BY StartFlushIs DEF FinishBootstrap
<1>2. UNCHANGED wire /\ OnWire' = OnWire /\ WireInv'
  <2>1. UNCHANGED wire /\ UNCHANGED socket
    BY DEF FinishBootstrap, server, wire
  <2>2. QED
    BY <2>1, SameWire DEF CanWrite
<1>3. [todo |-> todo, ready |-> "next"] \in FlushCall
  BY DEF FlushCall
<1>4. Typed'
  <2>1. StoreTyped'
    BY DEF FinishBootstrap, Typed, StoreTyped
  <2>2. OutboxTyped'
    BY <1>1, <1>3 DEF FinishBootstrap, Typed, OutboxTyped
  <2>3. LinkTyped' /\ ServerTyped'
    BY DEF FinishBootstrap, server, Typed, LinkTyped, ServerTyped
  <2>4. BoundsTyped'
    BY DEF FinishBootstrap, Typed, BoundsTyped
  <2>5. QED
    BY <2>1, <2>2, <2>3, <2>4 DEF Typed
<1>5. RecordInv' /\ ClaimInv' /\ ShownInv'
  BY <1>2 DEF FinishBootstrap, RecordInv, ClaimInv, ShownInv
<1>6. WaitInv'
  BY <1>1 DEF FinishBootstrap, WaitInv, Knows
<1>7. FreshInv'
  BY <1>1 DEF FinishBootstrap, FreshInv
<1>8. QED
  BY <1>2, <1>4, <1>5, <1>6, <1>7

LEMMA BeginAttemptKeeps ==
  ASSUME Safe, NEW m \in Messages, NEW status \in Pending, BeginAttempt(m, status),
         m \notin OnWire, m \notin fresh', fresh' \subseteq fresh
  PROVE  Safe'
<1> USE DEF Safe
<1>1. /\ UNCHANGED <<timers, inFlight, durable, flushes, idb, link, server, left>>
      /\ bubble' = [bubble EXCEPT ![m] = status]
      /\ attempt' = [attempt EXCEPT ![m] = AwaitSaved(m)]
      /\ Enqueue({m}) /\ {m} \in SUBSET Messages
  BY DEF BeginAttempt
<1>2. /\ queue' \in Seq(Messages) /\ persisting' \in Seq(Messages)
      /\ ToSet(queue') = ToSet(queue) \cup {m}
      /\ ToSet(persisting') = ToSet(persisting) \cup ({m} \ durable)
      /\ RecordInv'
  BY <1>1, EnqueueIs
<1>3. StoreTyped'
  BY <1>1 DEF Typed, StoreTyped, AwaitSaved, Pending
<1>4. BoundsTyped'
  BY <1>1, SameBoundsTyped DEF Typed
<1>5. Typed'
  BY <1>1, <1>2, <1>3, <1>4 DEF Typed, OutboxTyped, LinkTyped, ServerTyped, link, server
<1>6. OnWire' = OnWire /\ WireInv'
  BY <1>1, SameWire DEF link, server, wire, CanWrite
<1>7. ClaimInv'
  BY <1>1, <1>6 DEF ClaimInv
<1>8. WaitInv'
  <2>1. ASSUME NEW x \in Messages
        PROVE  Knows(attempt[x], x)'
    <3>1. CASE x = m
      BY <1>1, <1>2, <3>1 DEF Typed, StoreTyped, Knows, AwaitSaved
    <3>2. CASE x # m
      BY <1>1, <1>2, <3>2 DEF Typed, StoreTyped, Knows, WaitInv
    <3>3. QED
      BY <3>1, <3>2
  <2>2. ASSUME NEW f \in flushes, f.ready # "next"
        PROVE  Knows(f.ready, Head(f.todo))'
    BY <1>1, <1>2, <2>2 DEF Knows, WaitInv
  <2>3. QED
    BY <1>1, <2>1, <2>2 DEF WaitInv
<1>9. ShownInv'
  BY <1>1, <1>6, WireIsTyped DEF ShownInv, link, Typed, StoreTyped
<1>10. FreshInv'
  BY <1>1, <1>2 DEF FreshInv, Typed, StoreTyped, BoundsTyped
<1>11. QED
  BY <1>2, <1>5, <1>6, <1>7, <1>8, <1>9, <1>10

LEMMA ComposeKeeps ==
  ASSUME Safe, Compose
  PROVE  Safe'
<1> DEFINE m == CHOOSE x \in fresh : TRUE
<1>1. /\ m \in fresh /\ m \in Messages /\ fresh' = fresh \ {m}
      /\ BeginAttempt(m, IF state = "live" THEN "sending" ELSE "queued")
  BY DEF Compose, Safe, Typed, BoundsTyped
<1> HIDE DEF m
<1>2. m \notin OnWire
  BY <1>1 DEF Safe, FreshInv, ClaimInv, RecordInv
<1>3. (IF state = "live" THEN "sending" ELSE "queued") \in Pending
  BY DEF Pending
<1>4. QED
  BY <1>1, <1>2, <1>3, BeginAttemptKeeps

LEMMA RetryKeeps ==
  ASSUME Safe, NEW m \in Messages, Retry(m)
  PROVE  Safe'
<1>1. bubble[m] = "failed" /\ BeginAttempt(m, "queued") /\ UNCHANGED fresh
  BY DEF Retry
<1>2. m \notin OnWire /\ m \notin fresh
  BY <1>1 DEF Safe, ShownInv, FreshInv
<1>3. QED
  BY <1>1, <1>2, BeginAttemptKeeps DEF Pending

(* updateSendStatus *)
LEMMA SetStatusIs ==
  ASSUME Typed, NEW m \in Messages, NEW status \in {"queued", "sending", "failed"},
         SetStatus(m, status)
  PROVE  /\ bubble' \in [Messages -> {None, "queued", "sending", "failed", "confirmed"}]
         /\ timers' \subseteq Messages
         /\ \A x \in Messages :
              \/ bubble'[x] = bubble[x]
              \/ x = m /\ bubble[m] # None /\ bubble'[m] = status
         /\ bubble'[m] = status \/ bubble'[m] = None
  BY DEF SetStatus, Typed, StoreTyped

LEMMA AttemptKeeps ==
  ASSUME Safe, NEW m \in Messages, AttemptContinues(m)
  PROVE  Safe'
<1> USE DEF Safe
<1>1. /\ attempt[m] \in {"saved", "unsaved"}
      /\ attempt' = [attempt EXCEPT ![m] = "none"]
      /\ UNCHANGED <<durable, flushes, idb, fresh, left>>
  BY DEF AttemptContinues
<1>2. /\ attempt' \in [Messages -> {"none", "waiting", "saved", "unsaved"}]
      /\ \A x \in Messages : attempt'[x] \in {attempt[x], "none"}
      /\ m \notin fresh /\ flushes' \subseteq FlushCall /\ flushes' = flushes
  BY <1>1 DEF Typed, StoreTyped, OutboxTyped, FreshInv
<1>3. ASSUME NEW status \in {"queued", "failed"}, SetStatus(m, status),
             m \in OnWire => status # "failed",
             UNCHANGED <<queue, inFlight, persisting, link, server>>
      PROVE  Safe'
  <2>1. /\ StoreTyped'
        /\ \A x \in Messages : bubble'[x] # bubble[x] =>
             x \notin fresh /\ (x \in OnWire => bubble'[x] # "failed")
    BY <1>2, <1>3, SetStatusIs DEF Typed, StoreTyped
  <2>2. QED
    BY <1>1, <1>2, <1>3, <2>1, StatusStep
<1>4. CASE UNCHANGED <<bubble, timers, queue, inFlight, persisting, link, server>>
  <2>1. StoreTyped' /\ bubble' = bubble
    BY <1>2, <1>4 DEF Typed, StoreTyped
  <2>2. QED
    BY <1>1, <1>2, <1>4, <2>1, StatusStep
<1>5. CASE attempt[m] = "unsaved" /\ SetStatus(m, "failed")
           /\ UNCHANGED <<queue, inFlight, persisting, link, server>>
  <2>1. m \notin OnWire
    BY <1>5 DEF WaitInv, Knows, ClaimInv
  <2>2. QED
    BY <1>3, <1>5, <2>1
<1>6. CASE SetStatus(m, "queued") /\ UNCHANGED <<queue, inFlight, persisting, link, server>>
  BY <1>3, <1>6
<1>7. CASE /\ attempt[m] = "saved" /\ state = "live" /\ m \notin inFlight /\ CanWrite
           /\ inFlight' = inFlight \cup {m} /\ bubble' = [bubble EXCEPT ![m] = "sending"]
           /\ timers' = timers \cup {m} /\ Write(m)
           /\ UNCHANGED <<queue, persisting, state, socket, down, server>>
  <2>1. m \in durable
    BY <1>7 DEF WaitInv, Knows
  <2>2. StoreTyped' /\ bubble'[m] # "failed"
        /\ \A x \in Messages : bubble'[x] = bubble[x] \/ (x = m /\ m \notin fresh)
    BY <1>2, <1>7 DEF Typed, StoreTyped
  <2>3. QED
    BY <1>1, <1>2, <1>7, <2>1, <2>2, WriteStep
<1>8. CASE Requeue /\ InvalidateTransport
  <2>1. OnWire' = {} /\ WireInv'
    BY <1>8, InvalidateEmptiesWire DEF Typed
  <2>2. LinkTyped' /\ ServerTyped'
    BY <1>8, InvalidateIsTyped DEF Typed, LinkTyped
  <2>3. BoundsTyped'
    BY <1>1, SameBoundsTyped DEF Typed
  <2>4. QED
    BY <1>1, <1>2, <1>8, <2>1, <2>2, <2>3, RequeueStep
<1>9. QED
  BY <1>4, <1>5, <1>6, <1>7, <1>8 DEF AttemptContinues

(* The call that replaces a flush after one record. *)
LEMMA FlushToIs ==
  ASSUME Safe, NEW f \in flushes, f.todo # <<>>, FlushTo(f, Tail(f.todo))
  PROVE  /\ flushes' \subseteq FlushCall
         /\ \A g \in flushes' :
              g \in flushes \/ (g.ready = "next" /\ ToSet(g.todo) \cap fresh = {})
<1> DEFINE rest == Tail(f.todo)
<1>1. f.todo \in Seq(Messages) /\ ToSet(f.todo) \cap fresh = {}
  BY FlushIs DEF Safe, FreshInv
<1>2. rest \in Seq(Messages) /\ ToSet(rest) \subseteq ToSet(f.todo)
  BY <1>1, TailIs
<1> HIDE DEF rest
<1>3. flushes' = (flushes \ {f}) \cup {[todo |-> rest, ready |-> "next"]}
  BY DEF FlushTo, rest
<1>4. [todo |-> rest, ready |-> "next"] \in FlushCall
  BY <1>2 DEF FlushCall
<1>5. QED
  BY <1>1, <1>2, <1>3, <1>4 DEF Safe, Typed, OutboxTyped

LEMMA FlushNextKeeps ==
  ASSUME Safe, NEW f \in flushes, FlushNext(f)
  PROVE  Safe'
<1> USE DEF Safe
<1> DEFINE m == Head(f.todo)
<1>1. /\ f.ready = "next" /\ f.todo # <<>> /\ Enqueue({m})
      /\ flushes' = (flushes \ {f}) \cup {[f EXCEPT !.ready = AwaitSaved(m)]}
      /\ UNCHANGED <<store, inFlight, durable, idb, link, server, fresh, left>>
  BY DEF FlushNext
<1>2. /\ f.todo \in Seq(Messages) /\ m \in ToSet(f.todo) /\ m \in Messages
      /\ f = [todo |-> f.todo, ready |-> f.ready]
  BY <1>1, FlushIs
<1>3. PICK g \in FlushCall : /\ g.todo = f.todo /\ Head(g.todo) = m
                            /\ g.ready = AwaitSaved(m)
                            /\ flushes' = (flushes \ {f}) \cup {g}
  <2>1. [f EXCEPT !.ready = AwaitSaved(m)] = [todo |-> f.todo, ready |-> AwaitSaved(m)]
    BY <1>2
  <2>2. [todo |-> f.todo, ready |-> AwaitSaved(m)] \in FlushCall
    BY <1>2 DEF FlushCall, AwaitSaved
  <2>3. QED
    BY <1>1, <2>1, <2>2
<1> HIDE DEF m
<1>4. /\ queue' \in Seq(Messages) /\ persisting' \in Seq(Messages)
      /\ ToSet(queue') = ToSet(queue) \cup {m}
      /\ ToSet(persisting') = ToSet(persisting) \cup ({m} \ durable)
      /\ RecordInv'
  <2>1. {m} \in SUBSET Messages
    BY <1>2
  <2>2. QED
    BY <1>1, <2>1, EnqueueIs
<1>5. Typed'
  BY <1>1, <1>2, <1>3, <1>4 DEF store, link, server, Typed, StoreTyped, OutboxTyped, LinkTyped,
                          ServerTyped, BoundsTyped
<1>6. OnWire' = OnWire /\ WireInv'
  BY <1>1, SameWire DEF link, server, wire, CanWrite
<1>7. ClaimInv' /\ ShownInv'
  BY <1>1, <1>6 DEF ClaimInv, ShownInv, store, link
<1>8. WaitInv'
  <2>1. ASSUME NEW x \in Messages
        PROVE  Knows(attempt[x], x)'
    BY <1>1, <1>4 DEF Knows, WaitInv, store
  <2>2. ASSUME NEW h \in flushes, h.ready # "next"
        PROVE  Knows(h.ready, Head(h.todo))'
    BY <1>1, <1>4, <2>2 DEF Knows, WaitInv
  <2>3. Knows(g.ready, Head(g.todo))'
    BY <1>1, <1>3, <1>4 DEF Knows, AwaitSaved
  <2>4. QED
    BY <1>3, <2>1, <2>2, <2>3 DEF WaitInv
<1>9. FreshInv'
  <2>1. m \notin fresh
    BY <1>2 DEF FreshInv
  <2>2. QED
    BY <1>1, <1>3, <1>4, <2>1 DEF FreshInv, store
<1>10. QED
  BY <1>4, <1>5, <1>6, <1>7, <1>8, <1>9

LEMMA FlushEndsKeeps ==
  ASSUME Safe, NEW f \in flushes, FlushEnds(f)
  PROVE  Safe'
<1>1. StoreTyped' /\ flushes' \subseteq FlushCall /\ flushes' \subseteq flushes
  BY DEF FlushEnds, store, Safe, Typed, StoreTyped, OutboxTyped
<1>2. QED
  BY <1>1, StatusStep DEF FlushEnds, store

LEMMA FlushSkipsKeeps ==
  ASSUME Safe, NEW f \in flushes, FlushSkips(f)
  PROVE  Safe'
<1> USE DEF Safe
<1> DEFINE m == Head(f.todo)
<1>1. /\ f.ready \in {"unsaved", "saved"} /\ f.todo # <<>>
      /\ m \in Messages /\ m \in ToSet(f.todo)
  BY FlushIs DEF FlushSkips
<1>2. m \notin fresh
  BY <1>1 DEF FreshInv
<1>3. /\ StoreTyped'
      /\ \A x \in Messages : bubble'[x] # bubble[x] =>
           x \notin fresh /\ (x \in OnWire => bubble'[x] # "failed")
  <2>1. CASE f.ready = "unsaved" /\ SetStatus(m, "failed")
    <3>1. m \notin OnWire
      BY <2>1 DEF WaitInv, Knows, ClaimInv
    <3> HIDE DEF m
    <3>2. QED
      BY <1>1, <1>2, <2>1, <3>1, SetStatusIs DEF FlushSkips, Typed, StoreTyped
  <2>2. CASE UNCHANGED <<bubble, timers>>
    BY <2>2 DEF FlushSkips, Typed, StoreTyped
  <2>3. QED
    BY <2>1, <2>2 DEF FlushSkips
<1>4. /\ flushes' \subseteq FlushCall
      /\ \A g \in flushes' :
           g \in flushes \/ (g.ready = "next" /\ ToSet(g.todo) \cap fresh = {})
  BY <1>1, FlushToIs DEF FlushSkips
<1>5. QED
  BY <1>3, <1>4, StatusStep DEF FlushSkips

LEMMA FlushBreaksKeeps ==
  ASSUME Safe, NEW f \in flushes, FlushBreaks(f)
  PROVE  Safe'
<1> USE DEF Safe
<1> DEFINE m == Head(f.todo)
<1>1. /\ f.ready = "saved" /\ f.todo # <<>>
      /\ m \in Messages /\ m \in ToSet(f.todo)
  BY FlushIs DEF FlushBreaks
<1>2. m \notin fresh
  BY <1>1 DEF FreshInv
<1>3. /\ StoreTyped'
      /\ \A x \in Messages : bubble'[x] # bubble[x] =>
           x \notin fresh /\ (x \in OnWire => bubble'[x] # "failed")
  <2>1. CASE SetStatus(m, "queued")
    <3> HIDE DEF m
    <3>1. QED
      BY <1>1, <1>2, <2>1, SetStatusIs DEF FlushBreaks, Typed, StoreTyped
  <2>2. CASE UNCHANGED <<bubble, timers>>
    BY <2>2 DEF FlushBreaks, Typed, StoreTyped
  <2>3. QED
    BY <2>1, <2>2 DEF FlushBreaks
<1>4. flushes' \subseteq FlushCall /\ flushes' \subseteq flushes
  BY DEF FlushBreaks, Typed, OutboxTyped
<1>5. QED
  BY <1>3, <1>4, StatusStep DEF FlushBreaks

LEMMA FlushWritesKeeps ==
  ASSUME Safe, NEW f \in flushes, FlushWrites(f)
  PROVE  Safe'
<1> USE DEF Safe
<1> DEFINE m == Head(f.todo)
<1>1. /\ f.ready = "saved" /\ f.todo # <<>>
      /\ m \in Messages /\ m \in ToSet(f.todo)
  BY FlushIs DEF FlushWrites
<1>2. m \notin fresh /\ m \in durable
  BY <1>1 DEF FreshInv, WaitInv, Knows
<1>3. /\ state = "live" /\ CanWrite /\ m \notin inFlight /\ inFlight' = inFlight \cup {m}
      /\ bubble' = IF bubble[m] = None THEN bubble ELSE [bubble EXCEPT ![m] = "sending"]
      /\ timers' = timers \cup {m} /\ Write(m) /\ FlushTo(f, Tail(f.todo))
      /\ UNCHANGED <<attempt, queue, durable, persisting, idb, state, socket, down, server,
                     fresh, left>>
  BY DEF FlushWrites
<1>4. /\ flushes' \subseteq FlushCall
      /\ \A g \in flushes' :
           g \in flushes \/ (g.ready = "next" /\ ToSet(g.todo) \cap fresh = {})
  BY <1>1, <1>3, FlushToIs
<1> HIDE DEF m
<1>5. StoreTyped' /\ bubble'[m] # "failed"
      /\ \A x \in Messages : bubble'[x] = bubble[x] \/ (x = m /\ m \notin fresh)
  BY <1>1, <1>2, <1>3 DEF Typed, StoreTyped
<1>6. \A x \in Messages : attempt'[x] \in {attempt[x], "none"}
  BY <1>3
<1>7. QED
  BY <1>1, <1>2, <1>3, <1>4, <1>5, <1>6, WriteStep

LEMMA FlushKeeps ==
  ASSUME Safe, Flush
  PROVE  Safe'
  BY FlushNextKeeps, FlushEndsKeeps, FlushSkipsKeeps, FlushWritesKeeps, FlushBreaksKeeps
     DEF Flush

LEMMA SendTimeoutKeeps ==
  ASSUME Safe, NEW m \in Messages, SendTimeout(m)
  PROVE  Safe'
<1> USE DEF Safe
<1>1. BoundsTyped'
  <2>1. "break" \in Kinds
    BY DEF Kinds
  <2>2. QED
    BY <2>1, SameBoundsTyped DEF SendTimeout, Typed
<1>2. attempt' = attempt /\ attempt \in [Messages -> {"none", "waiting", "saved", "unsaved"}]
      /\ UNCHANGED <<durable, flushes, idb, fresh>>
  BY DEF SendTimeout, Typed, StoreTyped
<1>3. CASE Requeue /\ InvalidateTransport
  <2>1. OnWire' = {} /\ WireInv'
    BY <1>3, InvalidateEmptiesWire DEF Typed
  <2>2. LinkTyped' /\ ServerTyped'
    BY <1>3, InvalidateIsTyped DEF Typed, LinkTyped
  <2>3. QED
    BY <1>1, <1>2, <1>3, <2>1, <2>2, RequeueStep
<1>4. CASE timers' = timers \ {m} /\ UNCHANGED <<bubble, queue, inFlight, persisting, link, server>>
  <2>1. Typed'
    BY <1>1, <1>2, <1>4 DEF link, server, Typed, StoreTyped, OutboxTyped, LinkTyped, ServerTyped
  <2>2. OnWire' = OnWire /\ WireInv'
    BY <1>4, SameWire DEF link, server, wire, CanWrite
  <2>3. RecordInv' /\ ClaimInv' /\ ShownInv'
    BY <1>2, <1>4, <2>2 DEF link, RecordInv, ClaimInv, ShownInv
  <2>4. WaitInv' /\ FreshInv'
    BY <1>2, <1>4 DEF WaitInv, FreshInv, Knows
  <2>5. QED
    BY <2>1, <2>2, <2>3, <2>4
<1>5. QED
  BY <1>3, <1>4 DEF SendTimeout

(* The commit has returned: those who wait for this record are told. *)
LEMMA WakeIs ==
  ASSUME Typed, ~Runnable, NEW m \in Messages, NEW result \in {"saved", "unsaved"},
         Wake(m, result)
  PROVE  /\ attempt' \in [Messages -> {"none", "waiting", "saved", "unsaved"}]
         /\ \A x \in Messages :
              attempt'[x] = IF x = m /\ attempt[x] = "waiting" THEN result ELSE attempt[x]
         /\ flushes' \subseteq FlushCall
         /\ \A g \in flushes' :
              /\ g.todo # <<>> /\ \E f \in flushes : g.todo = f.todo
              /\ \/ g.ready = result /\ Head(g.todo) = m
                 \/ g.ready = "waiting" /\ Head(g.todo) # m
<1>1. /\ attempt' \in [Messages -> {"none", "waiting", "saved", "unsaved"}]
      /\ \A x \in Messages :
           attempt'[x] = IF x = m /\ attempt[x] = "waiting" THEN result ELSE attempt[x]
  BY DEF Wake, Typed, StoreTyped
<1>2. ASSUME NEW g \in flushes'
      PROVE  /\ g \in FlushCall
             /\ g.todo # <<>> /\ \E f \in flushes : g.todo = f.todo
             /\ \/ g.ready = result /\ Head(g.todo) = m
                \/ g.ready = "waiting" /\ Head(g.todo) # m
  <2>1. PICK f \in flushes : g = IF f.ready = "waiting" /\ Head(f.todo) = m
                                 THEN [f EXCEPT !.ready = result] ELSE f
    BY DEF Wake
  <2>2. f \in FlushCall /\ f.ready = "waiting" /\ f.todo # <<>>
    BY QuietIs DEF Typed, OutboxTyped
  <2>3. CASE Head(f.todo) = m
    <3>1. g = [todo |-> f.todo, ready |-> result]
      BY <2>1, <2>2, <2>3 DEF FlushCall
    <3>2. QED
      BY <2>2, <2>3, <3>1 DEF FlushCall
  <2>4. CASE Head(f.todo) # m
    BY <2>1, <2>2, <2>4
  <2>5. QED
    BY <2>3, <2>4
<1>3. QED
  BY <1>1, <1>2

(* The commit of the first record returns. *)
LEMMA CommitIs ==
  ASSUME Safe, PersistReturns
  PROVE  \E m \in Messages, result \in {"saved", "unsaved"} :
           /\ m = Head(persisting) /\ m \in ToSet(persisting) /\ m \notin durable
           /\ persisting' \in Seq(Messages) /\ NoneTwice(persisting')
           /\ ToSet(persisting') = ToSet(persisting) \ {m}
           /\ \A a, b : Before(persisting, a, b) /\ a # m => Before(persisting', a, b)
           /\ Wake(m, result)
           /\ idb' \in Seq(Messages) /\ NoneTwice(idb') /\ ToSet(idb') = durable'
           /\ result = "saved" => m \in ToSet(queue) /\ durable' = durable \cup {m}
           /\ result = "unsaved" => durable' = durable
                                    /\ (m \notin ToSet(queue) \/ Spend("unsaved"))
<1> USE DEF Safe
<1> DEFINE m == Head(persisting)
<1>1. /\ m \in Messages /\ m \in ToSet(persisting)
      /\ persisting' \in Seq(Messages) /\ NoneTwice(persisting')
      /\ ToSet(persisting') = ToSet(persisting) \ {m}
      /\ \A a, b : Before(persisting, a, b) /\ a # m => Before(persisting', a, b)
  BY TailIs DEF PersistReturns, Typed, OutboxTyped, RecordInv
<1>2. m \notin durable
  BY <1>1 DEF RecordInv
<1>3. CASE /\ m \in ToSet(queue) /\ durable' = durable \cup {m} /\ idb' = Put(idb, {m})
           /\ Wake(m, "saved")
  <2>1. {m} \in SUBSET Messages
    BY <1>1
  <2> HIDE DEF m
  <2>2. idb' \in Seq(Messages) /\ NoneTwice(idb') /\ ToSet(idb') = durable'
    BY <1>3, <2>1, PutIs DEF Typed, OutboxTyped, RecordInv
  <2>3. QED
    BY <1>1, <1>2, <1>3, <2>2 DEF m
<1>4. CASE /\ Wake(m, "unsaved") /\ UNCHANGED <<durable, idb>>
           /\ m \notin ToSet(queue) \/ Spend("unsaved")
  <2>1. idb' \in Seq(Messages) /\ NoneTwice(idb') /\ ToSet(idb') = durable'
    BY <1>4 DEF Typed, OutboxTyped, RecordInv
  <2>2. QED
    BY <1>1, <1>2, <1>4, <2>1
<1>5. QED
  BY <1>3, <1>4 DEF PersistReturns

LEMMA PersistReturnsKeeps ==
  ASSUME Safe, PersistReturns
  PROVE  Safe'
<1> USE DEF Safe
<1>1. PICK m \in Messages, result \in {"saved", "unsaved"} :
        /\ m \in ToSet(persisting) /\ m \notin durable
        /\ persisting' \in Seq(Messages) /\ NoneTwice(persisting')
        /\ ToSet(persisting') = ToSet(persisting) \ {m}
        /\ Wake(m, result)
        /\ idb' \in Seq(Messages) /\ NoneTwice(idb') /\ ToSet(idb') = durable'
        /\ result = "saved" => m \in ToSet(queue) /\ durable' = durable \cup {m}
        /\ result = "unsaved" => durable' = durable
  BY CommitIs
<1>2. ~Runnable /\ UNCHANGED <<bubble, timers, queue, inFlight, link, server, fresh>>
  BY DEF PersistReturns
<1>3. BoundsTyped'
  <2>1. "unsaved" \in Kinds
    BY DEF Kinds
  <2>2. QED
    BY <2>1, SameBoundsTyped DEF PersistReturns, Typed
<1>4. /\ attempt' \in [Messages -> {"none", "waiting", "saved", "unsaved"}]
      /\ \A x \in Messages :
           attempt'[x] = IF x = m /\ attempt[x] = "waiting" THEN result ELSE attempt[x]
      /\ flushes' \subseteq FlushCall
      /\ \A g \in flushes' :
           /\ g.todo # <<>> /\ \E f \in flushes : g.todo = f.todo
           /\ \/ g.ready = result /\ Head(g.todo) = m
              \/ g.ready = "waiting" /\ Head(g.todo) # m
  BY <1>1, <1>2, WakeIs
<1>5. durable' \subseteq Messages
  BY <1>1 DEF Typed, OutboxTyped
<1>6. Typed'
  BY <1>1, <1>2, <1>3, <1>4, <1>5
     DEF link, server, Typed, StoreTyped, OutboxTyped, LinkTyped, ServerTyped
<1>7. OnWire' = OnWire /\ WireInv'
  BY <1>2, SameWire DEF link, server, wire, CanWrite
<1>8. RecordInv' /\ ClaimInv'
  BY <1>1, <1>2, <1>7 DEF RecordInv, ClaimInv
<1>9. WaitInv'
  <2>1. ASSUME NEW x \in Messages
        PROVE  Knows(attempt[x], x)'
    <3>1. CASE attempt[x] = "none"
      BY <1>4, <3>1 DEF Knows
    <3>2. CASE attempt[x] = "waiting"
      BY <1>1, <1>4, <3>2 DEF Knows, WaitInv
    <3>3. QED
      BY <1>2, <3>1, <3>2, QuietIs
  <2>2. ASSUME NEW g \in flushes'
        PROVE  Knows(g.ready, Head(g.todo))'
    <3>1. CASE g.ready = result /\ Head(g.todo) = m
      BY <1>1, <3>1 DEF Knows
    <3>2. CASE g.ready = "waiting" /\ Head(g.todo) # m
      <4>1. Head(g.todo) \in ToSet(persisting)
        BY <1>2, <1>4, QuietIs DEF WaitInv, Knows
      <4>2. QED
        BY <1>1, <3>2, <4>1 DEF Knows
    <3>3. QED
      BY <1>4, <3>1, <3>2
  <2>3. QED
    BY <2>1, <2>2 DEF WaitInv
<1>10. ShownInv'
  <2>1. m \notin OnWire
    BY <1>1 DEF ClaimInv
  <2>2. QED
    BY <1>2, <1>4, <1>7, <2>1, WireIsTyped DEF ShownInv, link, Typed
<1>11. FreshInv'
  <2>1. m \notin fresh
    BY <1>1 DEF FreshInv
  <2>2. ASSUME NEW x \in fresh
        PROVE  /\ bubble'[x] = None /\ attempt'[x] = "none"
               /\ x \notin ToSet(queue') \cup ToSet(persisting')
    <3>1. x \in Messages /\ x # m
      BY <2>1 DEF Typed, BoundsTyped
    <3>2. QED
      BY <1>1, <1>2, <1>4, <3>1 DEF FreshInv
  <2>3. \A g \in flushes' : \A x \in fresh : x \notin ToSet(g.todo)
    BY <1>4 DEF FreshInv
  <2>4. QED
    BY <1>2, <2>2, <2>3 DEF FreshInv
<1>12. QED
  BY <1>6, <1>7, <1>8, <1>9, <1>10, <1>11

LEMMA AnswerKeeps ==
  ASSUME Safe, ReceiveAck \/ ReceiveError
  PROVE  Safe'
<1> USE DEF Safe
<1> DEFINE m == Head(down).msg
<1>1. /\ ~Runnable /\ CanWrite /\ down # <<>> /\ down' = Tail(down) /\ RemoveRecord(m)
      /\ UNCHANGED <<attempt, state, socket, up, server, fresh, left>>
  BY DEF ReceiveAck, ReceiveError
<1>2. down' \in Seq(Answer) /\ m \in OnWire /\ OnWire' = OnWire \ {m} /\ WireInv'
  BY <1>1, ArrivalOnWire DEF Typed, server
<1>3. m \in Messages /\ m \notin fresh
  BY <1>2, WireIsTyped DEF Typed, ClaimInv, RecordInv, FreshInv
<1>4. LinkTyped' /\ BoundsTyped'
  BY <1>1, <1>2 DEF Typed, LinkTyped, BoundsTyped
<1>5. \/ UNCHANGED <<bubble, timers>>
      \/ bubble' = [bubble EXCEPT ![m] = "confirmed"] /\ timers' = timers \ {m}
      \/ SetStatus(m, "failed")
  BY DEF ReceiveAck, ReceiveError
<1> HIDE DEF m
<1>6. /\ bubble' \in [Messages -> {None, "queued", "sending", "failed", "confirmed"}]
      /\ timers' \subseteq Messages
      /\ \A x \in Messages : bubble'[x] = bubble[x] \/ (x = m /\ m \notin fresh)
  <2>1. CASE SetStatus(m, "failed")
    BY <1>3, <2>1, SetStatusIs
  <2>2. CASE ~SetStatus(m, "failed")
    BY <1>3, <1>5, <2>2 DEF Typed, StoreTyped
  <2>3. QED
    BY <2>1, <2>2
<1>7. QED
  BY <1>1, <1>2, <1>3, <1>4, <1>6, RemoveStep

LEMMA DiscardKeeps ==
  ASSUME Safe, NEW m \in Messages, Discard(m)
  PROVE  Safe'
<1> USE DEF Safe
<1>1. /\ ~Runnable /\ bubble[m] = "failed" /\ bubble' = [bubble EXCEPT ![m] = None]
      /\ timers' = timers \ {m} /\ RemoveRecord(m)
      /\ UNCHANGED <<attempt, link, server, fresh, left>>
  BY DEF Discard
<1>2. m \notin OnWire /\ m \notin fresh
  BY <1>1 DEF ShownInv, FreshInv
<1>3. OnWire' = OnWire /\ WireInv'
  BY <1>1, SameWire DEF link, server, wire, CanWrite
<1>4. LinkTyped' /\ BoundsTyped'
  BY <1>1 DEF link, Typed, LinkTyped, BoundsTyped
<1>5. /\ bubble' \in [Messages -> {None, "queued", "sending", "failed", "confirmed"}]
      /\ timers' \subseteq Messages
      /\ \A x \in Messages : bubble'[x] = bubble[x] \/ (x = m /\ m \notin fresh)
  BY <1>1, <1>2 DEF Typed, StoreTyped
<1>6. QED
  BY <1>1, <1>2, <1>3, <1>4, <1>5, RemoveStep DEF link

(* A page that is loaded again shows and queues what IndexedDB has. *)
LEMMA ReloadKeeps ==
  ASSUME Safe, Reload
  PROVE  Safe'
<1> USE DEF Safe
<1>1. PICK n \in 0..Len(persisting) : idb' = idb \o SubSeq(persisting, 1, n)
  BY DEF Reload
<1>2. /\ queue' = idb' /\ durable' = ToSet(idb') /\ UNCHANGED fresh
      /\ inFlight' = {} /\ persisting' = <<>> /\ flushes' = {}
      /\ bubble' = [m \in Messages |-> IF m \in durable' THEN "queued" ELSE None]
      /\ timers' = {} /\ attempt' = [m \in Messages |-> "none"]
      /\ CutConnection
  BY DEF Reload
<1>3. BoundsTyped'
  <2>1. "reload" \in Kinds
    BY DEF Kinds
  <2>2. QED
    BY <2>1, SameBoundsTyped DEF Reload, Typed
<1> DEFINE p == SubSeq(persisting, 1, n)
<1>4. p \in Seq(Messages) /\ ToSet(p) \subseteq ToSet(persisting) /\ NoneTwice(p)
  BY PrefixIs DEF Typed, OutboxTyped, RecordInv
<1> HIDE DEF p
<1>5. /\ idb' \in Seq(Messages) /\ ToSet(idb') = ToSet(idb) \cup ToSet(p)
      /\ NoneTwice(idb')
  <2>1. ToSet(idb) \cap ToSet(p) = {}
    BY <1>4 DEF RecordInv
  <2>2. idb' = idb \o p
    BY <1>1 DEF p
  <2>3. QED
    BY <1>4, <2>1, <2>2, ConcatIs DEF Typed, OutboxTyped, RecordInv
<1>6. OnWire' = {} /\ WireInv'
  BY <1>2, CutEmptiesWire DEF Typed
<1>7. Typed'
  <2>1. LinkTyped' /\ ServerTyped'
    BY <1>2, CutIsTyped DEF Typed, LinkTyped
  <2>2. durable' \subseteq Messages
    BY <1>2, <1>5, Members
  <2>3. StoreTyped' /\ OutboxTyped'
    BY <1>2, <1>5, <2>2 DEF StoreTyped, OutboxTyped
  <2>4. QED
    BY <1>3, <2>1, <2>3 DEF Typed
<1>8. RecordInv' /\ ClaimInv' /\ ShownInv'
  BY <1>2, <1>5, <1>6, EmptyIs DEF RecordInv, ClaimInv, ShownInv
<1>9. WaitInv'
  BY <1>2 DEF WaitInv, Knows
<1>10. FreshInv'
  <2>1. \A x \in fresh : x \in Messages /\ x \notin ToSet(idb')
    BY <1>4, <1>5 DEF FreshInv, RecordInv, Typed, BoundsTyped
  <2>2. QED
    BY <1>2, <2>1, EmptyIs DEF FreshInv
<1>11. QED
  BY <1>6, <1>7, <1>8, <1>9, <1>10

LEMMA LogoutKeeps ==
  ASSUME Safe, Logout
  PROVE  Safe'
<1> USE DEF Safe
<1>1. /\ ~Runnable /\ bubble' = [m \in Messages |-> None] /\ timers' = {}
      /\ queue' = <<>> /\ inFlight' = {} /\ durable' = {} /\ idb' = <<>>
      /\ CutConnection /\ UNCHANGED <<attempt, persisting, flushes, fresh>>
  BY DEF Logout
<1>2. BoundsTyped'
  <2>1. "logout" \in Kinds
    BY DEF Kinds
  <2>2. QED
    BY <2>1, SameBoundsTyped DEF Logout, Typed
<1>3. OnWire' = {} /\ WireInv'
  BY <1>1, CutEmptiesWire DEF Typed
<1>4. Typed'
  <2>1. LinkTyped' /\ ServerTyped'
    BY <1>1, CutIsTyped DEF Typed, LinkTyped
  <2>2. StoreTyped' /\ OutboxTyped'
    BY <1>1 DEF Typed, StoreTyped, OutboxTyped
  <2>3. QED
    BY <1>2, <2>1, <2>2 DEF Typed
<1>5. RecordInv' /\ ClaimInv' /\ ShownInv'
  BY <1>1, <1>3, EmptyIs DEF RecordInv, ClaimInv, ShownInv
<1>6. WaitInv'
  BY <1>1, QuietIs DEF WaitInv, Knows
<1>7. FreshInv'
  BY <1>1, EmptyIs DEF FreshInv, Typed, BoundsTyped
<1>8. QED
  BY <1>3, <1>4, <1>5, <1>6, <1>7

LEMMA StutterKeeps ==
  ASSUME Safe, UNCHANGED vars
  PROVE  Safe'
<1> USE DEF Safe, vars
<1>1. Typed'
  BY DEF store, outbox, link, server, Typed, StoreTyped, OutboxTyped, LinkTyped, ServerTyped,
         BoundsTyped
<1>2. OnWire' = OnWire /\ WireInv'
  BY SameWire DEF link, server, wire, CanWrite
<1>3. QED
  BY <1>1, <1>2 DEF store, outbox, link, RecordInv, ClaimInv, ShownInv, WaitInv, FreshInv,
                    Knows

LEMMA StepKeepsSafe == Safe /\ [Next]_vars => Safe'
<1> SUFFICES ASSUME Safe, [Next]_vars PROVE Safe'
  OBVIOUS
<1>1. CASE User
  BY <1>1, ComposeKeeps, ReloadKeeps, LogoutKeeps, RetryKeeps, DiscardKeeps DEF User
<1>2. CASE PersistReturns \/ Flush \/ Rebootstrap
  BY <1>2, PersistReturnsKeeps, FlushKeeps, RebootstrapKeeps
<1>3. CASE \E m \in Messages : AttemptContinues(m) \/ SendTimeout(m)
  BY <1>3, AttemptKeeps, SendTimeoutKeeps
<1>4. CASE PathDies \/ ConnectionBreaks \/ CloseEvent \/ HeartbeatFails
  BY <1>4, NetworkKeeps, DropKeeps
<1>5. CASE Connect \/ FinishBootstrap \/ ReceiveAck \/ ReceiveError
  BY <1>5, ConnectKeeps, FinishBootstrapKeeps, AnswerKeeps
<1>6. CASE ServerReceives \/ ServerAnswers \/ \E r \in late : LateHandlerEnds(r)
  BY <1>6, ServerKeeps
<1>7. CASE UNCHANGED vars
  BY <1>7, StutterKeeps
<1>8. QED
  BY <1>1, <1>2, <1>3, <1>4, <1>5, <1>6, <1>7 DEF Next

LEMMA AlwaysSafe == Spec => []Safe
<1>1. Init => Safe
  BY InitIsSafe
<1>2. Safe /\ [Next]_vars => Safe'
  BY StepKeepsSafe
<1>3. QED
  BY <1>1, <1>2, PTL DEF Spec

(* Every variable keeps its type, and a running flush that has come to a    *)
(* record still has that record at hand.                                    *)
THEOREM DeliveryTypeCorrect == Spec => []TypeOK
  BY AlwaysSafe, TypedIsTypeOK, PTL DEF Safe

-----------------------------------------------------------------------------
(* What the server stores, and what is written to it *)

(* However many handlers of old and new connections run the same request,   *)
(* the messages table has one row for a client message id: the unique index *)
(* decides, not the check before the transaction.                           *)
THEOREM MessagesAreStoredOnce == Spec => []StoredOnce
<1> DEFINE Once == rows \in [Messages -> Nat] /\ StoredOnce
<1>1. Init => Once
  BY DEF Init, StoredOnce
<1>2. Safe /\ Once /\ [Next]_vars => Once'
  <2> SUFFICES ASSUME Safe, Once, [Next]_vars PROVE Once'
    OBVIOUS
  <2>1. rows' = rows \/ \E r \in Request : InsertMessage(r)
    <3>1. handling # None => handling \in Request
      BY DEF Safe, Typed, ServerTyped
    <3>2. CASE ServerAnswers
      BY <3>1, <3>2 DEF ServerAnswers
    <3>3. CASE \E r \in late : LateHandlerEnds(r)
      BY <3>3 DEF LateHandlerEnds, Safe, Typed, ServerTyped
    <3>4. CASE User
      BY <3>4 DEF User, Compose, Retry, BeginAttempt, Discard, Reload, Logout, CutConnection,
                  LeaveBehind, server
    <3>5. CASE PersistReturns \/ Flush \/ Rebootstrap
      BY <3>5 DEF PersistReturns, Flush, FlushNext, FlushEnds, FlushSkips, FlushWrites,
                  FlushBreaks, Rebootstrap, server
    <3>6. CASE \E m \in Messages : AttemptContinues(m) \/ SendTimeout(m)
      BY <3>6 DEF AttemptContinues, SendTimeout, InvalidateTransport, LeaveBehind, server
    <3>7. CASE PathDies \/ ConnectionBreaks \/ CloseEvent \/ HeartbeatFails
      BY <3>7 DEF PathDies, ConnectionBreaks, CloseEvent, HeartbeatFails,
                  InvalidateTransport, LeaveBehind, server
    <3>8. CASE Connect \/ FinishBootstrap \/ ReceiveAck \/ ReceiveError \/ ServerReceives
      BY <3>8 DEF Connect, FinishBootstrap, ReceiveAck, ReceiveError, ServerReceives, server
    <3>9. CASE UNCHANGED vars
      BY <3>9 DEF vars, server
    <3>10. QED
      BY <3>2, <3>3, <3>4, <3>5, <3>6, <3>7, <3>8, <3>9 DEF Next
  <2>2. CASE rows' = rows
    BY <2>2 DEF StoredOnce
  <2>3. ASSUME NEW r \in Request, InsertMessage(r)
        PROVE  Once'
    BY <2>3 DEF InsertMessage, Request, StoredOnce
  <2>4. QED
    BY <2>1, <2>2, <2>3
<1>3. QED
  BY <1>1, <1>2, AlwaysSafe, PTL DEF Spec

(* How often a message occurs in a sequence that has nothing twice. *)
LEMMA Occurrences ==
  ASSUME NEW S, NEW s \in Seq(S), NoneTwice(s), NEW m
  PROVE  Cardinality({i \in 1..Len(s) : s[i] = m}) = IF m \in ToSet(s) THEN 1 ELSE 0
<1> DEFINE I == {i \in 1..Len(s) : s[i] = m}
<1>1. CASE m \notin ToSet(s)
  <2>1. I = {}
    BY <1>1, Members
  <2>2. QED
    BY <1>1, <2>1, FS_EmptySet
<1>2. CASE m \in ToSet(s)
  <2>1. PICK k \in 1..Len(s) : s[k] = m
    BY <1>2, Members
  <2>2. I = {k}
    BY <2>1 DEF NoneTwice
  <2>3. QED
    BY <1>2, <2>2, FS_Singleton
<1>3. QED
  BY <1>1, <1>2

(* A message is once in the requests, under execution or in the answers of  *)
(* the current connection: whoever of attempt, retry and flush comes first  *)
(* claims it, and the claim ends with the answer or with the connection.    *)
THEOREM NothingIsWrittenTwice == Spec => []OneWritePerSession
<1>1. Safe => OneWritePerSession
  <2> SUFFICES ASSUME Safe, NEW m \in Messages PROVE Unanswered(m) <= 1
    BY DEF OneWritePerSession
  <2> USE DEF Safe
  <2> DEFINE U == {i \in 1..Len(up) : up[i] = m}
             D == {i \in 1..Len(down) : down[i].msg = m}
  <2>1. Cardinality(U) = IF m \in ToSet(up) THEN 1 ELSE 0
    BY Occurrences DEF Typed, LinkTyped, WireInv
  <2>2. Cardinality(D) = IF m \in ToSet(Answers) THEN 1 ELSE 0
    <3>1. /\ Answers \in Seq(Messages) /\ Len(Answers) = Len(down)
          /\ \A i \in 1..Len(down) : Answers[i] = down[i].msg
      BY AnswersIs DEF Typed, LinkTyped
    <3>2. D = {i \in 1..Len(Answers) : Answers[i] = m}
      BY <3>1
    <3>3. NoneTwice(Answers)
      BY DEF WireInv
    <3>4. Cardinality({i \in 1..Len(Answers) : Answers[i] = m})
            = IF m \in ToSet(Answers) THEN 1 ELSE 0
      BY <3>1, <3>3, Occurrences
    <3> HIDE DEF D
    <3>5. QED
      BY <3>2, <3>4
  <2>3. handling # None /\ handling.msg = m => m \in Executed
    BY DEF Executed
  <2> HIDE DEF U, D
  <2>4. Cardinality(U) + (IF handling # None /\ handling.msg = m THEN 1 ELSE 0)
          + Cardinality(D) <= 1
    BY <2>1, <2>2, <2>3 DEF WireInv
  <2>5. QED
    BY <2>4 DEF Unanswered, U, D
<1>2. QED
  BY <1>1, AlwaysSafe, PTL

(* A message whose request is under way to the server is in IndexedDB: both *)
(* senders wait for the commit, and a record is taken out after its answer. *)
THEOREM WritesAreSaved == Spec => []WrittenIsSaved
<1>1. Safe => WrittenIsSaved
  BY DEF Safe, ClaimInv, RecordInv, OnWire, Executed, WrittenIsSaved
<1>2. QED
  BY <1>1, AlwaysSafe, PTL

-----------------------------------------------------------------------------
(* What is shown as pending is kept: the invariant                          *)

(* A call that waits for the commit of m, or has been told that it failed.  *)
Awaited(m, result) ==
  attempt[m] = result \/ \E f \in flushes : f.ready = result /\ Head(f.todo) = m

(* A pending message has its record in the queue; the record is saved, or   *)
(* somebody waits for its commit, or is about to show that it failed.       *)
PendingInv ==
  \A m \in Messages : bubble[m] \in Pending =>
    /\ m \in ToSet(queue)
    /\ \/ m \in durable
       \/ m \in ToSet(persisting) /\ Awaited(m, "waiting")
       \/ Awaited(m, "unsaved")

(* What is on the wire is not shown as queued, and no flush that has lost   *)
(* LIVE_SYNCED has come to a message on the wire.                           *)
BootInv ==
  /\ \A m \in OnWire : bubble[m] # "queued"
  /\ state = "booting" =>
       \A f \in flushes : f.ready = "saved" => Head(f.todo) \notin OnWire

(* The first bootstrap of a connection begins before anything is written.   *)
FirstBootInv == state = "booting" => OnWire = {}

(* What of s is not among the saved d is in p, in the order of s.           *)
InOrder(s, d, p) ==
  /\ ToSet(s) \subseteq d \cup ToSet(p)
  /\ \A a, b : Before(s, a, b) /\ a \notin d => Before(p, a, b)

(* Without refused commits and logouts, commits return in the order of the  *)
(* queue and of every flush, so that a flush waits for the first of its     *)
(* records that is not saved and those behind it are not saved either.      *)
OrderInv ==
  /\ ToSet(persisting) \subseteq ToSet(queue)
  /\ InOrder(queue, durable, persisting)
  /\ \A f \in flushes : /\ InOrder(f.todo, durable, persisting)
                        /\ f.ready # "unsaved"
                        /\ state = "booting" => f.ready # "next"
  /\ \A m \in Messages : /\ bubble[m] = "failed" => m \notin ToSet(persisting)
                         /\ attempt[m] # "unsaved"

NoRebootstrap == left.rebootstrap = MaxRebootstraps
NoRefusal     == left.unsaved = MaxUnsaved /\ left.logout = MaxLogouts

Kept ==
  /\ NoRebootstrap => FirstBootInv
  /\ NoRefusal => OrderInv
  /\ NoRebootstrap \/ NoRefusal => PendingInv /\ BootInv

LEMMA BeforeIs ==
  ASSUME NEW S, NEW s \in Seq(S), NEW a, NEW b, Before(s, a, b)
  PROVE  a \in ToSet(s) /\ b \in ToSet(s)
  BY Members DEF Before

LEMMA InitIsKept == Init => Kept
<1> SUFFICES ASSUME Init PROVE Kept
  OBVIOUS
<1>1. Answers = <<>> /\ Executed = {} /\ OnWire = {}
  BY EmptyIs DEF Init, Answers, Executed, OnWire
<1>2. FirstBootInv /\ BootInv /\ PendingInv
  BY <1>1 DEF Init, FirstBootInv, BootInv, PendingInv, Pending
<1>3. OrderInv
  BY EmptyIs DEF Init, OrderInv, InOrder
<1>4. QED
  BY <1>2, <1>3 DEF Kept

(* A bound is spent once at most. *)
LEMMA LeftIs ==
  ASSUME Safe, [Next]_vars
  PROVE  left' = left \/ \E k \in Kinds : Spend(k)
<1>1. Kinds = {"break", "unsaved", "answer", "rebootstrap", "reload", "logout"}
  BY DEF Kinds
<1>2. CASE User
  BY <1>1, <1>2 DEF User, Compose, Retry, BeginAttempt, Discard, Reload, Logout
<1>3. CASE PersistReturns \/ Flush \/ Rebootstrap
  BY <1>1, <1>3 DEF PersistReturns, Flush, FlushNext, FlushEnds, FlushSkips, FlushWrites,
                    FlushBreaks, Rebootstrap
<1>4. CASE \E m \in Messages : AttemptContinues(m) \/ SendTimeout(m)
  BY <1>1, <1>4 DEF AttemptContinues, SendTimeout
<1>5. CASE PathDies \/ ConnectionBreaks \/ CloseEvent \/ HeartbeatFails
  BY <1>1, <1>5 DEF PathDies, ConnectionBreaks, CloseEvent, HeartbeatFails
<1>6. CASE Connect \/ FinishBootstrap \/ ReceiveAck \/ ReceiveError
  BY <1>1, <1>6 DEF Connect, FinishBootstrap, ReceiveAck, ReceiveError
<1>7. CASE ServerReceives \/ ServerAnswers \/ \E r \in late : LateHandlerEnds(r)
  BY <1>1, <1>7 DEF ServerReceives, ServerAnswers, LateHandlerEnds
<1>8. CASE UNCHANGED vars
  BY <1>8 DEF vars
<1>9. QED
  BY <1>2, <1>3, <1>4, <1>5, <1>6, <1>7, <1>8 DEF Next

(* A step that keeps a bound whole does not take anything of it. *)
LEMMA WholeBounds ==
  ASSUME Safe, [Next]_vars
  PROVE  /\ NoRebootstrap' => NoRebootstrap /\ ~Rebootstrap
         /\ NoRefusal' => NoRefusal /\ ~Logout /\ ~Spend("unsaved")
<1>1. BoundsTyped
  BY DEF Safe, Typed
<1>2. {"unsaved", "logout", "rebootstrap"} \subseteq Kinds
  BY DEF Kinds
<1>3. /\ {left.unsaved, left.logout, left.rebootstrap} \subseteq Nat
      /\ left.unsaved <= MaxUnsaved /\ left.logout <= MaxLogouts
      /\ left.rebootstrap <= MaxRebootstraps
  BY <1>1, <1>2 DEF BoundsTyped
<1>4. /\ left'.unsaved <= left.unsaved /\ left'.logout <= left.logout
      /\ left'.rebootstrap <= left.rebootstrap
      /\ {left'.unsaved, left'.logout, left'.rebootstrap} \subseteq Nat
  <2>1. CASE left' = left
    BY <1>3, <2>1
  <2>2. ASSUME NEW k \in Kinds, Spend(k)
        PROVE  /\ left'.unsaved <= left.unsaved /\ left'.logout <= left.logout
               /\ left'.rebootstrap <= left.rebootstrap
               /\ {left'.unsaved, left'.logout, left'.rebootstrap} \subseteq Nat
    BY <1>1, <1>2, <2>2, SpendIs
  <2>3. QED
    BY <2>1, <2>2, LeftIs
<1>5. /\ Spend("unsaved") => left'.unsaved < left.unsaved
      /\ Logout => left'.logout < left.logout
      /\ Rebootstrap => left'.rebootstrap < left.rebootstrap
  BY <1>1, <1>2, SpendIs DEF Logout, Rebootstrap
<1>6. QED
  BY <1>3, <1>4, <1>5 DEF NoRebootstrap, NoRefusal

-----------------------------------------------------------------------------
(* What a step may do to the wire, to what is queued and to a flush         *)

(* Only a write in LIVE_SYNCED puts something on the wire. *)
LEMMA WireStep ==
  ASSUME Safe, [Next]_vars
  PROVE  \/ OnWire' \subseteq OnWire
         \/ /\ state = "live" /\ state' = "live"
            /\ \E m \in Messages : OnWire' \subseteq OnWire \cup {m}
                                   /\ bubble'[m] # "queued"
<1> USE DEF Safe
<1>1. ASSUME UNCHANGED wire
      PROVE  OnWire' \subseteq OnWire
  BY <1>1 DEF wire, OnWire, Answers, Executed
<1>2. CASE Compose \/ (\E m \in Messages : Retry(m) \/ Discard(m))
  BY <1>1, <1>2 DEF Compose, Retry, BeginAttempt, Discard, link, server, wire
<1>3. CASE Reload \/ Logout
  BY <1>3, CutEmptiesWire DEF Reload, Logout, Typed
<1>4. CASE PersistReturns \/ Rebootstrap \/ Connect \/ FinishBootstrap
  BY <1>1, <1>4 DEF PersistReturns, Rebootstrap, Connect, FinishBootstrap, link, server, wire
<1>5. ASSUME NEW m \in Messages, AttemptContinues(m)
      PROVE  \/ OnWire' \subseteq OnWire
             \/ /\ state = "live" /\ state' = "live"
                /\ OnWire' \subseteq OnWire \cup {m} /\ bubble'[m] # "queued"
  <2>1. CASE UNCHANGED <<link, server>>
    BY <1>1, <2>1 DEF link, server, wire
  <2>2. CASE InvalidateTransport
    BY <2>2, InvalidateEmptiesWire DEF Typed
  <2>3. CASE /\ state = "live" /\ m \notin inFlight /\ CanWrite
             /\ bubble' = [bubble EXCEPT ![m] = "sending"] /\ Write(m)
             /\ UNCHANGED <<state, socket, down, server>>
    <3>1. m \notin OnWire
      BY <2>3 DEF ClaimInv
    <3>2. OnWire' \subseteq OnWire \cup {m}
      BY <2>3, <3>1, WriteIs DEF Typed, server
    <3>3. QED
      BY <2>3, <3>2 DEF Typed, StoreTyped
  <2>4. QED
    BY <1>5, <2>1, <2>2, <2>3 DEF AttemptContinues
<1>6. ASSUME NEW m \in Messages, SendTimeout(m)
      PROVE  OnWire' \subseteq OnWire
  <2>1. CASE UNCHANGED <<link, server>>
    BY <1>1, <2>1 DEF link, server, wire
  <2>2. CASE InvalidateTransport
    BY <2>2, InvalidateEmptiesWire DEF Typed
  <2>3. QED
    BY <1>6, <2>1, <2>2 DEF SendTimeout
<1>7. ASSUME NEW f \in flushes, FlushWrites(f)
      PROVE  \E m \in Messages : /\ state = "live" /\ state' = "live"
                                 /\ OnWire' \subseteq OnWire \cup {m}
                                 /\ bubble'[m] # "queued"
  <2> DEFINE m == Head(f.todo)
  <2>1. m \in Messages
    BY <1>7, FlushIs DEF FlushWrites
  <2>2. /\ state = "live" /\ m \notin inFlight /\ CanWrite /\ Write(m)
        /\ bubble' = IF bubble[m] = None THEN bubble ELSE [bubble EXCEPT ![m] = "sending"]
        /\ UNCHANGED <<state, socket, down, server>>
    BY <1>7 DEF FlushWrites
  <2> HIDE DEF m
  <2>3. m \notin OnWire
    BY <2>2 DEF ClaimInv
  <2>4. OnWire' \subseteq OnWire \cup {m}
    BY <2>1, <2>2, <2>3, WriteIs DEF Typed, server
  <2>5. bubble'[m] # "queued"
    BY <2>1, <2>2 DEF Typed, StoreTyped
  <2>6. QED
    BY <2>1, <2>2, <2>4, <2>5
<1>8. ASSUME NEW f \in flushes,
             FlushNext(f) \/ FlushEnds(f) \/ FlushSkips(f) \/ FlushBreaks(f)
      PROVE  OnWire' \subseteq OnWire
  BY <1>1, <1>8 DEF FlushNext, FlushEnds, FlushSkips, FlushBreaks, link, server, wire
<1>9. CASE PathDies \/ ConnectionBreaks \/ HeartbeatFails
  <2>1. CASE PathDies
    BY <2>1, PathDiesOnWire DEF Typed
  <2>2. CASE ConnectionBreaks
    BY <2>2, EmptyWire DEF ConnectionBreaks, LeaveBehind
  <2>3. CASE HeartbeatFails
    BY <2>3, InvalidateEmptiesWire DEF HeartbeatFails, Typed
  <2>4. QED
    BY <1>9, <2>1, <2>2, <2>3
<1>10. CASE CloseEvent \/ (\E r \in late : LateHandlerEnds(r))
  BY <1>1, <1>10 DEF CloseEvent, LateHandlerEnds, link, server, wire
<1>11. CASE ServerReceives \/ ServerAnswers
  BY <1>11, ReceivesOnWire, AnswersOnWire DEF Typed
<1>12. CASE ReceiveAck \/ ReceiveError
  BY <1>12, ArrivalOnWire DEF ReceiveAck, ReceiveError, Typed, server
<1>13. CASE UNCHANGED vars
  BY <1>1, <1>13 DEF vars, link, server, wire
<1>14. CASE Flush
  BY <1>7, <1>8, <1>14 DEF Flush
<1>15. QED
  BY <1>2, <1>3, <1>4, <1>5, <1>6, <1>9, <1>10, <1>11, <1>12, <1>13, <1>14 DEF Next, User

(* A message that becomes queued is not on the wire, or the wire is empty. *)
LEMMA BecomesQueued ==
  ASSUME Safe, BootInv, [Next]_vars, NEW m \in Messages,
         bubble'[m] = "queued", bubble[m] # "queued"
  PROVE  m \notin OnWire \/ state' = "down"
<1> USE DEF Safe
<1>1. CASE Compose
  <2>1. ASSUME NEW x \in fresh
        PROVE  x \notin OnWire
    BY DEF ClaimInv, RecordInv, FreshInv
  <2>2. CASE m \in fresh
    BY <2>1, <2>2
  <2>3. CASE m \notin fresh
    <3>1. PICK x \in fresh, status \in Pending : bubble' = [bubble EXCEPT ![x] = status]
      BY <1>1 DEF Compose, BeginAttempt, Pending
    <3>2. QED
      BY <2>3, <3>1 DEF Typed, StoreTyped
  <2>4. QED
    BY <2>2, <2>3
<1>2. ASSUME NEW x \in Messages, Retry(x)
      PROVE  m \notin OnWire
  BY <1>2 DEF Retry, BeginAttempt, ShownInv, Typed, StoreTyped
<1>3. CASE (\E x \in Messages : Discard(x)) \/ Logout
  BY <1>3 DEF Discard, Logout, Typed, StoreTyped
<1>4. CASE Reload
  BY <1>4 DEF Reload, CutConnection
<1>5. ASSUME NEW x \in Messages, AttemptContinues(x)
      PROVE  m \notin OnWire \/ state' = "down"
  <2>1. CASE attempt[x] = "saved" /\ state # "live" /\ SetStatus(x, "queued")
    <3>1. x \notin OnWire
      BY <2>1 DEF ShownInv
    <3>2. QED
      BY <2>1, <3>1, SetStatusIs
  <2>2. CASE SetStatus(x, "failed")
    BY <2>2, SetStatusIs
  <2>3. CASE bubble' = bubble
    BY <2>3
  <2>4. CASE bubble' = [bubble EXCEPT ![x] = "sending"]
    BY <2>4 DEF Typed, StoreTyped
  <2>5. CASE InvalidateTransport
    BY <2>5 DEF InvalidateTransport
  <2>6. QED
    BY <1>5, <2>1, <2>2, <2>3, <2>4, <2>5 DEF AttemptContinues
<1>6. ASSUME NEW x \in Messages, SendTimeout(x)
      PROVE  state' = "down"
  BY <1>6 DEF SendTimeout, InvalidateTransport
<1>7. ASSUME NEW f \in flushes, FlushBreaks(f)
      PROVE  m \notin OnWire
  <2>1. Head(f.todo) \in Messages
    BY <1>7, FlushIs DEF FlushBreaks
  <2>2. bubble' = bubble \/ SetStatus(Head(f.todo), "queued")
    BY <1>7 DEF FlushBreaks
  <2>3. m = Head(f.todo)
    BY <2>1, <2>2, SetStatusIs
  <2>4. CASE state = "booting"
    BY <1>7, <2>3, <2>4 DEF FlushBreaks, BootInv
  <2>5. CASE state # "booting"
    <3>1. ~CanWrite
      BY <1>7, <2>5 DEF FlushBreaks, CanWrite, Typed, LinkTyped
    <3>2. QED
      BY <3>1 DEF WireInv
  <2>6. QED
    BY <2>4, <2>5
<1>8. ASSUME NEW f \in flushes, FlushSkips(f)
      PROVE  FALSE
  <2>1. Head(f.todo) \in Messages
    BY <1>8, FlushIs DEF FlushSkips
  <2>2. bubble' = bubble \/ SetStatus(Head(f.todo), "failed")
    BY <1>8 DEF FlushSkips
  <2>3. QED
    BY <2>1, <2>2, SetStatusIs
<1>9. ASSUME NEW f \in flushes, FlushNext(f) \/ FlushEnds(f) \/ FlushWrites(f)
      PROVE  FALSE
  BY <1>9 DEF FlushNext, FlushEnds, FlushWrites, store, Typed, StoreTyped
<1>10. CASE CloseEvent \/ HeartbeatFails
  BY <1>10 DEF CloseEvent, HeartbeatFails, InvalidateTransport
<1>11. CASE ReceiveAck \/ ReceiveError
  <2>1. Head(down).msg \in Messages
    BY <1>11, ArrivalOnWire, WireIsTyped DEF ReceiveAck, ReceiveError, Typed, server
  <2>2. \/ bubble' = bubble
        \/ bubble' = [bubble EXCEPT ![Head(down).msg] = "confirmed"]
        \/ SetStatus(Head(down).msg, "failed")
    BY <1>11 DEF ReceiveAck, ReceiveError
  <2>3. CASE SetStatus(Head(down).msg, "failed")
    BY <2>1, <2>3, SetStatusIs
  <2>4. QED
    BY <2>1, <2>2, <2>3 DEF Typed, StoreTyped
<1>12. CASE \/ PersistReturns \/ Rebootstrap \/ Connect \/ FinishBootstrap \/ PathDies
            \/ ConnectionBreaks \/ ServerReceives \/ ServerAnswers
            \/ (\E r \in late : LateHandlerEnds(r)) \/ UNCHANGED vars
  BY <1>12 DEF PersistReturns, Rebootstrap, Connect, FinishBootstrap, PathDies,
               ConnectionBreaks, ServerReceives, ServerAnswers, LateHandlerEnds, vars, store
<1>13. QED
  BY <1>1, <1>2, <1>3, <1>4, <1>5, <1>6, <1>7, <1>8, <1>9, <1>10, <1>11, <1>12
     DEF Next, User, Flush

(* A bootstrap begins where no call is ready, on a new connection or a live *)
(* one.                                                                     *)
LEMMA BecomesBooting ==
  ASSUME Safe, [Next]_vars, state # "booting", state' = "booting"
  PROVE  /\ ~Runnable /\ flushes' = flushes
         /\ OnWire' = {} \/ Rebootstrap
<1> USE DEF Safe
<1>1. CASE Connect
  BY <1>1 DEF Connect, CanWrite, WireInv, OnWire, Answers, Executed, server
<1>2. CASE Rebootstrap
  BY <1>2 DEF Rebootstrap, outbox
<1>3. CASE User
  BY <1>3 DEF User, Compose, Retry, BeginAttempt, Discard, Reload, Logout, CutConnection, link
<1>4. CASE PersistReturns \/ Flush
  BY <1>4 DEF PersistReturns, Flush, FlushNext, FlushEnds, FlushSkips, FlushWrites,
              FlushBreaks, link
<1>5. CASE \E m \in Messages : AttemptContinues(m) \/ SendTimeout(m)
  BY <1>5 DEF AttemptContinues, SendTimeout, InvalidateTransport, link
<1>6. CASE PathDies \/ ConnectionBreaks \/ CloseEvent \/ HeartbeatFails
  BY <1>6 DEF PathDies, ConnectionBreaks, CloseEvent, HeartbeatFails, InvalidateTransport
<1>7. CASE FinishBootstrap \/ ReceiveAck \/ ReceiveError
  BY <1>7 DEF FinishBootstrap, ReceiveAck, ReceiveError
<1>8. CASE ServerReceives \/ ServerAnswers \/ \E r \in late : LateHandlerEnds(r)
  BY <1>8 DEF ServerReceives, ServerAnswers, LateHandlerEnds, link
<1>9. CASE UNCHANGED vars
  BY <1>9 DEF vars, link
<1>10. QED
  BY <1>1, <1>2, <1>3, <1>4, <1>5, <1>6, <1>7, <1>8, <1>9 DEF Next

(* The commit a flush is told of has just happened, or it had happened when *)
(* the flush came to the record.                                            *)
LEMMA BecomesSaved ==
  ASSUME Safe, [Next]_vars, NEW g \in flushes', g.ready = "saved", g \notin flushes
  PROVE  \/ Head(g.todo) \notin durable
         \/ state' = state /\ \E f \in flushes : f.ready = "next"
<1> USE DEF Safe
<1>1. CASE PersistReturns
  <2>1. PICK m \in Messages, result \in {"saved", "unsaved"} :
          m \notin durable /\ Wake(m, result)
    BY <1>1, CommitIs
  <2>2. ~Runnable
    BY <1>1 DEF PersistReturns
  <2>3. Head(g.todo) = m
    BY <2>1, <2>2, WakeIs
  <2>4. QED
    BY <2>1, <2>3
<1>2. ASSUME NEW f \in flushes, FlushNext(f)
      PROVE  state' = state /\ f.ready = "next"
  BY <1>2 DEF FlushNext, link
<1>3. ASSUME NEW f \in flushes, FlushEnds(f) \/ FlushSkips(f) \/ FlushWrites(f) \/ FlushBreaks(f)
      PROVE  FALSE
  BY <1>3 DEF FlushEnds, FlushSkips, FlushWrites, FlushBreaks, FlushTo
<1>4. CASE User
  BY <1>4 DEF User, Compose, Retry, BeginAttempt, Discard, RemoveRecord, Reload, Logout
<1>5. CASE \E m \in Messages : AttemptContinues(m) \/ SendTimeout(m)
  BY <1>5 DEF AttemptContinues, SendTimeout
<1>6. CASE PathDies \/ ConnectionBreaks \/ CloseEvent \/ HeartbeatFails
  BY <1>6 DEF PathDies, ConnectionBreaks, CloseEvent, HeartbeatFails, outbox
<1>7. CASE FinishBootstrap
  BY <1>7, StartFlushIs DEF FinishBootstrap
<1>8. CASE Connect \/ Rebootstrap \/ ReceiveAck \/ ReceiveError
  BY <1>8 DEF Connect, Rebootstrap, ReceiveAck, ReceiveError, RemoveRecord, outbox
<1>9. CASE ServerReceives \/ ServerAnswers \/ \E r \in late : LateHandlerEnds(r)
  BY <1>9 DEF ServerReceives, ServerAnswers, LateHandlerEnds, outbox
<1>10. CASE UNCHANGED vars
  BY <1>10 DEF vars, outbox
<1>11. QED
  BY <1>1, <1>2, <1>3, <1>4, <1>5, <1>6, <1>7, <1>8, <1>9, <1>10 DEF Next, Flush

LEMMA StepKeepsFirstBoot ==
  ASSUME Safe, FirstBootInv, [Next]_vars, ~Rebootstrap
  PROVE  FirstBootInv'
<1>1. CASE state = "booting"
  BY <1>1, WireStep DEF FirstBootInv
<1>2. CASE state # "booting"
  BY <1>2, BecomesBooting DEF FirstBootInv
<1>3. QED
  BY <1>1, <1>2

LEMMA StepKeepsBoot ==
  ASSUME Safe, Safe', BootInv, [Next]_vars, OrderInv \/ FirstBootInv'
  PROVE  BootInv'
<1>1. ASSUME NEW m \in OnWire', bubble'[m] = "queued"
      PROVE  FALSE
  <2>1. m \in Messages
    BY DEF Safe, ClaimInv, Typed, OutboxTyped
  <2>2. m \in OnWire
    BY <1>1, WireStep
  <2>3. state' = "down"
    BY <1>1, <2>1, <2>2, BecomesQueued DEF BootInv
  <2>4. OnWire' = {}
    BY <2>3 DEF Safe, Typed, LinkTyped, WireInv, CanWrite
  <2>5. QED
    BY <2>4
<1>2. ASSUME state' = "booting", NEW g \in flushes', g.ready = "saved",
             Head(g.todo) \in OnWire'
      PROVE  FALSE
  <2>1. OrderInv
    BY <1>2 DEF FirstBootInv
  <2>2. Head(g.todo) \in OnWire /\ Head(g.todo) \in durable
    BY <1>2, WireStep DEF Safe, ClaimInv
  <2>3. CASE state # "booting"
    <3>1. ~Runnable /\ g \in flushes
      BY <1>2, <2>3, BecomesBooting
    <3>2. QED
      BY <1>2, <3>1, QuietIs DEF Safe
  <2>4. CASE state = "booting" /\ g \in flushes
    BY <1>2, <2>2, <2>4 DEF BootInv
  <2>5. CASE state = "booting" /\ g \notin flushes
    BY <1>2, <2>1, <2>2, <2>5, BecomesSaved DEF OrderInv
  <2>6. QED
    BY <2>3, <2>4, <2>5
<1>3. QED
  BY <1>1, <1>2 DEF BootInv

-----------------------------------------------------------------------------
(* The order of the commits *)

(* More commits behind those under way. *)
LEMMA InOrderGrows ==
  ASSUME NEW s, NEW d, NEW p, NEW r, InOrder(s, d, p), ToSet(p) \subseteq ToSet(r),
         \A a, b : Before(p, a, b) => Before(r, a, b)
  PROVE  InOrder(s, d, r)
  BY DEF InOrder

(* The first commit returns. *)
LEMMA InOrderCommits ==
  ASSUME NEW s, NEW d, NEW p, NEW r, NEW m, InOrder(s, d, p),
         ToSet(r) = ToSet(p) \ {m},
         \A a, b : Before(p, a, b) /\ a # m => Before(r, a, b)
  PROVE  InOrder(s, d \cup {m}, r)
  BY DEF InOrder

(* A saved record is removed that s does not have. *)
LEMMA InOrderForgets ==
  ASSUME NEW s \in Seq(Messages), NEW d, NEW p, NEW m, InOrder(s, d, p), m \notin ToSet(s)
  PROVE  InOrder(s, d \ {m}, p)
  BY BeforeIs DEF InOrder

LEMMA InOrderTail ==
  ASSUME NEW s \in Seq(Messages), s # <<>>, NEW d, NEW p, InOrder(s, d, p)
  PROVE  InOrder(Tail(s), d, p)
  BY TailIs DEF InOrder

(* A record joins the queue and, when it is not saved, the commits.         *)
LEMMA InOrderEnqueues ==
  ASSUME NEW q \in Seq(Messages), NEW d, NEW p \in Seq(Messages), NEW m \in Messages,
         InOrder(q, d, p), ToSet(p) \subseteq ToSet(q), d \subseteq ToSet(q)
  PROVE  InOrder(Put(q, {m}), d, Put(p, {m} \ d))
<1> DEFINE r == Put(p, {m} \ d)
<1>1. /\ ToSet(Put(q, {m})) = ToSet(q) \cup {m}
      /\ \A a, b : Before(Put(q, {m}), a, b) =>
           Before(q, a, b) \/ (a \in ToSet(q) /\ b = m /\ m \notin ToSet(q))
  <2>1. {m} \in SUBSET Messages
    OBVIOUS
  <2>2. QED
    BY <2>1, PutIs
<1>2. /\ ToSet(r) = ToSet(p) \cup ({m} \ d)
      /\ \A a, b : Before(p, a, b) => Before(r, a, b)
      /\ \A a \in ToSet(p), b \in ({m} \ d) \ ToSet(p) : Before(r, a, b)
  <2>1. {m} \ d \in SUBSET Messages
    OBVIOUS
  <2>2. QED
    BY <2>1, PutIs
<1> HIDE DEF r
<1>3. ToSet(Put(q, {m})) \subseteq d \cup ToSet(r)
  BY <1>1, <1>2 DEF InOrder
<1>4. ASSUME NEW a, NEW b, Before(Put(q, {m}), a, b), a \notin d
      PROVE  Before(r, a, b)
  <2>1. CASE Before(q, a, b)
    BY <1>2, <1>4, <2>1 DEF InOrder
  <2>2. CASE a \in ToSet(q) /\ b = m /\ m \notin ToSet(q)
    BY <1>2, <1>4, <2>2 DEF InOrder
  <2>3. QED
    BY <1>1, <1>4, <2>1, <2>2
<1>5. QED
  BY <1>3, <1>4 DEF InOrder, r

(* Steps that leave the records and their commits alone. *)
LEMMA OrderStep ==
  ASSUME OrderInv, UNCHANGED <<queue, durable, persisting>>,
         \A g \in flushes' : /\ InOrder(g.todo, durable, persisting) /\ g.ready # "unsaved"
                             /\ state' = "booting" => g.ready # "next",
         \A m \in Messages : /\ bubble'[m] = "failed" =>
                                  bubble[m] = "failed" \/ m \notin ToSet(persisting)
                             /\ attempt'[m] \in {attempt[m], "none"}
  PROVE  OrderInv'
  BY DEF OrderInv

LEMMA RequeueInOrder ==
  ASSUME Safe, OrderInv, PendingInv, Requeue
  PROVE  /\ UNCHANGED <<queue, persisting>>
         /\ \A m \in Messages : bubble'[m] = "failed" => bubble[m] = "failed"
<1> DEFINE sending == {m \in Messages : bubble[m] = "sending"}
<1>1. sending \in SUBSET Messages /\ sending \subseteq ToSet(queue)
  BY DEF PendingInv, Pending
<1>2. sending \ durable \subseteq ToSet(persisting)
  BY <1>1 DEF OrderInv, InOrder
<1>3. Enqueue(sending)
  BY DEF Requeue
<1> HIDE DEF sending
<1>4. sending \ durable \in SUBSET Messages
  BY <1>1
<1>5. queue' = queue /\ persisting' = persisting
  BY <1>1, <1>2, <1>3, <1>4, PutIs DEF Enqueue, Safe, Typed, OutboxTyped
<1>6. QED
  BY <1>5 DEF Requeue

LEMMA OrderOfCompose ==
  ASSUME Safe, OrderInv, NEW m \in Messages, NEW status \in Pending,
         BeginAttempt(m, status)
  PROVE  OrderInv'
<1> USE DEF Safe
<1>1. /\ bubble' = [bubble EXCEPT ![m] = status] /\ Enqueue({m})
      /\ attempt' = [attempt EXCEPT ![m] = AwaitSaved(m)]
      /\ UNCHANGED <<durable, flushes, idb, state>>
  BY DEF BeginAttempt, link
<1>2. {m} \in SUBSET Messages /\ {m} \ durable \in SUBSET Messages
  OBVIOUS
<1>3. /\ ToSet(queue') = ToSet(queue) \cup {m}
      /\ ToSet(persisting') = ToSet(persisting) \cup ({m} \ durable)
  BY <1>1, <1>2, EnqueueIs
<1>4. \A a, b : Before(persisting, a, b) => Before(persisting', a, b)
  BY <1>1, <1>2, PutIs DEF Enqueue, Typed, OutboxTyped
<1>5. InOrder(queue', durable, persisting')
  BY <1>1, InOrderEnqueues DEF Enqueue, OrderInv, RecordInv, Typed, OutboxTyped
<1>6. \A f \in flushes : InOrder(f.todo, durable, persisting')
  BY <1>3, <1>4, InOrderGrows DEF OrderInv
<1>7. ASSUME NEW x \in Messages
      PROVE  /\ bubble'[x] = "failed" => x \notin ToSet(persisting')
             /\ attempt'[x] # "unsaved"
  BY <1>1, <1>3 DEF OrderInv, AwaitSaved, Pending, Typed, StoreTyped
<1>8. ToSet(persisting') \subseteq ToSet(queue')
  BY <1>3 DEF OrderInv
<1>9. QED
  BY <1>1, <1>5, <1>6, <1>7, <1>8 DEF OrderInv

LEMMA OrderOfCommit ==
  ASSUME Safe, OrderInv, PersistReturns, ~Spend("unsaved")
  PROVE  OrderInv'
<1> USE DEF Safe
<1>1. PICK m \in Messages, result \in {"saved", "unsaved"} :
        /\ m \in ToSet(persisting)
        /\ ToSet(persisting') = ToSet(persisting) \ {m}
        /\ \A a, b : Before(persisting, a, b) /\ a # m => Before(persisting', a, b)
        /\ Wake(m, result)
        /\ result = "saved" => durable' = durable \cup {m}
        /\ result = "unsaved" => m \notin ToSet(queue) \/ Spend("unsaved")
  BY CommitIs
<1>2. result = "saved" /\ durable' = durable \cup {m}
  BY <1>1 DEF OrderInv
<1>3. ~Runnable /\ UNCHANGED <<bubble, queue, state>>
  BY DEF PersistReturns, link
<1>4. /\ \A x \in Messages :
           attempt'[x] = IF x = m /\ attempt[x] = "waiting" THEN result ELSE attempt[x]
      /\ \A g \in flushes' :
           /\ g.todo # <<>> /\ \E f \in flushes : g.todo = f.todo
           /\ \/ g.ready = result /\ Head(g.todo) = m
              \/ g.ready = "waiting" /\ Head(g.todo) # m
  BY <1>1, <1>3, WakeIs
<1>5. InOrder(queue', durable', persisting')
  BY <1>1, <1>2, <1>3, InOrderCommits DEF OrderInv
<1>6. \A f \in flushes : InOrder(f.todo, durable', persisting')
  BY <1>1, <1>2, InOrderCommits DEF OrderInv
<1>7. \A g \in flushes' : /\ InOrder(g.todo, durable', persisting')
                          /\ g.ready \notin {"unsaved", "next"}
  BY <1>2, <1>4, <1>6
<1>8. \A x \in Messages : attempt'[x] # "unsaved"
  BY <1>2, <1>4 DEF OrderInv
<1>9. QED
  BY <1>1, <1>3, <1>5, <1>7, <1>8 DEF OrderInv

(* No flush still has a record that an answer or the user takes out. *)
LEMMA OrderOfRemoval ==
  ASSUME Safe, OrderInv, ~Runnable, NEW m \in Messages, RemoveRecord(m),
         m \notin ToSet(persisting), UNCHANGED <<attempt, state>>,
         \A x \in Messages : bubble'[x] = bubble[x] \/ x = m
  PROVE  OrderInv'
<1> USE DEF Safe
<1>1. /\ ToSet(queue') = ToSet(queue) \ {m} /\ durable' = durable \ {m}
      /\ UNCHANGED <<persisting, flushes>> /\ queue' \in Seq(Messages)
      /\ \A a, b : Before(queue', a, b) => Before(queue, a, b)
  BY RemoveIs DEF OutboxTyped
<1>2. ASSUME NEW f \in flushes, m \in ToSet(f.todo)
      PROVE  FALSE
  <2>1. /\ f.todo \in Seq(Messages) /\ f.todo # <<>> /\ f.ready = "waiting"
    BY QuietIs, FlushIs
  <2>2. Head(f.todo) \in ToSet(persisting) /\ Head(f.todo) \notin durable
    BY <2>1 DEF WaitInv, Knows, RecordInv
  <2>3. m \in ToSet(Tail(f.todo))
    BY <1>2, <2>1, <2>2, TailIs
  <2>4. Before(f.todo, Head(f.todo), m)
    BY <2>1, <2>3, TailIs
  <2>5. Before(persisting, Head(f.todo), m)
    BY <2>2, <2>4 DEF OrderInv, InOrder
  <2>6. QED
    BY <2>5, BeforeIs DEF Typed, OutboxTyped
<1>3. InOrder(queue', durable', persisting')
  <2>1. InOrder(queue', durable, persisting)
    BY <1>1 DEF OrderInv, InOrder
  <2>2. QED
    BY <1>1, <2>1, InOrderForgets
<1>4. \A f \in flushes : InOrder(f.todo, durable', persisting')
  BY <1>1, <1>2, FlushIs, InOrderForgets DEF OrderInv
<1>5. ToSet(persisting') \subseteq ToSet(queue')
  BY <1>1 DEF OrderInv
<1>6. QED
  BY <1>1, <1>3, <1>4, <1>5 DEF OrderInv

LEMMA OrderOfFlush ==
  ASSUME Safe, OrderInv, Flush
  PROVE  OrderInv'
<1> USE DEF Safe
<1>1. ASSUME NEW f \in flushes, FlushNext(f)
      PROVE  OrderInv'
  <2> DEFINE m == Head(f.todo)
  <2>1. /\ f.ready = "next" /\ f.todo # <<>> /\ Enqueue({m})
        /\ flushes' = (flushes \ {f}) \cup {[f EXCEPT !.ready = AwaitSaved(m)]}
        /\ UNCHANGED <<bubble, attempt, durable, state>>
    BY <1>1 DEF FlushNext, store, link
  <2>2. /\ m \in Messages /\ m \in durable \cup ToSet(persisting)
        /\ f = [todo |-> f.todo, ready |-> f.ready]
    BY <2>1, FlushIs DEF OrderInv, InOrder
  <2>3. PICK g : /\ g.todo = f.todo /\ g.ready \in {"saved", "waiting"}
                 /\ flushes' = (flushes \ {f}) \cup {g}
    <3>1. [f EXCEPT !.ready = AwaitSaved(m)] = [todo |-> f.todo, ready |-> AwaitSaved(m)]
      BY <2>2
    <3>2. QED
      BY <2>1, <3>1 DEF AwaitSaved
  <2> HIDE DEF m
  <2>4. /\ {m} \in SUBSET Messages /\ {m} \subseteq ToSet(queue)
        /\ {m} \ durable \in SUBSET Messages /\ {m} \ durable \subseteq ToSet(persisting)
    BY <2>2 DEF OrderInv, RecordInv
  <2>5. UNCHANGED <<queue, persisting>>
    BY <2>1, <2>4, PutIs DEF Enqueue, Typed, OutboxTyped
  <2>6. QED
    BY <2>1, <2>3, <2>5, OrderStep DEF OrderInv
<1>2. ASSUME NEW f \in flushes, f.ready = "saved", state = "live",
             UNCHANGED <<queue, durable, persisting, state, attempt>>,
             FlushTo(f, Tail(f.todo)),
             \A m \in Messages : bubble'[m] = "failed" => bubble[m] = "failed"
      PROVE  OrderInv'
  <2>1. f.todo \in Seq(Messages) /\ f.todo # <<>>
    BY <1>2, FlushIs
  <2>2. InOrder(Tail(f.todo), durable, persisting)
    BY <2>1, InOrderTail DEF OrderInv
  <2> DEFINE rest == Tail(f.todo)
  <2>3. flushes' = (flushes \ {f}) \cup {[todo |-> rest, ready |-> "next"]}
    BY <1>2 DEF FlushTo
  <2> HIDE DEF rest
  <2>4. \A g \in flushes' : g \in flushes \/ (g.todo = rest /\ g.ready = "next")
    BY <2>3
  <2>5. QED
    BY <1>2, <2>2, <2>4, OrderStep DEF OrderInv, rest
<1>3. ASSUME NEW f \in flushes, FlushSkips(f)
      PROVE  OrderInv'
  <2>1. f.ready = "saved"
    BY <1>3 DEF FlushSkips, OrderInv
  <2>2. QED
    BY <1>2, <1>3, <2>1 DEF FlushSkips, link
<1>4. ASSUME NEW f \in flushes, FlushWrites(f)
      PROVE  OrderInv'
  <2>1. \A m \in Messages : bubble'[m] = "failed" => bubble[m] = "failed"
    BY <1>4 DEF FlushWrites, Typed, StoreTyped
  <2>2. QED
    BY <1>2, <1>4, <2>1 DEF FlushWrites
<1>5. ASSUME NEW f \in flushes, FlushEnds(f) \/ FlushBreaks(f)
      PROVE  OrderInv'
  <2>1. \A m \in Messages : bubble'[m] = "failed" => bubble[m] = "failed"
    <3>1. CASE FlushEnds(f)
      BY <3>1 DEF FlushEnds, store
    <3>2. CASE FlushBreaks(f)
      <4>1. Head(f.todo) \in Messages
        BY <3>2, FlushIs DEF FlushBreaks
      <4>2. QED
        BY <3>2, <4>1, SetStatusIs DEF FlushBreaks
    <3>3. QED
      BY <1>5, <3>1, <3>2
  <2>2. /\ flushes' \subseteq flushes
        /\ UNCHANGED <<queue, durable, persisting, state, attempt>>
    BY <1>5 DEF FlushEnds, FlushBreaks, link, store
  <2>3. QED
    BY <2>1, <2>2, OrderStep DEF OrderInv
<1>6. QED
  BY <1>1, <1>3, <1>4, <1>5 DEF Flush

LEMMA OrderOfAttempt ==
  ASSUME Safe, OrderInv, PendingInv, NEW m \in Messages,
         AttemptContinues(m) \/ SendTimeout(m)
  PROVE  OrderInv'
<1> USE DEF Safe
<1>1. /\ UNCHANGED <<durable, flushes>>
      /\ \A x \in Messages : attempt'[x] \in {attempt[x], "none"}
      /\ AttemptContinues(m) => attempt[m] = "saved"
  BY DEF AttemptContinues, SendTimeout, OrderInv, Typed, StoreTyped
<1>2. CASE /\ UNCHANGED <<queue, persisting, state>>
           /\ \A x \in Messages : bubble'[x] = "failed" => bubble[x] = "failed"
  BY <1>1, <1>2, OrderStep DEF OrderInv
<1>3. CASE Requeue /\ InvalidateTransport
  <2>1. UNCHANGED <<queue, persisting>>
        /\ \A x \in Messages : bubble'[x] = "failed" => bubble[x] = "failed"
    BY <1>3, RequeueInOrder
  <2>2. state' # "booting"
    BY <1>3 DEF InvalidateTransport
  <2>3. QED
    BY <1>1, <2>1, <2>2, OrderStep DEF OrderInv
<1>4. CASE AttemptContinues(m)
  <2>1. CASE SetStatus(m, "queued") /\ UNCHANGED <<queue, persisting, link>>
    BY <1>2, <2>1, SetStatusIs DEF link
  <2>2. CASE UNCHANGED <<bubble, queue, persisting, link>>
    BY <1>2, <2>2 DEF link
  <2>3. CASE bubble' = [bubble EXCEPT ![m] = "sending"] /\ UNCHANGED <<queue, persisting, state>>
    BY <1>2, <2>3 DEF Typed, StoreTyped
  <2>4. QED
    BY <1>1, <1>3, <1>4, <2>1, <2>2, <2>3 DEF AttemptContinues
<1>5. CASE SendTimeout(m)
  BY <1>2, <1>3, <1>5 DEF SendTimeout, link
<1>6. QED
  BY <1>4, <1>5

LEMMA OrderOfReload ==
  ASSUME Safe, OrderInv, Reload
  PROVE  OrderInv'
<1>1. /\ queue' = idb' /\ durable' = ToSet(idb') /\ persisting' = <<>> /\ flushes' = {}
      /\ attempt' = [m \in Messages |-> "none"]
  BY DEF Reload
<1>2. idb' \in Seq(Messages)
  <2>1. PICK n \in 0..Len(persisting) : idb' = idb \o SubSeq(persisting, 1, n)
    BY DEF Reload
  <2>2. SubSeq(persisting, 1, n) \in Seq(Messages)
    BY PrefixIs DEF Safe, Typed, OutboxTyped
  <2>3. QED
    BY <2>1, <2>2, ConcatIs DEF Safe, Typed, OutboxTyped
<1>3. InOrder(queue', durable', persisting')
  BY <1>1, <1>2, BeforeIs DEF InOrder
<1>4. QED
  BY <1>1, <1>3, EmptyIs DEF OrderInv

LEMMA StepKeepsOrder ==
  ASSUME Safe, OrderInv, PendingInv, [Next]_vars, ~Logout, ~Spend("unsaved")
  PROVE  OrderInv'
<1> USE DEF Safe
<1>1. CASE Compose
  <2>1. PICK x \in fresh : BeginAttempt(x, IF state = "live" THEN "sending" ELSE "queued")
    BY <1>1 DEF Compose
  <2>2. x \in Messages /\ (IF state = "live" THEN "sending" ELSE "queued") \in Pending
    BY DEF Pending, Typed, BoundsTyped
  <2>3. QED
    BY <2>1, <2>2, OrderOfCompose
<1>2. ASSUME NEW m \in Messages, Retry(m)
      PROVE  OrderInv'
  BY <1>2, OrderOfCompose DEF Retry, Pending
<1>3. ASSUME NEW m \in Messages, Discard(m)
      PROVE  OrderInv'
  <2>1. /\ ~Runnable /\ RemoveRecord(m) /\ UNCHANGED <<attempt, state>>
        /\ bubble' = [bubble EXCEPT ![m] = None] /\ bubble[m] = "failed"
    BY <1>3 DEF Discard, link
  <2>2. m \notin ToSet(persisting) /\ \A x \in Messages : bubble'[x] = bubble[x] \/ x = m
    BY <2>1 DEF OrderInv, Typed, StoreTyped
  <2>3. QED
    BY <2>1, <2>2, OrderOfRemoval
<1>4. CASE ReceiveAck \/ ReceiveError
  <2> DEFINE m == Head(down).msg
  <2>1. /\ ~Runnable /\ RemoveRecord(m) /\ UNCHANGED <<attempt, state>>
        /\ m \in OnWire /\ m \in Messages
    BY <1>4, ArrivalOnWire, WireIsTyped DEF ReceiveAck, ReceiveError, Typed, server
  <2>2. \/ bubble' = bubble
        \/ bubble' = [bubble EXCEPT ![m] = "confirmed"]
        \/ SetStatus(m, "failed")
    BY <1>4 DEF ReceiveAck, ReceiveError
  <2> HIDE DEF m
  <2>3. m \notin ToSet(persisting)
    BY <2>1 DEF ClaimInv, RecordInv
  <2>4. \A x \in Messages : bubble'[x] = bubble[x] \/ x = m
    BY <2>1, <2>2, SetStatusIs DEF Typed, StoreTyped
  <2>5. QED
    BY <2>1, <2>3, <2>4, OrderOfRemoval
<1>5. CASE Reload
  BY <1>5, OrderOfReload
<1>6. CASE PersistReturns
  BY <1>6, OrderOfCommit
<1>7. CASE Flush
  BY <1>7, OrderOfFlush
<1>8. CASE \E m \in Messages : AttemptContinues(m) \/ SendTimeout(m)
  BY <1>8, OrderOfAttempt
<1>9. CASE CloseEvent \/ HeartbeatFails
  <2>1. Requeue /\ state' = "down" /\ UNCHANGED <<attempt, durable, flushes>>
    BY <1>9 DEF CloseEvent, HeartbeatFails, InvalidateTransport
  <2>2. QED
    BY <2>1, RequeueInOrder, OrderStep DEF OrderInv
<1>10. CASE Connect \/ Rebootstrap
  <2>1. /\ ~Runnable
        /\ UNCHANGED <<bubble, attempt, queue, durable, persisting, flushes>>
    BY <1>10 DEF Connect, Rebootstrap, store, outbox
  <2>2. QED
    BY <2>1, QuietIs, OrderStep DEF OrderInv
<1>11. CASE FinishBootstrap
  <2>1. /\ state' = "live" /\ StartFlush
        /\ UNCHANGED <<bubble, attempt, queue, durable, persisting>>
    BY <1>11 DEF FinishBootstrap
  <2>2. PICK todo \in Seq(Messages) :
          /\ ToSet(todo) \subseteq ToSet(queue)
          /\ \A a, b : Before(todo, a, b) => Before(queue, a, b)
          /\ flushes' = flushes \cup {[todo |-> todo, ready |-> "next"]}
    BY <2>1, StartFlushIs
  <2>3. InOrder(todo, durable, persisting)
    BY <2>2 DEF OrderInv, InOrder
  <2>4. QED
    BY <2>1, <2>2, <2>3, OrderStep DEF OrderInv
<1>12. CASE \/ PathDies \/ ConnectionBreaks \/ ServerReceives \/ ServerAnswers
            \/ (\E r \in late : LateHandlerEnds(r)) \/ UNCHANGED vars
  <2>1. UNCHANGED <<bubble, attempt, queue, durable, persisting, flushes, state>>
    BY <1>12 DEF PathDies, ConnectionBreaks, ServerReceives, ServerAnswers, LateHandlerEnds,
                 vars, store, outbox, link
  <2>2. QED
    BY <2>1, OrderStep DEF OrderInv
<1>13. QED
  BY <1>1, <1>2, <1>3, <1>4, <1>5, <1>6, <1>7, <1>8, <1>9, <1>10, <1>11, <1>12
     DEF Next, User

-----------------------------------------------------------------------------
(* What is shown as pending is kept *)

LEMMA PendingStep ==
  ASSUME PendingInv, UNCHANGED <<bubble, attempt, queue, durable, persisting>>,
         flushes \subseteq flushes'
  PROVE  PendingInv'
  BY DEF PendingInv, Awaited

LEMMA PendingOfRequeue ==
  ASSUME Safe, PendingInv, Requeue, UNCHANGED <<durable, idb, flushes>>,
         \A x \in Messages : attempt'[x] = attempt[x] \/ x \in durable
  PROVE  PendingInv'
<1> DEFINE sending == {m \in Messages : bubble[m] = "sending"}
<1>1. sending \in SUBSET Messages /\ Enqueue(sending)
  BY DEF Requeue
<1>2. \A x \in Messages : bubble'[x] \in Pending => bubble[x] \in Pending
  BY DEF Requeue, Pending
<1> HIDE DEF sending
<1>3. ToSet(queue) \subseteq ToSet(queue') /\ ToSet(persisting) \subseteq ToSet(persisting')
  BY <1>1, EnqueueIs DEF Safe
<1>4. QED
  BY <1>2, <1>3 DEF PendingInv, Awaited

LEMMA PendingOfCompose ==
  ASSUME Safe, PendingInv, NEW m \in Messages, NEW status, BeginAttempt(m, status)
  PROVE  PendingInv'
<1> USE DEF Safe
<1>1. /\ bubble' = [bubble EXCEPT ![m] = status] /\ Enqueue({m})
      /\ attempt' = [attempt EXCEPT ![m] = AwaitSaved(m)]
      /\ UNCHANGED <<durable, flushes, idb>>
  BY DEF BeginAttempt
<1>2. {m} \in SUBSET Messages
  OBVIOUS
<1>3. /\ ToSet(queue') = ToSet(queue) \cup {m}
      /\ ToSet(persisting') = ToSet(persisting) \cup ({m} \ durable)
  BY <1>1, <1>2, EnqueueIs
<1>4. ASSUME NEW x \in Messages, bubble'[x] \in Pending, x # m
      PROVE  /\ x \in ToSet(queue')
             /\ \/ x \in durable
                \/ x \in ToSet(persisting') /\ Awaited(x, "waiting")'
                \/ Awaited(x, "unsaved")'
  <2>1. bubble[x] \in Pending /\ attempt'[x] = attempt[x]
    BY <1>1, <1>4 DEF Typed, StoreTyped
  <2>2. QED
    BY <1>1, <1>3, <2>1 DEF PendingInv, Awaited
<1>5. m \in ToSet(queue') /\ (m \in durable \/ (m \in ToSet(persisting') /\ Awaited(m, "waiting")'))
  BY <1>1, <1>3 DEF Awaited, AwaitSaved, Typed, StoreTyped
<1>6. QED
  BY <1>1, <1>4, <1>5 DEF PendingInv

LEMMA PendingOfCommit ==
  ASSUME Safe, PendingInv, PersistReturns
  PROVE  PendingInv'
<1> USE DEF Safe
<1>1. PICK m \in Messages, result \in {"saved", "unsaved"} :
        /\ m \in ToSet(persisting) /\ m \notin durable
        /\ ToSet(persisting') = ToSet(persisting) \ {m}
        /\ Wake(m, result)
        /\ result = "saved" => durable' = durable \cup {m}
        /\ result = "unsaved" => durable' = durable
  BY CommitIs
<1>2. ~Runnable /\ UNCHANGED <<bubble, queue>>
  BY DEF PersistReturns
<1>3. ASSUME NEW x \in Messages, bubble'[x] \in Pending
      PROVE  /\ x \in ToSet(queue')
             /\ \/ x \in durable'
                \/ x \in ToSet(persisting') /\ Awaited(x, "waiting")'
                \/ Awaited(x, "unsaved")'
  <2>1. /\ x \in ToSet(queue)
        /\ x \in durable \/ (x \in ToSet(persisting) /\ Awaited(x, "waiting"))
    <3>1. ~Awaited(x, "unsaved")
      BY <1>2 DEF Awaited, Runnable
    <3>2. QED
      BY <1>2, <1>3, <3>1 DEF PendingInv
  <2>2. CASE x = m /\ result = "unsaved"
    <3>1. CASE attempt[m] = "waiting"
      BY <1>1, <1>2, <2>1, <2>2, <3>1, WakeIs DEF Awaited
    <3>2. ASSUME NEW f \in flushes, f.ready = "waiting", Head(f.todo) = m
          PROVE  Awaited(x, "unsaved")'
      <4>1. [f EXCEPT !.ready = result] \in flushes'
        BY <1>1, <3>2 DEF Wake
      <4>2. [f EXCEPT !.ready = result] = [todo |-> f.todo, ready |-> result]
        BY FlushIs
      <4>3. QED
        BY <2>2, <3>2, <4>1, <4>2 DEF Awaited
    <3>3. QED
      BY <1>1, <1>2, <2>1, <2>2, <3>1, <3>2 DEF Awaited
  <2>3. CASE x = m /\ result = "saved"
    BY <1>1, <1>2, <2>1, <2>3
  <2>4. CASE x # m
    <3>1. Awaited(x, "waiting") => Awaited(x, "waiting")'
      BY <1>1, <2>4 DEF Wake, Awaited, Typed, StoreTyped
    <3>2. QED
      BY <1>1, <1>2, <2>1, <2>4, <3>1
  <2>5. QED
    BY <2>2, <2>3, <2>4
<1>4. QED
  BY <1>3 DEF PendingInv

(* A step that takes one flush further, past the record m it has come to. *)
LEMMA PendingOfFlushStep ==
  ASSUME Safe, PendingInv, NEW f \in flushes, flushes \ {f} \subseteq flushes',
         UNCHANGED <<attempt, queue, durable, persisting>>,
         f.ready = "next" \/ (f.todo # <<>> /\ Head(f.todo) \in Messages),
         \A x \in Messages :
           bubble'[x] \in Pending =>
             /\ bubble[x] \in Pending \/ x \in durable
             /\ f.ready # "next" /\ x = Head(f.todo) => x \in durable
  PROVE  PendingInv'
<1>1. ASSUME NEW x \in Messages, bubble'[x] \in Pending
      PROVE  /\ x \in ToSet(queue)
             /\ \/ x \in durable
                \/ x \in ToSet(persisting) /\ Awaited(x, "waiting")'
                \/ Awaited(x, "unsaved")'
  <2>1. CASE x \in durable
    BY <2>1 DEF Safe, RecordInv
  <2>2. CASE x \notin durable
    <3>1. bubble[x] \in Pending /\ (f.ready = "next" \/ x # Head(f.todo))
      BY <1>1, <2>2
    <3>2. \A r \in {"waiting", "unsaved"} : Awaited(x, r) => Awaited(x, r)'
      BY <3>1 DEF Awaited
    <3>3. QED
      BY <2>2, <3>1, <3>2 DEF PendingInv
  <2>3. QED
    BY <2>1, <2>2
<1>2. QED
  BY <1>1 DEF PendingInv

LEMMA PendingOfFlush ==
  ASSUME Safe, PendingInv, Flush
  PROVE  PendingInv'
<1> USE DEF Safe
<1>1. ASSUME NEW f \in flushes, FlushNext(f)
      PROVE  PendingInv'
  <2>1. /\ f.ready = "next" /\ f.todo # <<>> /\ Enqueue({Head(f.todo)})
        /\ flushes \ {f} \subseteq flushes'
        /\ UNCHANGED <<bubble, attempt, durable, idb>>
    BY <1>1 DEF FlushNext, store
  <2>2. {Head(f.todo)} \in SUBSET Messages
    BY <2>1, FlushIs
  <2>3. ToSet(queue) \subseteq ToSet(queue') /\ ToSet(persisting) \subseteq ToSet(persisting')
    BY <2>1, <2>2, EnqueueIs
  <2>4. QED
    BY <2>1, <2>3 DEF PendingInv, Awaited
<1>2. ASSUME NEW f \in flushes, FlushEnds(f)
      PROVE  PendingInv'
  BY <1>2, PendingOfFlushStep DEF FlushEnds, store
<1>3. ASSUME NEW f \in flushes, FlushSkips(f)
      PROVE  PendingInv'
  <2> DEFINE m == Head(f.todo)
  <2>1. /\ f.todo # <<>> /\ m \in Messages /\ f.ready \in {"unsaved", "saved"}
        /\ flushes \ {f} \subseteq flushes'
        /\ UNCHANGED <<attempt, queue, durable, persisting>>
    BY <1>3, FlushIs DEF FlushSkips, FlushTo
  <2>2. CASE f.ready = "saved"
    <3>1. m \in durable /\ bubble' = bubble
      BY <1>3, <2>2 DEF FlushSkips, WaitInv, Knows
    <3>2. QED
      BY <2>1, <3>1, PendingOfFlushStep
  <2>3. CASE f.ready = "unsaved" /\ m \in ToSet(queue)
    <3>1. SetStatus(m, "failed")
      BY <1>3, <2>3 DEF FlushSkips
    <3> HIDE DEF m
    <3>2. \A x \in Messages : bubble'[x] \in Pending => bubble[x] \in Pending /\ x # m
      <4>1. bubble'[m] \notin Pending
        BY <2>1, <3>1, SetStatusIs DEF Pending
      <4>2. \A x \in Messages : x # m => bubble'[x] = bubble[x]
        BY <2>1, <3>1, SetStatusIs
      <4>3. QED
        BY <4>1, <4>2
    <3>3. QED
      BY <2>1, <3>2, PendingOfFlushStep DEF m
  <2>4. CASE f.ready = "unsaved" /\ m \notin ToSet(queue)
    <3>1. bubble' = bubble /\ bubble[m] \notin Pending
      BY <1>3, <2>1, <2>4 DEF FlushSkips, PendingInv
    <3>2. QED
      BY <2>1, <3>1, PendingOfFlushStep
  <2>5. QED
    BY <2>1, <2>2, <2>3, <2>4
<1>4. ASSUME NEW f \in flushes, FlushWrites(f) \/ FlushBreaks(f)
      PROVE  PendingInv'
  <2> DEFINE m == Head(f.todo)
  <2>1. /\ f.todo # <<>> /\ m \in Messages /\ f.ready = "saved"
        /\ flushes \ {f} \subseteq flushes'
        /\ UNCHANGED <<attempt, queue, durable, persisting>>
    BY <1>4, FlushIs DEF FlushWrites, FlushBreaks, FlushTo
  <2>2. m \in durable
    BY <2>1 DEF WaitInv, Knows
  <2>3. \/ bubble' = bubble \/ SetStatus(m, "queued")
        \/ bubble' = [bubble EXCEPT ![m] = "sending"]
    BY <1>4 DEF FlushWrites, FlushBreaks
  <2> HIDE DEF m
  <2>4. \A x \in Messages : bubble'[x] = bubble[x] \/ x = m
    BY <2>1, <2>3, SetStatusIs DEF Typed, StoreTyped
  <2>5. QED
    BY <2>1, <2>2, <2>4, PendingOfFlushStep DEF m
<1>5. QED
  BY <1>1, <1>2, <1>3, <1>4 DEF Flush

LEMMA PendingOfAttempt ==
  ASSUME Safe, PendingInv, NEW m \in Messages, AttemptContinues(m)
  PROVE  PendingInv'
<1> USE DEF Safe
<1>1. /\ attempt[m] \in {"saved", "unsaved"}
      /\ \A x \in Messages : x # m => attempt'[x] = attempt[x]
      /\ UNCHANGED <<durable, flushes, idb>>
      /\ attempt[m] = "saved" => m \in durable
  BY DEF AttemptContinues, WaitInv, Knows, Typed, StoreTyped
<1>2. ASSUME UNCHANGED <<queue, persisting>>,
             \A x \in Messages : x # m => bubble'[x] = bubble[x],
             bubble'[m] \in Pending => m \in durable
      PROVE  PendingInv'
  <2>1. ASSUME NEW x \in Messages, bubble'[x] \in Pending, x # m
        PROVE  /\ x \in ToSet(queue)
               /\ \/ x \in durable
                  \/ x \in ToSet(persisting) /\ Awaited(x, "waiting")'
                  \/ Awaited(x, "unsaved")'
    BY <1>1, <1>2, <2>1 DEF PendingInv, Awaited
  <2>2. m \in durable => m \in ToSet(queue)
    BY DEF RecordInv
  <2>3. QED
    BY <1>1, <1>2, <2>1, <2>2 DEF PendingInv
<1>3. CASE attempt[m] = "unsaved" /\ SetStatus(m, "failed") /\ UNCHANGED <<queue, persisting>>
  <2>1. bubble'[m] \notin Pending
    BY <1>3, SetStatusIs DEF Pending
  <2>2. \A x \in Messages : x # m => bubble'[x] = bubble[x]
    BY <1>3, SetStatusIs
  <2>3. QED
    BY <1>2, <1>3, <2>1, <2>2
<1>4. CASE attempt[m] = "saved" /\ SetStatus(m, "queued") /\ UNCHANGED <<queue, persisting>>
  BY <1>1, <1>2, <1>4, SetStatusIs
<1>5. CASE /\ bubble[m] \notin Pending \/ attempt[m] = "saved"
           /\ UNCHANGED <<bubble, queue, persisting>>
  BY <1>1, <1>2, <1>5
<1>6. CASE /\ attempt[m] = "saved" /\ bubble' = [bubble EXCEPT ![m] = "sending"]
           /\ UNCHANGED <<queue, persisting>>
  BY <1>1, <1>2, <1>6 DEF Typed, StoreTyped
<1>7. CASE attempt[m] = "saved" /\ Requeue
  BY <1>1, <1>7, PendingOfRequeue
<1>8. QED
  BY <1>3, <1>4, <1>5, <1>6, <1>7 DEF AttemptContinues

LEMMA PendingOfRemoval ==
  ASSUME Safe, PendingInv, NEW m \in Messages, RemoveRecord(m), UNCHANGED attempt,
         \A x \in Messages : bubble'[x] = bubble[x] \/ x = m,
         bubble'[m] \notin Pending
  PROVE  PendingInv'
<1>1. /\ ToSet(queue') = ToSet(queue) \ {m} /\ durable' = durable \ {m}
      /\ UNCHANGED <<persisting, flushes>>
  BY RemoveIs DEF Safe
<1>2. QED
  BY <1>1 DEF PendingInv, Awaited

LEMMA StepKeepsPending ==
  ASSUME Safe, PendingInv, BootInv, [Next]_vars
  PROVE  PendingInv'
<1> USE DEF Safe
<1>1. CASE Compose
  <2>1. \E x \in Messages : \E status : BeginAttempt(x, status)
    BY <1>1 DEF Compose, Typed, BoundsTyped
  <2>2. QED
    BY <2>1, PendingOfCompose
<1>2. ASSUME NEW m \in Messages, Retry(m)
      PROVE  PendingInv'
  BY <1>2, PendingOfCompose DEF Retry
<1>3. ASSUME NEW m \in Messages, Discard(m)
      PROVE  PendingInv'
  <2>1. /\ RemoveRecord(m) /\ UNCHANGED attempt
        /\ bubble' = [bubble EXCEPT ![m] = None]
    BY <1>3 DEF Discard
  <2>2. bubble'[m] \notin Pending /\ \A x \in Messages : bubble'[x] = bubble[x] \/ x = m
    BY <2>1 DEF Pending, Typed, StoreTyped
  <2>3. QED
    BY <2>1, <2>2, PendingOfRemoval
<1>4. CASE ReceiveAck \/ ReceiveError
  <2> DEFINE m == Head(down).msg
  <2>1. /\ RemoveRecord(m) /\ UNCHANGED attempt /\ m \in OnWire /\ m \in Messages
    BY <1>4, ArrivalOnWire, WireIsTyped DEF ReceiveAck, ReceiveError, Typed, server
  <2>2. \/ bubble[m] \notin {"queued", "sending"} /\ bubble' = bubble
        \/ bubble' = [bubble EXCEPT ![m] = "confirmed"]
        \/ SetStatus(m, "failed")
        \/ bubble[m] # "sending" /\ bubble' = bubble
    BY <1>4 DEF ReceiveAck, ReceiveError, Pending
  <2> HIDE DEF m
  <2>3. bubble[m] # "queued"
    BY <2>1 DEF BootInv
  <2>4. bubble'[m] \notin Pending /\ \A x \in Messages : bubble'[x] = bubble[x] \/ x = m
    <3>1. CASE SetStatus(m, "failed")
      BY <2>1, <3>1, SetStatusIs DEF Pending
    <3>2. CASE ~SetStatus(m, "failed")
      BY <2>1, <2>2, <2>3, <3>2 DEF Pending, Typed, StoreTyped
    <3>3. QED
      BY <3>1, <3>2
  <2>5. QED
    BY <2>1, <2>4, PendingOfRemoval
<1>5. CASE Reload
  BY <1>5 DEF Reload, PendingInv, Pending
<1>6. CASE Logout
  BY <1>6 DEF Logout, PendingInv, Pending
<1>7. CASE PersistReturns \/ Flush
  BY <1>7, PendingOfCommit, PendingOfFlush
<1>8. ASSUME NEW m \in Messages, AttemptContinues(m)
      PROVE  PendingInv'
  BY <1>8, PendingOfAttempt
<1>9. ASSUME NEW m \in Messages, SendTimeout(m)
      PROVE  PendingInv'
  <2>1. UNCHANGED <<attempt, durable, flushes, idb>>
    BY <1>9 DEF SendTimeout
  <2>2. CASE UNCHANGED <<bubble, queue, persisting>>
    BY <2>1, <2>2, PendingStep
  <2>3. CASE Requeue
    BY <2>1, <2>3, PendingOfRequeue
  <2>4. QED
    BY <1>9, <2>2, <2>3 DEF SendTimeout
<1>10. CASE CloseEvent \/ HeartbeatFails
  BY <1>10, PendingOfRequeue DEF CloseEvent, HeartbeatFails
<1>11. CASE Connect \/ FinishBootstrap \/ Rebootstrap
  BY <1>11, PendingStep DEF Connect, FinishBootstrap, StartFlush, Rebootstrap, store, outbox
<1>12. CASE \/ PathDies \/ ConnectionBreaks \/ ServerReceives \/ ServerAnswers
            \/ (\E r \in late : LateHandlerEnds(r)) \/ UNCHANGED vars
  BY <1>12, PendingStep DEF PathDies, ConnectionBreaks, ServerReceives, ServerAnswers,
                            LateHandlerEnds, vars, store, outbox
<1>13. QED
  BY <1>1, <1>2, <1>3, <1>4, <1>5, <1>6, <1>7, <1>8, <1>9, <1>10, <1>11, <1>12
     DEF Next, User

LEMMA StepKeepsKept == Safe /\ Kept /\ [Next]_vars /\ Safe' => Kept'
<1> SUFFICES ASSUME Safe, Kept, [Next]_vars, Safe' PROVE Kept'
  OBVIOUS
<1>1. NoRebootstrap' => FirstBootInv'
  BY WholeBounds, StepKeepsFirstBoot DEF Kept
<1>2. NoRefusal' => OrderInv'
  BY WholeBounds, StepKeepsOrder DEF Kept
<1>3. NoRebootstrap' \/ NoRefusal' => PendingInv'
  BY WholeBounds, StepKeepsPending DEF Kept
<1>4. NoRebootstrap' \/ NoRefusal' => BootInv'
  BY <1>1, WholeBounds, StepKeepsBoot DEF Kept
<1>5. QED
  BY <1>1, <1>2, <1>3, <1>4 DEF Kept

LEMMA AlwaysKept == Spec => []Kept
<1>1. Init => Kept
  BY InitIsKept
<1>2. Safe /\ Kept /\ [Next]_vars /\ Safe' => Kept'
  BY StepKeepsKept
<1>3. QED
  BY <1>1, <1>2, AlwaysSafe, PTL DEF Spec

(* Unless a bootstrap ran on a live connection and a commit was refused or  *)
(* somebody logged out, a message that is shown as queued or sending is in  *)
(* the replay queue, and its record is in IndexedDB or about to be.         *)
THEOREM PendingMessagesAreKept == Spec => []PendingIsKept
<1>1. Safe /\ Kept => PendingIsKept
  <2> SUFFICES ASSUME Safe, Kept, Undisturbed, ~Runnable,
                      NEW m \in Messages, bubble[m] \in Pending
               PROVE  m \in ToSet(queue) /\ m \in ToSet(idb) \cup ToSet(persisting)
    BY DEF PendingIsKept
  <2>1. PendingInv
    BY DEF Kept, Undisturbed, NoRebootstrap, NoRefusal
  <2>2. ~Awaited(m, "unsaved")
    BY DEF Awaited, Runnable
  <2>3. QED
    BY <2>1, <2>2 DEF PendingInv, Safe, RecordInv
<1>2. QED
  BY <1>1, AlwaysSafe, AlwaysKept, PTL
=============================================================================
