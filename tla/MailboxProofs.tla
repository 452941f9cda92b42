--------------------------- MODULE MailboxProofs ---------------------------
(***************************************************************************)
(* Lemmas about a mailbox, a sequence of messages that have a type: a      *)
(* message waits until it is taken, and none appears by itself; and how    *)
(* many of a type wait, after one is appended and after one is taken.      *)
(***************************************************************************)
EXTENDS Integers, Sequences, FiniteSets, SequenceTheorems, FiniteSetTheorems, FunctionTheorems, TLAPS

\* A message of the type waits.
Holds(mb, type) == \E i \in DOMAIN mb : mb[i].type = type

\* Appending a message keeps what the mailbox holds, and adds its type only.
LEMMA HoldsAppend ==
  ASSUME NEW S, NEW mb \in Seq(S), NEW m \in S, NEW type
  PROVE  Holds(Append(mb, m), type) <=> Holds(mb, type) \/ m.type = type
<1>1. /\ Append(mb, m) \in Seq(S) /\ Len(Append(mb, m)) = Len(mb) + 1 /\ Len(mb) \in Nat
      /\ Append(mb, m)[Len(mb) + 1] = m
      /\ \A i \in 1..Len(mb) : Append(mb, m)[i] = mb[i]
  BY AppendProperties
<1>2. DOMAIN mb = 1..Len(mb) /\ DOMAIN Append(mb, m) = 1..Len(mb) + 1
  BY <1>1
<1>3. ASSUME Holds(mb, type) \/ m.type = type PROVE Holds(Append(mb, m), type)
  <2>1. CASE m.type = type
    BY <1>1, <1>2, <2>1 DEF Holds
  <2>2. CASE Holds(mb, type)
    BY <1>1, <1>2, <2>2 DEF Holds
  <2> QED
    BY <1>3, <2>1, <2>2
<1>4. ASSUME Holds(Append(mb, m), type) PROVE Holds(mb, type) \/ m.type = type
  <2>1. PICK i \in 1..Len(mb) + 1 : Append(mb, m)[i].type = type
    BY <1>2, <1>4 DEF Holds
  <2>2. CASE i = Len(mb) + 1
    BY <1>1, <2>1, <2>2
  <2>3. CASE i # Len(mb) + 1
    <3>1. i \in 1..Len(mb)
      BY <1>1, <2>3
    <3> QED
      BY <1>1, <1>2, <2>1, <3>1 DEF Holds
  <2> QED
    BY <2>2, <2>3
<1> QED
  BY <1>3, <1>4

\* Taking the head keeps the messages of every other type.
LEMMA HoldsTail ==
  ASSUME NEW S, NEW mb \in Seq(S), mb # <<>>, NEW type,
         Head(mb).type # type, Holds(mb, type)
  PROVE  Holds(Tail(mb), type)
<1>1. PICK i \in 1..Len(mb) : mb[i].type = type
  BY DEF Holds
<1>2. Head(mb) = mb[1] /\ i # 1 /\ Len(mb) \in Nat
  BY <1>1
<1>3. i - 1 \in 1..Len(mb) - 1 /\ Len(Tail(mb)) = Len(mb) - 1 /\ Tail(mb) \in Seq(S)
  BY <1>2, HeadTailProperties
<1>4. Tail(mb)[i - 1] = mb[i]
  BY <1>2, <1>3
<1>5. DOMAIN Tail(mb) = 1..Len(mb) - 1
  BY <1>3
<1> QED
  BY <1>1, <1>3, <1>4, <1>5 DEF Holds

\* Taking the head adds nothing, and the head was there.
LEMMA TailHolds ==
  ASSUME NEW S, NEW mb \in Seq(S), mb # <<>>
  PROVE  /\ \A type : Holds(Tail(mb), type) => Holds(mb, type)
         /\ Holds(mb, Head(mb).type)
<1>1. Head(mb) = mb[1] /\ Len(mb) \in Nat /\ DOMAIN mb = 1..Len(mb) /\ Len(mb) # 0
  BY EmptySeq
<1>2. /\ Tail(mb) \in Seq(S) /\ Len(Tail(mb)) = Len(mb) - 1
      /\ \A i \in 1..Len(mb) - 1 : Tail(mb)[i] = mb[i + 1]
  BY <1>1, HeadTailProperties
<1>3. DOMAIN Tail(mb) = 1..Len(mb) - 1
  BY <1>2
<1>4. ASSUME NEW type, Holds(Tail(mb), type) PROVE Holds(mb, type)
  <2>1. PICK i \in 1..Len(mb) - 1 : Tail(mb)[i].type = type
    BY <1>3, <1>4 DEF Holds
  <2>2. i + 1 \in 1..Len(mb) /\ mb[i + 1].type = type
    BY <1>1, <1>2, <2>1
  <2> QED
    BY <1>1, <2>2 DEF Holds
<1>5. Holds(mb, Head(mb).type)
  BY <1>1 DEF Holds
<1> QED
  BY <1>4, <1>5

\* An empty mailbox holds nothing.
LEMMA EmptyHolds == \A type : ~Holds(<<>>, type)
  BY DEF Holds
-----------------------------------------------------------------------------
(* How many messages of some types wait.                                     *)

\* The places from a to b where a message of one of the types waits.
Places(mb, a, b, types) == {i \in a..b : mb[i].type \in types}

NumOf(mb, a, b, types) == Cardinality(Places(mb, a, b, types))

\* In the whole mailbox.
NumIn(mb, types) == NumOf(mb, 1, Len(mb), types)

One(yes) == IF yes THEN 1 ELSE 0

\* There are at most as many as places.
LEMMA NumType ==
  ASSUME NEW mb, NEW a \in Int, NEW b \in Int, NEW types
  PROVE  /\ IsFiniteSet(Places(mb, a, b, types))
         /\ NumOf(mb, a, b, types) \in Nat
         /\ a <= b + 1 => NumOf(mb, a, b, types) <= b - a + 1
<1>1. IsFiniteSet(a..b) /\ Cardinality(a..b) = IF a > b THEN 0 ELSE b - a + 1
  BY FS_Interval
<1>2. Places(mb, a, b, types) \in SUBSET (a..b)
  BY DEF Places
<1>3. /\ IsFiniteSet(Places(mb, a, b, types))
      /\ Cardinality(Places(mb, a, b, types)) <= Cardinality(a..b)
  BY <1>1, <1>2, FS_Subset
<1>4. NumOf(mb, a, b, types) \in Nat
  BY <1>3, FS_CardinalityType DEF NumOf
<1> QED
  BY <1>1, <1>3, <1>4 DEF NumOf

\* What mailboxes agree on, they count alike.
LEMMA NumSame ==
  ASSUME NEW m1, NEW m2, NEW a, NEW b, NEW types, \A i \in a..b : m1[i] = m2[i]
  PROVE  NumOf(m1, a, b, types) = NumOf(m2, a, b, types)
BY DEF NumOf, Places

\* One place more at the end.
LEMMA NumLast ==
  ASSUME NEW mb, NEW a \in Int, NEW b \in Int, NEW types, a <= b + 1
  PROVE  NumOf(mb, a, b + 1, types) = NumOf(mb, a, b, types) + One(mb[b + 1].type \in types)
<1>1. IsFiniteSet(Places(mb, a, b, types)) /\ NumOf(mb, a, b, types) \in Nat
  BY NumType
<1>2. CASE mb[b + 1].type \in types
  <2>1. Places(mb, a, b + 1, types) = Places(mb, a, b, types) \cup {b + 1}
    BY <1>2 DEF Places
  <2>2. b + 1 \notin Places(mb, a, b, types)
    BY DEF Places
  <2> QED
    BY <1>1, <1>2, <2>1, <2>2, FS_AddElement DEF NumOf, One
<1>3. CASE mb[b + 1].type \notin types
  <2>1. Places(mb, a, b + 1, types) = Places(mb, a, b, types)
    BY <1>3 DEF Places
  <2> QED
    BY <1>1, <1>3, <2>1 DEF NumOf, One
<1> QED
  BY <1>2, <1>3

\* One place more at the beginning.
LEMMA NumFirst ==
  ASSUME NEW mb, NEW a \in Int, NEW b \in Int, NEW types, a <= b
  PROVE  NumOf(mb, a, b, types) = NumOf(mb, a + 1, b, types) + One(mb[a].type \in types)
<1>1. IsFiniteSet(Places(mb, a + 1, b, types)) /\ NumOf(mb, a + 1, b, types) \in Nat
  BY NumType
<1>2. CASE mb[a].type \in types
  <2>1. Places(mb, a, b, types) = Places(mb, a + 1, b, types) \cup {a}
    BY <1>2 DEF Places
  <2>2. a \notin Places(mb, a + 1, b, types)
    BY DEF Places
  <2> QED
    BY <1>1, <1>2, <2>1, <2>2, FS_AddElement DEF NumOf, One
<1>3. CASE mb[a].type \notin types
  <2>1. Places(mb, a, b, types) = Places(mb, a + 1, b, types)
    BY <1>3 DEF Places
  <2> QED
    BY <1>1, <1>3, <2>1 DEF NumOf, One
<1> QED
  BY <1>2, <1>3

\* Taking the head moves every message one place to the front.
LEMMA NumTail ==
  ASSUME NEW S, NEW mb \in Seq(S), NEW a \in Int, NEW b \in Int, NEW types,
         1 <= a, b < Len(mb)
  PROVE  NumOf(Tail(mb), a, b, types) = NumOf(mb, a + 1, b + 1, types)
<1> DEFINE P == Places(Tail(mb), a, b, types)
           Q == Places(mb, a + 1, b + 1, types)
           f == [i \in P |-> i + 1]
<1>1. CASE mb = <<>>
  <2>1. P = {} /\ Q = {}
    BY <1>1 DEF Places
  <2> QED
    BY <2>1 DEF NumOf
<1>2. CASE mb # <<>>
  <2>1. \A i \in 1..Len(mb) - 1 : Tail(mb)[i] = mb[i + 1]
    BY <1>2, HeadTailProperties
  <2>2. Len(mb) \in Nat
    OBVIOUS
  <2>3. ASSUME NEW i \in Int PROVE i \in P <=> i + 1 \in Q
    BY <2>1, <2>2 DEF Places
  <2>4. P \subseteq Int /\ Q \subseteq Int
    BY DEF Places
  <2>5. f \in [P -> Q]
    BY <2>3, <2>4
  <2>6. \A i, j \in P : f[i] = f[j] => i = j
    BY <2>4
  <2>7. \A j \in Q : \E i \in P : f[i] = j
    <3> SUFFICES ASSUME NEW j \in Q PROVE \E i \in P : f[i] = j
      OBVIOUS
    <3>1. j - 1 \in Int /\ j - 1 + 1 = j
      BY <2>4
    <3>2. j - 1 \in P
      BY <2>3, <3>1
    <3> QED
      BY <3>1, <3>2
  <2>8. f \in Bijection(P, Q)
    <3> HIDE DEF f
    <3> QED
      BY <2>5, <2>6, <2>7, Fun_IsBij
  <2>9. IsFiniteSet(P)
    BY NumType
  <2> HIDE DEF P, Q, f
  <2>10. Cardinality(P) = Cardinality(Q)
    BY <2>8, <2>9, FS_Bijection DEF ExistsBijection
  <2> QED
    BY <2>10 DEF P, Q, NumOf
<1> QED
  BY <1>1, <1>2

\* Types that have nothing in common add up.
LEMMA NumSplit ==
  ASSUME NEW mb, NEW a \in Int, NEW b \in Int, NEW T, NEW U, T \cap U = {}
  PROVE  NumOf(mb, a, b, T \cup U) = NumOf(mb, a, b, T) + NumOf(mb, a, b, U)
<1> DEFINE P == Places(mb, a, b, T)
           Q == Places(mb, a, b, U)
<1>1. /\ IsFiniteSet(P) /\ Cardinality(P) \in Nat
      /\ IsFiniteSet(Q) /\ Cardinality(Q) \in Nat
  BY NumType DEF NumOf
<1>2. P \cap Q = {} /\ Places(mb, a, b, T \cup U) = P \cup Q
  BY DEF Places
<1>3. Cardinality(P \cap Q) = 0
  BY <1>2, FS_EmptySet
<1> HIDE DEF P, Q
<1>4. Cardinality(P \cup Q) = Cardinality(P) + Cardinality(Q)
  <2>1. Cardinality(P \cup Q) = Cardinality(P) + Cardinality(Q) - Cardinality(P \cap Q)
    BY <1>1, FS_Union
  <2> QED
    BY <1>1, <1>3, <2>1
<1> QED
  BY <1>2, <1>4 DEF NumOf, P, Q

\* A window into another holds no more of them.
LEMMA NumWithin ==
  ASSUME NEW mb, NEW a \in Int, NEW b \in Int, NEW c \in Int, NEW d \in Int,
         NEW T, NEW U, a <= c, d <= b, T \subseteq U
  PROVE  NumOf(mb, c, d, T) <= NumOf(mb, a, b, U)
<1>1. IsFiniteSet(Places(mb, a, b, U))
  BY NumType
<1>2. Places(mb, c, d, T) \in SUBSET Places(mb, a, b, U)
  BY DEF Places
<1> QED
  BY <1>1, <1>2, FS_Subset DEF NumOf

\* Every message is of one of the types that messages have.
LEMMA NumAll ==
  ASSUME NEW mb, NEW a \in Int, NEW b \in Int, NEW types, a <= b + 1,
         \A i \in a..b : mb[i].type \in types
  PROVE  NumOf(mb, a, b, types) = b - a + 1
<1>1. Places(mb, a, b, types) = a..b
  BY DEF Places
<1> QED
  BY <1>1, FS_Interval DEF NumOf

-----------------------------------------------------------------------------
(* The whole mailbox.                                                        *)

LEMMA NumInType ==
  ASSUME NEW S, NEW mb \in Seq(S), NEW types
  PROVE  NumIn(mb, types) \in Nat /\ NumIn(mb, types) <= Len(mb)
<1>1. Len(mb) \in Nat
  OBVIOUS
<1> QED
  BY <1>1, NumType DEF NumIn

\* A message that is appended counts once, where the window reaches it.
LEMMA NumInAppend ==
  ASSUME NEW S, NEW mb \in Seq(S), NEW m \in S, NEW types
  PROVE  /\ NumIn(Append(mb, m), types) = NumIn(mb, types) + One(m.type \in types)
         /\ \A a, b \in Int : 1 <= a /\ b <= Len(mb) =>
              NumOf(Append(mb, m), a, b, types) = NumOf(mb, a, b, types)
         /\ \A a \in 1..Len(mb) + 1 :
              NumOf(Append(mb, m), a, Len(mb) + 1, types)
                = NumOf(mb, a, Len(mb), types) + One(m.type \in types)
<1> DEFINE n == Len(mb)
           new == Append(mb, m)
<1>1. /\ n \in Nat /\ Len(new) = n + 1
      /\ \A i \in 1..n : new[i] = mb[i]
      /\ new[n + 1] = m
  BY AppendProperties
<1> HIDE DEF new, n
<1>2. ASSUME NEW a \in Int, NEW b \in Int, 1 <= a, b <= n
      PROVE  NumOf(new, a, b, types) = NumOf(mb, a, b, types)
  <2>1. \A i \in a..b : new[i] = mb[i]
    BY <1>1, <1>2
  <2> QED
    BY <2>1, NumSame
<1>3. ASSUME NEW a \in 1..n + 1
      PROVE  NumOf(new, a, n + 1, types) = NumOf(mb, a, n, types) + One(m.type \in types)
  <2>1. a \in Int /\ a <= n + 1 /\ 1 <= a /\ n <= n
    BY <1>1
  <2>2. NumOf(new, a, n + 1, types) = NumOf(new, a, n, types) + One(new[n + 1].type \in types)
    BY <1>1, <2>1, NumLast
  <2>3. NumOf(new, a, n, types) = NumOf(mb, a, n, types)
    BY <1>1, <1>2, <2>1
  <2> QED
    BY <1>1, <2>2, <2>3
<1>4. NumIn(new, types) = NumIn(mb, types) + One(m.type \in types)
  <2>1. 1 \in 1..n + 1
    BY <1>1
  <2>2. NumOf(new, 1, n + 1, types) = NumOf(mb, 1, n, types) + One(m.type \in types)
    BY <1>3, <2>1
  <2> QED
    BY <1>1, <2>2 DEF NumIn, n
<1> QED
  BY <1>2, <1>3, <1>4 DEF new, n

\* Taking the head takes one message of its type.
LEMMA NumInTail ==
  ASSUME NEW S, NEW mb \in Seq(S), mb # <<>>, NEW types
  PROVE  /\ NumIn(Tail(mb), types) = NumIn(mb, types) - One(Head(mb).type \in types)
         /\ \A a, b \in Int : 1 <= a /\ b < Len(mb) =>
              NumOf(Tail(mb), a, b, types) = NumOf(mb, a + 1, b + 1, types)
<1>1. /\ Len(mb) \in Nat /\ Len(mb) >= 1 /\ Head(mb) = mb[1]
      /\ Len(Tail(mb)) = Len(mb) - 1
  BY HeadTailProperties, EmptySeq
<1>2. ASSUME NEW a \in Int, NEW b \in Int, 1 <= a, b < Len(mb)
      PROVE  NumOf(Tail(mb), a, b, types) = NumOf(mb, a + 1, b + 1, types)
  BY <1>2, NumTail
<1>3. NumIn(Tail(mb), types) = NumOf(mb, 2, Len(mb), types)
  <2>1. Len(mb) - 1 \in Int /\ Len(mb) - 1 < Len(mb) /\ Len(mb) - 1 + 1 = Len(mb) /\ 1 + 1 = 2
    BY <1>1
  <2>2. NumOf(Tail(mb), 1, Len(mb) - 1, types) = NumOf(mb, 1 + 1, Len(mb) - 1 + 1, types)
    BY <1>2, <2>1
  <2> QED
    BY <1>1, <2>1, <2>2 DEF NumIn
<1>4. NumOf(mb, 1, Len(mb), types)
        = NumOf(mb, 1 + 1, Len(mb), types) + One(mb[1].type \in types)
  BY <1>1, NumFirst
<1>5. NumOf(mb, 2, Len(mb), types) \in Nat /\ One(mb[1].type \in types) \in {0, 1} /\ 1 + 1 = 2
  BY <1>1, NumType DEF One
<1>6. NumIn(Tail(mb), types) = NumIn(mb, types) - One(Head(mb).type \in types)
  BY <1>1, <1>3, <1>4, <1>5 DEF NumIn
<1> QED
  BY <1>2, <1>6

\* A type that is counted waits, and one that waits is counted.
LEMMA NumInHolds ==
  ASSUME NEW S, NEW mb \in Seq(S), NEW type
  PROVE  NumIn(mb, {type}) = 0 <=> ~Holds(mb, type)
<1>1. DOMAIN mb = 1..Len(mb) /\ Len(mb) \in Nat
  OBVIOUS
<1>2. IsFiniteSet(Places(mb, 1, Len(mb), {type}))
  BY <1>1, NumType
<1>3. NumIn(mb, {type}) = 0 <=> Places(mb, 1, Len(mb), {type}) = {}
  BY <1>2, FS_EmptySet DEF NumIn, NumOf
<1> QED
  BY <1>1, <1>3 DEF Places, Holds

\* An empty mailbox holds none.
LEMMA NumInEmpty == \A types : NumIn(<<>>, types) = 0
<1> TAKE types
<1>1. Places(<<>>, 1, Len(<<>>), types) = {}
  BY EmptySeq DEF Places
<1> QED
  BY <1>1, FS_EmptySet DEF NumIn, NumOf
=============================================================================
