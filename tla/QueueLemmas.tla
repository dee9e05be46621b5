---------------------------- MODULE QueueLemmas ----------------------------
(***************************************************************************)
(* Facts about the queues both simulators are built from, cited by the       *)
(* proofs about them: the first index a scan meets, what is left when an       *)
(* element is taken out of the middle, and how many elements of a kind there    *)
(* are.  An induction over the naturals is an appeal to NatMin: the least         *)
(* counterexample has a predecessor that is not one.                               *)
(***************************************************************************)
EXTENDS Integers, FiniteSetsExt, SequencesExt, SequenceTheorems, FiniteSetTheorems,
        WellFoundedInduction, NaturalsInduction, TLAPS

-----------------------------------------------------------------------------
(* The first index of a scan. *)

\* A set of naturals that is not empty has a least element.
LEMMA NatMin ==
  ASSUME NEW S, S \subseteq Nat, S # {}
  PROVE  \E x \in S : \A y \in S : x <= y
<1> DEFINE less == {ss \in Nat \X Nat : ss[1] < ss[2]}
<1>1. IsWellFoundedOn(less, Nat)
  BY NatLessThanWellFounded DEF OpToRel
<1>2. PICK x \in S : \A y \in S : ~(<<y, x>> \in less)
  BY <1>1, WFMin
<1>3. \A y \in S : ~(y < x)
  BY <1>2
<1> QED BY <1>3

\* Induction up to n, for a set of naturals.
LEMMA Climb ==
  ASSUME NEW n \in Nat, NEW G, 0 \in G, \A i \in 0 .. n - 1 : i \in G => i + 1 \in G
  PROVE  \A i \in 0 .. n : i \in G
<1> DEFINE Bad == (0 .. n) \ G
<1> SUFFICES ASSUME Bad # {} PROVE FALSE
  OBVIOUS
<1>1. Bad \subseteq Nat
  OBVIOUS
<1>2. PICK m \in Bad : \A i \in Bad : m <= i
  BY <1>1, NatMin
<1>3. m \in 0 .. n /\ m # 0
  BY <1>2
<1>4. m - 1 \in 0 .. n - 1 /\ m - 1 \in 0 .. n /\ (m - 1) + 1 = m
  BY <1>3
<1>5. m - 1 \in G
  BY <1>2, <1>4
<1> QED BY <1>2, <1>4, <1>5

\* Min finds it.
LEMMA MinIn ==
  ASSUME NEW S, S \subseteq Nat, S # {}
  PROVE  Min(S) \in S /\ \A y \in S : Min(S) <= y
  BY NatMin DEF Min

-----------------------------------------------------------------------------
(* Queues built and taken apart. *)

\* A function from the first n positions is a queue of length n.
LEMMA FunctionSeq ==
  ASSUME NEW S, NEW n \in Nat, NEW f \in [1 .. n -> S]
  PROVE  f \in Seq(S) /\ Len(f) = n
<1>1. f \in Seq(S)
  BY SeqDef
<1>2. DOMAIN f = 1 .. Len(f) /\ Len(f) \in Nat
  BY <1>1, LenProperties
<1>3. 1 .. n = 1 .. Len(f)
  BY <1>2
<1>4. n = Len(f)
  <2>1. CASE n = 0
    <3>1. 1 \notin 1 .. Len(f)
      BY <1>3, <2>1
    <3> QED BY <1>2, <2>1, <3>1
  <2>2. CASE n # 0
    <3>1. n \in 1 .. Len(f)
      BY <1>3, <2>2
    <3>2. Len(f) \in 1 .. Len(f)
      BY <1>2, <3>1
    <3>3. Len(f) \in 1 .. n
      BY <1>3, <3>2
    <3> QED BY <1>2, <3>1, <3>3
  <2> QED BY <2>1, <2>2
<1> QED BY <1>1, <1>4

\* A queue is a queue of whatever all its elements are.
LEMMA SeqRetype ==
  ASSUME NEW S, NEW T, NEW s \in Seq(S), \A i \in 1 .. Len(s) : s[i] \in T
  PROVE  s \in Seq(T)
<1>1. Len(s) \in Nat /\ DOMAIN s = 1 .. Len(s) /\ s \in [1 .. Len(s) -> S]
  BY LenProperties
<1>2. s \in [1 .. Len(s) -> T]
  BY <1>1
<1> QED BY <1>1, <1>2, FunctionSeq

\* vector::erase(begin() + i - 1): what came after moves up by one.
LEMMA RemoveAtProperties ==
  ASSUME NEW S, NEW s \in Seq(S), NEW i \in 1 .. Len(s)
  PROVE  /\ RemoveAt(s, i) \in Seq(S) /\ Len(RemoveAt(s, i)) = Len(s) - 1
         /\ \A k \in 1 .. Len(s) - 1 : RemoveAt(s, i)[k] = IF k < i THEN s[k] ELSE s[k + 1]
<1> DEFINE a == SubSeq(s, 1, i - 1)
           b == SubSeq(s, i + 1, Len(s))
<1>1. a \in Seq(S) /\ Len(a) = i - 1 /\ \A k \in 1 .. i - 1 : a[k] = s[k]
  BY SubSeqProperties
<1>2. b \in Seq(S) /\ Len(b) = Len(s) - i /\ \A k \in 1 .. Len(s) - i : b[k] = s[i + k]
  BY SubSeqProperties
<1> HIDE DEF a, b
<1>3. Len(s) \in Nat
  BY LenProperties
<1>4. /\ a \o b \in Seq(S) /\ Len(a \o b) = Len(a) + Len(b)
      /\ \A k \in 1 .. Len(a) + Len(b) :
           (a \o b)[k] = IF k <= Len(a) THEN a[k] ELSE b[k - Len(a)]
  BY <1>1, <1>2, ConcatProperties
<1>5. Len(a) + Len(b) = Len(s) - 1
  BY <1>1, <1>2, <1>3
<1>6. ASSUME NEW k \in 1 .. Len(s) - 1
      PROVE  (a \o b)[k] = IF k < i THEN s[k] ELSE s[k + 1]
  <2>1. CASE k < i
    BY <1>1, <1>3, <1>4, <1>5, <2>1
  <2>2. CASE ~(k < i)
    <3>1. k - (i - 1) \in 1 .. Len(s) - i /\ i + (k - (i - 1)) = k + 1
      BY <1>3, <2>2
    <3>2. b[k - (i - 1)] = s[k + 1]
      BY <1>2, <3>1
    <3>3. (a \o b)[k] = b[k - (i - 1)]
      BY <1>1, <1>4, <1>5, <2>2
    <3> QED BY <2>2, <3>2, <3>3
  <2> QED BY <2>1, <2>2
<1> QED BY <1>4, <1>5, <1>6 DEF RemoveAt, a, b

-----------------------------------------------------------------------------
(* How many elements of a queue are of a kind K. *)

Hits(s, K) == {i \in 1 .. Len(s) : s[i] \in K}
CountIn(s, K) == Cardinality(Hits(s, K))

\* A count is a natural, at most the length, and the length when all are of the kind.
LEMMA CountType ==
  ASSUME NEW S, NEW s \in Seq(S), NEW K
  PROVE  /\ IsFiniteSet(Hits(s, K)) /\ CountIn(s, K) \in Nat /\ CountIn(s, K) <= Len(s)
         /\ S \subseteq K => CountIn(s, K) = Len(s)
         /\ CountIn(s, K) = 0 <=> \A i \in 1 .. Len(s) : s[i] \notin K
<1>1. Len(s) \in Nat
  BY LenProperties
<1>2. IsFiniteSet(1 .. Len(s)) /\ Cardinality(1 .. Len(s)) = Len(s)
  BY <1>1, FS_Interval
<1>3. Hits(s, K) \subseteq 1 .. Len(s)
  BY DEF Hits
<1>4. IsFiniteSet(Hits(s, K)) /\ Cardinality(Hits(s, K)) <= Len(s)
  BY <1>2, <1>3, FS_Subset
<1>5. Cardinality(Hits(s, K)) \in Nat
  BY <1>4, FS_CardinalityType
<1>6. S \subseteq K => Hits(s, K) = 1 .. Len(s)
  BY ElementOfSeq DEF Hits
<1>7. Cardinality(Hits(s, K)) = 0 <=> Hits(s, K) = {}
  BY <1>4, FS_EmptySet
<1> QED BY <1>2, <1>4, <1>5, <1>6, <1>7 DEF CountIn, Hits

\* push_back.
LEMMA CountAppend ==
  ASSUME NEW S, NEW s \in Seq(S), NEW e \in S, NEW K
  PROVE  CountIn(Append(s, e), K) = CountIn(s, K) + (IF e \in K THEN 1 ELSE 0)
<1>1. /\ Len(s) \in Nat /\ Len(Append(s, e)) = Len(s) + 1
      /\ \A i \in 1 .. Len(s) : Append(s, e)[i] = s[i]
      /\ Append(s, e)[Len(s) + 1] = e
  BY AppendProperties, LenProperties
<1>2. Hits(Append(s, e), K) = Hits(s, K) \cup (IF e \in K THEN {Len(s) + 1} ELSE {})
  BY <1>1 DEF Hits
<1>3. Len(s) + 1 \notin Hits(s, K)
  BY <1>1 DEF Hits
<1>4. IsFiniteSet(Hits(s, K)) /\ Cardinality(Hits(s, K)) \in Nat
  BY CountType DEF CountIn
<1>5. Cardinality(Hits(s, K) \cup {Len(s) + 1}) = Cardinality(Hits(s, K)) + 1
  BY <1>3, <1>4, FS_AddElement
<1>6. CASE e \in K
  BY <1>2, <1>5, <1>6 DEF CountIn
<1>7. CASE e \notin K
  <2>1. Hits(Append(s, e), K) = Hits(s, K)
    BY <1>2, <1>7
  <2> QED BY <1>4, <1>7, <2>1 DEF CountIn
<1> QED BY <1>6, <1>7

\* erase: the indices behind the erased one move up, one for one.
LEMMA CountRemoveAt ==
  ASSUME NEW S, NEW s \in Seq(S), NEW i \in 1 .. Len(s), NEW K
  PROVE  CountIn(RemoveAt(s, i), K) = CountIn(s, K) - (IF s[i] \in K THEN 1 ELSE 0)
<1> DEFINE t == RemoveAt(s, i)
           old == Hits(s, K) \ {i}
           new == Hits(t, K)
           up == [k \in new |-> IF k < i THEN k ELSE k + 1]
<1>1. /\ Len(s) \in Nat /\ Len(t) = Len(s) - 1
      /\ \A k \in 1 .. Len(s) - 1 : t[k] = IF k < i THEN s[k] ELSE s[k + 1]
  BY RemoveAtProperties, LenProperties
<1>2. IsFiniteSet(Hits(s, K)) /\ Cardinality(Hits(s, K)) \in Nat
  BY CountType DEF CountIn
<1>3. IsFiniteSet(old) /\ Cardinality(old) = Cardinality(Hits(s, K)) - (IF s[i] \in K THEN 1 ELSE 0)
  <2>1. i \in Hits(s, K) <=> s[i] \in K
    BY DEF Hits
  <2>2. CASE i \in Hits(s, K)
    BY <1>2, <2>1, <2>2, FS_RemoveElement
  <2>3. CASE i \notin Hits(s, K)
    <3>1. old = Hits(s, K)
      BY <2>3
    <3>2. ~(s[i] \in K)
      BY <2>1, <2>3
    <3>3. Cardinality(old) = Cardinality(Hits(s, K)) - (IF s[i] \in K THEN 1 ELSE 0)
      <4> HIDE DEF old
      <4>1. Cardinality(old) = Cardinality(Hits(s, K)) - 0
        BY <1>2, <3>1
      <4> QED BY ONLY <3>2, <4>1
    <3> QED BY ONLY <1>2, <3>1, <3>3
  <2> QED BY <2>2, <2>3
<1> HIDE DEF t
<1>4. up \in Bijection(new, old)
  <2>1. ASSUME NEW k \in new PROVE up[k] \in old
    BY <1>1 DEF Hits
  <2>2. ASSUME NEW k \in new, NEW m \in new, up[k] = up[m] PROVE k = m
    BY <2>2 DEF Hits
  <2>3. ASSUME NEW m \in old PROVE \E k \in new : up[k] = m
    <3> DEFINE k == IF m < i THEN m ELSE m - 1
    <3>1. k \in new /\ (IF k < i THEN k ELSE k + 1) = m
      BY <1>1 DEF Hits
    <3> HIDE DEF k
    <3> QED BY <3>1
  <2>4. up \in [new -> old]
    BY <2>1
  <2> HIDE DEF up, new, old
  <2> QED BY <2>2, <2>3, <2>4 DEF Bijection, Injection, Surjection, IsInjective
<1>5. Cardinality(new) = Cardinality(old)
  <2>1. ExistsBijection(new, old)
    BY <1>4 DEF ExistsBijection
  <2>2. t \in Seq(S)
    BY RemoveAtProperties DEF t
  <2>3. IsFiniteSet(new)
    BY <2>2, CountType
  <2> HIDE DEF new, old
  <2> QED BY <2>1, <2>3, FS_Bijection
<1> QED BY <1>3, <1>5 DEF CountIn, t

\* insert at the end: the counts add up.
LEMMA CountConcat ==
  ASSUME NEW S, NEW s \in Seq(S), NEW t \in Seq(S), NEW K
  PROVE  CountIn(s \o t, K) = CountIn(s, K) + CountIn(t, K)
<1> DEFINE u == s \o t
           moved == {Len(s) + i : i \in Hits(t, K)}
           up == [i \in Hits(t, K) |-> Len(s) + i]
<1>1. /\ Len(s) \in Nat /\ Len(t) \in Nat /\ Len(u) = Len(s) + Len(t)
      /\ \A i \in 1 .. Len(s) + Len(t) : u[i] = IF i <= Len(s) THEN s[i] ELSE t[i - Len(s)]
  BY ConcatProperties, LenProperties
<1>2. /\ IsFiniteSet(Hits(s, K)) /\ Cardinality(Hits(s, K)) \in Nat
      /\ IsFiniteSet(Hits(t, K)) /\ Cardinality(Hits(t, K)) \in Nat
  BY CountType DEF CountIn
<1> HIDE DEF u
<1>3. Hits(u, K) = Hits(s, K) \cup moved
  <2>1. ASSUME NEW i \in Hits(u, K) PROVE i \in Hits(s, K) \cup moved
    <3>1. CASE i <= Len(s)
      BY <1>1, <2>1, <3>1 DEF Hits
    <3>2. CASE ~(i <= Len(s))
      <4>1. i - Len(s) \in Hits(t, K) /\ i = Len(s) + (i - Len(s))
        BY <1>1, <2>1, <3>2 DEF Hits
      <4> QED BY <4>1
    <3> QED BY <3>1, <3>2
  <2>2. ASSUME NEW i \in Hits(s, K) PROVE i \in Hits(u, K)
    BY <1>1 DEF Hits
  <2>3. ASSUME NEW i \in Hits(t, K) PROVE Len(s) + i \in Hits(u, K)
    <3>1. i \in 1 .. Len(t) /\ t[i] \in K
      BY DEF Hits
    <3>2. Len(s) + i \in 1 .. Len(u) /\ ~(Len(s) + i <= Len(s)) /\ (Len(s) + i) - Len(s) = i
      BY <1>1, <3>1
    <3> QED BY <1>1, <3>1, <3>2 DEF Hits
  <2> QED BY <2>1, <2>2, <2>3
<1>4. Hits(s, K) \cap moved = {}
  BY <1>1 DEF Hits
<1>5. IsFiniteSet(moved) /\ Cardinality(moved) = Cardinality(Hits(t, K))
  <2>1. up \in Bijection(Hits(t, K), moved)
    <3>1. \A i, k \in Hits(t, K) : Len(s) + i = Len(s) + k => i = k
      BY <1>1 DEF Hits
    <3> QED BY <3>1 DEF Bijection, Injection, Surjection, IsInjective
  <2>2. ExistsBijection(Hits(t, K), moved)
    BY <2>1 DEF ExistsBijection
  <2> HIDE DEF moved
  <2> QED BY <1>2, <2>2, FS_Bijection
<1> HIDE DEF moved
<1>6. Cardinality(Hits(u, K)) = Cardinality(Hits(s, K)) + Cardinality(moved) - Cardinality({})
  BY <1>2, <1>3, <1>4, <1>5, FS_Union
<1>7. Cardinality({}) = 0
  BY FS_EmptySet
<1> QED BY <1>2, <1>5, <1>6, <1>7 DEF CountIn, u

\* Queues that agree position by position have the same count.
LEMMA CountSame ==
  ASSUME NEW S, NEW s \in Seq(S), NEW T, NEW t \in Seq(T), Len(s) = Len(t), NEW K, NEW M,
         \A i \in 1 .. Len(s) : s[i] \in K <=> t[i] \in M
  PROVE  CountIn(s, K) = CountIn(t, M)
<1>1. Hits(s, K) = Hits(t, M)
  BY DEF Hits
<1> QED BY <1>1 DEF CountIn

\* front and pop.
LEMMA CountTail ==
  ASSUME NEW S, NEW s \in Seq(S), s # <<>>, NEW K
  PROVE  /\ CountIn(Tail(s), K) = CountIn(s, K) - (IF Head(s) \in K THEN 1 ELSE 0)
         /\ Head(s) = s[1] /\ Head(s) \in S /\ Tail(s) \in Seq(S) /\ Len(Tail(s)) = Len(s) - 1
         /\ Len(s) \in Nat \ {0} /\ \A k \in 1 .. Len(s) - 1 : Tail(s)[k] = s[k + 1]
         /\ Head(s) \in K => CountIn(s, K) > 0
<1>1. /\ Head(s) = s[1] /\ Head(s) \in S /\ Tail(s) \in Seq(S) /\ Len(Tail(s)) = Len(s) - 1
      /\ \A k \in 1 .. Len(Tail(s)) : Tail(s)[k] = s[k + 1]
  BY HeadTailProperties
<1>2. Len(s) \in Nat /\ Len(s) # 0
  BY LenProperties, EmptySeq
<1>3. 1 \in 1 .. Len(s)
  BY <1>2
<1>4. /\ RemoveAt(s, 1) \in Seq(S) /\ Len(RemoveAt(s, 1)) = Len(s) - 1
      /\ \A k \in 1 .. Len(s) - 1 : RemoveAt(s, 1)[k] = IF k < 1 THEN s[k] ELSE s[k + 1]
  BY <1>3, RemoveAtProperties
<1>5. \A k \in 1 .. Len(s) - 1 : RemoveAt(s, 1)[k] = s[k + 1]
  BY <1>2, <1>4
<1>6. CountIn(Tail(s), K) = CountIn(RemoveAt(s, 1), K)
  <2>1. Len(Tail(s)) = Len(RemoveAt(s, 1))
    BY <1>1, <1>4
  <2>2. \A k \in 1 .. Len(Tail(s)) : Tail(s)[k] \in K <=> RemoveAt(s, 1)[k] \in K
    BY <1>1, <1>5
  <2> DEFINE t == Tail(s)
             u == RemoveAt(s, 1)
  <2>3. /\ t \in Seq(S) /\ u \in Seq(S) /\ Len(t) = Len(u)
        /\ \A k \in 1 .. Len(t) : t[k] \in K <=> u[k] \in K
    BY <1>1, <1>4, <2>1, <2>2
  <2> HIDE DEF t, u
  <2>4. CountIn(t, K) = CountIn(u, K)
    BY <2>3, CountSame
  <2> QED BY <2>4 DEF t, u
<1>7. CountIn(RemoveAt(s, 1), K) = CountIn(s, K) - (IF s[1] \in K THEN 1 ELSE 0)
  BY <1>3, CountRemoveAt
<1>8. s[1] \in K => CountIn(s, K) > 0
  <2>1. CountIn(s, K) \in Nat
    BY CountType
  <2>2. CountIn(s, K) = 0 <=> \A i \in 1 .. Len(s) : s[i] \notin K
    BY CountType
  <2> QED BY <1>3, <2>1, <2>2
<1> QED BY <1>1, <1>2, <1>6, <1>7, <1>8

\* A queue of one, and an empty one.
LEMMA CountShort ==
  ASSUME NEW S, NEW x \in S, NEW K
  PROVE  /\ CountIn(<<>>, K) = 0 /\ <<>> \in Seq(S) /\ <<x>> \in Seq(S)
         /\ CountIn(<<x>>, K) = IF x \in K THEN 1 ELSE 0
<1>1. <<>> \in Seq(S) /\ Len(<<>>) = 0
  BY EmptySeq
<1>2. CountIn(<<>>, K) = 0
  <2>1. CountIn(<<>>, K) \in Nat /\ CountIn(<<>>, K) <= Len(<<>>)
    BY ONLY <1>1, CountType
  <2> QED BY <1>1, <2>1
<1>3. Append(<<>>, x) = <<x>>
  BY <1>1
<1>4. CountIn(Append(<<>>, x), K) = CountIn(<<>>, K) + (IF x \in K THEN 1 ELSE 0)
  BY <1>1, CountAppend
<1> QED BY <1>1, <1>2, <1>3, <1>4

-----------------------------------------------------------------------------
(* Recursive functions: sums of a number per rank, and queues laid end to end. *)

\* A sum of the first n numbers exists.
LEMMA SumExists ==
  ASSUME NEW f, NEW n \in Nat
  PROVE  \E up : up = [i \in 0 .. n |-> IF i = 0 THEN 0 ELSE up[i - 1] + f[i - 1]]
<1> DEFINE P(m) == \E up : up = [i \in 0 .. m |-> IF i = 0 THEN 0 ELSE up[i - 1] + f[i - 1]]
           Bad == {m \in Nat : ~P(m)}
<1>1. P(0)
  <2>1. [i \in 0 .. 0 |-> 0]
          = [i \in 0 .. 0 |-> IF i = 0 THEN 0 ELSE [k \in 0 .. 0 |-> 0][i - 1] + f[i - 1]]
    OBVIOUS
  <2> QED BY <2>1
<1>2. ASSUME NEW m \in Nat, P(m) PROVE P(m + 1)
  <2>1. PICK up : up = [i \in 0 .. m |-> IF i = 0 THEN 0 ELSE up[i - 1] + f[i - 1]]
    BY <1>2
  <2> DEFINE more == [i \in 0 .. m + 1 |-> IF i = m + 1 THEN up[m] + f[m] ELSE up[i]]
  <2>2. ASSUME NEW i \in 0 .. m + 1
        PROVE  more[i] = IF i = 0 THEN 0 ELSE more[i - 1] + f[i - 1]
    BY <2>1
  <2>3. more = [i \in 0 .. m + 1 |-> IF i = 0 THEN 0 ELSE more[i - 1] + f[i - 1]]
    BY <2>2
  <2> QED BY <2>3
<1>3. Bad = {}
  <2> SUFFICES ASSUME Bad # {} PROVE FALSE
    OBVIOUS
  <2>1. PICK m \in Bad : \A k \in Bad : m <= k
    BY NatMin
  <2>2. m # 0
    <3>1. ~P(m)
      BY <2>1
    <3> HIDE DEF P
    <3> QED BY ONLY <1>1, <3>1
  <2>3. m - 1 \in Nat /\ ~(m - 1 \in Bad) /\ (m - 1) + 1 = m
    BY <2>1, <2>2
  <2>4. P((m - 1) + 1)
    BY <1>2, <2>3
  <2> QED BY <2>1, <2>3, <2>4
<1> QED BY <1>3

\* The queues s[1], ..., s[n] laid end to end, one after the other.
LEMMA FlattenExists ==
  ASSUME NEW s, NEW n \in Nat
  PROVE  \E all : all = [i \in 1 .. n |-> IF i = 1 THEN s[i] ELSE all[i - 1] \o s[i]]
<1> DEFINE P(m) == \E all : all = [i \in 1 .. m |-> IF i = 1 THEN s[i] ELSE all[i - 1] \o s[i]]
           Bad == {m \in Nat : ~P(m)}
<1>1. P(0)
  <2> DEFINE none == [i \in 1 .. 0 |-> s[i]]
  <2>1. none = [i \in 1 .. 0 |-> IF i = 1 THEN s[i] ELSE none[i - 1] \o s[i]]
    OBVIOUS
  <2> HIDE DEF none
  <2> QED BY <2>1
<1>2. ASSUME NEW m \in Nat, P(m) PROVE P(m + 1)
  <2>1. PICK all : all = [i \in 1 .. m |-> IF i = 1 THEN s[i] ELSE all[i - 1] \o s[i]]
    BY <1>2
  <2> DEFINE last == IF m = 0 THEN s[1] ELSE all[m] \o s[m + 1]
             more == [i \in 1 .. m + 1 |-> IF i = m + 1 THEN last ELSE all[i]]
  <2>2. ASSUME NEW i \in 1 .. m + 1
        PROVE  more[i] = IF i = 1 THEN s[i] ELSE more[i - 1] \o s[i]
    <3>1. CASE i = m + 1
      <4>1. more[i] = last /\ (i # 1 => m \in 1 .. m /\ m # m + 1 /\ more[m] = all[m] /\ i - 1 = m)
        BY <3>1
      <4> QED BY <3>1, <4>1
    <3>2. CASE i # m + 1
      <4>1. i \in 1 .. m /\ (i # 1 => i - 1 \in 1 .. m)
        BY <3>2
      <4>2. more[i] = all[i] /\ (i # 1 => more[i - 1] = all[i - 1])
        BY <4>1
      <4> HIDE DEF more
      <4> QED BY <2>1, <4>1, <4>2
    <3> QED BY <3>1, <3>2
  <2>3. more = [i \in 1 .. m + 1 |-> IF i = 1 THEN s[i] ELSE more[i - 1] \o s[i]]
    BY <2>2
  <2> HIDE DEF more
  <2> QED BY <2>3
<1>3. Bad = {}
  <2> SUFFICES ASSUME Bad # {} PROVE FALSE
    OBVIOUS
  <2> HIDE DEF P
  <2>1. PICK m \in Bad : \A k \in Bad : m <= k
    BY NatMin
  <2>2. m # 0
    BY <1>1, <2>1
  <2>3. m - 1 \in Nat /\ ~(m - 1 \in Bad) /\ (m - 1) + 1 = m
    BY <2>1, <2>2
  <2>4. P((m - 1) + 1)
    BY <1>2, <2>3
  <2> QED BY <2>1, <2>3, <2>4
<1> QED BY <1>3

\* up holds how many of a kind K the first queues of s have, for every number of them.
CountSums(s, n, K, up) ==
  up = [i \in 0 .. n |-> IF i = 0 THEN 0 ELSE up[i - 1] + CountIn(s[i], K)]

\* What FlattenSeq returns, and what it returns of queues with at most one element:
\* how many of a kind is the number of the queues that hold one.
LEMMA FlattenProperties ==
  ASSUME NEW S, NEW n \in Nat, NEW s \in [1 .. n -> Seq(S)]
  PROVE  /\ FlattenSeq(s) \in Seq(S)
         /\ \A K, up : CountSums(s, n, K, up) => CountIn(FlattenSeq(s), K) = up[n]
<1>1. s \in Seq(Seq(S)) /\ Len(s) = n
  BY FunctionSeq
<1>2. CASE n = 0
  <2>1. s = <<>> /\ FlattenSeq(s) = s
    BY <1>1, <1>2, EmptySeq DEF FlattenSeq
  <2>2. <<>> \in Seq(S) /\ Len(<<>>) = 0
    BY EmptySeq
  <2>3. ASSUME NEW K PROVE CountIn(<<>>, K) = 0
    <3>1. CountIn(<<>>, K) = 0 <=> \A i \in 1 .. Len(<<>>) : <<>>[i] \notin K
      BY ONLY <2>2, CountType
    <3>2. 1 .. Len(<<>>) = {}
      BY <2>2
    <3> QED BY <3>1, <3>2
  <2>4. ASSUME NEW K, NEW up, CountSums(s, n, K, up)
        PROVE  up[n] = 0
    BY <1>2, <2>4 DEF CountSums
  <2>5. FlattenSeq(s) \in Seq(S)
    BY <2>1, <2>2
  <2>6. \A K : CountIn(FlattenSeq(s), K) = 0
    BY <2>1, <2>3
  <2> QED BY <2>4, <2>5, <2>6
<1>3. CASE n # 0
  <2> DEFINE Laid(all) == all = [i \in 1 .. n |-> IF i = 1 THEN s[i] ELSE all[i - 1] \o s[i]]
             flat == CHOOSE all : Laid(all)
  <2>1. Laid(flat)
    <3>1. \E all : Laid(all)
      BY FlattenExists
    <3> QED BY <3>1
  <2>2. FlattenSeq(s) = flat[n]
    BY <1>1, <1>3 DEF FlattenSeq
  <2> HIDE DEF flat
  <2> DEFINE Typed(i) == i > n \/ i = 0 \/ flat[i] \in Seq(S)
             Bad == {i \in Nat : ~Typed(i)}
  <2>3. Bad = {}
    <3> SUFFICES ASSUME Bad # {} PROVE FALSE
      OBVIOUS
    <3>1. PICK m \in Bad : \A k \in Bad : m <= k
      BY NatMin
    <3>2. m \in 1 .. n /\ flat[m] \notin Seq(S)
      BY <3>1
    <3>3. s[m] \in Seq(S)
      BY <3>2
    <3>4. m # 1
      BY <2>1, <3>2, <3>3
    <3>5. m - 1 \in Nat /\ ~(m - 1 \in Bad)
      BY <3>1, <3>2
    <3>6. flat[m - 1] \in Seq(S)
      BY <3>2, <3>4, <3>5
    <3>7. flat[m] = flat[m - 1] \o s[m]
      BY <2>1, <3>2, <3>4
    <3> QED BY <3>2, <3>3, <3>6, <3>7, ConcatProperties
  <2>4. \A i \in 1 .. n : flat[i] \in Seq(S)
    BY <2>3
  <2>5. ASSUME NEW K, NEW up, CountSums(s, n, K, up)
        PROVE  CountIn(flat[n], K) = up[n]
    <3> DEFINE Wrong == {i \in Nat : i \in 1 .. n /\ CountIn(flat[i], K) # up[i]}
    <3>1. Wrong = {}
      <4> SUFFICES ASSUME Wrong # {} PROVE FALSE
        OBVIOUS
      <4>1. PICK m \in Wrong : \A k \in Wrong : m <= k
        BY NatMin
      <4>2. m \in 1 .. n /\ s[m] \in Seq(S) /\ CountIn(s[m], K) \in Nat
        BY <4>1, CountType
      <4>3. up[m] = up[m - 1] + CountIn(s[m], K) /\ up[0] = 0
        BY <2>5, <4>2 DEF CountSums
      <4>4. m # 1
        <5>1. flat[1] = s[1]
          BY <1>3, <2>1
        <5> QED BY <4>1, <4>2, <4>3, <5>1
      <4>5. m - 1 \in 1 .. n /\ ~(m - 1 \in Wrong)
        BY <4>1, <4>2, <4>4
      <4>6. CountIn(flat[m - 1], K) = up[m - 1]
        BY <4>5
      <4>7. flat[m] = flat[m - 1] \o s[m] /\ flat[m - 1] \in Seq(S)
        BY <2>1, <2>4, <4>2, <4>4, <4>5
      <4>8. CountIn(flat[m], K) = CountIn(flat[m - 1], K) + CountIn(s[m], K)
        BY <4>2, <4>7, CountConcat
      <4> QED BY <4>1, <4>3, <4>6, <4>8
    <3>2. n \in Nat /\ n \in 1 .. n
      BY <1>3
    <3>3. ~(n \in Wrong)
      BY <3>1
    <3> QED BY ONLY <3>2, <3>3
  <2> QED BY <1>3, <2>2, <2>4, <2>5
<1> QED BY <1>2, <1>3
=============================================================================
