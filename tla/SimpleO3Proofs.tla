--------------------------- MODULE SimpleO3Proofs ---------------------------
(***************************************************************************)
(* The cache of SimpleO3 keeps what its cores store, for any number of      *)
(* cores, ways and registers, any latency, any buffers of the memory, and    *)
(* any number of sets and line size that are powers of two.                   *)
(***************************************************************************)
EXTENDS SimpleO3, QueueLemmas

-----------------------------------------------------------------------------
(* The inductive invariant.                                                 *)

Tags == {Tag(a) : a \in Nat}
Lines == {LineOf(a) : a \in Nat}
Line == [addr : Nat, tag : Tags, dirty : BOOLEAN, ready : BOOLEAN]
SetIds == SUBSET IndexMask

\* The set of a line.
Place(line) == Index(CHOOSE a \in Nat : LineOf(a) = line)

\* A set holds lines that belong there, each once.
GoodSet(set, k) ==
  /\ set \in Seq(Line) /\ Len(set) <= Associativity
  /\ \A w \in 1 .. Len(set) : set[w].tag = Tag(set[w].addr) /\ Index(set[w].addr) = k
  /\ \A v, w \in 1 .. Len(set) : v # w => LineOf(set[v].addr) # LineOf(set[w].addr)

Unready == {x \in Line : ~x.ready}
Stored == {x \in Line : x.dirty}
InFlight(set) == {LineOf(set[w].addr) : w \in {v \in 1 .. Len(set) : set[v] \in Unready}}
Dirty(set) == {LineOf(set[w].addr) : w \in {v \in 1 .. Len(set) : set[v] \in Stored}}

IsCache(c) == DOMAIN c = {"sets", "mshrs", "waiting", "misses", "hits"}
Misses == [left : Nat, op : {"READ", "WRITE"}, addr : Nat, core : Nat]
HitsOf == [left : Nat, addr : Nat, core : Nat]

(* A register is held for exactly the lines in flight.                       *)
MshrsMatch(mshrs, sets) ==
  /\ DOMAIN mshrs \subseteq Lines
  /\ \A l \in Lines : l \in DOMAIN mshrs <=> l \in InFlight(sets[Place(l)])
  /\ IsFiniteSet(DOMAIN mshrs) /\ Cardinality(DOMAIN mshrs) <= NumMshrs

\* Index and tag tell lines apart.
LinesTold ==
  \A a, b \in Nat : LineOf(a) = LineOf(b) <=> Index(a) = Index(b) /\ Tag(a) = Tag(b)

CacheOK(c) ==
  /\ LinesTold
  /\ IsCache(c)
  /\ DOMAIN c.sets = SetIds /\ \A k \in SetIds : GoodSet(c.sets[k], k)
  /\ MshrsMatch(c.mshrs, c.sets)
  /\ c.misses \in Seq(Misses) /\ c.hits \in Seq(HitsOf)

\* The line's last store is in the cache or on its way out.
Leaves(line, misses) == \E i \in 1 .. Len(misses) : misses[i].op = "WRITE" /\ LineOf(misses[i].addr) = line
Kept(c, lines) ==
  \A line \in lines : line \in Dirty(c.sets[Place(line)]) \/ Leaves(line, c.misses)

-----------------------------------------------------------------------------
(* Lines and sets. *)

\* The constants, as the proofs use them.
LEMMA Sizes ==
  /\ LineSize \in Nat \ {0} /\ NumSets \in Nat \ {0} /\ Associativity \in Nat \ {0}
  /\ NumMshrs \in Nat \ {0} /\ Latency \in Nat
  /\ NumCores \in Nat \ {0} /\ Ipc \in Nat \ {0} /\ Depth \in Nat \ {0}
  /\ Expected \in Nat /\ BufferSize \in Nat /\ MaxLines \in Nat
  /\ TraceSets \subseteq [CoreIds -> Seq(Insts) \ {<<>>}]
BY LlcAssumption, O3Assumption

\* The one bits of a number, and how often it can be halved.
LEMMA BitsTypes ==
  ASSUME NEW n \in Nat
  PROVE  Bits(n) \in SUBSET Nat /\ Log2(n) \in Nat
<1>1. Bits(n) \in SUBSET Nat
  BY DEF Bits
<1> DEFINE H == {k \in 1 .. n : n \div 2^k > 0}
<1>2. IsFiniteSet(1 .. n) /\ H \subseteq 1 .. n
  BY FS_Interval
<1> HIDE DEF H
<1>3. IsFiniteSet(H)
  BY <1>2, FS_Subset
<1>4. Cardinality(H) \in Nat
  BY <1>3, FS_CardinalityType
<1> QED BY <1>1, <1>4 DEF Log2, H

\* A set of bits without the low o of them, the s bits after those, and those from n on.
Above(S, o) == S \ (0 .. o - 1)
Middle(S, o, s) == {k - o : k \in {j \in S : j >= o}} \cap (0 .. s - 1)
Top(S, n) == {k - n : k \in {j \in S : j >= n}}

\* The bits above the low ones are told by the middle and the top.
LEMMA BitsTold ==
  ASSUME NEW A \in SUBSET Nat, NEW B \in SUBSET Nat, NEW o \in Nat, NEW s \in Nat
  PROVE  Above(A, o) = Above(B, o) <=> Middle(A, o, s) = Middle(B, o, s) /\ Top(A, s + o) = Top(B, s + o)
<1> DEFINE low(S) == Above(S, o)
           mid(S) == Middle(S, o, s)
           top(S) == Top(S, s + o)
<1> USE DEF Above, Middle, Top
<1>1. ASSUME NEW S, S \subseteq Nat
      PROVE  /\ \A k : k \in low(S) <=> k \in S /\ k \in Nat /\ k >= o
             /\ \A i : i \in mid(S) <=> i \in 0 .. s - 1 /\ i + o \in S
             /\ \A i : i \in top(S) <=> i \in Nat /\ i + (s + o) \in S
  <2>1. \A k : k \in low(S) <=> k \in S /\ k \in Nat /\ k >= o
    <3>1. \A k \in Nat : k \notin 0 .. o - 1 <=> k >= o
      OBVIOUS
    <3>2. \A k \in S : k \in Nat
      BY <1>1
    <3> QED BY <3>1, <3>2
  <2>2. ASSUME NEW i \in mid(S) PROVE i \in 0 .. s - 1 /\ i + o \in S
    <3>1. PICK k \in S : k >= o /\ i = k - o
      OBVIOUS
    <3>2. k \in Nat /\ i + o = k
      BY <1>1, <3>1
    <3> QED BY <3>1, <3>2
  <2>3. ASSUME NEW i \in 0 .. s - 1, i + o \in S PROVE i \in mid(S)
    <3>1. i + o >= o /\ (i + o) - o = i
      OBVIOUS
    <3> QED BY <2>3, <3>1
  <2>4. ASSUME NEW i \in top(S) PROVE i \in Nat /\ i + (s + o) \in S
    <3>1. PICK k \in S : k >= s + o /\ i = k - (s + o)
      OBVIOUS
    <3>2. k \in Nat /\ i + (s + o) = k /\ i \in Nat
      BY <1>1, <3>1
    <3> QED BY <3>1, <3>2
  <2>5. ASSUME NEW i \in Nat, i + (s + o) \in S PROVE i \in top(S)
    <3>1. i + (s + o) >= s + o /\ (i + (s + o)) - (s + o) = i
      OBVIOUS
    <3> QED BY <2>5, <3>1
  <2> QED BY <2>1, <2>2, <2>3, <2>4, <2>5
<1>2. /\ \A k : (k \in low(A) <=> k \in A /\ k \in Nat /\ k >= o)
      /\ \A k : (k \in low(B) <=> k \in B /\ k \in Nat /\ k >= o)
      /\ \A i : (i \in mid(A) <=> i \in 0 .. s - 1 /\ i + o \in A)
      /\ \A i : (i \in mid(B) <=> i \in 0 .. s - 1 /\ i + o \in B)
      /\ \A i : (i \in top(A) <=> i \in Nat /\ i + (s + o) \in A)
      /\ \A i : (i \in top(B) <=> i \in Nat /\ i + (s + o) \in B)
  BY <1>1
<1> HIDE DEF low, mid, top, Above, Middle, Top
<1>3. ASSUME low(A) = low(B) PROVE mid(A) = mid(B) /\ top(A) = top(B)
  <2>1. \A k \in Nat : k >= o => (k \in A <=> k \in B)
    BY <1>2, <1>3
  <2>2. \A i \in 0 .. s - 1 : i + o \in Nat /\ i + o >= o
    OBVIOUS
  <2>3. \A i \in Nat : i + (s + o) \in Nat /\ i + (s + o) >= o
    OBVIOUS
  <2>4. \A i : i \in mid(A) <=> i \in mid(B)
    BY <1>2, <2>1, <2>2
  <2>5. \A i : i \in top(A) <=> i \in top(B)
    BY <1>2, <2>1, <2>3
  <2> QED BY <2>4, <2>5
<1>4. ASSUME mid(A) = mid(B), top(A) = top(B) PROVE low(A) = low(B)
  <2>1. ASSUME NEW k \in Nat, k >= o PROVE k \in A <=> k \in B
    <3>1. CASE k < s + o
      <4>1. k - o \in 0 .. s - 1 /\ (k - o) + o = k
        BY <2>1, <3>1
      <4> QED BY <1>2, <1>4, <4>1
    <3>2. CASE k >= s + o
      <4>1. k - (s + o) \in Nat /\ (k - (s + o)) + (s + o) = k
        BY <2>1, <3>2
      <4> QED BY <1>2, <1>4, <4>1
    <3> QED BY <3>1, <3>2
  <2> QED BY <1>2, <2>1
<1>5. low(A) = low(B) <=> mid(A) = mid(B) /\ top(A) = top(B)
  BY <1>3, <1>4
<1> QED BY <1>5 DEF low, mid, top

\* Powers of two: distinct lines differ in index or tag.
LEMMA Told == PowersOfTwo => LinesTold
<1> SUFFICES ASSUME PowersOfTwo, NEW a \in Nat, NEW b \in Nat
             PROVE  LineOf(a) = LineOf(b) <=> Index(a) = Index(b) /\ Tag(a) = Tag(b)
  BY DEF LinesTold
<1> DEFINE o == Log2(LineSize)
           s == Log2(NumSets)
<1>1. o \in Nat /\ s \in Nat /\ Bits(a) \in SUBSET Nat /\ Bits(b) \in SUBSET Nat
  BY BitsTypes, LlcAssumption
<1>2. Bits(LineSize - 1) = 0 .. o - 1 /\ IndexMask = 0 .. s - 1 /\ IndexOffset = o /\ TagOffset = s + o
  BY DEF PowersOfTwo, PowerOfTwo, IndexMask, IndexOffset, TagOffset
<1> HIDE DEF o, s
<1>3. ASSUME NEW n
      PROVE  /\ LineOf(n) = Above(Bits(n), o) /\ Index(n) = Middle(Bits(n), o, s)
             /\ Tag(n) = Top(Bits(n), s + o)
  BY <1>2 DEF LineOf, Index, Tag, ShiftedRight, Above, Middle, Top
<1>4. Above(Bits(a), o) = Above(Bits(b), o) <=>
        Middle(Bits(a), o, s) = Middle(Bits(b), o, s) /\ Top(Bits(a), s + o) = Top(Bits(b), s + o)
  BY ONLY <1>1, BitsTold
<1> QED BY <1>3, <1>4

\* An address has a line, and a line a set.
LEMMA LineTypes ==
  /\ \A a \in Nat : LineOf(a) \in Lines /\ Index(a) \in SetIds /\ Tag(a) \in Tags
  /\ \A l \in Lines : Place(l) \in SetIds
BY DEF Lines, Tags, SetIds, Place, Index

\* The set of an address is that of its line.
LEMMA PlaceOf ==
  ASSUME LinesTold, NEW a \in Nat
  PROVE  Place(LineOf(a)) = Index(a)
<1> DEFINE b == CHOOSE x \in Nat : LineOf(x) = LineOf(a)
<1>1. b \in Nat /\ LineOf(b) = LineOf(a)
  OBVIOUS
<1> QED BY <1>1 DEF LinesTold, Place

\* A set of naturals with an upper bound has a greatest element.
LEMMA MaxIn ==
  ASSUME NEW n \in Nat, NEW S, S \subseteq 0 .. n, S # {}
  PROVE  Max(S) \in S /\ \A y \in S : y <= Max(S)
<1> DEFINE T == {n - x : x \in S}
<1>1. T \subseteq Nat /\ T # {}
  <2>1. \A x \in S : n - x \in Nat
    OBVIOUS
  <2>2. PICK x \in S : TRUE
    OBVIOUS
  <2>3. n - x \in T
    BY <2>2
  <2> QED BY <2>1, <2>3
<1>2. PICK t \in T : \A y \in T : t <= y
  BY <1>1, NatMin
<1>3. PICK x \in S : t = n - x
  BY <1>2
<1>4. \A y \in S : x >= y
  <2> TAKE y \in S
  <2>1. n - y \in T
    OBVIOUS
  <2>2. n - x <= n - y
    BY <1>2, <1>3, <2>1
  <2>3. x \in Int /\ y \in Int
    OBVIOUS
  <2> QED BY ONLY n \in Nat, <2>2, <2>3, SMT
<1>5. \A y \in S : x >= y /\ y \in Nat /\ x \in Nat
  BY <1>4
<1> QED BY <1>3, <1>5 DEF Max

\* Members of a good set.
LEMMA GoodLines ==
  ASSUME NEW k, NEW set, GoodSet(set, k)
  PROVE  /\ set \in Seq(Line) /\ Len(set) \in Nat /\ DOMAIN set = 1 .. Len(set)
         /\ \A w \in 1 .. Len(set) :
              /\ set[w] \in Line /\ LineOf(set[w].addr) \in Lines /\ set[w].addr \in Nat
              /\ set[w].dirty \in BOOLEAN /\ set[w].ready \in BOOLEAN
              /\ set[w].tag = Tag(set[w].addr) /\ Index(set[w].addr) = k
<1>1. set \in Seq(Line) /\ Len(set) \in Nat /\ DOMAIN set = 1 .. Len(set)
  BY LenProperties DEF GoodSet
<1>2. \A w \in 1 .. Len(set) : set[w] \in Line
  BY <1>1, ElementOfSeq
<1>3. \A w \in 1 .. Len(set) :
        /\ set[w].addr \in Nat /\ LineOf(set[w].addr) \in Lines
        /\ set[w].dirty \in BOOLEAN /\ set[w].ready \in BOOLEAN
  BY <1>2 DEF Line, Lines
<1> QED BY <1>1, <1>2, <1>3 DEF GoodSet

\* t is the set with entry e as way w.
Replaced(set, w, e, t) ==
  /\ t \in Seq(Line) /\ Len(t) = Len(set)
  /\ \A v \in 1 .. Len(set) : t[v] = IF v = w THEN e ELSE set[v]

\* EXCEPT does it.
LEMMA ReplacedProperties ==
  ASSUME NEW set \in Seq(Line), NEW w \in 1 .. Len(set), NEW e \in Line
  PROVE  Replaced(set, w, e, [set EXCEPT ![w] = e])
<1>1. Len(set) \in Nat /\ DOMAIN set = 1 .. Len(set) /\ set \in [1 .. Len(set) -> Line]
  BY LenProperties
<1>2. [set EXCEPT ![w] = e] \in [1 .. Len(set) -> Line]
  BY <1>1
<1> QED BY <1>1, <1>2, FunctionSeq DEF Replaced

(* A set in which way w becomes another line entry for the same line, at its place   *)
(* or at the end.                                                                    *)

\* In its place.
LEMMA SetChanged ==
  ASSUME NEW k, NEW set, GoodSet(set, k), NEW w \in 1 .. Len(set), NEW e \in Line,
         LineOf(e.addr) = LineOf(set[w].addr), e.tag = Tag(e.addr), Index(e.addr) = k,
         NEW t, Replaced(set, w, e, t)
  PROVE  /\ GoodSet(t, k)
         /\ \A l : l \in InFlight(t) <=> IF l = LineOf(e.addr) THEN e \in Unready ELSE l \in InFlight(set)
         /\ \A l : l \in Dirty(t) <=> IF l = LineOf(e.addr) THEN e \in Stored ELSE l \in Dirty(set)
<1>1. /\ set \in Seq(Line) /\ Len(set) \in Nat /\ DOMAIN set = 1 .. Len(set)
      /\ \A v \in 1 .. Len(set) : set[v] \in Line
  BY GoodLines
<1>2. t \in Seq(Line) /\ Len(t) = Len(set)
  BY DEF Replaced
<1>3. \A v \in 1 .. Len(set) : t[v] = IF v = w THEN e ELSE set[v]
  BY DEF Replaced
<1>4. \A v \in 1 .. Len(set) : LineOf(t[v].addr) = LineOf(set[v].addr)
  BY <1>3
<1>5. \A v \in 1 .. Len(set) : v # w => LineOf(set[v].addr) # LineOf(e.addr)
  BY DEF GoodSet
<1>6. GoodSet(t, k)
  <2>1. \A v \in 1 .. Len(t) : t[v].tag = Tag(t[v].addr) /\ Index(t[v].addr) = k
    BY <1>2, <1>3 DEF GoodSet
  <2>2. \A u, v \in 1 .. Len(t) : u # v => LineOf(t[u].addr) # LineOf(t[v].addr)
    BY <1>2, <1>4 DEF GoodSet
  <2> QED BY <1>2, <2>1, <2>2 DEF GoodSet
<1>7. InFlight(t) = IF e \in Unready THEN InFlight(set) \cup {LineOf(e.addr)} ELSE InFlight(set) \ {LineOf(e.addr)}
  <2>1. \A l : l \in InFlight(t) <=> \E v \in 1 .. Len(set) : LineOf(t[v].addr) = l /\ t[v] \in Unready
    BY <1>2 DEF InFlight
  <2>2. \A l : l \in InFlight(set) <=> \E v \in 1 .. Len(set) : LineOf(set[v].addr) = l /\ set[v] \in Unready
    BY DEF InFlight
  <2>3. ASSUME NEW l, l # LineOf(e.addr) PROVE l \in InFlight(t) <=> l \in InFlight(set)
    <3>1. \A v \in 1 .. Len(set) : LineOf(t[v].addr) = l => t[v] = set[v]
      BY <1>3, <2>3
    <3>2. \A v \in 1 .. Len(set) : LineOf(set[v].addr) = l => t[v] = set[v]
      BY <1>3, <2>3
    <3> QED BY <2>1, <2>2, <3>1, <3>2
  <2>4. LineOf(e.addr) \in InFlight(t) <=> e \in Unready
    <3>1. \A v \in 1 .. Len(set) : LineOf(t[v].addr) = LineOf(e.addr) => v = w
      BY <1>3, <1>5
    <3>2. t[w] = e
      BY <1>3
    <3> QED BY <2>1, <3>1, <3>2
  <2> QED BY <2>3, <2>4
<1>8. Dirty(t) = IF e \in Stored THEN Dirty(set) \cup {LineOf(e.addr)} ELSE Dirty(set) \ {LineOf(e.addr)}
  <2>1. \A l : l \in Dirty(t) <=> \E v \in 1 .. Len(set) : LineOf(t[v].addr) = l /\ t[v] \in Stored
    BY <1>2 DEF Dirty
  <2>2. \A l : l \in Dirty(set) <=> \E v \in 1 .. Len(set) : LineOf(set[v].addr) = l /\ set[v] \in Stored
    BY DEF Dirty
  <2>3. ASSUME NEW l, l # LineOf(e.addr) PROVE l \in Dirty(t) <=> l \in Dirty(set)
    <3>1. \A v \in 1 .. Len(set) : LineOf(t[v].addr) = l => t[v] = set[v]
      BY <1>3, <2>3
    <3>2. \A v \in 1 .. Len(set) : LineOf(set[v].addr) = l => t[v] = set[v]
      BY <1>3, <2>3
    <3> QED BY <2>1, <2>2, <3>1, <3>2
  <2>4. LineOf(e.addr) \in Dirty(t) <=> e \in Stored
    <3>1. \A v \in 1 .. Len(set) : LineOf(t[v].addr) = LineOf(e.addr) => v = w
      BY <1>3, <1>5
    <3>2. t[w] = e
      BY <1>3
    <3> QED BY <2>1, <3>1, <3>2
  <2> QED BY <2>3, <2>4
<1> QED BY <1>6, <1>7, <1>8

\* Every way of s is one of t.
Within(s, t) == \A v \in 1 .. Len(s) : \E u \in 1 .. Len(t) : s[v] = t[u]

\* Without its way w.
LEMMA SetRemoved ==
  ASSUME NEW k, NEW set, GoodSet(set, k), NEW w \in 1 .. Len(set)
  PROVE  /\ GoodSet(RemoveAt(set, w), k) /\ Len(RemoveAt(set, w)) = Len(set) - 1
         /\ InFlight(RemoveAt(set, w)) = InFlight(set) \ {LineOf(set[w].addr)}
         /\ Dirty(RemoveAt(set, w)) = Dirty(set) \ {LineOf(set[w].addr)}
         /\ \A v \in 1 .. Len(RemoveAt(set, w)) : LineOf(RemoveAt(set, w)[v].addr) # LineOf(set[w].addr)
         /\ Within(RemoveAt(set, w), set)
<1> DEFINE t == RemoveAt(set, w)
<1>1. /\ set \in Seq(Line) /\ Len(set) \in Nat
      /\ \A v \in 1 .. Len(set) : set[v] \in Line
  BY GoodLines
<1>2. t \in Seq(Line) /\ Len(t) = Len(set) - 1
      /\ \A v \in 1 .. Len(set) - 1 : t[v] = IF v < w THEN set[v] ELSE set[v + 1]
  BY <1>1, RemoveAtProperties
<1> DEFINE at(v) == IF v < w THEN v ELSE v + 1
<1>3. \A v \in 1 .. Len(t) : at(v) \in 1 .. Len(set) /\ at(v) # w /\ t[v] = set[at(v)]
  BY <1>1, <1>2
<1>4. \A u, v \in 1 .. Len(t) : u # v => at(u) # at(v)
  BY <1>1, <1>2
<1>5. \A u \in 1 .. Len(set) : u # w => \E v \in 1 .. Len(t) : at(v) = u
  <2> TAKE u \in 1 .. Len(set)
  <2> HAVE u # w
  <2>1. CASE u < w
    BY <1>1, <1>2, <2>1
  <2>2. CASE u > w
    <3>1. u - 1 \in 1 .. Len(t) /\ at(u - 1) = u
      BY <1>1, <1>2, <2>2
    <3> QED BY <3>1
  <2> QED BY <1>1, <2>1, <2>2
<1>6. \A v \in 1 .. Len(set) : v # w => LineOf(set[v].addr) # LineOf(set[w].addr)
  BY DEF GoodSet
<1> HIDE DEF t, at
<1>7. GoodSet(t, k)
  <2>1. Len(t) <= Associativity
    BY <1>1, <1>2, Sizes DEF GoodSet
  <2>2. ASSUME NEW v \in 1 .. Len(t)
        PROVE  t[v].tag = Tag(t[v].addr) /\ Index(t[v].addr) = k
    BY <1>3 DEF GoodSet
  <2>3. ASSUME NEW u \in 1 .. Len(t), NEW v \in 1 .. Len(t), u # v PROVE LineOf(t[u].addr) # LineOf(t[v].addr)
    <3>1. /\ at(u) \in 1 .. Len(set) /\ t[u] = set[at(u)]
          /\ at(v) \in 1 .. Len(set) /\ t[v] = set[at(v)] /\ at(u) # at(v)
      BY <1>3, <1>4, <2>3
    <3> QED BY <3>1 DEF GoodSet
  <2> QED BY <1>2, <2>1, <2>2, <2>3 DEF GoodSet
<1>8. InFlight(t) = InFlight(set) \ {LineOf(set[w].addr)}
  <2>1. \A l : l \in InFlight(t) <=> \E v \in 1 .. Len(t) : LineOf(t[v].addr) = l /\ t[v] \in Unready
    BY DEF InFlight
  <2>2. \A l : l \in InFlight(set) <=> \E v \in 1 .. Len(set) : LineOf(set[v].addr) = l /\ set[v] \in Unready
    BY DEF InFlight
  <2>3. ASSUME NEW l \in InFlight(t) PROVE l \in InFlight(set) /\ l # LineOf(set[w].addr)
    <3>1. PICK v \in 1 .. Len(t) : LineOf(t[v].addr) = l /\ t[v] \in Unready
      BY <2>1
    <3>2. at(v) \in 1 .. Len(set) /\ at(v) # w /\ t[v] = set[at(v)]
      BY <1>3
    <3> QED BY <1>6, <2>2, <3>1, <3>2
  <2>4. ASSUME NEW l \in InFlight(set), l # LineOf(set[w].addr) PROVE l \in InFlight(t)
    <3>1. PICK u \in 1 .. Len(set) : LineOf(set[u].addr) = l /\ set[u] \in Unready
      BY <2>2
    <3>2. PICK v \in 1 .. Len(t) : at(v) = u
      BY <1>5, <2>4, <3>1
    <3>3. t[v] = set[u]
      BY <1>3, <3>2
    <3> QED BY <2>1, <3>1, <3>3
  <2> QED BY <2>3, <2>4
<1>9. Dirty(t) = Dirty(set) \ {LineOf(set[w].addr)}
  <2>1. \A l : l \in Dirty(t) <=> \E v \in 1 .. Len(t) : LineOf(t[v].addr) = l /\ t[v] \in Stored
    BY DEF Dirty
  <2>2. \A l : l \in Dirty(set) <=> \E v \in 1 .. Len(set) : LineOf(set[v].addr) = l /\ set[v] \in Stored
    BY DEF Dirty
  <2>3. ASSUME NEW l \in Dirty(t) PROVE l \in Dirty(set) /\ l # LineOf(set[w].addr)
    <3>1. PICK v \in 1 .. Len(t) : LineOf(t[v].addr) = l /\ t[v] \in Stored
      BY <2>1
    <3>2. at(v) \in 1 .. Len(set) /\ at(v) # w /\ t[v] = set[at(v)]
      BY <1>3
    <3> QED BY <1>6, <2>2, <3>1, <3>2
  <2>4. ASSUME NEW l \in Dirty(set), l # LineOf(set[w].addr) PROVE l \in Dirty(t)
    <3>1. PICK u \in 1 .. Len(set) : LineOf(set[u].addr) = l /\ set[u] \in Stored
      BY <2>2
    <3>2. PICK v \in 1 .. Len(t) : at(v) = u
      BY <1>5, <2>4, <3>1
    <3>3. t[v] = set[u]
      BY <1>3, <3>2
    <3> QED BY <2>1, <3>1, <3>3
  <2> QED BY <2>3, <2>4
<1>10. Within(t, set)
  BY <1>3 DEF Within
<1> QED BY <1>2, <1>3, <1>6, <1>7, <1>8, <1>9, <1>10 DEF t

\* With a line that it did not hold.
LEMMA SetAppended ==
  ASSUME NEW k, NEW set, GoodSet(set, k), Len(set) < Associativity, NEW e \in Line,
         e.tag = Tag(e.addr), Index(e.addr) = k,
         \A v \in 1 .. Len(set) : LineOf(set[v].addr) # LineOf(e.addr)
  PROVE  /\ GoodSet(Append(set, e), k)
         /\ InFlight(Append(set, e)) = InFlight(set) \cup (IF e \in Unready THEN {LineOf(e.addr)} ELSE {})
         /\ Dirty(Append(set, e)) = Dirty(set) \cup (IF e \in Stored THEN {LineOf(e.addr)} ELSE {})
<1> DEFINE t == Append(set, e)
           n == Len(set)
<1>1. set \in Seq(Line) /\ n \in Nat
  BY GoodLines
<1>2. t \in Seq(Line) /\ Len(t) = n + 1 /\ t[n + 1] = e /\ \A v \in 1 .. n : t[v] = set[v]
  BY <1>1, AppendProperties, LenProperties
<1> HIDE DEF t
<1>3. 1 .. n + 1 = 1 .. n \cup {n + 1} /\ n + 1 \notin 1 .. n
  BY <1>1
<1>4. GoodSet(t, k)
  <2>1. Len(t) <= Associativity
    BY <1>1, <1>2, Sizes
  <2>2. \A v \in 1 .. Len(t) : t[v].tag = Tag(t[v].addr) /\ Index(t[v].addr) = k
    BY <1>2, <1>3 DEF GoodSet
  <2>3. \A u, v \in 1 .. Len(t) : u # v => LineOf(t[u].addr) # LineOf(t[v].addr)
    BY <1>2, <1>3 DEF GoodSet
  <2> QED BY <1>2, <2>1, <2>2, <2>3 DEF GoodSet
<1>5. InFlight(t) = InFlight(set) \cup (IF e \in Unready THEN {LineOf(e.addr)} ELSE {})
  BY <1>2, <1>3 DEF InFlight
<1>6. Dirty(t) = Dirty(set) \cup (IF e \in Stored THEN {LineOf(e.addr)} ELSE {})
  BY <1>2, <1>3 DEF Dirty
<1> QED BY <1>4, <1>5, <1>6 DEF t

\* The way that holds a line tells all of it.
LEMMA OneWay ==
  ASSUME NEW k, NEW set, GoodSet(set, k), NEW w \in 1 .. Len(set)
  PROVE  /\ LineOf(set[w].addr) \in InFlight(set) <=> set[w] \in Unready
         /\ LineOf(set[w].addr) \in Dirty(set) <=> set[w] \in Stored
<1>1. \A v \in 1 .. Len(set) : LineOf(set[v].addr) = LineOf(set[w].addr) => v = w
  BY DEF GoodSet
<1> QED BY <1>1 DEF InFlight, Dirty

-----------------------------------------------------------------------------
(* What a request and an answer make of a set. *)

\* A hit.
LEMMA TouchedSet ==
  ASSUME NEW k, NEW set, GoodSet(set, k), NEW w \in 1 .. Len(set), set[w] \notin Unready,
         NEW req, req.addr \in Nat, NEW store \in BOOLEAN, req.store = store,
         LineOf(req.addr) = LineOf(set[w].addr), Index(req.addr) = k
  PROVE  /\ GoodSet(Touched(set, w, req), k) /\ InFlight(Touched(set, w, req)) = InFlight(set)
         /\ Dirty(set) \cup (IF store THEN {LineOf(req.addr)} ELSE {}) \subseteq Dirty(Touched(set, w, req))
<1> DEFINE r == RemoveAt(set, w)
           e == [addr |-> req.addr, tag |-> Tag(req.addr), dirty |-> set[w].dirty \/ req.store, ready |-> TRUE]
<1>1. /\ GoodSet(r, k) /\ Len(r) = Len(set) - 1
      /\ InFlight(r) = InFlight(set) \ {LineOf(set[w].addr)} /\ Dirty(r) = Dirty(set) \ {LineOf(set[w].addr)}
      /\ \A v \in 1 .. Len(r) : LineOf(r[v].addr) # LineOf(set[w].addr)
  BY ONLY GoodSet(set, k), w \in 1 .. Len(set), SetRemoved
<1>2. Len(set) \in Nat /\ set[w] \in Line /\ Len(set) <= Associativity
  BY GoodLines DEF GoodSet
<1>3. e \in Line /\ e.tag = Tag(e.addr) /\ Index(e.addr) = k /\ LineOf(e.addr) = LineOf(set[w].addr)
      /\ e \notin Unready /\ (e \in Stored <=> set[w] \in Stored \/ store)
  BY <1>2, LineTypes DEF Line, Unready, Stored
<1> HIDE DEF r, e
<1>4. /\ GoodSet(Append(r, e), k)
      /\ InFlight(Append(r, e)) = InFlight(r) \cup (IF e \in Unready THEN {LineOf(e.addr)} ELSE {})
      /\ Dirty(Append(r, e)) = Dirty(r) \cup (IF e \in Stored THEN {LineOf(e.addr)} ELSE {})
  <2>1. Len(r) < Associativity
    BY <1>1, <1>2, Sizes
  <2> QED BY <1>1, <1>2, <1>3, <2>1, SetAppended
<1>5. /\ LineOf(set[w].addr) \in InFlight(set) <=> set[w] \in Unready
      /\ LineOf(set[w].addr) \in Dirty(set) <=> set[w] \in Stored
  BY OneWay
<1>7. InFlight(Append(r, e)) = InFlight(set)
  BY <1>1, <1>3, <1>4, <1>5
<1>8. Dirty(set) \cup (IF store THEN {LineOf(req.addr)} ELSE {}) \subseteq Dirty(Append(r, e))
  BY <1>1, <1>3, <1>4, <1>5
<1>9. Touched(set, w, req) = Append(r, e)
  BY DEF Touched, r, e
<1> QED BY <1>4, <1>7, <1>8, <1>9

\* A store to a line in flight.
Merged(set, w, store) == [set EXCEPT ![w].dirty = @ \/ store]

LEMMA MergedSet ==
  ASSUME NEW k, NEW set, GoodSet(set, k), NEW w \in 1 .. Len(set), NEW store \in BOOLEAN
  PROVE  /\ GoodSet(Merged(set, w, store), k)
         /\ InFlight(Merged(set, w, store)) = InFlight(set)
         /\ Dirty(set) \cup (IF store THEN {LineOf(set[w].addr)} ELSE {}) \subseteq Dirty(Merged(set, w, store))
<1> DEFINE e == [set[w] EXCEPT !.dirty = @ \/ store]
           t == [set EXCEPT ![w] = e]
<1>1. Len(set) \in Nat /\ set[w] \in Line /\ set \in Seq(Line)
  BY GoodLines
<1>2. e \in Line /\ LineOf(e.addr) = LineOf(set[w].addr) /\ e.addr = set[w].addr
      /\ (e \in Unready <=> set[w] \in Unready)
      /\ (e \in Stored <=> set[w] \in Stored \/ store)
  BY <1>1 DEF Line, Unready, Stored
<1>3. e.tag = Tag(e.addr) /\ Index(e.addr) = k
  BY <1>1, GoodLines
<1>4. Merged(set, w, store) = t
  BY DEF t, Merged
<1>0. Replaced(set, w, e, t)
  BY <1>1, <1>2, ReplacedProperties
<1> HIDE DEF e, t
<1>5. /\ GoodSet(t, k)
      /\ \A l : l \in InFlight(t) <=> IF l = LineOf(e.addr) THEN e \in Unready ELSE l \in InFlight(set)
      /\ \A l : l \in Dirty(t) <=> IF l = LineOf(e.addr) THEN e \in Stored ELSE l \in Dirty(set)
  <2>1. e \in Line /\ LineOf(e.addr) = LineOf(set[w].addr) /\ e.tag = Tag(e.addr) /\ Index(e.addr) = k
    BY <1>2, <1>3
  <2> QED BY <1>0, <2>1, SetChanged
<1>6. (LineOf(set[w].addr) \in Dirty(set) <=> set[w] \in Stored) /\ (LineOf(set[w].addr) \in InFlight(set) <=> set[w] \in Unready)
  BY OneWay
<1>7. InFlight(t) = InFlight(set)
  BY <1>2, <1>5, <1>6
<1>8. Dirty(set) \cup (IF store THEN {LineOf(set[w].addr)} ELSE {}) \subseteq Dirty(t)
  BY <1>2, <1>5, <1>6
<1> QED BY <1>4, <1>5, <1>7, <1>8

\* An answer.
Answered(set, w) == [set EXCEPT ![w].ready = TRUE]

LEMMA AnsweredSet ==
  ASSUME NEW k, NEW set, GoodSet(set, k), NEW w \in 1 .. Len(set)
  PROVE  /\ GoodSet(Answered(set, w), k)
         /\ InFlight(Answered(set, w)) = InFlight(set) \ {LineOf(set[w].addr)}
         /\ Dirty(Answered(set, w)) = Dirty(set)
<1> DEFINE e == [set[w] EXCEPT !.ready = TRUE]
           t == [set EXCEPT ![w] = e]
<1>1. Len(set) \in Nat /\ set[w] \in Line /\ set \in Seq(Line)
  BY GoodLines
<1>2. e \in Line /\ LineOf(e.addr) = LineOf(set[w].addr) /\ e.addr = set[w].addr /\ e \notin Unready
      /\ (e \in Stored <=> set[w] \in Stored)
  BY <1>1 DEF Line, Unready, Stored
<1>3. e.tag = Tag(e.addr) /\ Index(e.addr) = k
  BY <1>1, GoodLines
<1>4. Answered(set, w) = t
  BY DEF t, Answered
<1>0. Replaced(set, w, e, t)
  BY <1>1, <1>2, ReplacedProperties
<1> HIDE DEF e, t
<1>5. /\ GoodSet(t, k)
      /\ \A l : l \in InFlight(t) <=> IF l = LineOf(e.addr) THEN e \in Unready ELSE l \in InFlight(set)
      /\ \A l : l \in Dirty(t) <=> IF l = LineOf(e.addr) THEN e \in Stored ELSE l \in Dirty(set)
  <2>1. e \in Line /\ LineOf(e.addr) = LineOf(set[w].addr) /\ e.tag = Tag(e.addr) /\ Index(e.addr) = k
    BY <1>2, <1>3
  <2> QED BY <1>0, <2>1, SetChanged
<1>6. LineOf(set[w].addr) \in Dirty(set) <=> set[w] \in Stored
  BY OneWay
<1>7. Dirty(t) = Dirty(set)
  BY <1>2, <1>5, <1>6
<1> QED BY <1>2, <1>4, <1>5, <1>7

\* The victim of a full set is a line that is not in flight.
LEMMA VictimReady ==
  ASSUME NEW k, NEW set, GoodSet(set, k), LineAvailable(set), Len(set) >= Associativity
  PROVE  Victim(set) \in 1 .. Len(set) /\ set[Victim(set)].ready
<1> DEFINE I == {i \in 1 .. Len(set) : set[i].ready}
<1>1. Len(set) \in Nat
  BY GoodLines
<1>2. Victim(set) # 0
  BY <1>1, Sizes DEF LineAvailable
<1>3. Victim(set) = IF I # {} THEN Min(I) ELSE 0
  BY DEF Victim, SelectInSeq
<1>4. I \subseteq Nat /\ I # {} /\ Victim(set) = Min(I)
  BY <1>2, <1>3
<1> HIDE DEF I
<1>5. Victim(set) \in I
  BY <1>4, MinIn
<1> QED BY <1>5 DEF I

\* What is evicted is in no other way, and leaves with a writeback if it is dirty.
LEMMA EvictedSet ==
  ASSUME NEW k, NEW set, GoodSet(set, k), LineAvailable(set), NEW a, TagWay(set, a) = 0
  PROVE  /\ GoodSet(Evicted(set, a), k) /\ Len(Evicted(set, a)) < Associativity
         /\ InFlight(Evicted(set, a)) = InFlight(set)
         /\ Writebacks(set, a) \in Seq(Misses)
         /\ \A l \in Dirty(set) : l \in Dirty(Evicted(set, a)) \/ Leaves(l, Writebacks(set, a))
         /\ Within(Evicted(set, a), set)
<1>1. Len(set) \in Nat /\ Len(set) <= Associativity
  BY GoodLines DEF GoodSet
<1>4. NeedsEviction(set, a) <=> Len(set) >= Associativity
  BY DEF NeedsEviction
<1>2. CASE Len(set) < Associativity
  <2>1. Evicted(set, a) = set /\ Writebacks(set, a) = <<>>
    BY <1>1, <1>2, <1>4, Sizes DEF Evicted, Writebacks
  <2>2. Within(set, set)
    BY DEF Within
  <2> QED BY <1>2, <2>1, <2>2, EmptySeq
<1>3. CASE Len(set) >= Associativity
  <2> DEFINE w == Victim(set)
             back == [left |-> Latency, op |-> "WRITE", addr |-> set[w].addr, core |-> 0]
  <2>1. w \in 1 .. Len(set) /\ set[w].ready
    BY <1>3, VictimReady
  <2>2. Evicted(set, a) = RemoveAt(set, w)
    BY <1>3, <1>4 DEF Evicted
  <2>3. Writebacks(set, a) = IF set[w] \in Stored THEN <<back>> ELSE <<>>
    <3>1. set[w] \in Line
      BY <2>1, GoodLines
    <3>2. set[w] \in Stored <=> set[w].dirty
      BY <3>1 DEF Stored
    <3> QED BY <1>3, <1>4, <3>2 DEF Writebacks
  <2> HIDE DEF w
  <2>4. /\ GoodSet(RemoveAt(set, w), k) /\ Len(RemoveAt(set, w)) = Len(set) - 1
        /\ InFlight(RemoveAt(set, w)) = InFlight(set) \ {LineOf(set[w].addr)}
        /\ Dirty(RemoveAt(set, w)) = Dirty(set) \ {LineOf(set[w].addr)}
        /\ Within(RemoveAt(set, w), set)
    BY <2>1, SetRemoved
  <2>5. /\ LineOf(set[w].addr) \in InFlight(set) <=> set[w] \in Unready
        /\ LineOf(set[w].addr) \in Dirty(set) <=> set[w] \in Stored
    BY <2>1, OneWay
  <2>6. LineOf(set[w].addr) \notin InFlight(set)
    BY <2>1, <2>5 DEF Unready
  <2>7. LineOf(set[w].addr) \in Dirty(set) => set[w] \in Stored
    BY <2>5
  <2>8. back \in Misses /\ LineOf(back.addr) = LineOf(set[w].addr) /\ back.op = "WRITE"
    <3>1. set[w].addr \in Nat
      BY <2>1, GoodLines
    <3> QED BY <3>1, Sizes DEF Misses
  <2> HIDE DEF back
  <2>9. Writebacks(set, a) \in Seq(Misses)
    BY <2>3, <2>8
  <2>10. set[w] \in Stored => Leaves(LineOf(set[w].addr), Writebacks(set, a))
    <3>1. Len(<<back>>) = 1 /\ <<back>>[1] = back
      OBVIOUS
    <3> QED BY <2>3, <2>8, <3>1 DEF Leaves
  <2>11. Len(RemoveAt(set, w)) < Associativity
    BY <1>1, <2>4, Sizes
  <2> QED BY <2>2, <2>4, <2>6, <2>7, <2>9, <2>10, <2>11
<1> QED BY <1>1, <1>2, <1>3, Sizes

-----------------------------------------------------------------------------
(* One set of the cache changes. *)

Changed(sets, k, t, new) ==
  /\ DOMAIN new = SetIds /\ new[k] = t
  /\ \A j \in SetIds : j # k => new[j] = sets[j]

\* The sets stay good.
LEMMA OneSet ==
  ASSUME NEW c, CacheOK(c), NEW k \in SetIds, NEW t, GoodSet(t, k)
  PROVE  /\ Changed(c.sets, k, t, [c.sets EXCEPT ![k] = t])
         /\ \A j \in SetIds : GoodSet([c.sets EXCEPT ![k] = t][j], j)
<1>1. DOMAIN c.sets = SetIds /\ \A j \in SetIds : GoodSet(c.sets[j], j)
  BY DEF CacheOK
<1> DEFINE new == [c.sets EXCEPT ![k] = t]
<1>2. DOMAIN new = SetIds /\ \A j \in SetIds : new[j] = IF j = k THEN t ELSE c.sets[j]
  BY <1>1
<1> HIDE DEF new
<1>3. Changed(c.sets, k, t, new) /\ \A j \in SetIds : GoodSet(new[j], j)
  BY <1>1, <1>2 DEF Changed
<1> QED BY <1>3 DEF new

\* The registers still match: the same lines are in flight, one more, or one less.
LEMMA MshrsKeep ==
  ASSUME NEW mshrs, NEW sets, MshrsMatch(mshrs, sets), NEW k \in SetIds, NEW t, NEW new,
         Changed(sets, k, t, new), InFlight(t) = InFlight(sets[k])
  PROVE  MshrsMatch(mshrs, new)
<1>1. \A l \in Lines : InFlight(new[Place(l)]) = InFlight(sets[Place(l)])
  <2> TAKE l \in Lines
  <2>1. Place(l) \in SetIds
    BY LineTypes
  <2> QED BY <2>1 DEF Changed
<1> QED BY <1>1 DEF MshrsMatch

LEMMA MshrsAdd ==
  ASSUME NEW mshrs, NEW sets, MshrsMatch(mshrs, sets), NEW line \in Lines, NEW t, NEW new,
         Changed(sets, Place(line), t, new), InFlight(t) = InFlight(sets[Place(line)]) \cup {line},
         line \notin DOMAIN mshrs, Cardinality(DOMAIN mshrs) < NumMshrs,
         NEW more, DOMAIN more = DOMAIN mshrs \cup {line}
  PROVE  MshrsMatch(more, new)
<1>1. ASSUME NEW l \in Lines PROVE l \in DOMAIN more <=> l \in InFlight(new[Place(l)])
  <2>1. Place(l) \in SetIds /\ (l \in DOMAIN mshrs <=> l \in InFlight(sets[Place(l)]))
    BY LineTypes DEF MshrsMatch
  <2>2. CASE Place(l) = Place(line)
    <3>1. InFlight(new[Place(l)]) = InFlight(sets[Place(l)]) \cup {line}
      BY <2>2 DEF Changed
    <3> QED BY <2>1, <3>1
  <2>3. CASE Place(l) # Place(line)
    <3>1. new[Place(l)] = sets[Place(l)] /\ l # line
      BY <2>1, <2>3 DEF Changed
    <3> QED BY <2>1, <3>1
  <2> QED BY <2>2, <2>3
<1>2. IsFiniteSet(DOMAIN mshrs) /\ Cardinality(DOMAIN mshrs) \in Nat
  BY FS_CardinalityType DEF MshrsMatch
<1>3. IsFiniteSet(DOMAIN more) /\ Cardinality(DOMAIN more) = Cardinality(DOMAIN mshrs) + 1
  BY <1>2, FS_AddElement
<1>4. Cardinality(DOMAIN more) <= NumMshrs
  BY <1>2, <1>3, Sizes
<1> QED BY <1>1, <1>3, <1>4 DEF MshrsMatch

LEMMA MshrsDrop ==
  ASSUME NEW mshrs, NEW sets, MshrsMatch(mshrs, sets), NEW line \in Lines, NEW t, NEW new,
         Changed(sets, Place(line), t, new), InFlight(t) = InFlight(sets[Place(line)]) \ {line},
         NEW less, DOMAIN less = DOMAIN mshrs \ {line}
  PROVE  MshrsMatch(less, new)
<1>1. ASSUME NEW l \in Lines PROVE l \in DOMAIN less <=> l \in InFlight(new[Place(l)])
  <2>1. Place(l) \in SetIds /\ (l \in DOMAIN mshrs <=> l \in InFlight(sets[Place(l)]))
    BY LineTypes DEF MshrsMatch
  <2>2. CASE Place(l) = Place(line)
    <3>1. InFlight(new[Place(l)]) = InFlight(sets[Place(l)]) \ {line}
      BY <2>2 DEF Changed
    <3> QED BY <2>1, <3>1
  <2>3. CASE Place(l) # Place(line)
    <3>1. new[Place(l)] = sets[Place(l)] /\ l # line
      BY <2>1, <2>3 DEF Changed
    <3> QED BY <2>1, <3>1
  <2> QED BY <2>2, <2>3
<1>2. IsFiniteSet(DOMAIN mshrs) /\ Cardinality(DOMAIN mshrs) \in Nat
  BY FS_CardinalityType DEF MshrsMatch
<1>3. IsFiniteSet(DOMAIN less) /\ Cardinality(DOMAIN less) <= Cardinality(DOMAIN mshrs)
  BY <1>2, FS_Subset
<1>4. Cardinality(DOMAIN less) \in Nat /\ Cardinality(DOMAIN mshrs) <= NumMshrs
  BY <1>3, FS_CardinalityType DEF MshrsMatch
<1>5. Cardinality(DOMAIN less) <= NumMshrs
  BY <1>2, <1>3, <1>4, Sizes
<1> QED BY <1>1, <1>3, <1>5 DEF MshrsMatch

\* Stores stay where they are or leave.
LEMMA KeptMore ==
  ASSUME NEW c, NEW lines, lines \subseteq Lines, Kept(c, lines),
         NEW k \in SetIds, NEW t, NEW d, Changed(c.sets, k, t, d.sets),
         \A l \in Dirty(c.sets[k]) : l \in Dirty(t) \/ Leaves(l, d.misses),
         \A l : Leaves(l, c.misses) => Leaves(l, d.misses)
  PROVE  Kept(d, lines)
<1> SUFFICES ASSUME NEW l \in lines PROVE l \in Dirty(d.sets[Place(l)]) \/ Leaves(l, d.misses)
  BY DEF Kept
<1>1. l \in Lines /\ Place(l) \in SetIds /\ (l \in Dirty(c.sets[Place(l)]) \/ Leaves(l, c.misses))
  BY LineTypes DEF Kept
<1>2. CASE Place(l) = k
  BY <1>1, <1>2 DEF Changed
<1>3. CASE Place(l) # k
  BY <1>1, <1>3 DEF Changed
<1> QED BY <1>2, <1>3

\* The first way with the tag of an address, if there is one.
LEMMA TagWayProperties ==
  ASSUME NEW set \in Seq(Line), NEW a
  PROVE  \/ TagWay(set, a) = 0 /\ \A w \in 1 .. Len(set) : set[w].tag # Tag(a)
         \/ TagWay(set, a) \in 1 .. Len(set) /\ set[TagWay(set, a)].tag = Tag(a)
<1> DEFINE I == {w \in 1 .. Len(set) : set[w].tag = Tag(a)}
<1>1. Len(set) \in Nat
  BY LenProperties
<1>2. TagWay(set, a) = IF I # {} THEN Min(I) ELSE 0
  BY DEF TagWay, SelectInSeq
<1>3. I \subseteq Nat
  BY <1>1
<1>4. CASE I # {}
  <2>1. TagWay(set, a) = Min(I)
    BY <1>2, <1>4
  <2> HIDE DEF I
  <2>2. TagWay(set, a) \in I
    BY <1>3, <1>4, <2>1, MinIn
  <2> QED BY <2>2 DEF I
<1>5. CASE I = {}
  BY <1>2, <1>5
<1> QED BY <1>4, <1>5

\* The way of an address: of a hit, of a line in flight, or none.
LEMMA WayProperties ==
  ASSUME NEW c, CacheOK(c), NEW a \in Nat
  PROVE  /\ LineOf(a) \in Lines /\ Index(a) \in SetIds /\ Place(LineOf(a)) = Index(a)
         /\ SetOf(c, a) = c.sets[Index(a)] /\ GoodSet(SetOf(c, a), Index(a))
         /\ Hit(c, a) =>
              /\ TagWay(SetOf(c, a), a) \in 1 .. Len(SetOf(c, a))
              /\ LineOf(SetOf(c, a)[TagWay(SetOf(c, a), a)].addr) = LineOf(a)
              /\ SetOf(c, a)[TagWay(SetOf(c, a), a)] \notin Unready
         /\ Missing(c, a) =>
              /\ FetchWay(c, a) \in 1 .. Len(SetOf(c, a))
              /\ LineOf(SetOf(c, a)[FetchWay(c, a)].addr) = LineOf(a)
         /\ ~Hit(c, a) /\ ~Missing(c, a) =>
              /\ TagWay(SetOf(c, a), a) = 0
              /\ \A w \in 1 .. Len(SetOf(c, a)) : LineOf(SetOf(c, a)[w].addr) # LineOf(a)
<1> DEFINE set == SetOf(c, a)
           w == TagWay(set, a)
           f == FetchWay(c, a)
<1>1. LineOf(a) \in Lines /\ Index(a) \in SetIds /\ LinesTold /\ Place(LineOf(a)) = Index(a)
  BY LineTypes, PlaceOf DEF CacheOK
<1>2. set = c.sets[Index(a)] /\ GoodSet(set, Index(a))
  BY <1>1 DEF CacheOK, SetOf
<1>3. Hit(c, a) <=> w # 0 /\ set[w].ready
  BY DEF Hit
<1>4. Missing(c, a) <=> LineOf(a) \in InFlight(set)
  BY <1>1, <1>2 DEF Missing, CacheOK, MshrsMatch
<1>5. f = CHOOSE v \in DOMAIN set : LineOf(set[v].addr) = LineOf(a) /\ ~set[v].ready
  BY DEF FetchWay
<1> HIDE DEF set, f
<1>6. set \in Seq(Line) /\ DOMAIN set = 1 .. Len(set) /\ Len(set) \in Nat
  BY <1>2, GoodLines
<1>7. \A v \in 1 .. Len(set) :
        /\ set[v] \in Line /\ set[v].addr \in Nat
        /\ set[v].tag = Tag(set[v].addr) /\ Index(set[v].addr) = Index(a)
  BY <1>2, GoodLines
<1>8. \A v \in 1 .. Len(set) : set[v].tag = Tag(a) <=> LineOf(set[v].addr) = LineOf(a)
  BY <1>1, <1>7 DEF LinesTold
<1>9. \/ w = 0 /\ \A v \in 1 .. Len(set) : set[v].tag # Tag(a)
      \/ w \in 1 .. Len(set) /\ set[w].tag = Tag(a)
  BY <1>6, TagWayProperties
<1> HIDE DEF w
<1>10. \A v \in 1 .. Len(set) : set[v] \in Unready <=> ~set[v].ready
  BY <1>7 DEF Unready
<1>11. Hit(c, a) => w \in 1 .. Len(set) /\ LineOf(set[w].addr) = LineOf(a) /\ set[w] \notin Unready
  BY <1>3, <1>8, <1>9, <1>10
<1>12. LineOf(a) \in InFlight(set) <=> \E v \in 1 .. Len(set) : LineOf(set[v].addr) = LineOf(a) /\ set[v] \in Unready
  BY DEF InFlight
<1>13. Missing(c, a) => f \in 1 .. Len(set) /\ LineOf(set[f].addr) = LineOf(a)
  <2> SUFFICES ASSUME Missing(c, a) PROVE f \in 1 .. Len(set) /\ LineOf(set[f].addr) = LineOf(a)
    OBVIOUS
  <2>1. \E v \in DOMAIN set : LineOf(set[v].addr) = LineOf(a) /\ ~set[v].ready
    BY <1>4, <1>6, <1>10, <1>12
  <2> QED BY <1>5, <1>6, <2>1
<1>14. ~Hit(c, a) /\ ~Missing(c, a) => w = 0 /\ \A v \in 1 .. Len(set) : LineOf(set[v].addr) # LineOf(a)
  <2> SUFFICES ASSUME ~Hit(c, a), ~Missing(c, a)
               PROVE  w = 0 /\ \A v \in 1 .. Len(set) : LineOf(set[v].addr) # LineOf(a)
    OBVIOUS
  <2>1. w = 0
    <3> SUFFICES ASSUME w # 0 PROVE FALSE
      OBVIOUS
    <3>1. w \in 1 .. Len(set) /\ LineOf(set[w].addr) = LineOf(a) /\ set[w] \in Unready
      BY <1>3, <1>8, <1>9, <1>10
    <3> QED BY <1>4, <1>12, <3>1
  <2>2. \A v \in 1 .. Len(set) : v # 0
    BY <1>6
  <2> QED BY <1>8, <1>9, <2>1, <2>2
<1> QED BY <1>1, <1>2, <1>11, <1>13, <1>14 DEF set, w, f

-----------------------------------------------------------------------------
(* A request and an answer keep the cache in order, and its stores. *)

Stores(lines, a, store) == IF store THEN lines \cup {LineOf(a)} ELSE lines

\* A cache in which one set and perhaps the lists are new.
LEMMA CacheStep ==
  ASSUME NEW c, CacheOK(c), NEW k \in SetIds, NEW t, GoodSet(t, k), NEW d, IsCache(d),
         d.sets = [c.sets EXCEPT ![k] = t], MshrsMatch(d.mshrs, d.sets),
         d.misses \in Seq(Misses), d.hits \in Seq(HitsOf)
  PROVE  CacheOK(d)
<1>1. DOMAIN d.sets = SetIds /\ \A j \in SetIds : GoodSet(d.sets[j], j)
  BY OneSet DEF Changed
<1> QED BY <1>1 DEF CacheOK

\* A hit.
LEMMA HitKeeps ==
  ASSUME NEW c, CacheOK(c), NEW lines, lines \subseteq Lines, Kept(c, lines),
         NEW req, req.addr \in Nat, req.core \in Nat, NEW store \in BOOLEAN, req.store = store, Hit(c, req.addr)
  PROVE  CacheOK(OnHit(c, req)) /\ Kept(OnHit(c, req), Stores(lines, req.addr, store))
<1> DEFINE a == req.addr
           line == LineOf(a)
           k == Index(a)
           set == SetOf(c, a)
           w == TagWay(set, a)
           t == Touched(set, w, req)
           hit == [left |-> Latency, addr |-> a, core |-> req.core]
           d == OnHit(c, req)
<1>1. IsCache(c) /\ DOMAIN c.sets = SetIds /\ MshrsMatch(c.mshrs, c.sets)
      /\ c.misses \in Seq(Misses) /\ c.hits \in Seq(HitsOf)
  BY DEF CacheOK
<1>2. /\ IsCache(d) /\ d.sets = [c.sets EXCEPT ![k] = Touched(c.sets[k], TagWay(c.sets[k], a), req)]
      /\ d.mshrs = c.mshrs /\ d.misses = c.misses /\ d.hits = Append(c.hits, hit)
  BY <1>1 DEF OnHit, IsCache
<1>3. hit \in HitsOf
  BY Sizes DEF HitsOf
<1> HIDE DEF a, d, hit
<1>4. /\ line \in Lines /\ k \in SetIds /\ Place(line) = k /\ set = c.sets[k] /\ GoodSet(set, k)
      /\ w \in 1 .. Len(set) /\ LineOf(set[w].addr) = line /\ set[w] \notin Unready
  BY WayProperties DEF a
<1>0. w = TagWay(c.sets[k], a) /\ k = Index(a)
  BY <1>4
<1> HIDE DEF set, w, k
<1>5. /\ GoodSet(t, k) /\ InFlight(t) = InFlight(set)
      /\ Dirty(set) \cup (IF store THEN {line} ELSE {}) \subseteq Dirty(t)
  BY <1>0, <1>4, TouchedSet DEF a
<1> HIDE DEF t
<1>6. d.sets = [c.sets EXCEPT ![k] = t] /\ Changed(c.sets, k, t, d.sets)
  BY <1>0, <1>2, <1>4, <1>5, OneSet DEF t
<1>7. MshrsMatch(d.mshrs, d.sets)
  BY <1>1, <1>2, <1>4, <1>5, <1>6, MshrsKeep
<1>8. CacheOK(d)
  <2>1. d.misses \in Seq(Misses) /\ d.hits \in Seq(HitsOf)
    BY <1>1, <1>2, <1>3
  <2>2. /\ CacheOK(c) /\ k \in SetIds /\ GoodSet(t, k) /\ IsCache(d)
        /\ d.sets = [c.sets EXCEPT ![k] = t] /\ MshrsMatch(d.mshrs, d.sets)
    BY <1>2, <1>4, <1>5, <1>6, <1>7
  <2> QED BY ONLY <2>1, <2>2, CacheStep
<1>9. Kept(d, lines)
  BY <1>2, <1>4, <1>5, <1>6, KeptMore
<1>10. store => line \in Dirty(d.sets[Place(line)])
  BY <1>4, <1>5, <1>6 DEF Changed
<1>11. Kept(d, Stores(lines, a, store))
  BY <1>9, <1>10 DEF Kept, Stores
<1> QED BY <1>8, <1>11 DEF a, d

\* A miss on a line in flight.
LEMMA PendingKeeps ==
  ASSUME NEW c, CacheOK(c), NEW lines, lines \subseteq Lines, Kept(c, lines),
         NEW req, req.addr \in Nat, NEW store \in BOOLEAN, req.store = store, Missing(c, req.addr)
  PROVE  CacheOK(OnPendingMiss(c, req)) /\ Kept(OnPendingMiss(c, req), Stores(lines, req.addr, store))
<1> DEFINE a == req.addr
           line == LineOf(a)
           k == Index(a)
           set == SetOf(c, a)
           w == FetchWay(c, a)
           t == Merged(set, w, store)
           d == OnPendingMiss(c, req)
<1>1. IsCache(c) /\ DOMAIN c.sets = SetIds /\ MshrsMatch(c.mshrs, c.sets)
      /\ c.misses \in Seq(Misses) /\ c.hits \in Seq(HitsOf)
  BY DEF CacheOK
<1>2. /\ IsCache(d) /\ d.sets = [c.sets EXCEPT ![k] = Merged(c.sets[k], w, store)]
      /\ d.mshrs = c.mshrs /\ d.misses = c.misses /\ d.hits = c.hits
  BY <1>1 DEF OnPendingMiss, IsCache, Merged
<1> HIDE DEF a, d
<1>4. /\ line \in Lines /\ k \in SetIds /\ Place(line) = k /\ set = c.sets[k] /\ GoodSet(set, k)
      /\ w \in 1 .. Len(set) /\ LineOf(set[w].addr) = line
  BY WayProperties DEF a
<1> HIDE DEF set, w, k
<1>5. /\ GoodSet(t, k) /\ InFlight(t) = InFlight(set)
      /\ Dirty(set) \cup (IF store THEN {line} ELSE {}) \subseteq Dirty(t)
  BY <1>4, MergedSet
<1> HIDE DEF t
<1>6. d.sets = [c.sets EXCEPT ![k] = t] /\ Changed(c.sets, k, t, d.sets)
  BY <1>2, <1>4, <1>5, OneSet DEF t
<1>7. MshrsMatch(d.mshrs, d.sets)
  BY <1>1, <1>2, <1>4, <1>5, <1>6, MshrsKeep
<1>8. CacheOK(d)
  BY <1>1, <1>2, <1>4, <1>5, <1>6, <1>7, CacheStep
<1>9. Kept(d, lines)
  BY <1>2, <1>4, <1>5, <1>6, KeptMore
<1>10. store => line \in Dirty(d.sets[Place(line)])
  BY <1>4, <1>5, <1>6 DEF Changed
<1>11. Kept(d, Stores(lines, a, store))
  BY <1>9, <1>10 DEF Kept, Stores
<1> QED BY <1>8, <1>11 DEF a, d

\* A new miss: the victim's store leaves with its writeback.
LEMMA NewMissKeeps ==
  ASSUME NEW c, CacheOK(c), NEW lines, lines \subseteq Lines, Kept(c, lines),
         NEW req, req.addr \in Nat, req.core \in Nat, NEW store \in BOOLEAN, req.store = store,
         ~Hit(c, req.addr), ~Missing(c, req.addr), Accepts(c, req.addr)
  PROVE  CacheOK(OnNewMiss(c, req)) /\ Kept(OnNewMiss(c, req), Stores(lines, req.addr, store))
<1> DEFINE a == req.addr
           line == LineOf(a)
           k == Index(a)
           set == SetOf(c, a)
           e == [addr |-> a, tag |-> Tag(a), dirty |-> req.store, ready |-> FALSE]
           t == Append(Evicted(set, a), e)
           back == Writebacks(set, a)
           fetch == [left |-> Latency, op |-> "READ", addr |-> a, core |-> req.core]
           d == OnNewMiss(c, req)
<1>1. IsCache(c) /\ DOMAIN c.sets = SetIds /\ MshrsMatch(c.mshrs, c.sets)
      /\ c.misses \in Seq(Misses) /\ c.hits \in Seq(HitsOf)
  BY DEF CacheOK
<1>2. /\ IsCache(d) /\ d.sets = [c.sets EXCEPT ![k] = t]
      /\ DOMAIN d.mshrs = DOMAIN c.mshrs \cup {line}
      /\ d.misses = c.misses \o back \o <<fetch>> /\ d.hits = c.hits
  BY <1>1 DEF OnNewMiss, IsCache
<1>3. fetch \in Misses
  BY Sizes DEF Misses
<1> HIDE DEF a, d, fetch
<1>4. /\ line \in Lines /\ k \in SetIds /\ Place(line) = k /\ set = c.sets[k] /\ GoodSet(set, k)
      /\ TagWay(set, a) = 0 /\ \A w \in 1 .. Len(set) : LineOf(set[w].addr) # line
  BY WayProperties DEF a
<1>5. Cardinality(DOMAIN c.mshrs) < NumMshrs /\ LineAvailable(set) /\ line \notin DOMAIN c.mshrs
  BY DEF Accepts, Missing, a
<1>6. /\ e \in Line /\ LineOf(e.addr) = line /\ e.tag = Tag(e.addr) /\ Index(e.addr) = k
      /\ e \in Unready /\ (e \in Stored <=> store)
  BY <1>4, LineTypes DEF Line, Unready, Stored, a
<1> HIDE DEF set, k, e, t, line
<1>7. /\ GoodSet(Evicted(set, a), k) /\ Len(Evicted(set, a)) < Associativity
      /\ InFlight(Evicted(set, a)) = InFlight(set) /\ back \in Seq(Misses)
      /\ \A l \in Dirty(set) : l \in Dirty(Evicted(set, a)) \/ Leaves(l, back)
      /\ Within(Evicted(set, a), set)
  <2>1. GoodSet(set, k) /\ LineAvailable(set) /\ TagWay(set, a) = 0
    BY <1>4, <1>5
  <2>2. back = Writebacks(set, a)
    BY DEF back
  <2> HIDE DEF back
  <2>3. /\ GoodSet(Evicted(set, a), k) /\ Len(Evicted(set, a)) < Associativity
        /\ InFlight(Evicted(set, a)) = InFlight(set) /\ Writebacks(set, a) \in Seq(Misses)
        /\ \A l \in Dirty(set) : l \in Dirty(Evicted(set, a)) \/ Leaves(l, Writebacks(set, a))
        /\ Within(Evicted(set, a), set)
    <3>1. /\ GoodSet(Evicted(set, a), k) /\ Len(Evicted(set, a)) < Associativity
          /\ InFlight(Evicted(set, a)) = InFlight(set) /\ Writebacks(set, a) \in Seq(Misses)
      BY ONLY <2>1, EvictedSet
    <3>2. \A l \in Dirty(set) : l \in Dirty(Evicted(set, a)) \/ Leaves(l, Writebacks(set, a))
      BY ONLY <2>1, EvictedSet
    <3>3. Within(Evicted(set, a), set)
      BY ONLY <2>1, EvictedSet
    <3> QED BY ONLY <3>1, <3>2, <3>3
  <2>4. back \in Seq(Misses) /\ \A l \in Dirty(set) : l \in Dirty(Evicted(set, a)) \/ Leaves(l, back)
    BY ONLY <2>2, <2>3
  <2> QED BY ONLY <2>3, <2>4
<1> USE DEF t
<1> HIDE DEF back
<1>8. \A v \in 1 .. Len(Evicted(set, a)) : LineOf(Evicted(set, a)[v].addr) # LineOf(e.addr)
  <2> TAKE v \in 1 .. Len(Evicted(set, a))
  <2>1. PICK u \in 1 .. Len(set) : Evicted(set, a)[v] = set[u]
    BY <1>7 DEF Within
  <2> QED BY <1>4, <1>6, <2>1
<1>10. /\ GoodSet(t, k) /\ InFlight(t) = InFlight(set) \cup {line}
       /\ Dirty(t) = Dirty(Evicted(set, a)) \cup (IF store THEN {line} ELSE {})
  <2>1. /\ GoodSet(Append(Evicted(set, a), e), k)
        /\ InFlight(Append(Evicted(set, a), e)) = InFlight(Evicted(set, a)) \cup (IF e \in Unready THEN {LineOf(e.addr)} ELSE {})
        /\ Dirty(Append(Evicted(set, a), e)) = Dirty(Evicted(set, a)) \cup (IF e \in Stored THEN {LineOf(e.addr)} ELSE {})
    BY <1>6, <1>7, <1>8, SetAppended
  <2> QED BY <1>6, <1>7, <2>1
<1> HIDE DEF t
<1>11. Changed(c.sets, k, t, d.sets)
  BY <1>2, <1>4, <1>10, OneSet
<1>12. MshrsMatch(d.mshrs, d.sets)
  BY <1>1, <1>2, <1>4, <1>5, <1>10, <1>11, MshrsAdd
<1>13. d.misses \in Seq(Misses)
       /\ (\A l : Leaves(l, c.misses) => Leaves(l, d.misses))
       /\ (\A l : Leaves(l, back) => Leaves(l, d.misses))
  <2> DEFINE m == c.misses
             n == d.misses
  <2>1. /\ m \o back \in Seq(Misses) /\ n \in Seq(Misses)
        /\ Len(m) \in Nat /\ Len(back) \in Nat /\ Len(m \o back) = Len(m) + Len(back)
        /\ Len(n) = Len(m) + Len(back) + 1
        /\ \A i \in 1 .. Len(m) + Len(back) : (m \o back)[i] = IF i <= Len(m) THEN m[i] ELSE back[i - Len(m)]
        /\ \A i \in 1 .. Len(m) + Len(back) : n[i] = (m \o back)[i]
    <3>1. <<fetch>> \in Seq(Misses) /\ Len(<<fetch>>) = 1
      BY <1>3
    <3> QED BY <1>1, <1>2, <1>7, <3>1, ConcatProperties, LenProperties
  <2> HIDE DEF m, n
  <2>2. \A i \in 1 .. Len(m) : i \in 1 .. Len(n) /\ n[i] = m[i]
    <3> TAKE i \in 1 .. Len(m)
    <3>1. i \in 1 .. Len(m) + Len(back) /\ i \in 1 .. Len(n) /\ i <= Len(m)
      BY ONLY <2>1, i \in 1 .. Len(m), SMT
    <3> QED BY ONLY <2>1, <3>1, Zenon
  <2>3. \A i \in 1 .. Len(back) : Len(m) + i \in 1 .. Len(n) /\ n[Len(m) + i] = back[i]
    <3> TAKE i \in 1 .. Len(back)
    <3>1. Len(m) + i \in 1 .. Len(m) + Len(back) /\ ~(Len(m) + i <= Len(m)) /\ (Len(m) + i) - Len(m) = i
      BY <2>1
    <3> QED BY <2>1, <3>1
  <2>4. \A l : Leaves(l, m) => Leaves(l, n)
    BY <2>2 DEF Leaves
  <2>5. \A l : Leaves(l, back) => Leaves(l, n)
    BY <2>3 DEF Leaves
  <2> QED BY <2>1, <2>4, <2>5 DEF m, n
<1>14. CacheOK(d)
  <2>1. IsCache(d) /\ d.sets = [c.sets EXCEPT ![k] = t] /\ d.hits \in Seq(HitsOf)
    BY <1>1, <1>2
  <2> QED BY <1>4, <1>10, <1>12, <1>13, <2>1, CacheStep
<1>15. Kept(d, lines)
  <2>1. \A l \in Dirty(c.sets[k]) : l \in Dirty(t) \/ Leaves(l, d.misses)
    BY <1>4, <1>7, <1>10, <1>13
  <2> QED BY <1>4, <1>11, <1>13, <2>1, KeptMore
<1>16. store => line \in Dirty(d.sets[Place(line)])
  BY <1>4, <1>10, <1>11 DEF Changed
<1>17. Kept(d, Stores(lines, a, store))
  BY <1>15, <1>16 DEF Kept, Stores, line
<1> QED BY <1>14, <1>17 DEF a, d

\* send().
LEMMA SendKeeps ==
  ASSUME NEW c, CacheOK(c), NEW lines, lines \subseteq Lines, Kept(c, lines),
         NEW req, req.addr \in Nat, req.core \in Nat, NEW store \in BOOLEAN, req.store = store,
         Accepts(c, req.addr)
  PROVE  CacheOK(LlcSend(c, req)) /\ Kept(LlcSend(c, req), Stores(lines, req.addr, store))
<1>1. CASE Hit(c, req.addr)
  BY <1>1, HitKeeps DEF LlcSend
<1>2. CASE ~Hit(c, req.addr) /\ Missing(c, req.addr)
  BY <1>2, PendingKeeps DEF LlcSend
<1>3. CASE ~Hit(c, req.addr) /\ ~Missing(c, req.addr)
  BY <1>3, NewMissKeeps DEF LlcSend
<1> QED BY <1>1, <1>2, <1>3

\* receive().
LEMMA ReceiveKeeps ==
  ASSUME NEW c, CacheOK(c), NEW lines, lines \subseteq Lines, Kept(c, lines), NEW a \in Nat
  PROVE  CacheOK(LlcReceive(c, a)) /\ Kept(LlcReceive(c, a), lines)
<1>1. CASE ~Missing(c, a)
  BY <1>1 DEF LlcReceive
<1>2. CASE Missing(c, a)
  <2> DEFINE line == LineOf(a)
             k == Index(a)
             set == SetOf(c, a)
             w == FetchWay(c, a)
             t == Answered(set, w)
             d == LlcReceive(c, a)
  <2>1. IsCache(c) /\ DOMAIN c.sets = SetIds /\ MshrsMatch(c.mshrs, c.sets)
        /\ c.misses \in Seq(Misses) /\ c.hits \in Seq(HitsOf)
    BY DEF CacheOK
  <2>2. /\ IsCache(d) /\ d.sets = [c.sets EXCEPT ![k] = Answered(c.sets[k], w)]
        /\ DOMAIN d.mshrs = DOMAIN c.mshrs \ {line} /\ d.misses = c.misses /\ d.hits = c.hits
    BY <1>2, <2>1 DEF LlcReceive, IsCache, Restrict, Answered
  <2> HIDE DEF d
  <2>3. /\ line \in Lines /\ k \in SetIds /\ Place(line) = k /\ set = c.sets[k] /\ GoodSet(set, k)
        /\ w \in 1 .. Len(set) /\ LineOf(set[w].addr) = line
    BY <1>2, WayProperties
  <2> HIDE DEF set, w, k, line
  <2>4. GoodSet(t, k) /\ InFlight(t) = InFlight(set) \ {line} /\ Dirty(t) = Dirty(set)
    BY <2>3, AnsweredSet
  <2> HIDE DEF t
  <2>5. d.sets = [c.sets EXCEPT ![k] = t] /\ Changed(c.sets, k, t, d.sets)
    BY <2>2, <2>3, <2>4, OneSet DEF t
  <2>6. MshrsMatch(d.mshrs, d.sets)
    <3>1. /\ MshrsMatch(c.mshrs, c.sets) /\ line \in Lines /\ Changed(c.sets, Place(line), t, d.sets)
          /\ InFlight(t) = InFlight(c.sets[Place(line)]) \ {line} /\ DOMAIN d.mshrs = DOMAIN c.mshrs \ {line}
      BY <2>1, <2>2, <2>3, <2>4, <2>5
    <3> QED BY ONLY <3>1, MshrsDrop
  <2>7. CacheOK(d)
    BY <2>1, <2>2, <2>3, <2>4, <2>5, <2>6, CacheStep
  <2>8. Kept(d, lines)
    BY <2>2, <2>3, <2>4, <2>5, KeptMore
  <2> QED BY <2>7, <2>8 DEF d
<1> QED BY <1>1, <1>2

-----------------------------------------------------------------------------
(* The whole state: cores, cache, memory and the lines not yet saved. *)

Addrs == Nat \cup {NoAddr}
Entries == [ready : BOOLEAN, addr : Addrs]
Cores == [window : {w \in Seq(Entries) : Len(w) <= Depth}, bubbles : Nat, load : Addrs, store : Addrs,
          taken : 0 .. MaxLines, retired : 0 .. Expected]

\* A buffer of the memory holds at most one request more than its size.
MemReqs == [op : {"READ", "WRITE"}, addr : Nat]
Buffered(q) == q \in Seq(MemReqs) /\ Len(q) <= BufferSize + 1
MemOK(m) ==
  /\ DOMAIN m = {"reads", "writes", "active", "pending"}
  /\ Buffered(m.reads) /\ Buffered(m.writes) /\ Buffered(m.active) /\ m.pending \in Seq(Nat)

IsState(s) == DOMAIN s = {"core", "llc", "mem", "unsaved"}
PartsOK(s) ==
  /\ IsState(s) /\ s.core \in [CoreIds -> Cores] /\ CacheOK(s.llc) /\ MemOK(s.mem)
  /\ s.unsaved \subseteq Lines
StateOK(s) == PartsOK(s) /\ Kept(s.llc, s.unsaved)

\* The entries of a core's window, and a core with another one.
LEMMA Windows ==
  ASSUME NEW c \in Cores
  PROVE  /\ c.window \in Seq(Entries) /\ Len(c.window) \in Nat /\ Len(c.window) <= Depth
         /\ DOMAIN c.window = 1 .. Len(c.window) /\ \A i \in 1 .. Len(c.window) : c.window[i] \in Entries
         /\ \A w \in Seq(Entries) : Len(w) <= Depth => [c EXCEPT !.window = w] \in Cores
<1>1. c.window \in Seq(Entries) /\ Len(c.window) <= Depth
  BY DEF Cores
<1>2. \A w \in Seq(Entries) : Len(w) <= Depth => [c EXCEPT !.window = w] \in Cores
  BY DEF Cores
<1> QED BY <1>1, <1>2, LenProperties, ElementOfSeq

\* set_ready changes no length.
LEMMA WokenTypes ==
  ASSUME NEW cores \in [CoreIds -> Cores], NEW reqs
  PROVE  Woken(cores, reqs) \in [CoreIds -> Cores]
<1> DEFINE w(id) == [i \in DOMAIN cores[id].window |->
                       IF \E r \in ToSet(reqs) : r.core = id /\ r.addr = cores[id].window[i].addr
                       THEN [cores[id].window[i] EXCEPT !.ready = TRUE] ELSE cores[id].window[i]]
<1>1. ASSUME NEW id \in CoreIds PROVE [cores[id] EXCEPT !.window = w(id)] \in Cores
  <2> DEFINE c == cores[id]
  <2>1. /\ c.window \in Seq(Entries) /\ Len(c.window) \in Nat /\ Len(c.window) <= Depth
        /\ DOMAIN c.window = 1 .. Len(c.window) /\ \A i \in 1 .. Len(c.window) : c.window[i] \in Entries
        /\ \A v \in Seq(Entries) : Len(v) <= Depth => [c EXCEPT !.window = v] \in Cores
    BY Windows
  <2>2. \A e \in Entries : [e EXCEPT !.ready = TRUE] \in Entries
    BY DEF Entries
  <2> DEFINE v == w(id)
  <2>3. v \in [1 .. Len(c.window) -> Entries]
    BY <2>1, <2>2
  <2>4. v \in Seq(Entries) /\ Len(v) = Len(c.window)
    BY <2>1, <2>3, FunctionSeq
  <2> HIDE DEF v
  <2>5. [c EXCEPT !.window = v] \in Cores
    BY <2>1, <2>4
  <2> QED BY <2>5 DEF v
<1>2. Woken(cores, reqs) = [id \in CoreIds |-> [cores[id] EXCEPT !.window = w(id)]]
  BY DEF Woken
<1> HIDE DEF w
<1> QED BY <1>1, <1>2

\* An answer, of the memory or of the cache.
LEMMA ReceiveOK ==
  ASSUME NEW s, StateOK(s), NEW a \in Nat
  PROVE  StateOK(Receive(s, a))
<1> DEFINE c == LlcReceive(s.llc, a)
           d == Cleared(c, a)
           r == Receive(s, a)
<1>1. /\ IsState(s) /\ s.core \in [CoreIds -> Cores] /\ CacheOK(s.llc) /\ MemOK(s.mem)
      /\ s.unsaved \subseteq Lines /\ Kept(s.llc, s.unsaved)
  BY DEF StateOK, PartsOK
<1>2. /\ IsState(r) /\ r.llc = d /\ r.core = Woken(s.core, WaitingFor(s.llc, a))
      /\ r.mem = s.mem /\ r.unsaved = s.unsaved
  BY <1>1 DEF Receive, IsState
<1>3. CacheOK(c) /\ Kept(c, s.unsaved)
  BY <1>1, ReceiveKeeps
<1> HIDE DEF c
<1>4. d.sets = c.sets /\ d.mshrs = c.mshrs /\ d.misses = c.misses /\ d.hits = c.hits /\ IsCache(d)
  BY <1>3 DEF Cleared, CacheOK, IsCache
<1>5. CacheOK(d) /\ Kept(d, s.unsaved)
  BY <1>3, <1>4 DEF CacheOK, Kept
<1>6. Woken(s.core, WaitingFor(s.llc, a)) \in [CoreIds -> Cores]
  BY <1>1, WokenTypes
<1> QED BY <1>1, <1>2, <1>5, <1>6 DEF StateOK, PartsOK

-----------------------------------------------------------------------------
(* The cache's cycle. *)

\* A cache with other lists.
LEMMA ListsChanged ==
  ASSUME NEW c, CacheOK(c), NEW d, IsCache(d), d.sets = c.sets, d.mshrs = c.mshrs,
         d.misses \in Seq(Misses), d.hits \in Seq(HitsOf)
  PROVE  CacheOK(d)
BY DEF CacheOK

\* One cycle nearer.
LEMMA AgedOK ==
  ASSUME NEW c, CacheOK(c), NEW lines, Kept(c, lines)
  PROVE  CacheOK(Aged(c)) /\ Kept(Aged(c), lines)
<1> DEFINE m == c.misses
           h == c.hits
           d == Aged(c)
<1>1. IsCache(c) /\ m \in Seq(Misses) /\ h \in Seq(HitsOf)
  BY DEF CacheOK
<1>2. IsCache(d) /\ d.sets = c.sets /\ d.mshrs = c.mshrs /\ d.misses = Older(m) /\ d.hits = Older(h)
  BY <1>1 DEF IsCache, Aged
<1>3. /\ Len(m) \in Nat /\ DOMAIN m = 1 .. Len(m) /\ \A i \in 1 .. Len(m) : m[i] \in Misses
      /\ Len(h) \in Nat /\ DOMAIN h = 1 .. Len(h) /\ \A i \in 1 .. Len(h) : h[i] \in HitsOf
  BY <1>1, LenProperties, ElementOfSeq
<1> HIDE DEF m, h, d
<1>4. /\ \A i \in 1 .. Len(m) :
           Older(m)[i] \in Misses /\ Older(m)[i].op = m[i].op /\ Older(m)[i].addr = m[i].addr
      /\ DOMAIN Older(m) = 1 .. Len(m)
  BY <1>3 DEF Older, Misses
<1>5. Older(m) \in Seq(Misses) /\ Len(Older(m)) = Len(m)
  <2>1. Older(m) \in [1 .. Len(m) -> Misses]
    BY <1>3, <1>4 DEF Older
  <2> QED BY <1>3, <2>1, FunctionSeq
<1>6. Older(h) \in Seq(HitsOf)
  <2>1. Older(h) \in [1 .. Len(h) -> HitsOf]
    BY <1>3 DEF Older, HitsOf
  <2> QED BY <1>3, <2>1, FunctionSeq
<1>7. CacheOK(d)
  BY <1>2, <1>5, <1>6, ListsChanged
<1>8. \A l : Leaves(l, m) => Leaves(l, d.misses)
  BY <1>2, <1>4, <1>5 DEF Leaves
<1>9. Kept(d, lines)
  BY <1>2, <1>8 DEF Kept, m
<1> QED BY <1>7, <1>9 DEF d

\* The stores that are in the cache, among the misses it has kept, or among those
\* of a list from its position i on.
Due(l, misses, i) == \E j \in i .. Len(misses) : misses[j].op = "WRITE" /\ LineOf(misses[j].addr) = l
KeptTo(c, lines, misses, i) ==
  \A l \in lines : l \in Dirty(c.sets[Place(l)]) \/ Leaves(l, c.misses) \/ Due(l, misses, i)

\* One request more, where there is room.
LEMMA BufferedMore ==
  ASSUME NEW q, Buffered(q), Len(q) <= BufferSize, NEW e \in MemReqs
  PROVE  Buffered(Append(q, e))
<1>1. q \in Seq(MemReqs) /\ Len(q) \in Nat
  BY LenProperties DEF Buffered
<1>2. Append(q, e) \in Seq(MemReqs) /\ Len(Append(q, e)) = Len(q) + 1
  BY <1>1, AppendProperties
<1>3. Len(q) + 1 <= BufferSize + 1
  BY <1>1, Sizes
<1> QED BY <1>2, <1>3 DEF Buffered

\* One request less.
LEMMA BufferedLess ==
  ASSUME NEW q, Buffered(q), NEW i, i \in DOMAIN q
  PROVE  Buffered(RemoveAt(q, i)) /\ q[i] \in MemReqs
<1>1. q \in Seq(MemReqs) /\ Len(q) \in Nat /\ DOMAIN q = 1 .. Len(q)
  BY LenProperties DEF Buffered
<1>2. q[i] \in MemReqs
  BY <1>1, ElementOfSeq
<1>3. RemoveAt(q, i) \in Seq(MemReqs) /\ Len(RemoveAt(q, i)) = Len(q) - 1
  BY <1>1, RemoveAtProperties
<1>4. Len(q) - 1 <= BufferSize + 1
  BY <1>1, Sizes DEF Buffered
<1> QED BY <1>2, <1>3, <1>4 DEF Buffered

\* The memory takes a request.
LEMMA TakenOK ==
  ASSUME NEW m, MemOK(m), NEW req \in Misses, Takes(m, req)
  PROVE  MemOK(Taken(m, req))
<1> DEFINE e == [op |-> req.op, addr |-> req.addr]
           t == Taken(m, req)
<1>1. /\ DOMAIN m = {"reads", "writes", "active", "pending"} /\ m.pending \in Seq(Nat)
      /\ Buffered(m.reads) /\ Buffered(m.writes) /\ Buffered(m.active)
  BY DEF MemOK
<1>2. req.addr \in Nat /\ req.op \in {"READ", "WRITE"} /\ e \in MemReqs
  BY DEF Misses, MemReqs
<1> HIDE DEF e
<1>3. CASE Forwards(m, req)
  <2> DEFINE p == Append(m.pending, req.addr)
  <2>1. p \in Seq(Nat)
    BY <1>1, <1>2, AppendProperties
  <2>2. t = [m EXCEPT !.pending = p]
    BY <1>3 DEF Taken
  <2> HIDE DEF p, t
  <2>3. /\ DOMAIN t = {"reads", "writes", "active", "pending"} /\ t.pending = p
        /\ t.reads = m.reads /\ t.writes = m.writes /\ t.active = m.active
    BY <1>1, <2>2
  <2>4. MemOK(t)
    BY <1>1, <2>1, <2>3 DEF MemOK
  <2> QED BY <2>4 DEF t
<1>4. CASE ~Forwards(m, req) /\ req.op = "READ"
  <2> DEFINE q == Append(m.reads, e)
  <2>1. Len(m.reads) <= BufferSize
    BY <1>4 DEF Takes, BufferOf
  <2>2. Buffered(q)
    BY <1>1, <1>2, <2>1, BufferedMore
  <2>3. t = [m EXCEPT !.reads = q]
    BY <1>1, <1>4 DEF Taken, BufferOf, e
  <2> HIDE DEF q, t
  <2>4. /\ DOMAIN t = {"reads", "writes", "active", "pending"} /\ t.reads = q
        /\ t.pending = m.pending /\ t.writes = m.writes /\ t.active = m.active
    BY <1>1, <2>3
  <2>5. MemOK(t)
    BY <1>1, <2>2, <2>4 DEF MemOK
  <2> QED BY <2>5 DEF t
<1>5. CASE ~Forwards(m, req) /\ req.op # "READ"
  <2> DEFINE q == Append(m.writes, e)
  <2>1. Len(m.writes) <= BufferSize
    BY <1>5 DEF Takes, BufferOf
  <2>2. Buffered(q)
    BY <1>1, <1>2, <2>1, BufferedMore
  <2>3. t = [m EXCEPT !.writes = q]
    BY <1>1, <1>5 DEF Taken, BufferOf, e
  <2> HIDE DEF q, t
  <2>4. /\ DOMAIN t = {"reads", "writes", "active", "pending"} /\ t.writes = q
        /\ t.pending = m.pending /\ t.reads = m.reads /\ t.active = m.active
    BY <1>1, <2>3
  <2>5. MemOK(t)
    BY <1>1, <2>2, <2>4 DEF MemOK
  <2> QED BY <2>5 DEF t
<1> QED BY <1>3, <1>4, <1>5

\* One miss goes to the memory or stays.
LEMMA SendMissOK ==
  ASSUME NEW misses \in Seq(Misses), NEW i \in 1 .. Len(misses),
         NEW s, PartsOK(s), KeptTo(s.llc, s.unsaved, misses, i)
  PROVE  /\ PartsOK(SendMiss(s, misses[i]))
         /\ KeptTo(SendMiss(s, misses[i]).llc, SendMiss(s, misses[i]).unsaved, misses, i + 1)
<1> DEFINE req == misses[i]
           r == SendMiss(s, req)
           c == s.llc
           m == s.mem
<1>1. req \in Misses /\ Len(misses) \in Nat
  BY ElementOfSeq, LenProperties
<1>2. /\ IsState(s) /\ s.core \in [CoreIds -> Cores] /\ CacheOK(c) /\ MemOK(m)
      /\ s.unsaved \subseteq Lines
  BY DEF PartsOK
<1>3. \A l : Due(l, misses, i) <=> Due(l, misses, i + 1) \/ (req.op = "WRITE" /\ LineOf(req.addr) = l)
  <2>1. \A j : j \in i .. Len(misses) <=> j = i \/ j \in i + 1 .. Len(misses)
    BY <1>1
  <2> QED BY <2>1 DEF Due
<1> HIDE DEF req
<1>4. CASE req.left = 0 /\ Takes(s.mem, req)
  <2>1. /\ IsState(r) /\ r.core = s.core /\ r.llc = c /\ r.mem = Taken(m, req) /\ r.unsaved = Saved(s.unsaved, req)
    BY <1>2, <1>4 DEF SendMiss, IsState
  <2> HIDE DEF r
  <2>2. MemOK(Taken(m, req))
    BY <1>1, <1>2, <1>4, TakenOK DEF m
  <2>3. Saved(s.unsaved, req) \subseteq s.unsaved
        /\ (req.op = "WRITE" => LineOf(req.addr) \notin Saved(s.unsaved, req))
    BY DEF Saved
  <2>4. PartsOK(r)
    BY <1>2, <2>1, <2>2, <2>3 DEF PartsOK
  <2>5. KeptTo(r.llc, r.unsaved, misses, i + 1)
    BY <1>3, <2>1, <2>3 DEF KeptTo
  <2> QED BY <2>4, <2>5 DEF r, req
<1>5. CASE ~(req.left = 0 /\ Takes(s.mem, req))
  <2> DEFINE d == [c EXCEPT !.misses = Append(@, req)]
  <2>1. /\ IsState(r) /\ r.core = s.core /\ r.llc = d /\ r.mem = m /\ r.unsaved = s.unsaved
    BY <1>2, <1>5 DEF SendMiss, IsState
  <2> HIDE DEF r
  <2>2. IsCache(c) /\ c.misses \in Seq(Misses) /\ c.hits \in Seq(HitsOf)
    BY <1>2 DEF CacheOK
  <2>3. IsCache(d) /\ d.sets = c.sets /\ d.mshrs = c.mshrs /\ d.misses = Append(c.misses, req) /\ d.hits = c.hits
    BY <2>2 DEF IsCache
  <2> HIDE DEF c, d
  <2>4. /\ d.misses \in Seq(Misses) /\ Len(d.misses) = Len(c.misses) + 1 /\ Len(c.misses) \in Nat
        /\ \A j \in 1 .. Len(c.misses) : d.misses[j] = c.misses[j]
        /\ d.misses[Len(c.misses) + 1] = req
    BY <1>1, <2>2, <2>3, AppendProperties, LenProperties
  <2>5. CacheOK(d)
    BY <1>2, <2>2, <2>3, <2>4, ListsChanged
  <2>6. PartsOK(r)
    BY <1>2, <2>1, <2>5 DEF PartsOK
  <2>7. \A l : Leaves(l, c.misses) \/ (req.op = "WRITE" /\ LineOf(req.addr) = l) => Leaves(l, d.misses)
    <3>1. \A j \in 1 .. Len(c.misses) : j \in 1 .. Len(d.misses)
      BY <2>4
    <3>2. Len(c.misses) + 1 \in 1 .. Len(d.misses)
      BY <2>4
    <3> QED BY <2>4, <3>1, <3>2 DEF Leaves
  <2>8. KeptTo(c, s.unsaved, misses, i)
    BY DEF c
  <2>9. KeptTo(r.llc, r.unsaved, misses, i + 1)
    BY <1>3, <2>1, <2>3, <2>7, <2>8 DEF KeptTo
  <2> QED BY <2>6, <2>9 DEF r, req
<1> QED BY <1>4, <1>5

-----------------------------------------------------------------------------
(* The three loops: what the recursive functions of the model compute, step by step. *)

\* The loop over the misses.
Sends(s, t, n, up) == up = [i \in 0 .. n |-> IF i = 0 THEN s ELSE SendMiss(up[i - 1], t[i])]

LEMMA SendsExists ==
  ASSUME NEW s, NEW t, NEW n \in Nat
  PROVE  \E up : Sends(s, t, n, up)
<1> DEFINE P(m) == \E up : up = [i \in 0 .. m |-> IF i = 0 THEN s ELSE SendMiss(up[i - 1], t[i])]
           G == {m \in Nat : P(m)}
<1>1. P(0)
  <2> DEFINE one == [i \in 0 .. 0 |-> s]
  <2>1. one = [i \in 0 .. 0 |-> IF i = 0 THEN s ELSE SendMiss(one[i - 1], t[i])]
    OBVIOUS
  <2> QED BY <2>1
<1>2. ASSUME NEW m \in Nat, P(m) PROVE P(m + 1)
  <2>1. PICK up : up = [i \in 0 .. m |-> IF i = 0 THEN s ELSE SendMiss(up[i - 1], t[i])]
    BY <1>2
  <2> DEFINE more == [i \in 0 .. m + 1 |-> IF i = m + 1 THEN SendMiss(up[m], t[m + 1]) ELSE up[i]]
  <2>2. ASSUME NEW i \in 0 .. m + 1
        PROVE  more[i] = IF i = 0 THEN s ELSE SendMiss(more[i - 1], t[i])
    <3>1. CASE i = m + 1
      <4>1. more[i] = SendMiss(up[m], t[m + 1]) /\ i - 1 = m /\ more[m] = up[m] /\ i # 0
        BY <3>1
      <4> HIDE DEF more
      <4> QED BY <3>1, <4>1
    <3>2. CASE i # m + 1
      <4>1. i \in 0 .. m /\ (i # 0 => i - 1 \in 0 .. m)
        BY <3>2
      <4>2. more[i] = up[i] /\ (i # 0 => more[i - 1] = up[i - 1])
        BY <4>1
      <4> HIDE DEF more
      <4> QED BY <2>1, <4>1, <4>2
    <3> QED BY <3>1, <3>2
  <2>3. more = [i \in 0 .. m + 1 |-> IF i = 0 THEN s ELSE SendMiss(more[i - 1], t[i])]
    BY <2>2
  <2> HIDE DEF more
  <2> QED BY <2>3
<1> HIDE DEF P
<1>3. 0 \in G /\ \A i \in 0 .. n - 1 : i \in G => i + 1 \in G
  BY <1>1, <1>2
<1> HIDE DEF G
<1>4. n \in G
  BY <1>3, Climb
<1> QED BY <1>4 DEF G, P, Sends

\* The loop over the hits.
Answers(s, t, n, up) == up = [i \in 0 .. n |-> IF i = 0 THEN s ELSE AnswerHit(up[i - 1], t[i])]

LEMMA AnswersExists ==
  ASSUME NEW s, NEW t, NEW n \in Nat
  PROVE  \E up : Answers(s, t, n, up)
<1> DEFINE P(m) == \E up : up = [i \in 0 .. m |-> IF i = 0 THEN s ELSE AnswerHit(up[i - 1], t[i])]
           G == {m \in Nat : P(m)}
<1>1. P(0)
  <2> DEFINE one == [i \in 0 .. 0 |-> s]
  <2>1. one = [i \in 0 .. 0 |-> IF i = 0 THEN s ELSE AnswerHit(one[i - 1], t[i])]
    OBVIOUS
  <2> QED BY <2>1
<1>2. ASSUME NEW m \in Nat, P(m) PROVE P(m + 1)
  <2>1. PICK up : up = [i \in 0 .. m |-> IF i = 0 THEN s ELSE AnswerHit(up[i - 1], t[i])]
    BY <1>2
  <2> DEFINE more == [i \in 0 .. m + 1 |-> IF i = m + 1 THEN AnswerHit(up[m], t[m + 1]) ELSE up[i]]
  <2>2. ASSUME NEW i \in 0 .. m + 1
        PROVE  more[i] = IF i = 0 THEN s ELSE AnswerHit(more[i - 1], t[i])
    <3>1. CASE i = m + 1
      <4>1. more[i] = AnswerHit(up[m], t[m + 1]) /\ i - 1 = m /\ more[m] = up[m] /\ i # 0
        BY <3>1
      <4> HIDE DEF more
      <4> QED BY <3>1, <4>1
    <3>2. CASE i # m + 1
      <4>1. i \in 0 .. m /\ (i # 0 => i - 1 \in 0 .. m)
        BY <3>2
      <4>2. more[i] = up[i] /\ (i # 0 => more[i - 1] = up[i - 1])
        BY <4>1
      <4> HIDE DEF more
      <4> QED BY <2>1, <4>1, <4>2
    <3> QED BY <3>1, <3>2
  <2>3. more = [i \in 0 .. m + 1 |-> IF i = 0 THEN s ELSE AnswerHit(more[i - 1], t[i])]
    BY <2>2
  <2> HIDE DEF more
  <2> QED BY <2>3
<1> HIDE DEF P
<1>3. 0 \in G /\ \A i \in 0 .. n - 1 : i \in G => i + 1 \in G
  BY <1>1, <1>2
<1> HIDE DEF G
<1>4. n \in G
  BY <1>3, Climb
<1> QED BY <1>4 DEF G, P, Answers

\* The loop over the cores.
Ticks(s, n, up) == up = [i \in 0 .. n |-> IF i = 0 THEN s ELSE CoreTick(up[i - 1], i)]

LEMMA TicksExists ==
  ASSUME NEW s, NEW n \in Nat
  PROVE  \E up : Ticks(s, n, up)
<1> DEFINE P(m) == \E up : up = [i \in 0 .. m |-> IF i = 0 THEN s ELSE CoreTick(up[i - 1], i)]
           G == {m \in Nat : P(m)}
<1>1. P(0)
  <2> DEFINE one == [i \in 0 .. 0 |-> s]
  <2>1. one = [i \in 0 .. 0 |-> IF i = 0 THEN s ELSE CoreTick(one[i - 1], i)]
    OBVIOUS
  <2> QED BY <2>1
<1>2. ASSUME NEW m \in Nat, P(m) PROVE P(m + 1)
  <2>1. PICK up : up = [i \in 0 .. m |-> IF i = 0 THEN s ELSE CoreTick(up[i - 1], i)]
    BY <1>2
  <2> DEFINE more == [i \in 0 .. m + 1 |-> IF i = m + 1 THEN CoreTick(up[m], m + 1) ELSE up[i]]
  <2>2. ASSUME NEW i \in 0 .. m + 1
        PROVE  more[i] = IF i = 0 THEN s ELSE CoreTick(more[i - 1], i)
    <3>1. CASE i = m + 1
      <4>1. more[i] = CoreTick(up[m], m + 1) /\ i - 1 = m /\ more[m] = up[m] /\ i # 0
        BY <3>1
      <4> HIDE DEF more
      <4> QED BY <3>1, <4>1
    <3>2. CASE i # m + 1
      <4>1. i \in 0 .. m /\ (i # 0 => i - 1 \in 0 .. m)
        BY <3>2
      <4>2. more[i] = up[i] /\ (i # 0 => more[i - 1] = up[i - 1])
        BY <4>1
      <4> HIDE DEF more
      <4> QED BY <2>1, <4>1, <4>2
    <3> QED BY <3>1, <3>2
  <2>3. more = [i \in 0 .. m + 1 |-> IF i = 0 THEN s ELSE CoreTick(more[i - 1], i)]
    BY <2>2
  <2> HIDE DEF more
  <2> QED BY <2>3
<1> HIDE DEF P
<1>3. 0 \in G /\ \A i \in 0 .. n - 1 : i \in G => i + 1 \in G
  BY <1>1, <1>2
<1> HIDE DEF G
<1>4. n \in G
  BY <1>3, Climb
<1> QED BY <1>4 DEF G, P, Ticks

-----------------------------------------------------------------------------
(* The loops keep the state in order. *)

\* Misses and writebacks.
LEMMA SendMissesOK ==
  ASSUME NEW s, StateOK(s)
  PROVE  StateOK(SendMisses(s))
<1> DEFINE m == s.llc.misses
           n == Len(m)
           none == [s EXCEPT !.llc.misses = <<>>]
           sent == CHOOSE up : Sends(none, m, n, up)
           G == {i \in Nat : i \in 0 .. n => PartsOK(sent[i]) /\ KeptTo(sent[i].llc, sent[i].unsaved, m, i + 1)}
<1>1. m \in Seq(Misses) /\ n \in Nat
  BY LenProperties DEF StateOK, PartsOK, CacheOK
<1>2. Sends(none, m, n, sent)
  <2>1. n \in Nat
    BY <1>1
  <2> HIDE DEF none, m, n
  <2>2. \E up : Sends(none, m, n, up)
    BY <2>1, SendsExists
  <2> QED BY <2>2
<1>3. SendMisses(s) = sent[n]
  BY DEF SendMisses, Sends
<1>4. PartsOK(none) /\ KeptTo(none.llc, none.unsaved, m, 1)
  <2> DEFINE c == s.llc
             d == [c EXCEPT !.misses = <<>>]
  <2>1. /\ IsState(s) /\ s.core \in [CoreIds -> Cores] /\ CacheOK(c) /\ MemOK(s.mem)
        /\ s.unsaved \subseteq Lines /\ Kept(c, s.unsaved)
    BY DEF StateOK, PartsOK
  <2>2. /\ IsState(none) /\ none.core = s.core /\ none.llc = d /\ none.mem = s.mem /\ none.unsaved = s.unsaved
    BY <2>1 DEF IsState
  <2> HIDE DEF none
  <2>3. IsCache(c) /\ c.misses \in Seq(Misses) /\ c.hits \in Seq(HitsOf)
    BY <2>1 DEF CacheOK
  <2>4. IsCache(d) /\ d.sets = c.sets /\ d.mshrs = c.mshrs /\ d.misses = <<>> /\ d.hits = c.hits
    BY <2>3 DEF IsCache
  <2> HIDE DEF d
  <2>5. CacheOK(d)
    BY <2>1, <2>3, <2>4, EmptySeq, ListsChanged
  <2>6. \A l : Leaves(l, c.misses) => Due(l, m, 1)
    BY DEF Leaves, Due
  <2>7. KeptTo(d, s.unsaved, m, 1)
    BY <2>1, <2>4, <2>6 DEF Kept, KeptTo
  <2> QED BY <2>1, <2>2, <2>5, <2>7 DEF PartsOK
<1> HIDE DEF none, sent
<1>5. 0 \in G
  BY <1>1, <1>2, <1>4 DEF Sends
<1>6. \A i \in 0 .. n - 1 : i \in G => i + 1 \in G
  <2> SUFFICES ASSUME NEW i \in 0 .. n - 1, i \in G PROVE i + 1 \in G
    OBVIOUS
  <2>1. i \in 0 .. n /\ i + 1 \in 1 .. n /\ i + 1 \in 0 .. n /\ i + 1 # 0 /\ (i + 1) - 1 = i /\ i + 1 \in Nat
    BY <1>1
  <2>2. PartsOK(sent[i]) /\ KeptTo(sent[i].llc, sent[i].unsaved, m, i + 1)
    BY <2>1
  <2>3. sent[i + 1] = SendMiss(sent[i], m[i + 1])
    BY <1>2, <2>1 DEF Sends
  <2> HIDE DEF m
  <2>4. PartsOK(sent[i + 1]) /\ KeptTo(sent[i + 1].llc, sent[i + 1].unsaved, m, (i + 1) + 1)
    BY <1>1, <2>1, <2>2, <2>3, SendMissOK
  <2> QED BY <2>1, <2>4
<1>7. n \in G
  <2>1. n \in Nat /\ 0 \in G /\ \A i \in 0 .. n - 1 : i \in G => i + 1 \in G
    BY <1>1, <1>5, <1>6
  <2> HIDE DEF G, m, n
  <2>2. \A i \in 0 .. n : i \in G
    BY <2>1, Climb, Zenon
  <2> QED BY <2>1, <2>2
<1>8. PartsOK(sent[n]) /\ KeptTo(sent[n].llc, sent[n].unsaved, m, n + 1)
  BY <1>1, <1>7
<1>9. \A l : ~Due(l, m, n + 1)
  BY <1>1 DEF Due
<1>10. Kept(sent[n].llc, sent[n].unsaved)
  BY <1>8, <1>9 DEF KeptTo, Kept
<1> QED BY <1>3, <1>8, <1>10 DEF StateOK

\* One hit is answered or waits.
LEMMA AnswerHitOK ==
  ASSUME NEW s, StateOK(s), NEW hit \in HitsOf
  PROVE  StateOK(AnswerHit(s, hit))
<1> DEFINE c == s.llc
           d == [c EXCEPT !.waiting = (hit.addr :> <<[core |-> hit.core, addr |-> hit.addr]>>) @@ @]
           e == [c EXCEPT !.hits = Append(@, hit)]
           p == [s EXCEPT !.llc.waiting = (hit.addr :> <<[core |-> hit.core, addr |-> hit.addr]>>) @@ @]
           q == [s EXCEPT !.llc.hits = Append(@, hit)]
<1>1. /\ IsState(s) /\ s.core \in [CoreIds -> Cores] /\ CacheOK(c) /\ MemOK(s.mem)
      /\ s.unsaved \subseteq Lines /\ Kept(c, s.unsaved)
  BY DEF StateOK, PartsOK
<1>2. IsCache(c) /\ c.misses \in Seq(Misses) /\ c.hits \in Seq(HitsOf)
  BY <1>1 DEF CacheOK
<1>3. AnswerHit(s, hit) = IF hit.left = 0 THEN Receive(p, hit.addr) ELSE q
  BY DEF AnswerHit
<1>4. /\ IsState(p) /\ p.core = s.core /\ p.llc = d /\ p.mem = s.mem /\ p.unsaved = s.unsaved
      /\ IsState(q) /\ q.core = s.core /\ q.llc = e /\ q.mem = s.mem /\ q.unsaved = s.unsaved
  BY <1>1 DEF IsState
<1>5. /\ IsCache(d) /\ d.sets = c.sets /\ d.mshrs = c.mshrs /\ d.misses = c.misses /\ d.hits = c.hits
      /\ IsCache(e) /\ e.sets = c.sets /\ e.mshrs = c.mshrs /\ e.misses = c.misses /\ e.hits = Append(c.hits, hit)
  BY <1>2 DEF IsCache
<1> HIDE DEF c, d, e, p, q
<1>6. CacheOK(d) /\ CacheOK(e)
  <2>1. d.hits \in Seq(HitsOf) /\ e.hits \in Seq(HitsOf)
    BY <1>2, <1>5
  <2>2. d.misses \in Seq(Misses) /\ e.misses \in Seq(Misses)
    BY <1>2, <1>5
  <2> QED BY <1>1, <1>5, <2>1, <2>2, ListsChanged
<1>7. Kept(d, s.unsaved) /\ Kept(e, s.unsaved)
  BY <1>1, <1>5 DEF Kept
<1>8. StateOK(p) /\ StateOK(q)
  BY <1>1, <1>4, <1>6, <1>7 DEF StateOK, PartsOK
<1>9. hit.addr \in Nat
  BY DEF HitsOf
<1> QED BY <1>3, <1>8, <1>9, ReceiveOK

\* Hits.
LEMMA AnswerHitsOK ==
  ASSUME NEW s, StateOK(s)
  PROVE  StateOK(AnswerHits(s))
<1> DEFINE h == s.llc.hits
           n == Len(h)
           none == [s EXCEPT !.llc.hits = <<>>]
           answered == CHOOSE up : Answers(none, h, n, up)
           G == {i \in Nat : i \in 0 .. n => StateOK(answered[i])}
<1>1. h \in Seq(HitsOf) /\ n \in Nat
  BY LenProperties DEF StateOK, PartsOK, CacheOK
<1>2. Answers(none, h, n, answered)
  <2>1. n \in Nat
    BY <1>1
  <2> HIDE DEF none, h, n
  <2>2. \E up : Answers(none, h, n, up)
    BY <2>1, AnswersExists
  <2> QED BY <2>2
<1>3. AnswerHits(s) = answered[n]
  BY DEF AnswerHits, Answers
<1>4. StateOK(none)
  <2> DEFINE c == s.llc
             d == [c EXCEPT !.hits = <<>>]
  <2>1. /\ IsState(s) /\ s.core \in [CoreIds -> Cores] /\ CacheOK(c) /\ MemOK(s.mem)
        /\ s.unsaved \subseteq Lines /\ Kept(c, s.unsaved)
    BY DEF StateOK, PartsOK
  <2>2. /\ IsState(none) /\ none.core = s.core /\ none.llc = d /\ none.mem = s.mem /\ none.unsaved = s.unsaved
    BY <2>1 DEF IsState
  <2> HIDE DEF none
  <2>3. IsCache(c) /\ c.misses \in Seq(Misses)
    BY <2>1 DEF CacheOK
  <2>4. IsCache(d) /\ d.sets = c.sets /\ d.mshrs = c.mshrs /\ d.misses = c.misses /\ d.hits = <<>>
    BY <2>3 DEF IsCache
  <2> HIDE DEF d
  <2>5. CacheOK(d)
    BY <2>1, <2>3, <2>4, EmptySeq, ListsChanged
  <2>6. Kept(d, s.unsaved)
    BY <2>1, <2>4 DEF Kept
  <2> QED BY <2>1, <2>2, <2>5, <2>6 DEF StateOK, PartsOK
<1> HIDE DEF none, answered
<1>5. 0 \in G
  BY <1>1, <1>2, <1>4 DEF Answers
<1>6. \A i \in 0 .. n - 1 : i \in G => i + 1 \in G
  <2> SUFFICES ASSUME NEW i \in 0 .. n - 1, i \in G PROVE i + 1 \in G
    OBVIOUS
  <2>1. i \in 0 .. n /\ i + 1 \in 1 .. n /\ i + 1 \in 0 .. n /\ i + 1 # 0 /\ (i + 1) - 1 = i /\ i + 1 \in Nat
    BY <1>1
  <2>2. StateOK(answered[i]) /\ h[i + 1] \in HitsOf
    BY <1>1, <2>1, ElementOfSeq
  <2>3. answered[i + 1] = AnswerHit(answered[i], h[i + 1])
    BY <1>2, <2>1 DEF Answers
  <2>4. StateOK(answered[i + 1])
    BY <2>2, <2>3, AnswerHitOK
  <2> QED BY <2>1, <2>4
<1>7. n \in G
  <2>1. n \in Nat /\ 0 \in G /\ \A i \in 0 .. n - 1 : i \in G => i + 1 \in G
    BY <1>1, <1>5, <1>6
  <2> HIDE DEF G, h, n
  <2>2. \A i \in 0 .. n : i \in G
    BY <2>1, Climb, Zenon
  <2> QED BY <2>1, <2>2
<1> QED BY <1>1, <1>3, <1>7

\* The cache's whole cycle.
LEMMA LlcTickOK ==
  ASSUME NEW s, StateOK(s)
  PROVE  StateOK(LlcTick(s))
<1> DEFINE p == [s EXCEPT !.llc = Aged(@)]
<1>1. /\ IsState(s) /\ s.core \in [CoreIds -> Cores] /\ CacheOK(s.llc) /\ MemOK(s.mem)
      /\ s.unsaved \subseteq Lines /\ Kept(s.llc, s.unsaved)
  BY DEF StateOK, PartsOK
<1>2. /\ IsState(p) /\ p.core = s.core /\ p.llc = Aged(s.llc) /\ p.mem = s.mem /\ p.unsaved = s.unsaved
  BY <1>1 DEF IsState
<1>3. LlcTick(s) = AnswerHits(SendMisses(p))
  BY DEF LlcTick
<1> HIDE DEF p
<1>4. CacheOK(Aged(s.llc)) /\ Kept(Aged(s.llc), s.unsaved)
  BY <1>1, AgedOK
<1>5. StateOK(p)
  BY <1>1, <1>2, <1>4 DEF StateOK, PartsOK
<1> QED BY <1>3, <1>5, SendMissesOK, AnswerHitsOK

-----------------------------------------------------------------------------
(* A core's cycle. *)

Traces == Seq(Insts) \ {<<>>}

\* The next line of the trace.
LEMMA NextInstOK ==
  ASSUME NEW c \in Cores, NEW trace \in Traces
  PROVE  NextInst(c, trace) \in Cores
<1> DEFINE inst == IF c.taken < MaxLines THEN trace[(c.taken % Len(trace)) + 1] ELSE Inst(0, NoAddr, NoAddr)
           n == Min({MaxLines, c.taken + 1})
<1>1. c.taken \in 0 .. MaxLines /\ MaxLines \in Nat
  BY Sizes DEF Cores
<1>2. inst.bubbles \in Nat /\ inst.load \in Addrs /\ inst.store \in Addrs
  <2>1. CASE c.taken < MaxLines
    <3>1. trace \in Seq(Insts) /\ Len(trace) \in Nat /\ Len(trace) # 0
      BY LenProperties, EmptySeq DEF Traces
    <3>2. (c.taken % Len(trace)) + 1 \in 1 .. Len(trace)
      BY <1>1, <3>1
    <3>3. trace[(c.taken % Len(trace)) + 1] \in Insts
      BY <3>1, <3>2, ElementOfSeq
    <3> QED BY <2>1, <3>3 DEF Insts, Addrs
  <2>2. CASE ~(c.taken < MaxLines)
    BY <2>2 DEF Inst, Addrs
  <2> QED BY <2>1, <2>2
<1>3. n \in 0 .. MaxLines
  <2>1. {MaxLines, c.taken + 1} \subseteq Nat /\ {MaxLines, c.taken + 1} # {}
    BY <1>1
  <2>2. n \in {MaxLines, c.taken + 1} /\ n <= MaxLines
    BY <2>1, MinIn
  <2> HIDE DEF n
  <2> QED BY <1>1, <2>2
<1>4. NextInst(c, trace) = [c EXCEPT !.bubbles = inst.bubbles, !.load = inst.load, !.store = inst.store, !.taken = n]
  BY DEF NextInst
<1> HIDE DEF inst, n
<1> QED BY <1>2, <1>3, <1>4 DEF Cores

\* Retiring.
LEMMA RetireOK ==
  ASSUME NEW c \in Cores
  PROVE  Retire(c) \in Cores
<1> DEFINE w == c.window
           S == {n \in 0 .. Ipc : n <= Len(w) /\ \A i \in 1 .. n : w[i].ready}
           k == ReadyAtTail(w)
           v == SubSeq(w, k + 1, Len(w))
           r == Min({Expected, c.retired + k})
<1>1. w \in Seq(Entries) /\ Len(w) \in Nat /\ Len(w) <= Depth
  BY Windows
<1>2. c.retired \in 0 .. Expected
  BY DEF Cores
<1> HIDE DEF w
<1>3. k \in 0 .. Ipc /\ k <= Len(w)
  <2>1. S \subseteq 0 .. Ipc /\ 0 \in S
    BY <1>1, Sizes
  <2>2. Max(S) \in S
    <3> HIDE DEF S
    <3> QED BY <2>1, MaxIn, Sizes
  <2>3. k = Max(S)
    BY DEF ReadyAtTail
  <2> QED BY <2>2, <2>3
<1> HIDE DEF k
<1>4. v \in Seq(Entries) /\ Len(v) <= Depth
  <2>1. /\ k + 1 \in Int /\ Len(w) \in Int /\ \A i \in k + 1 .. Len(w) : i \in 1 .. Len(w)
    BY <1>1, <1>3
  <2>2. v \in Seq(Entries) /\ Len(v) = IF k + 1 <= Len(w) THEN Len(w) - (k + 1) + 1 ELSE 0
    BY <1>1, <1>3, SubSeqProperties
  <2> QED BY <1>1, <1>3, <2>2, Sizes
<1>5. r \in 0 .. Expected
  <2>1. {Expected, c.retired + k} \subseteq Nat /\ {Expected, c.retired + k} # {}
    BY <1>2, <1>3, Sizes
  <2>2. r \in {Expected, c.retired + k} /\ r <= Expected
    BY <2>1, MinIn
  <2> HIDE DEF r
  <2> QED BY <2>1, <2>2, Sizes
<1>6. Retire(c) = [c EXCEPT !.window = v, !.retired = r]
  BY DEF Retire, k, w
<1> HIDE DEF v, r
<1> QED BY <1>4, <1>5, <1>6 DEF Cores

\* Non-memory instructions.
LEMMA BubblesOK ==
  ASSUME NEW c \in Cores
  PROVE  IssueBubbles(c) \in Cores
<1> DEFINE w == c.window
           n == Bubbles(c)
           more == [i \in 1 .. n |-> [ready |-> TRUE, addr |-> NoAddr]]
           v == w \o more
<1>1. w \in Seq(Entries) /\ Len(w) \in Nat /\ Len(w) <= Depth /\ c.bubbles \in Nat
  BY Windows DEF Cores
<1>2. n \in Nat /\ n <= c.bubbles /\ n <= Depth - Len(w)
  <2> DEFINE S == {c.bubbles, Ipc, Depth - Len(w)}
  <2>1. S \subseteq Nat /\ S # {}
    BY <1>1, Sizes
  <2>2. n = Min(S)
    BY DEF Bubbles
  <2>3. n \in S /\ \A y \in S : n <= y
    BY <2>1, <2>2, MinIn
  <2> QED BY <2>1, <2>3
<1> HIDE DEF n
<1>3. more \in Seq(Entries) /\ Len(more) = n
  <2>1. more \in [1 .. n -> Entries]
    BY DEF Entries, Addrs
  <2> HIDE DEF more
  <2> QED BY <1>2, <2>1, FunctionSeq
<1>4. IssueBubbles(c) = [c EXCEPT !.window = v, !.bubbles = c.bubbles - n]
  BY DEF IssueBubbles, n
<1> HIDE DEF w, more
<1>5. v \in Seq(Entries) /\ Len(v) <= Depth
  <2>1. v \in Seq(Entries) /\ Len(v) = Len(w) + Len(more)
    BY <1>1, <1>3, ConcatProperties
  <2> QED BY <1>1, <1>2, <1>3, <2>1, Sizes
<1>6. c.bubbles - n \in Nat
  BY <1>1, <1>2
<1> HIDE DEF v
<1> QED BY <1>4, <1>5, <1>6 DEF Cores

\* One core of the state.
LEMMA PutOK ==
  ASSUME NEW s, StateOK(s), NEW id \in CoreIds, NEW c \in Cores
  PROVE  /\ StateOK(Put(s, id, c)) /\ IsState(Put(s, id, c))
         /\ Put(s, id, c).llc = s.llc /\ Put(s, id, c).unsaved = s.unsaved
<1> DEFINE r == Put(s, id, c)
<1>1. /\ IsState(s) /\ s.core \in [CoreIds -> Cores] /\ CacheOK(s.llc) /\ MemOK(s.mem)
      /\ s.unsaved \subseteq Lines /\ Kept(s.llc, s.unsaved)
  BY DEF StateOK, PartsOK
<1>2. /\ IsState(r) /\ r.core = [s.core EXCEPT ![id] = c] /\ r.llc = s.llc /\ r.mem = s.mem
      /\ r.unsaved = s.unsaved
  BY <1>1 DEF Put, IsState
<1> HIDE DEF r
<1>3. r.core \in [CoreIds -> Cores]
  BY <1>1, <1>2
<1>4. StateOK(r)
  BY <1>1, <1>2, <1>3 DEF StateOK, PartsOK
<1> QED BY <1>2, <1>4 DEF r

\* A state whose cache has taken a request.
LEMMA SentOK ==
  ASSUME NEW s, StateOK(s), NEW id \in CoreIds, NEW a \in Nat, NEW store \in BOOLEAN, Accepts(s.llc, a),
         NEW r, IsState(r), r.core = s.core, r.mem = s.mem,
         r.llc = LlcSend(s.llc, Request(a, id, store)), r.unsaved = Stores(s.unsaved, a, store)
  PROVE  StateOK(r)
<1> DEFINE req == Request(a, id, store)
<1>1. /\ s.core \in [CoreIds -> Cores] /\ CacheOK(s.llc) /\ MemOK(s.mem)
      /\ s.unsaved \subseteq Lines /\ Kept(s.llc, s.unsaved)
  BY DEF StateOK, PartsOK
<1>2. req.addr = a /\ req.core = id /\ req.store = store /\ id \in Nat
  BY DEF Request, CoreIds
<1> HIDE DEF req
<1>3. CacheOK(LlcSend(s.llc, req)) /\ Kept(LlcSend(s.llc, req), Stores(s.unsaved, a, store))
  BY <1>1, <1>2, SendKeeps
<1>4. Stores(s.unsaved, a, store) \subseteq Lines
  BY <1>1, LineTypes DEF Stores
<1> QED BY <1>1, <1>3, <1>4 DEF StateOK, PartsOK, req

\* The load, the store.
LEMMA LoadOK ==
  ASSUME NEW s, StateOK(s), NEW id \in CoreIds, NEW c \in Cores, c.load # NoAddr,
         NEW n, traces[id] \in Traces
  PROVE  StateOK(IssueLoad(s, id, c, n))
<1>1. CASE n = Ipc \/ Len(c.window) = Depth \/ ~Accepts(s.llc, c.load)
  BY <1>1, PutOK DEF IssueLoad
<1>2. CASE ~(n = Ipc \/ Len(c.window) = Depth \/ ~Accepts(s.llc, c.load))
  <2> DEFINE w == Append(c.window, [ready |-> FALSE, addr |-> c.load])
             d == [c EXCEPT !.window = w, !.load = NoAddr]
             e == IF c.store = NoAddr THEN NextInst(d, traces[id]) ELSE d
             p == Put(s, id, e)
             r == [p EXCEPT !.llc = LlcSend(@, Request(c.load, id, FALSE))]
  <2>1. /\ c.window \in Seq(Entries) /\ Len(c.window) \in Nat /\ Len(c.window) <= Depth
        /\ c.load \in Addrs
    BY Windows DEF Cores
  <2>2. c.load \in Nat
    BY <2>1 DEF Addrs
  <2>3. w \in Seq(Entries) /\ Len(w) <= Depth
    <3>1. [ready |-> FALSE, addr |-> c.load] \in Entries
      BY <2>1 DEF Entries
    <3>2. w \in Seq(Entries) /\ Len(w) = Len(c.window) + 1
      BY <2>1, <3>1, AppendProperties
    <3> QED BY <1>2, <2>1, <3>2, Sizes
  <2> HIDE DEF w
  <2>4. d \in Cores
    BY <2>3 DEF Cores, Addrs
  <2> HIDE DEF d
  <2>5. e \in Cores
    BY <2>4, NextInstOK
  <2> HIDE DEF e
  <2>6. StateOK(p) /\ IsState(p) /\ p.llc = s.llc /\ p.unsaved = s.unsaved
    BY <2>5, PutOK
  <2> HIDE DEF p
  <2>7. /\ IsState(r) /\ r.core = p.core /\ r.mem = p.mem /\ r.unsaved = Stores(p.unsaved, c.load, FALSE)
        /\ r.llc = LlcSend(p.llc, Request(c.load, id, FALSE))
    BY <2>6 DEF IsState, Stores
  <2>8. IssueLoad(s, id, c, n) = r
    BY <1>2 DEF IssueLoad, p, e, d, w
  <2> HIDE DEF r
  <2>9. Accepts(p.llc, c.load)
    BY <1>2, <2>6
  <2> QED BY <2>2, <2>6, <2>7, <2>8, <2>9, SentOK
<1> QED BY <1>1, <1>2

LEMMA StoreOK ==
  ASSUME NEW s, StateOK(s), NEW id \in CoreIds, NEW c \in Cores, c.store # NoAddr, traces[id] \in Traces
  PROVE  StateOK(IssueStore(s, id, c))
<1>1. CASE ~Accepts(s.llc, c.store)
  BY <1>1, PutOK DEF IssueStore
<1>2. CASE Accepts(s.llc, c.store)
  <2> DEFINE e == NextInst(c, traces[id])
             p == Put(s, id, e)
             r == [p EXCEPT !.llc = LlcSend(@, Request(c.store, id, TRUE)), !.unsaved = @ \cup {LineOf(c.store)}]
  <2>1. c.store \in Nat
    BY DEF Cores, Addrs
  <2>2. e \in Cores
    BY NextInstOK
  <2> HIDE DEF e
  <2>3. StateOK(p) /\ IsState(p) /\ p.llc = s.llc /\ p.unsaved = s.unsaved
    BY <2>2, PutOK
  <2> HIDE DEF p
  <2>4. /\ IsState(r) /\ r.core = p.core /\ r.mem = p.mem /\ r.unsaved = Stores(p.unsaved, c.store, TRUE)
        /\ r.llc = LlcSend(p.llc, Request(c.store, id, TRUE))
    BY <2>3 DEF IsState, Stores
  <2>5. IssueStore(s, id, c) = r
    BY <1>2 DEF IssueStore, p, e
  <2> HIDE DEF r
  <2>6. Accepts(p.llc, c.store)
    BY <1>2, <2>3
  <2> QED BY <2>1, <2>3, <2>4, <2>5, <2>6, SentOK
<1> QED BY <1>1, <1>2

\* One core.
LEMMA CoreTickOK ==
  ASSUME NEW s, StateOK(s), NEW id \in CoreIds, traces[id] \in Traces
  PROVE  StateOK(CoreTick(s, id))
<1> DEFINE c == Retire(s.core[id])
           d == IssueBubbles(c)
<1>1. s.core[id] \in Cores
  BY DEF StateOK, PartsOK
<1>2. c \in Cores
  BY <1>1, RetireOK
<1>3. d \in Cores /\ d.bubbles \in Nat
  <2> HIDE DEF c
  <2>1. d \in Cores
    BY <1>2, BubblesOK
  <2> QED BY <2>1 DEF Cores
<1>4. CoreTick(s, id) = CASE d.bubbles > 0 -> Put(s, id, d)
                          [] d.bubbles = 0 /\ d.load # NoAddr -> IssueLoad(s, id, d, Bubbles(c))
                          [] d.bubbles = 0 /\ d.load = NoAddr /\ d.store # NoAddr -> IssueStore(s, id, d)
                          [] OTHER -> Put(s, id, d)
  BY DEF CoreTick
<1> HIDE DEF c, d
<1>5. StateOK(Put(s, id, d))
  BY <1>3, PutOK
<1>6. d.load # NoAddr => StateOK(IssueLoad(s, id, d, Bubbles(c)))
  BY <1>3, LoadOK
<1>7. d.store # NoAddr => StateOK(IssueStore(s, id, d))
  BY <1>3, StoreOK
<1> QED BY <1>3, <1>4, <1>5, <1>6, <1>7

\* The cores, in their order.
LEMMA CoreTicksOK ==
  ASSUME NEW s, StateOK(s), traces \in [CoreIds -> Traces]
  PROVE  StateOK(CoreTicks(s))
<1> DEFINE ticked == CHOOSE up : Ticks(s, NumCores, up)
           G == {id \in Nat : id \in 0 .. NumCores => StateOK(ticked[id])}
<1>1. Ticks(s, NumCores, ticked)
  <2>1. \E up : Ticks(s, NumCores, up)
    BY Sizes, TicksExists
  <2> QED BY <2>1
<1>2. CoreTicks(s) = ticked[NumCores]
  BY DEF CoreTicks, Ticks
<1> HIDE DEF ticked
<1>3. 0 \in G
  BY <1>1, Sizes DEF Ticks
<1>4. \A id \in 0 .. NumCores - 1 : id \in G => id + 1 \in G
  <2> SUFFICES ASSUME NEW id \in 0 .. NumCores - 1, id \in G PROVE id + 1 \in G
    OBVIOUS
  <2>1. id \in 0 .. NumCores /\ id + 1 \in CoreIds /\ id + 1 \in 0 .. NumCores /\ id + 1 # 0
        /\ (id + 1) - 1 = id /\ id + 1 \in Nat
    BY Sizes DEF CoreIds
  <2>2. StateOK(ticked[id]) /\ traces[id + 1] \in Traces
    BY <2>1
  <2>3. ticked[id + 1] = CoreTick(ticked[id], id + 1)
    BY <1>1, <2>1 DEF Ticks
  <2>4. StateOK(ticked[id + 1])
    BY <2>1, <2>2, <2>3, CoreTickOK
  <2> QED BY <2>1, <2>4
<1>5. NumCores \in G
  <2>1. NumCores \in Nat /\ 0 \in G /\ \A id \in 0 .. NumCores - 1 : id \in G => id + 1 \in G
    BY <1>3, <1>4, Sizes
  <2> HIDE DEF G
  <2>2. \A id \in 0 .. NumCores : id \in G
    BY <2>1, Climb, Zenon
  <2> QED BY <2>1, <2>2
<1> QED BY <1>2, <1>5, Sizes

-----------------------------------------------------------------------------
(* The theorems. *)

IInv == traces \in [CoreIds -> Traces] /\ StateOK(State)

\* The initial state.
LEMMA InitOK == PowersOfTwo /\ Init => IInv
<1> SUFFICES ASSUME PowersOfTwo, Init PROVE IInv
  OBVIOUS
<1>1. traces \in [CoreIds -> Traces]
  BY Sizes DEF Init, Traces
<1>2. core \in [CoreIds -> Cores]
  <2> DEFINE c == [window |-> <<>>, bubbles |-> 0, load |-> NoAddr, store |-> NoAddr, taken |-> 0, retired |-> 0]
  <2>1. <<>> \in Seq(Entries) /\ Len(<<>>) = 0
    BY EmptySeq
  <2>2. <<>> \in {w \in Seq(Entries) : Len(w) <= Depth}
    BY <2>1, Sizes
  <2>3. c \in Cores
    BY <2>2, Sizes DEF Cores, Addrs
  <2>4. core = [id \in CoreIds |-> NextInst(c, traces[id])]
    BY DEF Init
  <2> HIDE DEF c
  <2>5. \A id \in CoreIds : NextInst(c, traces[id]) \in Cores
    BY <1>1, <2>3, NextInstOK
  <2> QED BY <2>4, <2>5
<1>3. CacheOK(llc)
  <2> DEFINE c == EmptyLlc
  <2>1. /\ IsCache(c) /\ c.misses = <<>> /\ c.hits = <<>> /\ c.mshrs = <<>>
        /\ DOMAIN c.sets = SetIds /\ \A k \in SetIds : c.sets[k] = <<>>
    BY DEF EmptyLlc, IsCache, SetIds
  <2>2. /\ <<>> \in Seq(Line) /\ <<>> \in Seq(Misses) /\ <<>> \in Seq(HitsOf) /\ Len(<<>>) = 0
        /\ DOMAIN <<>> = {}
    BY EmptySeq
  <2> HIDE DEF c
  <2>3. \A k \in SetIds : GoodSet(c.sets[k], k)
    <3>1. \A k : GoodSet(<<>>, k)
      BY <2>2, Sizes DEF GoodSet
    <3> QED BY <2>1, <3>1
  <2>4. MshrsMatch(c.mshrs, c.sets)
    <3>1. InFlight(<<>>) = {}
      BY <2>2 DEF InFlight
    <3>2. \A l \in Lines : InFlight(c.sets[Place(l)]) = {}
      BY <2>1, <3>1, LineTypes
    <3>3. DOMAIN c.mshrs = {}
      BY <2>1, <2>2
    <3>4. IsFiniteSet(DOMAIN c.mshrs) /\ Cardinality(DOMAIN c.mshrs) = 0
      BY <3>3, FS_EmptySet
    <3>5. Cardinality(DOMAIN c.mshrs) <= NumMshrs
      BY <3>4, Sizes
    <3> QED BY <3>2, <3>3, <3>4, <3>5 DEF MshrsMatch
  <2>5. CacheOK(c)
    BY <2>1, <2>2, <2>3, <2>4, Told DEF CacheOK
  <2> QED BY <2>5 DEF Init, c
<1>4. MemOK(mem) /\ unsaved = {}
  <2>1. /\ <<>> \in Seq(MemReqs) /\ <<>> \in Seq(Nat) /\ Len(<<>>) = 0 /\ 0 <= BufferSize + 1
    BY EmptySeq, Sizes
  <2> QED BY <2>1 DEF Init, EmptyMem, MemOK, Buffered
<1> QED BY <1>1, <1>2, <1>3, <1>4 DEF IInv, State, StateOK, PartsOK, IsState, Kept

\* What a step makes of the state.
LEMMA BecomeOK ==
  ASSUME NEW s, StateOK(s), Become(s)
  PROVE  StateOK(State)'
<1>1. /\ s.core \in [CoreIds -> Cores] /\ CacheOK(s.llc) /\ MemOK(s.mem)
      /\ s.unsaved \subseteq Lines /\ Kept(s.llc, s.unsaved)
  BY DEF StateOK, PartsOK
<1>2. core' = s.core /\ llc' = s.llc /\ mem' = s.mem /\ unsaved' = s.unsaved
  BY DEF Become
<1> QED BY <1>1, <1>2 DEF State, StateOK, PartsOK, IsState

LEMMA NextOK == IInv /\ [Next]_vars => IInv'
<1> SUFFICES ASSUME IInv, [Next]_vars PROVE IInv'
  OBVIOUS
<1>1. traces \in [CoreIds -> Traces] /\ StateOK(State)
  BY DEF IInv
<1>2. CASE Tick
  <2>1. StateOK(LlcTick(State))
    BY <1>1, LlcTickOK
  <2>2. StateOK(CoreTicks(LlcTick(State)))
    BY <1>1, <2>1, CoreTicksOK
  <2>3. StateOK(State)'
    BY <1>2, <2>2, BecomeOK DEF Tick
  <2> QED BY <1>1, <1>2, <2>3 DEF IInv, Tick
<1>0. /\ core \in [CoreIds -> Cores] /\ CacheOK(llc) /\ MemOK(mem)
      /\ unsaved \subseteq Lines /\ Kept(llc, unsaved)
  BY <1>1 DEF State, StateOK, PartsOK
<1>7. ASSUME MemOK(mem'), UNCHANGED <<traces, core, llc, unsaved>> PROVE IInv'
  BY <1>0, <1>1, <1>7 DEF IInv, State, StateOK, PartsOK, IsState
<1>8. /\ DOMAIN mem = {"reads", "writes", "active", "pending"} /\ mem.pending \in Seq(Nat)
      /\ Buffered(mem.reads) /\ Buffered(mem.writes) /\ Buffered(mem.active)
  BY <1>0 DEF MemOK
<1>9. \A b \in Buffers : Buffered(mem[b])
  BY <1>8 DEF Buffers
<1>3. ASSUME NEW b \in {"reads", "writes"}, NEW i, Open(b, i) PROVE IInv'
  <2> DEFINE q == RemoveAt(mem[b], i)
             r == Append(mem.active, mem[b][i])
  <2>1. /\ i \in DOMAIN mem[b] /\ Len(mem.active) <= BufferSize
        /\ mem' = [mem EXCEPT ![b] = q, !.active = r] /\ UNCHANGED <<traces, core, llc, unsaved>>
    BY <1>3 DEF Open
  <2>2. Buffered(q) /\ mem[b][i] \in MemReqs
    BY <1>9, <2>1, BufferedLess DEF Buffers
  <2>3. Buffered(r)
    BY <1>8, <2>1, <2>2, BufferedMore
  <2> HIDE DEF q, r
  <2>4. MemOK(mem')
    <3>1. CASE b = "reads"
      <4>1. /\ DOMAIN mem' = {"reads", "writes", "active", "pending"} /\ mem'.reads = q
            /\ mem'.writes = mem.writes /\ mem'.active = r /\ mem'.pending = mem.pending
        BY <1>8, <2>1, <3>1
      <4> QED BY <1>8, <2>2, <2>3, <4>1 DEF MemOK
    <3>2. CASE b = "writes"
      <4>1. /\ DOMAIN mem' = {"reads", "writes", "active", "pending"} /\ mem'.reads = mem.reads
            /\ mem'.writes = q /\ mem'.active = r /\ mem'.pending = mem.pending
        BY <1>8, <2>1, <3>2
      <4> QED BY <1>8, <2>2, <2>3, <4>1 DEF MemOK
    <3> QED BY <3>1, <3>2
  <2> QED BY <1>7, <2>1, <2>4
<1>4. ASSUME NEW b \in Buffers, NEW i, Serve(b, i) PROVE IInv'
  <2> DEFINE q == RemoveAt(mem[b], i)
             p == IF mem[b][i].op = "READ" THEN Append(mem.pending, mem[b][i].addr) ELSE mem.pending
  <2>1. /\ i \in DOMAIN mem[b] /\ mem' = [mem EXCEPT ![b] = q, !.pending = p]
        /\ UNCHANGED <<traces, core, llc, unsaved>>
    BY <1>4 DEF Serve
  <2>2. Buffered(q) /\ mem[b][i] \in MemReqs
    BY <1>9, <2>1, BufferedLess
  <2>3. p \in Seq(Nat)
    <3>1. mem[b][i].addr \in Nat
      BY <2>2 DEF MemReqs
    <3> QED BY <1>8, <3>1, AppendProperties
  <2> HIDE DEF q, p
  <2>4. MemOK(mem')
    <3>1. CASE b = "reads"
      <4>1. /\ DOMAIN mem' = {"reads", "writes", "active", "pending"} /\ mem'.reads = q
            /\ mem'.writes = mem.writes /\ mem'.active = mem.active /\ mem'.pending = p
        BY <1>8, <2>1, <3>1
      <4> QED BY <1>8, <2>2, <2>3, <4>1 DEF MemOK
    <3>2. CASE b = "writes"
      <4>1. /\ DOMAIN mem' = {"reads", "writes", "active", "pending"} /\ mem'.reads = mem.reads
            /\ mem'.writes = q /\ mem'.active = mem.active /\ mem'.pending = p
        BY <1>8, <2>1, <3>2
      <4> QED BY <1>8, <2>2, <2>3, <4>1 DEF MemOK
    <3>3. CASE b = "active"
      <4>1. /\ DOMAIN mem' = {"reads", "writes", "active", "pending"} /\ mem'.reads = mem.reads
            /\ mem'.writes = mem.writes /\ mem'.active = q /\ mem'.pending = p
        BY <1>8, <2>1, <3>3
      <4> QED BY <1>8, <2>2, <2>3, <4>1 DEF MemOK
    <3> QED BY <3>1, <3>2, <3>3 DEF Buffers
  <2> QED BY <1>7, <2>1, <2>4
<1>6. CASE Answer
  <2> DEFINE p == Tail(mem.pending)
             m == [mem EXCEPT !.pending = p]
             s == [State EXCEPT !.mem.pending = Tail(@)]
  <2>1. mem.pending # <<>> /\ Become(Receive(s, Head(mem.pending))) /\ UNCHANGED traces
    BY <1>6 DEF Answer
  <2>2. Head(mem.pending) \in Nat /\ p \in Seq(Nat)
    BY <1>8, <2>1
  <2>3. IsState(s) /\ s.core = core /\ s.llc = llc /\ s.mem = m /\ s.unsaved = unsaved
    BY DEF State, IsState
  <2> HIDE DEF p, s
  <2>4. /\ DOMAIN m = {"reads", "writes", "active", "pending"} /\ m.reads = mem.reads
        /\ m.writes = mem.writes /\ m.active = mem.active /\ m.pending = p
    BY <1>8
  <2> HIDE DEF m
  <2>5. MemOK(m)
    BY <1>8, <2>2, <2>4 DEF MemOK
  <2>6. StateOK(s)
    BY <1>0, <2>3, <2>5 DEF StateOK, PartsOK
  <2>7. StateOK(Receive(s, Head(mem.pending)))
    BY <2>2, <2>6, ReceiveOK
  <2>8. StateOK(State)'
    BY <2>1, <2>7, BecomeOK
  <2> QED BY <1>1, <2>1, <2>8 DEF IInv
<1>5. CASE UNCHANGED vars
  BY <1>1, <1>5 DEF vars, IInv, State, StateOK, PartsOK, IsState
<1> QED BY <1>2, <1>3, <1>4, <1>5, <1>6 DEF Next

\* The invariant holds in every state.
LEMMA Invariant == PowersOfTwo /\ Spec => []IInv
BY InitOK, NextOK, PTL DEF Spec

\* The lines of the cache, by set and way.
LEMMA LinesOf ==
  ASSUME IInv
  PROVE  \A l : l \in AllLines(llc) <=> \E k \in SetIds : \E w \in 1 .. Len(llc.sets[k]) : l = llc.sets[k][w]
<1>1. DOMAIN llc.sets = SetIds /\ \A k \in SetIds : GoodSet(llc.sets[k], k)
  BY DEF IInv, State, StateOK, PartsOK, CacheOK
<1>2. \A k \in SetIds : DOMAIN llc.sets[k] = 1 .. Len(llc.sets[k])
  BY <1>1, GoodLines
<1> QED BY <1>1, <1>2 DEF AllLines, ToSet

(* TypeCorrect: windows, sets, registers and the memory stay within their sizes and  *)
(* every line has the tag of its address (SimpleO3Core, SimpleO3LLC, ReqBuffer).     *)
THEOREM TypeCorrect == PowersOfTwo /\ Spec => []TypeOK
<1>1. ASSUME IInv PROVE TypeOK
  <2>1. /\ core \in [CoreIds -> Cores] /\ CacheOK(llc) /\ MemOK(mem)
    BY <1>1 DEF IInv, State, StateOK, PartsOK
  <2>2. \A k \in SetIds : GoodSet(llc.sets[k], k) /\ DOMAIN llc.sets = SetIds /\ MshrsMatch(llc.mshrs, llc.sets)
    BY <2>1 DEF CacheOK
  <2>3. ASSUME NEW id \in CoreIds
        PROVE  /\ Len(core[id].window) <= Depth /\ core[id].retired \in 0 .. Expected
               /\ core[id].bubbles \in Nat /\ core[id].taken \in 0 .. MaxLines
    BY <2>1 DEF Cores
  <2>4. \A i \in DOMAIN llc.sets : Len(llc.sets[i]) <= Associativity
    BY <2>1 DEF CacheOK, GoodSet
  <2>5. Cardinality(DOMAIN llc.mshrs) <= NumMshrs
    BY <2>1 DEF CacheOK, MshrsMatch
  <2>6. \A b \in Buffers : Len(mem[b]) <= BufferSize + 1
    BY <2>1 DEF MemOK, Buffers, Buffered
  <2>7. ASSUME NEW l \in AllLines(llc)
        PROVE  l.tag = Tag(l.addr) /\ l.dirty \in BOOLEAN /\ l.ready \in BOOLEAN
    <3>1. PICK k \in SetIds : \E w \in 1 .. Len(llc.sets[k]) : l = llc.sets[k][w]
      BY <1>1, LinesOf
    <3>2. PICK w \in 1 .. Len(llc.sets[k]) : l = llc.sets[k][w]
      BY <3>1
    <3>3. GoodSet(llc.sets[k], k)
      BY <2>2
    <3> DEFINE set == llc.sets[k]
    <3> HIDE DEF set
    <3>4. set[w].tag = Tag(set[w].addr) /\ set[w] \in Line
      BY <3>2, <3>3, GoodLines DEF GoodSet, set
    <3> QED BY <3>2, <3>4 DEF Line, set
  <2> QED BY <2>3, <2>4, <2>5, <2>6, <2>7 DEF TypeOK
<1> QED BY <1>1, Invariant, PTL

(* Two lines of a set have the same index, so different tags.                  *)
LEMMA OneTag == IInv => TagOnce
<1> SUFFICES ASSUME IInv PROVE TagOnce
  OBVIOUS
<1>1. DOMAIN llc.sets = SetIds /\ (\A k \in SetIds : GoodSet(llc.sets[k], k)) /\ LinesTold
  BY DEF IInv, State, StateOK, PartsOK, CacheOK
<1> SUFFICES ASSUME NEW i \in DOMAIN llc.sets, NEW v \in DOMAIN llc.sets[i], NEW w \in DOMAIN llc.sets[i], v # w
             PROVE  llc.sets[i][v].tag # llc.sets[i][w].tag
  BY DEF TagOnce
<1> DEFINE set == llc.sets[i]
<1>2. GoodSet(set, i)
  BY <1>1
<1>3. v \in DOMAIN set /\ w \in DOMAIN set
  OBVIOUS
<1> HIDE DEF set
<1>4. v \in 1 .. Len(set) /\ w \in 1 .. Len(set) /\ set[v] \in Line /\ set[w] \in Line
  BY <1>2, <1>3, GoodLines
<1>5. /\ set[v].tag = Tag(set[v].addr) /\ Index(set[v].addr) = i
      /\ set[w].tag = Tag(set[w].addr) /\ Index(set[w].addr) = i
      /\ LineOf(set[v].addr) # LineOf(set[w].addr)
  BY <1>2, <1>4 DEF GoodSet
<1>6. set[v].addr \in Nat /\ set[w].addr \in Nat
  BY <1>4 DEF Line
<1>7. set[v].tag # set[w].tag
  BY <1>1, <1>5, <1>6 DEF LinesTold
<1> QED BY <1>7 DEF set

(* Registered: a register is held for exactly the lines in flight and no set has a  *)
(* tag twice, whatever the latency, when both sizes are powers of two                 *)
(* (SimpleO3LLC::send, receive, need_eviction, evict_line).                           *)
THEOREM Registered == PowersOfTwo /\ Spec => []LinesRegistered
<1>1. ASSUME IInv PROVE LinesRegistered
  <2>1. /\ DOMAIN llc.sets = SetIds /\ \A k \in SetIds : GoodSet(llc.sets[k], k)
        /\ MshrsMatch(llc.mshrs, llc.sets) /\ LinesTold
    BY <1>1 DEF IInv, State, StateOK, PartsOK, CacheOK
  <2>2. ASSUME NEW l PROVE l \in {LineOf(x.addr) : x \in {y \in AllLines(llc) : ~y.ready}} <=> l \in DOMAIN llc.mshrs
    <3>1. ASSUME NEW x \in AllLines(llc), ~x.ready, LineOf(x.addr) = l PROVE l \in DOMAIN llc.mshrs
      <4>1. PICK k \in SetIds : \E w \in 1 .. Len(llc.sets[k]) : x = llc.sets[k][w]
        BY <1>1, LinesOf
      <4> DEFINE set == llc.sets[k]
      <4>2. PICK w \in 1 .. Len(set) : x = set[w]
        BY <4>1
      <4>3. GoodSet(set, k)
        BY <2>1
      <4> HIDE DEF set
      <4>4. set[w] \in Line /\ l \in Lines /\ Place(l) = k
        BY <2>1, <3>1, <4>2, <4>3, GoodLines, PlaceOf
      <4>5. set[w] \in Unready
        BY <3>1, <4>2, <4>4 DEF Unready
      <4>6. l \in InFlight(set)
        BY <3>1, <4>2, <4>5 DEF InFlight
      <4> QED BY <2>1, <4>4, <4>6 DEF MshrsMatch, set
    <3>2. ASSUME l \in DOMAIN llc.mshrs PROVE \E x \in AllLines(llc) : ~x.ready /\ LineOf(x.addr) = l
      <4> DEFINE k == Place(l)
                 set == llc.sets[k]
      <4>1. l \in Lines /\ k \in SetIds /\ l \in InFlight(set)
        BY <2>1, <3>2, LineTypes DEF MshrsMatch
      <4>2. PICK w \in 1 .. Len(set) : LineOf(set[w].addr) = l /\ set[w] \in Unready
        BY <4>1 DEF InFlight
      <4>3. set[w] \in AllLines(llc)
        BY <1>1, <4>1, LinesOf
      <4> QED BY <4>2, <4>3 DEF Unready
    <3> QED BY <3>1, <3>2
  <2>3. TagOnce
    BY <1>1, OneTag
  <2> QED BY <2>2, <2>3 DEF LinesRegistered
<1> QED BY <1>1, Invariant, PTL

(* StoresSafe: what a core has stored to a line since the memory last took it is in *)
(* a dirty line or in a writeback, when both sizes are powers of two                  *)
(* (SimpleO3LLC::send, evict_line, tick).                                              *)
THEOREM StoresSafe == PowersOfTwo /\ Spec => []StoresKept
<1>1. ASSUME IInv PROVE StoresKept
  <2>1. CacheOK(llc) /\ Kept(llc, unsaved) /\ unsaved \subseteq Lines
    BY <1>1 DEF IInv, State, StateOK, PartsOK
  <2> SUFFICES ASSUME NEW line \in unsaved
               PROVE  \/ \E l \in AllLines(llc) : LineOf(l.addr) = line /\ l.dirty
                      \/ \E m \in ToSet(llc.misses) : m.op = "WRITE" /\ LineOf(m.addr) = line
    BY DEF StoresKept
  <2> DEFINE k == Place(line)
             set == llc.sets[k]
  <2>2. line \in Lines /\ k \in SetIds /\ (line \in Dirty(set) \/ Leaves(line, llc.misses))
    BY <2>1, LineTypes DEF Kept
  <2>3. CASE line \in Dirty(set)
    <3>1. PICK w \in 1 .. Len(set) : LineOf(set[w].addr) = line /\ set[w] \in Stored
      BY <2>3 DEF Dirty
    <3>2. set[w] \in AllLines(llc)
      BY <1>1, <2>2, LinesOf
    <3> QED BY <3>1, <3>2 DEF Stored
  <2>4. CASE Leaves(line, llc.misses)
    <3> DEFINE misses == llc.misses
    <3>1. misses \in Seq(Misses) /\ DOMAIN misses = 1 .. Len(misses)
      BY <2>1, LenProperties DEF CacheOK
    <3>2. PICK i \in 1 .. Len(misses) : misses[i].op = "WRITE" /\ LineOf(misses[i].addr) = line
      BY <2>4 DEF Leaves
    <3>3. misses[i] \in ToSet(misses)
      BY <3>1 DEF ToSet
    <3> QED BY <3>2, <3>3
  <2> QED BY <2>2, <2>3, <2>4
<1> QED BY <1>1, Invariant, PTL
=============================================================================
