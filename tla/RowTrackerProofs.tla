-------------------------- MODULE RowTrackerProofs --------------------------
(***************************************************************************)
(* The trackers keep their promise for every number of rows and entries,   *)
(* every threshold and every period.                                       *)
(***************************************************************************)
EXTENDS Graphene, Twice, FiniteSetTheorems, TLAPS

(* A product grows with its second factor.                                      *)
LEMMA TimesMonotonic ==
  ASSUME NEW p \in Nat, NEW a \in Nat, NEW b \in Nat, a <= b
  PROVE  p * a \in Nat /\ p * b \in Nat /\ p * a <= p * b
  OBVIOUS

(* A product distributes over a sum.                                            *)
LEMMA TimesPlus ==
  ASSUME NEW p \in Nat, NEW a \in Nat, NEW b \in Nat
  PROVE  p * (a + b) = p * a + p * b
  OBVIOUS

-----------------------------------------------------------------------------
(* TWiCe: what a row's entry does not show was lost with earlier entries, each     *)
(* of which was pruned after one refresh command more than its life.                *)

TwiceTypes ==
  /\ Listed \subseteq TwiceRows
  /\ twice \in [Listed -> [count : Nat, life : Nat]]
  /\ hammered \in [TwiceRows -> Nat] /\ refs \in [TwiceRows -> Nat]

LostBefore(r) ==
  IF r \in Listed
  THEN /\ twice[r].life <= refs[r] /\ twice[r].count < RhThreshold
       /\ hammered[r] <= twice[r].count + PruneRate * Later(refs[r] - twice[r].life)
  ELSE hammered[r] <= PruneRate * Later(refs[r])

TwiceInv == TwiceTypes /\ \A r \in TwiceRows : LostBefore(r)

LEMMA LaterNat == ASSUME NEW n \in Nat PROVE Later(n) \in Nat /\ Later(n) <= n
  BY DEF Later

LEMMA TwiceInitOK == TwiceInit => TwiceInv
  <1> SUFFICES ASSUME TwiceInit PROVE TwiceInv OBVIOUS
  <1>1. Listed = {} BY DEF TwiceInit, Listed
  <1>2. TwiceTypes BY <1>1 DEF TwiceInit, TwiceTypes, Listed
  <1>3. ASSUME NEW r \in TwiceRows PROVE LostBefore(r)
    BY <1>1, TwiceAssumption DEF LostBefore, TwiceInit, Later
  <1> QED BY <1>2, <1>3 DEF TwiceInv

LEMMA InsertOK ==
  ASSUME TwiceInv, NEW r \in TwiceRows, Insert(r)
  PROVE  TwiceInv'
  <1>1. Listed' = Listed \cup {r} /\ twice'[r] = [count |-> 1, life |-> 0]
        /\ \A q \in Listed : twice'[q] = twice[q]
    BY DEF Insert, Listed
  <1>2. TwiceTypes'
    BY <1>1 DEF TwiceInv, TwiceTypes, Insert, Listed
  <1>3. ASSUME NEW q \in TwiceRows PROVE LostBefore(q)'
    <2>1. CASE q = r
      <3>1. hammered[r] <= PruneRate * Later(refs[r]) BY DEF TwiceInv, LostBefore, Insert
      <3>2. refs[r] \in Nat /\ hammered[r] \in Nat /\ hammered'[r] = hammered[r] + 1 /\ refs'[r] = refs[r]
        BY DEF TwiceInv, TwiceTypes, Insert
      <3>3. PruneRate * Later(refs[r]) \in Nat
        BY <3>2, LaterNat, TwiceAssumption, TimesMonotonic
      <3> QED BY <1>1, <2>1, <3>1, <3>2, <3>3, TwiceAssumption DEF LostBefore
    <2>2. CASE q # r
      <3>1. hammered'[q] = hammered[q] /\ refs'[q] = refs[q] BY <2>2 DEF Insert, TwiceInv, TwiceTypes
      <3> QED BY <1>1, <2>2, <3>1 DEF LostBefore, TwiceInv
    <2> QED BY <2>1, <2>2
  <1> QED BY <1>2, <1>3 DEF TwiceInv

LEMMA CountOK ==
  ASSUME TwiceInv, NEW r \in TwiceRows, Count(r)
  PROVE  TwiceInv'
  <1>1. Listed' = Listed /\ r \in Listed /\ twice \in [Listed -> [count : Nat, life : Nat]]
    BY DEF Count, Listed, TwiceInv, TwiceTypes
  <1>2. twice'[r] = [count |-> twice[r].count + 1, life |-> twice[r].life]
        /\ \A q \in Listed \ {r} : twice'[q] = twice[q]
    BY <1>1 DEF Count, Listed
  <1>3. TwiceTypes'
    BY <1>1 DEF TwiceInv, TwiceTypes, Count
  <1>4. ASSUME NEW q \in TwiceRows PROVE LostBefore(q)'
    <2>1. CASE q = r
      <3>1. /\ twice[r].life <= refs[r]
            /\ hammered[r] <= twice[r].count + PruneRate * Later(refs[r] - twice[r].life)
        BY <1>1 DEF TwiceInv, LostBefore
      <3>2. refs[r] \in Nat /\ hammered[r] \in Nat /\ twice[r].count \in Nat /\ twice[r].life \in Nat
            /\ hammered'[r] = hammered[r] + 1 /\ refs'[r] = refs[r]
        BY <1>1 DEF TwiceInv, TwiceTypes, Count
      <3>3. PruneRate * Later(refs[r] - twice[r].life) \in Nat
        BY <3>1, <3>2, LaterNat, TwiceAssumption, TimesMonotonic
      <3>4. twice[r].count + 1 < RhThreshold BY DEF Count
      <3> QED BY <1>1, <1>2, <2>1, <3>1, <3>2, <3>3, <3>4 DEF LostBefore
    <2>2. CASE q # r
      <3>1. hammered'[q] = hammered[q] /\ refs'[q] = refs[q] BY <2>2 DEF Count, TwiceInv, TwiceTypes
      <3> QED BY <1>1, <1>2, <2>2, <3>1 DEF LostBefore, TwiceInv
    <2> QED BY <2>1, <2>2
  <1> QED BY <1>3, <1>4 DEF TwiceInv

LEMMA RefreshVictimsOK ==
  ASSUME TwiceInv, NEW r \in TwiceRows, RefreshVictims(r)
  PROVE  TwiceInv'
  <1>1. Listed' = Listed \ {r} /\ \A q \in Listed \ {r} : twice'[q] = twice[q]
    BY DEF RefreshVictims, Listed
  <1>2. TwiceTypes'
    BY <1>1 DEF TwiceInv, TwiceTypes, RefreshVictims, Listed
  <1>3. ASSUME NEW q \in TwiceRows PROVE LostBefore(q)'
    <2>1. CASE q = r
      <3>1. hammered'[r] = 0 /\ refs'[r] = 0 BY DEF RefreshVictims, TwiceInv, TwiceTypes
      <3> QED BY <1>1, <2>1, <3>1, TwiceAssumption DEF LostBefore, Later
    <2>2. CASE q # r
      <3>1. hammered'[q] = hammered[q] /\ refs'[q] = refs[q]
        BY <2>2 DEF RefreshVictims, TwiceInv, TwiceTypes
      <3> QED BY <1>1, <2>2, <3>1 DEF LostBefore, TwiceInv
    <2> QED BY <2>1, <2>2
  <1> QED BY <1>2, <1>3 DEF TwiceInv

LEMMA PruneOK == ASSUME TwiceInv, Prune PROVE TwiceInv'
  <1>1. /\ Listed' = Listed \ Pruned /\ twice \in [Listed -> [count : Nat, life : Nat]]
        /\ \A q \in Listed \ Pruned : twice'[q] = [count |-> twice[q].count, life |-> twice[q].life + 1]
    BY DEF Prune, Listed, TwiceInv, TwiceTypes
  <1>2. TwiceTypes'
    <2>1. twice' \in [Listed' -> [count : Nat, life : Nat]]
      BY <1>1 DEF Prune, Listed
    <2>2. refs' \in [TwiceRows -> Nat] /\ hammered' = hammered
      BY DEF Prune, TwiceInv, TwiceTypes
    <2> QED BY <1>1, <2>1, <2>2 DEF TwiceTypes, TwiceInv
  <1>3. ASSUME NEW r \in TwiceRows PROVE LostBefore(r)'
    <2>1. /\ refs[r] \in Nat /\ hammered[r] \in Nat
          /\ hammered'[r] = hammered[r] /\ refs'[r] = refs[r] + 1
      BY DEF Prune, TwiceInv, TwiceTypes
    <2>2. Later(refs[r] + 1) = refs[r] BY <2>1 DEF Later
    <2>3. CASE r \in Listed \ Pruned
      <3>4. twice'[r] = [count |-> twice[r].count, life |-> twice[r].life + 1]
        BY <1>1, <2>3
      <3>5. twice'[r].life = twice[r].life + 1 /\ twice'[r].count = twice[r].count
        BY <3>4
      <3> DEFINE old == twice[r].life
      <3>1. old <= refs[r] /\ twice[r].count < RhThreshold
            /\ hammered[r] <= twice[r].count + PruneRate * Later(refs[r] - old)
        BY <2>3 DEF TwiceInv, LostBefore
      <3>2. old \in Nat /\ twice[r].count \in Nat BY <1>1, <2>3
      <3>3. (refs[r] + 1) - (old + 1) = refs[r] - old BY <2>1, <3>2
      <3> QED BY <1>1, <2>1, <2>3, <3>1, <3>2, <3>3, <3>5 DEF LostBefore
    <2>4. CASE r \in Pruned
      <3> DEFINE old == twice[r].life
                 n == twice[r].count
      <3>1. r \in Listed /\ n < old * PruneRate BY <2>4 DEF Pruned
      <3>2. old <= refs[r] /\ hammered[r] <= n + PruneRate * Later(refs[r] - old)
        BY <3>1 DEF TwiceInv, LostBefore
      <3>3. old \in Nat /\ n \in Nat BY <1>1, <3>1
      <3> HIDE DEF old, n
      <3>4. refs[r] - old \in Nat /\ Later(refs[r] - old) \in Nat /\ Later(refs[r] - old) <= refs[r] - old
        BY <2>1, <3>2, <3>3, LaterNat
      <3>5. /\ PruneRate * Later(refs[r] - old) <= PruneRate * (refs[r] - old)
            /\ PruneRate * Later(refs[r] - old) \in Nat
            /\ PruneRate * (refs[r] - old) \in Nat
        BY <3>4, TwiceAssumption, TimesMonotonic
      <3>6. old + (refs[r] - old) = refs[r] BY <2>1, <3>3
      <3>7. PruneRate * refs[r] = PruneRate * old + PruneRate * (refs[r] - old)
        BY <3>3, <3>4, <3>6, TimesPlus, TwiceAssumption
      <3>8. PruneRate * old = old * PruneRate /\ PruneRate * old \in Nat
        BY <3>3, TwiceAssumption
      <3>9. hammered[r] <= PruneRate * refs[r]
        BY <2>1, <3>1, <3>2, <3>3, <3>5, <3>7, <3>8
      <3> QED BY <1>1, <2>1, <2>2, <2>4, <3>9 DEF LostBefore
    <2>5. CASE r \notin Listed
      <3>1. hammered[r] <= PruneRate * Later(refs[r]) BY <2>5 DEF TwiceInv, LostBefore
      <3>2. PruneRate * Later(refs[r]) <= PruneRate * refs[r]
            /\ PruneRate * Later(refs[r]) \in Nat /\ PruneRate * refs[r] \in Nat
        BY <2>1, LaterNat, TimesMonotonic, TwiceAssumption
      <3> QED BY <1>1, <2>1, <2>2, <2>5, <3>1, <3>2 DEF LostBefore
    <2> QED BY <2>3, <2>4, <2>5
  <1> QED BY <1>2, <1>3 DEF TwiceInv

LEMMA TwiceInvGuards == TwiceInv => TwiceGuards
  <1> SUFFICES ASSUME TwiceInv, NEW r \in TwiceRows
               PROVE  hammered[r] < RhThreshold + PruneRate * Later(refs[r])
    BY DEF TwiceGuards
  <1>1. refs[r] \in Nat /\ hammered[r] \in Nat BY DEF TwiceInv, TwiceTypes
  <1>2. PruneRate * Later(refs[r]) \in Nat BY <1>1, LaterNat, TimesMonotonic, TwiceAssumption
  <1>3. CASE r \in Listed
    <2>1. /\ twice[r].life <= refs[r] /\ twice[r].count < RhThreshold
          /\ hammered[r] <= twice[r].count + PruneRate * Later(refs[r] - twice[r].life)
      BY <1>3 DEF TwiceInv, LostBefore
    <2>2. twice[r].life \in Nat /\ twice[r].count \in Nat BY <1>3 DEF TwiceInv, TwiceTypes
    <2>3. refs[r] - twice[r].life \in Nat BY <1>1, <2>1, <2>2
    <2>4. Later(refs[r] - twice[r].life) \in Nat /\ Later(refs[r]) \in Nat
          /\ Later(refs[r] - twice[r].life) <= Later(refs[r])
      BY <1>1, <2>2, <2>3 DEF Later
    <2>5. PruneRate * Later(refs[r] - twice[r].life) <= PruneRate * Later(refs[r])
          /\ PruneRate * Later(refs[r] - twice[r].life) \in Nat
      BY <2>4, TimesMonotonic, TwiceAssumption
    <2> QED BY <1>1, <1>2, <2>1, <2>2, <2>5, TwiceAssumption
  <1>4. CASE r \notin Listed
    BY <1>1, <1>2, <1>4, TwiceAssumption DEF TwiceInv, LostBefore
  <1> QED BY <1>3, <1>4

(* For every threshold and pruning rate, a row is activated less often between     *)
(* two refreshes of its victims than the threshold and what pruning may forget.      *)
THEOREM TwiceBound == TwiceSpec => []TwiceGuards
  <1>1. TwiceInv /\ [TwiceNext]_twiceVars => TwiceInv'
    <2> SUFFICES ASSUME TwiceInv, [TwiceNext]_twiceVars PROVE TwiceInv' OBVIOUS
    <2>1. CASE Prune BY <2>1, PruneOK
    <2>2. ASSUME NEW r \in TwiceRows, Insert(r) PROVE TwiceInv' BY <2>2, InsertOK
    <2>3. ASSUME NEW r \in TwiceRows, Count(r) PROVE TwiceInv' BY <2>3, CountOK
    <2>4. ASSUME NEW r \in TwiceRows, RefreshVictims(r) PROVE TwiceInv' BY <2>4, RefreshVictimsOK
    <2>5. CASE UNCHANGED twiceVars
      BY <2>5 DEF twiceVars, TwiceInv, TwiceTypes, LostBefore, Listed
    <2> QED BY <2>1, <2>2, <2>3, <2>4, <2>5 DEF TwiceNext
  <1> QED BY <1>1, TwiceInitOK, TwiceInvGuards, PTL DEF TwiceSpec

-----------------------------------------------------------------------------
(* Graphene: every activate is in a counter, and the counters of all entries       *)
(* together are at most the activates of the period.                                *)

Tracker == [row : [Entries -> Rows \cup {Dummy}], count : [Entries -> Nat], spill : Nat,
            exposed : [Rows -> Nat], acts : Nat]

Units(g) == {u \in Entries \X (1 .. Threshold) : u[2] <= g.count[u[1]]}

Between(g) == \A e \in Entries : g.spill <= g.count[e] /\ g.count[e] <= Threshold

OneEntry(g) == \A e, f \in Entries : g.row[e] = g.row[f] /\ g.row[e] \in Rows => e = f

Covered(g, r) ==
  /\ \A e \in Entries : g.row[e] = r => g.exposed[r] <= g.count[e]
  /\ EntriesOf(g, r) = {} => g.exposed[r] <= g.spill

WithinActs(g) == Cardinality(Units(g)) + g.spill <= g.acts

Good(g) == /\ g \in Tracker /\ Between(g) /\ OneEntry(g)
           /\ \A r \in Rows : Covered(g, r)
           /\ WithinActs(g)

LEMMA UnitsFinite == ASSUME NEW g PROVE IsFiniteSet(Units(g)) /\ Cardinality(Units(g)) \in Nat
  <1>1. IsFiniteSet(Entries) /\ IsFiniteSet(1 .. Threshold)
    BY FS_Interval, GrapheneAssumption DEF Entries
  <1>2. IsFiniteSet(Entries \X (1 .. Threshold)) BY <1>1, FS_Product
  <1>3. Units(g) \subseteq Entries \X (1 .. Threshold) BY DEF Units
  <1>4. IsFiniteSet(Units(g)) BY <1>2, <1>3, FS_Subset
  <1> QED BY <1>4, FS_CardinalityType

(* The spillover counter is reached by every entry, so it rises once in as many     *)
(* activates as there are entries and one.                                          *)
LEMMA SpillPaid == ASSUME NEW g, Good(g) PROVE (NumEntries + 1) * g.spill <= g.acts
  <1> DEFINE Low == Entries \X (1 .. g.spill)
  <1>1. g.spill \in Nat /\ g.acts \in Nat /\ g.count \in [Entries -> Nat] BY DEF Good, Tracker
  <1>2. NumEntries \in Nat /\ 1 \in Int /\ 1 \in Entries BY GrapheneAssumption DEF Entries
  <1>3. IsFiniteSet(Entries) /\ Cardinality(Entries) = NumEntries
    BY <1>2, FS_Interval, GrapheneAssumption DEF Entries
  <1>4. IsFiniteSet(1 .. g.spill) /\ Cardinality(1 .. g.spill) = g.spill
    BY <1>1, FS_Interval
  <1>5. Cardinality(Low) = NumEntries * g.spill BY <1>3, <1>4, FS_Product
  <1>6. Low \subseteq Units(g)
    <2> SUFFICES ASSUME NEW e \in Entries, NEW k \in 1 .. g.spill PROVE <<e, k>> \in Units(g) OBVIOUS
    <2>1. g.spill <= g.count[e] /\ g.count[e] <= Threshold /\ g.count[e] \in Nat
      BY <1>1 DEF Good, Between
    <2>2. k <= g.count[e] /\ k \in 1 .. Threshold BY <1>1, <2>1, GrapheneAssumption
    <2> QED BY <2>2 DEF Units
  <1>7. Cardinality(Low) <= Cardinality(Units(g)) BY <1>6, UnitsFinite, FS_Subset
  <1>8. NumEntries * g.spill + g.spill <= g.acts
    BY <1>1, <1>2, <1>5, <1>7, UnitsFinite DEF Good, WithinActs
  <1>9. (NumEntries + 1) * g.spill = NumEntries * g.spill + g.spill BY <1>1, <1>2
  <1> QED BY <1>8, <1>9

LEMMA ResetGood == ASSUME NEW g, Good(g) PROVE Good(Reset(g))
  <1> DEFINE h == Reset(g)
  <1>1. /\ h \in Tracker /\ h.spill = 0 /\ h.acts = 0 /\ h.row = g.row
        /\ h.count = [e \in Entries |-> 0] /\ h.exposed = [r \in Rows |-> 0]
    BY DEF Good, Tracker, Reset
  <1> HIDE DEF h
  <1>2. Units(h) = {} BY <1>1 DEF Units
  <1>3. WithinActs(h) BY <1>1, <1>2, FS_EmptySet DEF WithinActs
  <1>4. Between(h) BY <1>1, GrapheneAssumption DEF Between
  <1>5. OneEntry(h) BY <1>1 DEF OneEntry, Good
  <1>6. \A r \in Rows : Covered(h, r) BY <1>1 DEF Covered
  <1>7. Good(h) BY <1>1, <1>3, <1>4, <1>5, <1>6 DEF Good
  <1> QED BY <1>7 DEF h

(* An activate touches only the two ghosts before the counters see it.             *)
LEMMA SeenFields ==
  ASSUME NEW g \in Tracker, NEW r \in Rows
  PROVE  /\ Seen(g, r).row = g.row /\ Seen(g, r).count = g.count /\ Seen(g, r).spill = g.spill
         /\ Seen(g, r).exposed = [g.exposed EXCEPT ![r] = g.exposed[r] + 1]
         /\ Seen(g, r).acts = g.acts + 1
         /\ Seen(g, r) \in Tracker
  <1>1. g.exposed \in [Rows -> Nat] /\ g.acts \in Nat BY DEF Tracker
  <1>2. g.exposed[r] + 1 \in Nat /\ g.acts + 1 \in Nat BY <1>1
  <1>3. [g.exposed EXCEPT ![r] = g.exposed[r] + 1] \in [Rows -> Nat] BY <1>1, <1>2
  <1>4. Seen(g, r) = [g EXCEPT !.exposed = [g.exposed EXCEPT ![r] = g.exposed[r] + 1], !.acts = g.acts + 1]
    BY DEF Seen, Tracker
  <1>5. Seen(g, r) \in Tracker BY <1>2, <1>3, <1>4 DEF Tracker
  <1> QED BY <1>4, <1>5 DEF Tracker

(* Raising one counter by one adds one unit.                                        *)
LEMMA OneUnit ==
  ASSUME NEW g, Good(g), NEW h, NEW e \in Entries, NEW n \in Nat,
         h.count = [g.count EXCEPT ![e] = n], n <= g.count[e] + 1, n <= Threshold
  PROVE  Cardinality(Units(h)) <= Cardinality(Units(g)) + 1
  <1>1. g.count \in [Entries -> Nat] BY DEF Good, Tracker
  <1>2. Units(h) \subseteq Units(g) \cup {<<e, g.count[e] + 1>>}
    <2> SUFFICES ASSUME NEW f \in Entries, NEW k \in 1 .. Threshold, k <= h.count[f]
                 PROVE  <<f, k>> \in Units(g) \cup {<<e, g.count[e] + 1>>}
      BY DEF Units
    <2>1. CASE f = e
      <3>1. h.count[f] = n BY <1>1, <2>1
      <3>2. g.count[e] \in Nat /\ k \in Nat BY <1>1, GrapheneAssumption
      <3>3. k <= g.count[f] \/ k = g.count[e] + 1 BY <2>1, <3>1, <3>2
      <3> QED BY <2>1, <3>3 DEF Units
    <2>2. CASE f # e
      <3>1. h.count[f] = g.count[f] BY <1>1, <2>2
      <3> QED BY <3>1 DEF Units
    <2> QED BY <2>1, <2>2
  <1>3. IsFiniteSet(Units(g) \cup {<<e, g.count[e] + 1>>})
        /\ Cardinality(Units(g) \cup {<<e, g.count[e] + 1>>}) <= Cardinality(Units(g)) + 1
    <2> DEFINE old == Units(g)
               new == <<e, g.count[e] + 1>>
    <2>1. IsFiniteSet(old) /\ Cardinality(old) \in Nat BY UnitsFinite
    <2> HIDE DEF old, new
    <2>2. IsFiniteSet(old \cup {new})
          /\ Cardinality(old \cup {new}) = IF new \in old THEN Cardinality(old) ELSE Cardinality(old) + 1
      BY <2>1, FS_AddElement
    <2>3. IsFiniteSet(old \cup {new}) /\ Cardinality(old \cup {new}) <= Cardinality(old) + 1
      BY <2>1, <2>2
    <2> QED BY <2>3 DEF old, new
  <1>4. Cardinality(Units(h)) <= Cardinality(Units(g) \cup {<<e, g.count[e] + 1>>})
    BY <1>2, <1>3, FS_Subset
  <1>5. Cardinality(Units(g) \cup {<<e, g.count[e] + 1>>}) \in Nat
    BY <1>3, FS_CardinalityType
  <1> QED BY <1>3, <1>4, <1>5, UnitsFinite

LEMMA CountedGood ==
  ASSUME NEW g, Good(g), NEW r \in Rows, NEW e \in EntriesOf(g, r)
  PROVE  Good(Counted(g, e, r)) /\ Counted(g, e, r).acts = g.acts + 1
  <1> DEFINE h == Counted(g, e, r)
             n == IF g.count[e] + 1 >= Threshold THEN g.spill ELSE g.count[e] + 1
             x == IF g.count[e] + 1 >= Threshold THEN 0 ELSE g.exposed[r] + 1
  <1>1. g \in Tracker /\ e \in Entries /\ g.row[e] = r BY DEF Good, EntriesOf
  <1>2. /\ g.row \in [Entries -> Rows \cup {Dummy}] /\ g.count \in [Entries -> Nat]
        /\ g.spill \in Nat /\ g.exposed \in [Rows -> Nat] /\ g.acts \in Nat
    BY <1>1 DEF Tracker
  <1>3. g.spill <= g.count[e] /\ g.count[e] <= Threshold /\ g.count[e] \in Nat
    BY <1>1, <1>2 DEF Good, Between
  <1>4. n \in Nat /\ x \in Nat /\ n <= g.count[e] + 1 /\ n <= Threshold /\ g.spill <= n
    BY <1>2, <1>3, GrapheneAssumption
  <1>5. /\ h.row = g.row /\ h.spill = g.spill /\ h.acts = g.acts + 1
        /\ h.count = [g.count EXCEPT ![e] = n] /\ h.exposed = [g.exposed EXCEPT ![r] = x]
        /\ h = [row |-> h.row, count |-> h.count, spill |-> h.spill, exposed |-> h.exposed, acts |-> h.acts]
    BY <1>1, <1>2 DEF Counted, Seen, Tracker
  <1>6. g.exposed[r] <= g.count[e] /\ g.exposed[r] \in Nat BY <1>1, <1>2 DEF Good, Covered
  <1>7. x <= n BY <1>2, <1>3, <1>6
  <1> HIDE DEF h, n, x
  <1>8. h \in Tracker BY <1>1, <1>2, <1>4, <1>5 DEF Tracker
  <1>9. Between(h) BY <1>1, <1>2, <1>4, <1>5 DEF Between, Good
  <1>10. OneEntry(h) BY <1>5 DEF OneEntry, Good
  <1>11. ASSUME NEW q \in Rows PROVE Covered(h, q)
    <2>1. Covered(g, q) BY DEF Good
    <2>2. EntriesOf(h, q) = EntriesOf(g, q) BY <1>5 DEF EntriesOf
    <2>3. CASE q = r
      <3>1. \A f \in Entries : h.row[f] = r => f = e BY <1>1, <1>5 DEF Good, OneEntry
      <3>2. EntriesOf(h, r) # {} BY <2>2, <2>3
      <3> QED BY <1>1, <1>2, <1>5, <1>7, <2>3, <3>1, <3>2 DEF Covered
    <2>4. CASE q # r
      <3>1. h.exposed[q] = g.exposed[q] BY <1>2, <1>5, <2>4
      <3>2. \A f \in Entries : h.row[f] = q => h.count[f] = g.count[f]
        BY <1>1, <1>2, <1>5, <2>4
      <3> QED BY <1>5, <2>1, <2>2, <3>1, <3>2 DEF Covered
    <2> QED BY <2>3, <2>4
  <1>12. Cardinality(Units(h)) <= Cardinality(Units(g)) + 1 BY <1>1, <1>4, <1>5, OneUnit
  <1>13. WithinActs(h)
    BY <1>2, <1>5, <1>12, UnitsFinite DEF Good, WithinActs
  <1>14. Good(h) BY <1>8, <1>9, <1>10, <1>11, <1>13 DEF Good
  <1> QED BY <1>5, <1>14 DEF h

LEMMA TakenOverGood ==
  ASSUME NEW g, Good(g), NEW r \in Rows, EntriesOf(g, r) = {}, NEW e \in AtSpill(g),
         g.spill < Threshold
  PROVE  Good(TakenOver(g, e, r)) /\ TakenOver(g, e, r).acts = g.acts + 1
  <1> DEFINE h == TakenOver(g, e, r)
             n == g.spill + 1
  <1>1. g \in Tracker /\ e \in Entries /\ g.count[e] = g.spill BY DEF Good, AtSpill
  <1>2. /\ g.row \in [Entries -> Rows \cup {Dummy}] /\ g.count \in [Entries -> Nat]
        /\ g.spill \in Nat /\ g.exposed \in [Rows -> Nat] /\ g.acts \in Nat
    BY <1>1 DEF Tracker
  <1>3. /\ h.row = [g.row EXCEPT ![e] = r] /\ h.spill = g.spill /\ h.acts = g.acts + 1
        /\ h.count = [g.count EXCEPT ![e] = n]
        /\ h.exposed = [g.exposed EXCEPT ![r] = g.exposed[r] + 1]
        /\ h \in Tracker
    <2> DEFINE s == Seen(g, r)
    <2>1. s \in Tracker BY <1>1, SeenFields
    <2>2. h = [s EXCEPT !.row[e] = r, !.count[e] = n] BY DEF TakenOver
    <2>4. n \in Nat BY <1>2
    <2> HIDE DEF s, h, n
    <2>3. /\ h.row = [s.row EXCEPT ![e] = r] /\ h.count = [s.count EXCEPT ![e] = n]
          /\ h.spill = s.spill /\ h.exposed = s.exposed /\ h.acts = s.acts /\ h \in Tracker
      BY <1>1, <2>1, <2>2, <2>4 DEF Tracker
    <2> QED BY <1>1, <2>3, SeenFields DEF s
  <1>4. n \in Nat /\ n <= g.count[e] + 1 /\ n <= Threshold BY <1>1, <1>2, GrapheneAssumption
  <1>5. g.exposed[r] <= g.spill /\ g.exposed[r] \in Nat BY <1>2 DEF Good, Covered
  <1>6. \A f \in Entries : g.row[f] # r BY DEF EntriesOf
  <1> HIDE DEF h
  <1>7. h \in Tracker BY <1>3
  <1>8. Between(h) BY <1>1, <1>2, <1>3, <1>4 DEF Between, Good
  <1>9. OneEntry(h) BY <1>1, <1>2, <1>3, <1>6 DEF OneEntry, Good
  <1>10. ASSUME NEW q \in Rows PROVE Covered(h, q)
    <2>1. Covered(g, q) BY DEF Good
    <2>2. CASE q = r
      <3>1. \A f \in Entries : h.row[f] = r => f = e BY <1>2, <1>3, <1>6
      <3>2. e \in EntriesOf(h, r) BY <1>1, <1>2, <1>3 DEF EntriesOf
      <3>3. h.exposed[r] = g.exposed[r] + 1 /\ h.count[e] = g.spill + 1 BY <1>1, <1>2, <1>3
      <3> QED BY <1>2, <1>5, <2>2, <3>1, <3>2, <3>3 DEF Covered
    <2>3. CASE q # r
      <3>1. h.exposed[q] = g.exposed[q] /\ g.exposed[q] \in Nat BY <1>2, <1>3, <2>3
      <3>2. \A f \in Entries : h.row[f] = q => f # e /\ g.row[f] = q /\ h.count[f] = g.count[f]
        BY <1>1, <1>2, <1>3, <2>3
      <3>3. ASSUME EntriesOf(h, q) = {} PROVE h.exposed[q] <= h.spill
        <4>1. \A f \in Entries : f # e => g.row[f] # q BY <1>2, <1>3, <3>3 DEF EntriesOf
        <4>2. CASE g.row[e] = q BY <1>1, <1>3, <2>1, <3>1, <4>2 DEF Covered
        <4>3. CASE g.row[e] # q
          <5>1. EntriesOf(g, q) = {} BY <4>1, <4>3 DEF EntriesOf
          <5> QED BY <1>3, <2>1, <3>1, <5>1 DEF Covered
        <4> QED BY <4>2, <4>3
      <3> QED BY <2>1, <3>1, <3>2, <3>3 DEF Covered
    <2> QED BY <2>2, <2>3
  <1>11. Cardinality(Units(h)) <= Cardinality(Units(g)) + 1 BY <1>1, <1>3, <1>4, OneUnit
  <1>12. WithinActs(h) BY <1>2, <1>3, <1>11, UnitsFinite DEF Good, WithinActs
  <1>13. Good(h) BY <1>7, <1>8, <1>9, <1>10, <1>12 DEF Good
  <1> QED BY <1>3, <1>13 DEF h

LEMMA SpilledGood ==
  ASSUME NEW g, Good(g), NEW r \in Rows, EntriesOf(g, r) \cup AtSpill(g) = {}
  PROVE  Good(Spilled(g, r)) /\ Spilled(g, r).acts = g.acts + 1
  <1> DEFINE h == Spilled(g, r)
  <1>1. /\ g.row \in [Entries -> Rows \cup {Dummy}] /\ g.count \in [Entries -> Nat]
        /\ g.spill \in Nat /\ g.exposed \in [Rows -> Nat] /\ g.acts \in Nat /\ g \in Tracker
    BY DEF Good, Tracker
  <1>2. /\ h.row = g.row /\ h.spill = g.spill + 1 /\ h.acts = g.acts + 1 /\ h.count = g.count
        /\ h.exposed = [g.exposed EXCEPT ![r] = g.exposed[r] + 1]
        /\ h \in Tracker
    <2> DEFINE s == Seen(g, r)
    <2>1. s \in Tracker BY <1>1, SeenFields
    <2>2. h = [s EXCEPT !.spill = @ + 1] BY DEF Spilled
    <2> HIDE DEF s, h
    <2>3. /\ h.row = s.row /\ h.count = s.count /\ h.spill = s.spill + 1
          /\ h.exposed = s.exposed /\ h.acts = s.acts /\ h \in Tracker
      BY <2>1, <2>2 DEF Tracker
    <2> QED BY <1>1, <2>3, SeenFields DEF s
  <1> HIDE DEF h
  <1>3. \A f \in Entries : g.row[f] # r /\ g.count[f] # g.spill BY DEF EntriesOf, AtSpill
  <1>4. h \in Tracker BY <1>2
  <1>5. Between(h) BY <1>1, <1>2, <1>3 DEF Between, Good
  <1>6. OneEntry(h) BY <1>2 DEF OneEntry, Good
  <1>7. ASSUME NEW q \in Rows PROVE Covered(h, q)
    <2>1. Covered(g, q) /\ EntriesOf(h, q) = EntriesOf(g, q) BY <1>2 DEF Good, EntriesOf
    <2>2. CASE q = r
      <3>1. EntriesOf(g, r) = {} BY <1>3 DEF EntriesOf
      <3>2. g.exposed[r] <= g.spill /\ h.exposed[r] = g.exposed[r] + 1 /\ g.exposed[r] \in Nat
        BY <1>1, <1>2, <2>1, <2>2, <3>1 DEF Covered
      <3> QED BY <1>1, <1>2, <1>3, <2>2, <3>2 DEF Covered
    <2>3. CASE q # r
      <3>1. h.exposed[q] = g.exposed[q] /\ g.exposed[q] \in Nat BY <1>1, <1>2, <2>3
      <3> QED BY <1>1, <1>2, <2>1, <3>1 DEF Covered
    <2> QED BY <2>2, <2>3
  <1>8. Units(h) = Units(g) BY <1>2 DEF Units
  <1>9. WithinActs(h) BY <1>1, <1>2, <1>8, UnitsFinite DEF Good, WithinActs
  <1>10. Good(h) BY <1>4, <1>5, <1>6, <1>7, <1>9 DEF Good
  <1> QED BY <1>2, <1>10 DEF h

(* The activates that fit into a period cannot lift the spillover counter to the    *)
(* threshold.                                                                        *)
LEMMA SpillBelow ==
  ASSUME NEW g, Good(g), nRC * g.acts <= Period - 1 + nRC
  PROVE  g.spill < Threshold
  <1> DEFINE size == NumEntries + 1
  <1>1. g.spill \in Nat /\ g.acts \in Nat BY DEF Good, Tracker
  <1>2. size \in Nat /\ Threshold \in Nat /\ nRC \in Nat BY GrapheneAssumption
  <1>3. size * g.spill <= g.acts /\ size * g.spill \in Nat BY <1>1, <1>2, SpillPaid
  <1> HIDE DEF size
  <1>4. SUFFICES ASSUME Threshold <= g.spill PROVE FALSE BY <1>1, <1>2
  <1>5. size * Threshold <= size * g.spill /\ size * Threshold \in Nat
    BY <1>1, <1>2, <1>4, TimesMonotonic
  <1>6. size * Threshold <= g.acts BY <1>1, <1>3, <1>5
  <1>7. nRC * (size * Threshold) <= nRC * g.acts /\ nRC * (size * Threshold) \in Nat /\ nRC * g.acts \in Nat
    BY <1>1, <1>2, <1>5, <1>6, TimesMonotonic
  <1>8. Period - 1 + nRC < nRC * (size * Threshold) BY GrapheneAssumption DEF size
  <1>9. Period - 1 + nRC \in Nat BY GrapheneAssumption
  <1> QED BY <1>7, <1>8, <1>9

GrapheneInv ==
  /\ clk \in 0 .. Period - 1 /\ gap \in 0 .. nRC - 1
  /\ Good(tracker)
  /\ nRC * tracker.acts <= clk + gap + 1

LEMMA ModStep ==
  ASSUME clk \in 0 .. Period - 1
  PROVE  (clk + 1) % Period = (IF clk = Period - 1 THEN 0 ELSE clk + 1)
  BY GrapheneAssumption

(* One more activate takes one more cycle time of the bank.                         *)
LEMMA OneMore ==
  ASSUME NEW a \in Nat, NEW c \in Nat, nRC * a <= c
  PROVE  nRC * (a + 1) <= c + (nRC - 1) + 1
  <1>1. nRC \in Nat BY GrapheneAssumption
  <1>2. nRC * (a + 1) = nRC * a + nRC /\ nRC * a \in Nat BY <1>1
  <1> QED BY <1>1, <1>2

(* The tracker after the reset that may start the cycle.                            *)
LEMMA AtStartGood ==
  ASSUME GrapheneInv, clk' = (clk + 1) % Period
  PROVE  /\ Good(AtStart(clk', tracker)) /\ clk' \in 0 .. Period - 1
         /\ nRC * AtStart(clk', tracker).acts <= clk' + gap
  <1>1. clk' = (IF clk = Period - 1 THEN 0 ELSE clk + 1) /\ clk' \in 0 .. Period - 1
    BY ModStep, GrapheneAssumption DEF GrapheneInv
  <1>2. tracker.acts \in Nat BY DEF GrapheneInv, Good, Tracker
  <1>3. CASE clk' = 0
    <2>1. AtStart(clk', tracker) = Reset(tracker) BY <1>3 DEF AtStart
    <2>2. Reset(tracker).acts = 0 BY DEF Reset, GrapheneInv, Good, Tracker
    <2>3. nRC * 0 = 0 BY GrapheneAssumption
    <2> QED BY <1>1, <1>3, <2>1, <2>2, <2>3, ResetGood, GrapheneAssumption DEF GrapheneInv
  <1>4. CASE clk' # 0
    <2>1. AtStart(clk', tracker) = tracker /\ clk' = clk + 1 BY <1>1, <1>4 DEF AtStart
    <2> QED BY <1>1, <2>1, GrapheneAssumption DEF GrapheneInv
  <1> QED BY <1>3, <1>4

LEMMA ActivatedGood ==
  ASSUME NEW g, Good(g), g.spill < Threshold, NEW r \in Rows, NEW h \in Activated(g, r)
  PROVE  Good(h) /\ h.acts = g.acts + 1
  <1>1. CASE \E e \in EntriesOf(g, r) : h = Counted(g, e, r) BY <1>1, CountedGood
  <1>2. CASE EntriesOf(g, r) = {} /\ \E e \in AtSpill(g) : h = TakenOver(g, e, r)
    BY <1>2, TakenOverGood
  <1>3. CASE EntriesOf(g, r) \cup AtSpill(g) = {} /\ h = Spilled(g, r) BY <1>3, SpilledGood
  <1> QED BY <1>1, <1>2, <1>3 DEF Activated

LEMMA ActivateOK == ASSUME GrapheneInv, NEW r \in Rows, Activate(r) PROVE GrapheneInv'
  <1> DEFINE g == AtStart(clk', tracker)
  <1>1. gap = 0 /\ tracker' \in Activated(g, r) /\ gap' = nRC - 1 /\ clk' = (clk + 1) % Period
    BY DEF Activate
  <1>2. Good(g) /\ clk' \in 0 .. Period - 1 /\ nRC * g.acts <= clk' + gap BY <1>1, AtStartGood
  <1>3. g.acts \in Nat BY <1>2 DEF Good, Tracker
  <1> HIDE DEF g
  <1>4. nRC * g.acts \in Nat /\ nRC * (g.acts + 1) = nRC * g.acts + nRC BY <1>3, GrapheneAssumption
  <1>5. g.spill < Threshold BY <1>1, <1>2, <1>4, SpillBelow, GrapheneAssumption
  <1>6. Good(tracker') /\ tracker'.acts = g.acts + 1 BY <1>1, <1>2, <1>5, ActivatedGood
  <1>7. nRC * tracker'.acts <= clk' + gap' + 1
    <2>1. g.acts \in Nat /\ clk' \in Nat /\ nRC * g.acts <= clk' BY <1>1, <1>2, <1>3, <1>4, GrapheneAssumption
    <2>2. nRC * (g.acts + 1) <= clk' + (nRC - 1) + 1 BY <2>1, OneMore
    <2> QED BY <1>1, <1>6, <2>2
  <1> QED BY <1>1, <1>2, <1>6, <1>7, GrapheneAssumption DEF GrapheneInv

(* A cycle without an activate takes one off the wait and adds one to the clock.    *)
LEMMA OneLess ==
  ASSUME NEW a \in Nat, NEW c \in Nat, NEW w \in Nat, NEW v \in Nat, a <= c + w, w <= v + 1
  PROVE  a <= c + v + 1
  OBVIOUS

LEMMA QuietOK == ASSUME GrapheneInv, Quiet PROVE GrapheneInv'
  <1>1. clk' = (clk + 1) % Period /\ tracker' = AtStart(clk', tracker)
        /\ gap' = IF gap = 0 THEN 0 ELSE gap - 1
    BY DEF Quiet
  <1>2. Good(tracker') /\ clk' \in 0 .. Period - 1 /\ nRC * tracker'.acts <= clk' + gap
    BY <1>1, AtStartGood
  <1>3. gap \in 0 .. nRC - 1 /\ nRC \in Nat BY GrapheneAssumption DEF GrapheneInv
  <1>4. tracker'.acts \in Nat /\ nRC * tracker'.acts \in Nat
    BY <1>2, <1>3, TimesMonotonic DEF Good, Tracker
  <1>5. gap' \in 0 .. nRC - 1 /\ gap <= gap' + 1 BY <1>1, <1>3
  <1>6. clk' \in Nat /\ gap \in Nat /\ gap' \in Nat BY <1>2, <1>3, <1>5, GrapheneAssumption
  <1>7. gap <= gap' + 1 BY <1>5
  <1>8. nRC * tracker'.acts <= clk' + gap' + 1 BY <1>2, <1>4, <1>6, <1>7, OneLess
  <1> QED BY <1>2, <1>5, <1>8 DEF GrapheneInv

LEMMA GrapheneInitOK == GrapheneInit => GrapheneInv
  <1> SUFFICES ASSUME GrapheneInit PROVE GrapheneInv OBVIOUS
  <1>1. /\ tracker \in Tracker /\ tracker.spill = 0 /\ tracker.acts = 0
        /\ tracker.row = [e \in Entries |-> Dummy]
        /\ tracker.count = [e \in Entries |-> 0] /\ tracker.exposed = [r \in Rows |-> 0]
    BY DEF GrapheneInit, Tracker
  <1>2. Units(tracker) = {} BY <1>1 DEF Units
  <1>3. WithinActs(tracker) BY <1>1, <1>2, FS_EmptySet DEF WithinActs
  <1>4. Between(tracker) BY <1>1, GrapheneAssumption DEF Between
  <1>5. OneEntry(tracker) BY <1>1, GrapheneAssumption DEF OneEntry
  <1>6. \A r \in Rows : Covered(tracker, r) BY <1>1 DEF Covered
  <1>7. Good(tracker) BY <1>1, <1>3, <1>4, <1>5, <1>6 DEF Good
  <1>8. nRC * 0 = 0 BY GrapheneAssumption
  <1> QED BY <1>1, <1>7, <1>8, GrapheneAssumption DEF GrapheneInit, GrapheneInv

LEMMA GrapheneInductive == GrapheneSpec => []GrapheneInv
  <1>1. GrapheneInv /\ [GrapheneNext]_grapheneVars => GrapheneInv'
    <2> SUFFICES ASSUME GrapheneInv, [GrapheneNext]_grapheneVars PROVE GrapheneInv' OBVIOUS
    <2>1. CASE Quiet BY <2>1, QuietOK
    <2>2. ASSUME NEW r \in Rows, Activate(r) PROVE GrapheneInv' BY <2>2, ActivateOK
    <2>3. CASE UNCHANGED grapheneVars BY <2>3 DEF grapheneVars, GrapheneInv
    <2> QED BY <2>1, <2>2, <2>3 DEF GrapheneNext
  <1> QED BY <1>1, GrapheneInitOK, PTL DEF GrapheneSpec

(* For every number of rows and entries, the tracker keeps its types.               *)
THEOREM GrapheneTypes == GrapheneSpec => []GrapheneTypeOK
  <1>1. GrapheneInv => GrapheneTypeOK BY DEF GrapheneInv, Good, Tracker, GrapheneTypeOK
  <1> QED BY <1>1, GrapheneInductive, PTL

(* For every number of rows, if the table is large enough for the activates that    *)
(* fit into a period, no row is activated more often than the threshold between two   *)
(* refreshes of its victims, whichever entries the hash table gives up.               *)
THEOREM GrapheneBound == GrapheneSpec => []GrapheneGuards
  <1>1. GrapheneInv => GrapheneGuards
    <2> SUFFICES ASSUME GrapheneInv, NEW r \in Rows PROVE tracker.exposed[r] <= Threshold
      BY DEF GrapheneGuards
    <2>1. Good(tracker) /\ Covered(tracker, r) BY DEF GrapheneInv, Good
    <2>2. /\ tracker.spill \in Nat /\ tracker.count \in [Entries -> Nat]
          /\ tracker.exposed[r] \in Nat /\ Threshold \in Nat
      BY <2>1, GrapheneAssumption DEF Good, Tracker
    <2>3. 1 \in Entries /\ Between(tracker) BY <2>1, GrapheneAssumption DEF Entries, Good
    <2>4. CASE EntriesOf(tracker, r) = {} BY <2>1, <2>2, <2>3, <2>4 DEF Covered, Between
    <2>5. CASE EntriesOf(tracker, r) # {}
      <3>1. PICK e \in Entries : tracker.row[e] = r BY <2>5 DEF EntriesOf
      <3> QED BY <2>1, <2>2, <2>3, <3>1 DEF Covered, Between
    <2> QED BY <2>4, <2>5
  <1> QED BY <1>1, GrapheneInductive, PTL
=============================================================================
