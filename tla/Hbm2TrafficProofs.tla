------------------------- MODULE Hbm2TrafficProofs -------------------------
(***************************************************************************)
(* What becomes of the transactions of one HBM2 channel, for every geometry,   *)
(* timing, queue depth and client: the count the run loops stop on is exact,     *)
(* every read that is out is pending once, the data buses carry one burst at a     *)
(* time, and no check on the way of a transaction ends the program.                 *)
(* Then the order: its queues reorder them, yet a read finds the last write added    *)
(* before it, and on one rank nothing passes a barrier.                              *)
(***************************************************************************)
EXTENDS Hbm2ChannelProofs

-----------------------------------------------------------------------------
(* Sums over the ranks. *)

Sums(f, up) == up = [i \in 0 .. NumRanks |-> IF i = 0 THEN 0 ELSE up[i - 1] + f[i - 1]]

\* Total is the last of the partial sums, whichever way they are written.
LEMMA TotalIs ==
  ASSUME NEW f
  PROVE  \E up : Sums(f, up) /\ Total(f) = up[NumRanks]
<1> DEFINE total == CHOOSE up : Sums(f, up)
<1>1. \E up : Sums(f, up)
  BY Geometry, SumExists DEF Sums
<1>2. Sums(f, total)
  BY <1>1
<1>3. Total(f) = total[NumRanks]
  BY DEF Total, Sums
<1> HIDE DEF total
<1> QED BY <1>2, <1>3

\* Partial sums, one rank at a time.
LEMMA SumSteps ==
  ASSUME NEW f, NEW up, Sums(f, up)
  PROVE  /\ NumRanks \in Nat \ {0} /\ Ranks = 0 .. NumRanks - 1
         /\ up[0] = 0 /\ \A i \in Ranks : up[i + 1] = up[i] + f[i]
<1>1. NumRanks \in Nat \ {0} /\ Ranks = 0 .. NumRanks - 1
  BY Geometry DEF Ranks
<1>2. \A i \in 0 .. NumRanks : up[i] = IF i = 0 THEN 0 ELSE up[i - 1] + f[i - 1]
  BY DEF Sums
<1>3. up[0] = 0
  BY <1>1, <1>2
<1>4. ASSUME NEW i \in Ranks PROVE up[i + 1] = up[i] + f[i]
  <2>1. i + 1 \in 0 .. NumRanks /\ i + 1 # 0 /\ (i + 1) - 1 = i
    BY <1>1
  <2> QED BY <1>2, <2>1
<1> QED BY <1>1, <1>3, <1>4

\* Induction over the ranks, for a set of naturals.
LEMMA ClimbRanks ==
  ASSUME NEW G, 0 \in G, \A i \in 0 .. NumRanks - 1 : i \in G => i + 1 \in G
  PROVE  NumRanks \in G
<1>1. NumRanks \in Nat
  BY Geometry
<1>2. \A i \in 0 .. NumRanks : i \in G
  BY ONLY <1>1, 0 \in G, \A i \in 0 .. NumRanks - 1 : i \in G => i + 1 \in G, Climb
<1> QED BY <1>1, <1>2

\* One rank's number changed: so does the sum, by as much.
LEMMA TotalChange ==
  ASSUME NEW f \in [Ranks -> Int], NEW g \in [Ranks -> Int], NEW k \in Ranks,
         \A r \in Ranks : r # k => g[r] = f[r]
  PROVE  Total(g) = Total(f) + g[k] - f[k] /\ Total(f) \in Int
<1>1. PICK u : Sums(f, u) /\ Total(f) = u[NumRanks]
  BY TotalIs
<1>2. PICK v : Sums(g, v) /\ Total(g) = v[NumRanks]
  BY TotalIs
<1>3. NumRanks \in Nat \ {0} /\ Ranks = 0 .. NumRanks - 1 /\ g[k] \in Int /\ f[k] \in Int
  BY <1>1, SumSteps
<1> DEFINE G == {i \in Nat : u[i] \in Int /\ v[i] = u[i] + (IF i > k THEN g[k] - f[k] ELSE 0)}
<1>4. 0 \in G
  BY <1>1, <1>2, <1>3, SumSteps
<1>5. ASSUME NEW i \in 0 .. NumRanks - 1, i \in G
      PROVE  i + 1 \in G
  <2>1. u[i + 1] = u[i] + f[i] /\ v[i + 1] = v[i] + g[i] /\ f[i] \in Int /\ g[i] \in Int
    BY <1>1, <1>2, <1>3, SumSteps
  <2>2. u[i] \in Int /\ v[i] = u[i] + (IF i > k THEN g[k] - f[k] ELSE 0)
    BY <1>5
  <2>3. i # k => g[i] = f[i]
    BY <1>3
  <2> QED BY <1>3, <2>1, <2>2, <2>3
<1> HIDE DEF G
<1>6. NumRanks \in G
  BY <1>3, <1>4, <1>5, ClimbRanks
<1>7. v[NumRanks] = u[NumRanks] + g[k] - f[k] /\ u[NumRanks] \in Int
  BY <1>3, <1>6 DEF G
<1> QED BY <1>1, <1>2, <1>7

\* Sums add up.
LEMMA TotalAdd ==
  ASSUME NEW f \in [Ranks -> Int], NEW g \in [Ranks -> Int], NEW h \in [Ranks -> Int],
         \A r \in Ranks : h[r] = f[r] + g[r]
  PROVE  Total(h) = Total(f) + Total(g) /\ Total(f) \in Int /\ Total(g) \in Int
<1>1. PICK u : Sums(f, u) /\ Total(f) = u[NumRanks]
  BY TotalIs
<1>2. PICK v : Sums(g, v) /\ Total(g) = v[NumRanks]
  BY TotalIs
<1>3. PICK w : Sums(h, w) /\ Total(h) = w[NumRanks]
  BY TotalIs
<1>4. NumRanks \in Nat \ {0} /\ Ranks = 0 .. NumRanks - 1
  BY <1>1, SumSteps
<1> DEFINE G == {i \in Nat : u[i] \in Int /\ v[i] \in Int /\ w[i] = u[i] + v[i]}
<1>5. 0 \in G
  BY <1>1, <1>2, <1>3, SumSteps
<1>6. ASSUME NEW i \in 0 .. NumRanks - 1, i \in G
      PROVE  i + 1 \in G
  <2> i \in Ranks
    BY <1>4
  <2>1. u[i + 1] = u[i] + f[i] /\ v[i + 1] = v[i] + g[i] /\ w[i + 1] = w[i] + h[i]
    <3>1. u[i + 1] = u[i] + f[i]
      BY <1>1, SumSteps
    <3>2. v[i + 1] = v[i] + g[i]
      BY <1>2, SumSteps
    <3>3. w[i + 1] = w[i] + h[i]
      BY <1>3, SumSteps
    <3> QED BY <3>1, <3>2, <3>3
  <2>2. u[i] \in Int /\ v[i] \in Int /\ w[i] = u[i] + v[i]
    BY <1>6
  <2>3. f[i] \in Int /\ g[i] \in Int /\ h[i] = f[i] + g[i]
    BY <1>4
  <2>4. i + 1 \in Nat /\ i \in Nat
    BY <1>4
  <2>5. u[i + 1] \in Int /\ v[i + 1] \in Int /\ w[i + 1] = u[i + 1] + v[i + 1]
    BY ONLY <2>1, <2>2, <2>3
  <2> QED BY ONLY <2>4, <2>5
<1> HIDE DEF G
<1>7. NumRanks \in G
  BY <1>4, <1>5, <1>6, ClimbRanks
<1> QED BY <1>1, <1>2, <1>3, <1>7 DEF G

\* Nothing in any rank sums to nothing; one rank's alone sums to it.
LEMMA TotalSingle ==
  ASSUME NEW k \in Ranks, NEW n \in Int
  PROVE  /\ Total([r \in Ranks |-> 0]) = 0
         /\ Total([r \in Ranks |-> IF r = k THEN n ELSE 0]) = n
<1> DEFINE none == [r \in Ranks |-> 0]
           one == [r \in Ranks |-> IF r = k THEN n ELSE 0]
<1>1. none \in [Ranks -> Int] /\ one \in [Ranks -> Int]
  OBVIOUS
<1>2. none[k] = 0 /\ \A r \in Ranks : none[r] = none[r] + none[r]
  OBVIOUS
<1>3. one[k] = n /\ \A r \in Ranks : r # k => one[r] = none[r]
  OBVIOUS
<1> HIDE DEF none, one
<1>4. Total(none) = Total(none) + Total(none) /\ Total(none) \in Int
  BY <1>1, <1>2, TotalAdd
<1>5. Total(one) = Total(none) + one[k] - none[k]
  BY <1>1, <1>3, TotalChange
<1>6. Total(none) = 0
  <2>1. \A t \in Int : t = t + t => t = 0
    OBVIOUS
  <2> QED BY <1>4, <2>1
<1>7. Total(one) = n
  <2>1. Total(one) = 0 + n - 0 /\ n \in Int
    BY <1>2, <1>3, <1>5, <1>6
  <2> QED BY ONLY <2>1
<1> QED BY <1>6, <1>7 DEF none, one

\* A sum of naturals is at least each of them.
LEMMA TotalAtLeast ==
  ASSUME NEW f \in [Ranks -> Nat], NEW k \in Ranks
  PROVE  Total(f) \in Nat /\ f[k] <= Total(f)
<1>1. PICK u : Sums(f, u) /\ Total(f) = u[NumRanks]
  BY TotalIs
<1>2. NumRanks \in Nat \ {0} /\ Ranks = 0 .. NumRanks - 1 /\ f[k] \in Nat
  BY <1>1, SumSteps
<1> DEFINE G == {i \in Nat : u[i] \in Nat /\ (i > k => f[k] <= u[i])}
<1>3. 0 \in G
  BY <1>1, <1>2, SumSteps
<1>4. ASSUME NEW i \in 0 .. NumRanks - 1, i \in G
      PROVE  i + 1 \in G
  <2>1. u[i + 1] = u[i] + f[i] /\ f[i] \in Nat
    BY <1>1, <1>2, SumSteps
  <2>2. u[i] \in Nat /\ (i > k => f[k] <= u[i])
    BY <1>4
  <2> QED BY <1>2, <2>1, <2>2
<1> HIDE DEF G
<1>5. NumRanks \in G
  BY <1>2, <1>3, <1>4, ClimbRanks
<1> QED BY <1>1, <1>2, <1>5 DEF G

-----------------------------------------------------------------------------
(* A data bus and the bursts waiting for it. *)

\* Cycles until the last burst that has been accepted leaves the bus.
Out(q, b) == IF q = <<>> THEN b.left ELSE q[Len(q)].left + Burst

\* Every burst waiting finds the bus free when its turn comes.
Spaced(q, b) ==
  /\ \A i, j \in 1 .. Len(q) : i < j => q[i].left + Burst <= q[j].left
  /\ q # <<>> => b.left <= q[1].left

\* An update: what is due takes the bus, which is free by then.
LEMMA Advance ==
  ASSUME NEW X, NEW q \in Seq(X), Apart(q),
         \A x \in X : /\ x.left \in Nat \ {0}
                      /\ x.left > 1 => OneLess(x) \in X /\ OneLess(x).left = x.left - 1,
         NEW b, b.left \in Nat, Spaced(q, b),
         NEW n, n.left = IF Due(q) THEN Burst ELSE IF b.left <= 1 THEN 0 ELSE b.left - 1
  PROVE  /\ Spaced(Rest(q), n) /\ Out(q, b) \in Nat
         /\ Out(Rest(q), n) = IF Out(q, b) = 0 THEN 0 ELSE Out(q, b) - 1
         /\ Due(q) => b.left <= 1
<1> DEFINE d == IF Due(q) THEN 1 ELSE 0
           t == Rest(q)
           m == Len(q)
<1>1. /\ t \in Seq(X) /\ Len(t) = m - d /\ d <= m /\ m \in Nat
      /\ \A k \in 1 .. m - d : q[k + d].left > 1 /\ t[k].left = q[k + d].left - 1
  <2>1. t \in Seq(X) /\ Len(t) = m - d /\ d <= m /\ m \in Nat
    BY RestProperties
  <2>2. ASSUME NEW k \in 1 .. Len(q) - d
        PROVE  q[k + d].left > 1 /\ Rest(q)[k].left = q[k + d].left - 1
    <3>1. q[k + d] \in X /\ q[k + d].left > 1 /\ Rest(q)[k] = OneLess(q[k + d])
      BY RestProperties
    <3> QED BY <3>1
  <2> QED BY <2>1, <2>2
<1>2. \A k \in 1 .. m : q[k].left \in Nat \ {0}
  BY ElementOfSeq
<1>3. Burst \in Nat \ {0} /\ d \in {0, 1} /\ (d = 1 <=> Due(q))
  BY Geometry
<1>4. (q = <<>> <=> m = 0) /\ (t = <<>> <=> m = d)
  <2>1. t = <<>> <=> Len(t) = 0
    BY <1>1, EmptySeq
  <2> QED BY <1>1, <2>1, EmptySeq
<1>5. Due(q) => m >= 1 /\ q[1].left = 1
  <2>1. q # <<>> => Head(q) = q[1]
    BY HeadTailProperties
  <2> QED BY <1>1, <1>4, <2>1 DEF Due
<1>6. \A i, j \in 1 .. m : i < j => q[i].left + Burst <= q[j].left
  BY DEF Spaced
<1>7. m # 0 => b.left <= q[1].left
  BY <1>4 DEF Spaced
<1>8. Out(q, b) = (IF m = 0 THEN b.left ELSE q[m].left + Burst)
      /\ Out(t, n) = (IF m = d THEN n.left ELSE t[m - d].left + Burst)
  BY <1>1, <1>4 DEF Out
<1>9. n.left = IF d = 1 THEN Burst ELSE IF b.left <= 1 THEN 0 ELSE b.left - 1
  BY <1>3
<1> HIDE DEF t, d, m
<1>10. Due(q) => b.left <= 1
  BY <1>1, <1>5, <1>7
<1>11. ASSUME NEW i \in 1 .. m - d, NEW j \in 1 .. m - d, i < j
       PROVE  t[i].left + Burst <= t[j].left
  <2>1. i + d \in 1 .. m /\ j + d \in 1 .. m /\ i + d < j + d
    BY <1>1, <1>3, <1>11
  <2>2. q[i + d].left + Burst <= q[j + d].left
    BY <1>6, <2>1
  <2>3. q[i + d].left \in Nat /\ q[j + d].left \in Nat
    BY <1>2, <2>1
  <2>4. t[i].left = q[i + d].left - 1 /\ t[j].left = q[j + d].left - 1
    BY <1>1
  <2>5. \A x, y, z \in Nat : x + z <= y => (x - 1) + z <= y - 1
    OBVIOUS
  <2>6. (q[i + d].left - 1) + Burst <= q[j + d].left - 1
    BY <1>3, <2>2, <2>3, <2>5
  <2> QED BY <2>4, <2>6
<1>12. ASSUME m # d PROVE n.left <= t[1].left
  <2>1. 1 \in 1 .. m - d /\ 1 + d \in 1 .. m /\ 1 \in 1 .. m
    BY <1>1, <1>3, <1>12
  <2>2. t[1].left = q[1 + d].left - 1 /\ q[1 + d].left > 1 /\ q[1 + d].left \in Nat
    BY <1>1, <1>2, <2>1
  <2>3. CASE d = 1
    <3>1. q[1].left + Burst <= q[1 + d].left /\ q[1].left = 1
      BY <1>3, <1>5, <1>6, <2>1, <2>3
    <3> QED BY <1>3, <1>9, <2>2, <2>3, <3>1
  <2>4. CASE d = 0
    <3>1. b.left <= q[1 + d].left
      BY <1>3, <1>7, <2>1, <2>4
    <3> QED BY <1>9, <2>2, <2>4, <3>1
  <2> QED BY <1>3, <2>3, <2>4
<1>13. Out(q, b) \in Nat /\ Out(t, n) = IF Out(q, b) = 0 THEN 0 ELSE Out(q, b) - 1
  <2>1. CASE m = 0
    <3>1. d = 0
      BY <1>1, <1>3, <2>1
    <3> QED BY <1>8, <1>9, <2>1, <3>1
  <2>2. CASE m # 0 /\ m = d
    <3>1. d = 1 /\ q[m].left = 1
      BY <1>3, <1>5, <2>2
    <3> QED BY <1>3, <1>8, <1>9, <2>2, <3>1
  <2>3. CASE m # 0 /\ m # d
    <3>1. m - d \in 1 .. m - d /\ (m - d) + d = m /\ m \in 1 .. m
      BY <1>1, <1>3, <2>3
    <3>2. t[m - d].left = q[m].left - 1 /\ q[m].left > 1 /\ q[m].left \in Nat
      BY <1>1, <1>2, <3>1
    <3> QED BY <1>3, <1>8, <2>3, <3>2
  <2> QED BY <2>1, <2>2, <2>3
<1>14. Spaced(t, n)
  BY <1>1, <1>4, <1>11, <1>12 DEF Spaced
<1> QED BY <1>10, <1>13, <1>14 DEF t

\* A burst that will find the bus free may join the queue.
LEMMA Join ==
  ASSUME NEW X, NEW q \in Seq(X), \A x \in X : x.left \in Nat,
         NEW b, b.left \in Nat, Spaced(q, b), NEW e \in X, Out(q, b) <= e.left
  PROVE  Spaced(Append(q, e), b) /\ Out(Append(q, e), b) = e.left + Burst
<1> DEFINE t == Append(q, e)
           m == Len(q)
<1>1. /\ m \in Nat /\ t \in Seq(X) /\ Len(t) = m + 1 /\ t[m + 1] = e
      /\ \A i \in 1 .. m : t[i] = q[i] /\ q[i].left \in Nat
  BY AppendProperties, LenProperties, ElementOfSeq
<1>2. (q = <<>> <=> m = 0) /\ t # <<>>
  <2>1. t = <<>> <=> Len(t) = 0
    BY <1>1, EmptySeq
  <2> QED BY <1>1, <2>1, EmptySeq
<1>3. /\ \A i, j \in 1 .. m : i < j => q[i].left + Burst <= q[j].left
      /\ m # 0 => b.left <= q[1].left
  BY <1>2 DEF Spaced
<1>4. Burst \in Nat /\ e.left \in Nat
  BY Geometry
<1>5. (IF m = 0 THEN b.left ELSE q[m].left + Burst) <= e.left
  BY <1>2 DEF Out
<1>6. Out(t, b) = e.left + Burst
  BY <1>1, <1>2 DEF Out
<1> HIDE DEF t, m
<1>7. ASSUME NEW i \in 1 .. m + 1, NEW j \in 1 .. m + 1, i < j
      PROVE  t[i].left + Burst <= t[j].left
  <2>1. i \in 1 .. m /\ t[i] = q[i] /\ q[i].left \in Nat
    BY <1>1, <1>7
  <2>2. CASE j = m + 1
    <3>1. m \in 1 .. m /\ q[m].left \in Nat /\ m # 0
      BY <1>1, <2>1
    <3>2. q[i].left <= q[m].left
      <4>1. CASE i = m
        BY <3>1, <4>1
      <4>2. CASE i < m
        <5>1. q[i].left + Burst <= q[m].left
          BY <1>3, <2>1, <3>1, <4>2
        <5> QED BY ONLY <1>4, <2>1, <3>1, <5>1
      <4> QED BY <1>1, <2>1, <4>1, <4>2
    <3>3. t[j].left = e.left
      BY <1>1, <2>2
    <3>4. q[m].left + Burst <= e.left
      BY <1>5, <3>1
    <3>5. \A x, y, z, d \in Nat : x <= y /\ y + d <= z => x + d <= z
      OBVIOUS
    <3> QED BY ONLY <1>4, <2>1, <3>1, <3>2, <3>3, <3>4, <3>5, Zenon
  <2>3. CASE j # m + 1
    <3>1. j \in 1 .. m
      BY <1>1, <2>3
    <3> QED BY <1>1, <1>3, <1>7, <2>1, <3>1
  <2> QED BY <2>2, <2>3
<1>8. b.left <= t[1].left
  <2>1. CASE m = 0
    BY <1>1, <1>5, <2>1
  <2>2. CASE m # 0
    <3>1. 1 \in 1 .. m
      BY <1>1, <2>2
    <3> QED BY <1>1, <1>3, <2>2, <3>1
  <2> QED BY <2>1, <2>2
<1> QED BY <1>1, <1>6, <1>7, <1>8 DEF Spaced, t

-----------------------------------------------------------------------------
(* What a command does to the shadow's next read and next write. *)

\* The gaps a column access leaves are at least a burst long.
LEMMA GapsHold ==
  ASSUME NEW i \in Banks, NEW j \in Banks
  PROVE  ColumnGap(i, j) \in Nat /\ ColumnGap(i, j) >= Burst
<1>1. tCCDL \in Nat /\ tCCDS \in Nat /\ Burst \in Nat
  BY TimingAssumption, Geometry DEF TimingAssumption
<1> QED BY <1>1 DEF ColumnGap, Later

\* A countdown ages by one at most, and waiting for a command leaves it alone.
LEMMA BankWaits ==
  ASSUME NEW x \in BankStateType
  PROVE  /\ SettleBank(x).nRd = x.nRd /\ SettleBank(x).nWr = x.nWr
         /\ SettleBank(x).st = "RowActive" => x.st = "RowActive"
         /\ AgeBank(x).nRd >= x.nRd - 1 /\ AgeBank(x).nWr >= x.nWr - 1
         /\ AgeBank(x).st = x.st
         /\ x.nRd \in Nat /\ x.nWr \in Nat
<1>1. x.nRd \in Nat /\ x.nWr \in Nat
  BY DEF BankStateType
<1>2. /\ SettleBank(x).nRd = x.nRd /\ SettleBank(x).nWr = x.nWr
      /\ SettleBank(x).st = "RowActive" => x.st = "RowActive"
  BY DEF SettleBank, BankStateType
<1>3. AgeBank(x).nRd = Age(x.nRd) /\ AgeBank(x).nWr = Age(x.nWr) /\ AgeBank(x).st = x.st
  BY DEF AgeBank, BankStateType
<1> QED BY <1>1, <1>2, <1>3 DEF Age

\* ColumnDelays only ever puts the next read and the next write off.
LEMMA DelaysHold ==
  ASSUME NEW x \in BankStateType, NEW rd \in Nat, NEW wr \in Nat
  PROVE  LET y == ColumnDelays(x, rd, wr) IN
         /\ y.nRd \in Nat /\ y.nRd >= x.nRd /\ y.nRd >= rd
         /\ y.nWr \in Nat /\ y.nWr >= x.nWr /\ y.nWr >= wr
         /\ y.st = x.st /\ y \in BankStateType
<1>1. x.nRd \in Nat /\ x.nWr \in Nat
  BY DEF BankStateType
<1>2. ColumnDelays(x, rd, wr).nRd = Later(x.nRd, rd) /\ ColumnDelays(x, rd, wr).nWr = Later(x.nWr, wr)
      /\ ColumnDelays(x, rd, wr).st = x.st
  BY DEF ColumnDelays, BankStateType
<1>3. Later(x.nRd, rd) \in Nat /\ Later(x.nWr, wr) \in Nat
  BY <1>1 DEF Later
<1>4. ColumnDelays(x, rd, wr) \in BankStateType
  BY <1>3 DEF ColumnDelays, BankStateType
<1> QED BY <1>1, <1>2, <1>3, <1>4 DEF Later

\* What a command that is recorded does to bank j of rank i.
LEMMA BankRecords ==
  ASSUME NEW x \in BankStateType, NEW c, CommandOf(c) \in Commands, NEW i \in Ranks, NEW j \in Banks
  PROVE  LET y == McBank(x, c, i, j) IN
         /\ y.nRd \in Nat /\ y.nRd >= x.nRd /\ y.nWr \in Nat /\ y.nWr >= x.nWr
         /\ c.op = "READ" /\ i = c.rank => y.nRd >= Burst
         /\ c.op = "WRITE" /\ (i = c.rank \/ x.st = "RowActive") => y.nWr >= Burst
         /\ y.st = "RowActive" =>
              x.st = "RowActive" \/ (c.op = "ACTIVATE" /\ y.nWr >= tRCDWR - AL)
         /\ c.op \in {"READ", "WRITE"} => y.st = x.st
<1> DEFINE y == McBank(x, c, i, j)
<1>1. x.nRd \in Nat /\ x.nWr \in Nat
  BY DEF BankStateType
<1>2. /\ Burst \in Nat /\ Burst + tRTRS \in Nat /\ Burst + tRTRS >= Burst /\ READ_TO_WRITE_DELAY \in Nat
      /\ WRITE_TO_READ_DELAY_R \in Nat /\ WRITE_TO_READ_DELAY_B_LONG \in Nat
      /\ tRCDRD - AL \in Nat /\ tRCDWR - AL \in Nat
  BY TimingAssumption, Geometry
  DEF TimingAssumption, READ_TO_WRITE_DELAY, WRITE_TO_READ_DELAY_R, WRITE_TO_READ_DELAY_B_LONG
<1>3. c.op \in Ops /\ c.bank \in Banks
  BY DEF CommandOf, Commands
<1>4. ColumnGap(j, c.bank) \in Nat /\ ColumnGap(j, c.bank) >= Burst
  BY <1>3, GapsHold
<1>5. CASE c.op = "READ"
  <2>1. y = McRead(x, c, i, j)
    BY <1>5 DEF McBank
  <2>2. CASE i # c.rank
    <3> DEFINE z == ColumnDelays(x, Burst + tRTRS, READ_TO_WRITE_DELAY)
    <3>1. z.nRd \in Nat /\ z.nRd >= x.nRd /\ z.nWr \in Nat /\ z.nWr >= x.nWr /\ z.st = x.st
      BY <1>2, DelaysHold
    <3>2. y = IF x.st = "RowActive" THEN z ELSE x
      BY <2>1, <2>2 DEF McRead
    <3> HIDE DEF y, z
    <3>3. y.nRd \in Nat /\ y.nRd >= x.nRd /\ y.nWr \in Nat /\ y.nWr >= x.nWr /\ y.st = x.st
      BY <1>1, <3>1, <3>2
    <3> QED BY <1>5, <2>2, <3>3 DEF y
  <2>3. CASE i = c.rank
    <3> DEFINE z == ColumnDelays(x, ColumnGap(j, c.bank), READ_TO_WRITE_DELAY)
    <3>1. /\ z.nRd \in Nat /\ z.nRd >= x.nRd /\ z.nWr \in Nat /\ z.nWr >= x.nWr /\ z.st = x.st
          /\ z.nRd >= ColumnGap(j, c.bank) /\ z \in BankStateType
      BY <1>2, <1>4, DelaysHold
    <3>2. y = IF j = c.bank
              THEN [z EXCEPT !.nPre = Later(@, READ_TO_PRE_DELAY), !.last = "READ"] ELSE z
      BY <2>1, <2>3 DEF McRead
    <3> HIDE DEF y, z
    <3>3. y.nRd = z.nRd /\ y.nWr = z.nWr /\ y.st = z.st
      BY <3>1, <3>2 DEF BankStateType
    <3>4. y.nRd >= Burst
      BY <1>2, <1>4, <3>1, <3>3
    <3> QED BY <1>5, <3>1, <3>3, <3>4 DEF y
  <2> QED BY <2>2, <2>3
<1>6. CASE c.op = "WRITE"
  <2>1. y = McWrite(x, c, i, j)
    BY <1>6 DEF McBank
  <2>2. CASE i # c.rank
    <3> DEFINE z == ColumnDelays(x, WRITE_TO_READ_DELAY_R, Burst + tRTRS)
    <3>1. /\ z.nRd \in Nat /\ z.nRd >= x.nRd /\ z.nWr \in Nat /\ z.nWr >= x.nWr /\ z.st = x.st
          /\ z.nWr >= Burst + tRTRS
      BY <1>2, DelaysHold
    <3>2. y = IF x.st = "RowActive" THEN z ELSE x
      BY <2>1, <2>2 DEF McWrite
    <3> HIDE DEF y, z
    <3>3. /\ y.nRd \in Nat /\ y.nRd >= x.nRd /\ y.nWr \in Nat /\ y.nWr >= x.nWr /\ y.st = x.st
          /\ x.st = "RowActive" => y.nWr >= Burst
      BY <1>1, <1>2, <3>1, <3>2
    <3> QED BY <1>6, <2>2, <3>3 DEF y
  <2>3. CASE i = c.rank
    <3> DEFINE z == ColumnDelays(x, WRITE_TO_READ_DELAY_B_LONG, ColumnGap(j, c.bank))
    <3>1. /\ z.nRd \in Nat /\ z.nRd >= x.nRd /\ z.nWr \in Nat /\ z.nWr >= x.nWr /\ z.st = x.st
          /\ z.nWr >= ColumnGap(j, c.bank) /\ z \in BankStateType
      BY <1>2, <1>4, DelaysHold
    <3>2. y = IF j = c.bank
              THEN [z EXCEPT !.nPre = Later(@, WRITE_TO_PRE_DELAY), !.last = "WRITE"] ELSE z
      BY <2>1, <2>3 DEF McWrite
    <3> HIDE DEF y, z
    <3>3. y.nRd = z.nRd /\ y.nWr = z.nWr /\ y.st = z.st
      BY <3>1, <3>2 DEF BankStateType
    <3>4. y.nWr >= Burst
      BY <1>2, <1>4, <3>1, <3>3
    <3> QED BY <1>6, <3>1, <3>3, <3>4 DEF y
  <2> QED BY <2>2, <2>3
<1>7. CASE c.op = "ACTIVATE"
  <2>1. y = McActivate(x, c, i, j)
    BY <1>7 DEF McBank
  <2> DEFINE z == ColumnDelays(x, tRCDRD - AL, tRCDWR - AL)
  <2>2. /\ z.nRd \in Nat /\ z.nRd >= x.nRd /\ z.nWr \in Nat /\ z.nWr >= x.nWr
        /\ z.nWr >= tRCDWR - AL /\ z \in BankStateType
    BY <1>2, DelaysHold
  <2> HIDE DEF z
  <2>3. CASE i # c.rank \/ j # c.bank
    <3>1. y.nRd = x.nRd /\ y.nWr = x.nWr /\ y.st = x.st
      BY <2>1, <2>3 DEF McActivate, BankStateType
    <3> HIDE DEF y
    <3> QED BY <1>1, <1>7, <3>1 DEF y
  <2>4. CASE i = c.rank /\ j = c.bank
    <3>1. y = [z EXCEPT !.st = "RowActive", !.row = c.row, !.last = "ACTIVATE",
                        !.nAct = Later(@, tRC), !.nPre = Later(@, tRAS)]
      BY <2>1, <2>4 DEF McActivate, z
    <3> HIDE DEF y
    <3>2. y.nRd = z.nRd /\ y.nWr = z.nWr
      BY <2>2, <3>1 DEF BankStateType
    <3> QED BY <1>7, <2>2, <3>2 DEF y
  <2> QED BY <2>3, <2>4
<1>8. CASE c.op \in {"PRECHARGE", "REF"}
  <2>1. y.nRd = x.nRd /\ y.nWr = x.nWr /\ (y.st = "RowActive" => x.st = "RowActive")
    BY <1>8 DEF McBank, McPrecharge, McRefresh, BankStateType
  <2> HIDE DEF y
  <2> QED BY <1>1, <1>8, <2>1 DEF y
<1> QED BY <1>3, <1>5, <1>6, <1>7, <1>8 DEF Ops

-----------------------------------------------------------------------------
(* The data buses carry one burst at a time. *)

\* The bus to the ranks is empty when a command is chosen for it, and a check that
\* ended the program in Deliver ended it there.
Phases ==
  /\ pc = "issue" => bus = NoCmd
  /\ pc = "deliver" => error \in {"none", "noMatch"}

\* The phases of an update, at the start,
LEMMA PhasesInit == Init => Phases
  BY DEF Init, Phases

\* and along every step.
LEMMA PhasesStep == TypeInv /\ Phases /\ [Next]_vars => Phases'
<1> SUFFICES ASSUME TypeInv, Phases, [Next]_vars PROVE Phases'
  OBVIOUS
<1> USE DEF Phases
<1>1. CASE \E o \in {"READ", "WRITE"}, l \in Locations : AddTransaction(o, l)
  BY <1>1 DEF AddTransaction
<1>2. CASE AddBarrier
  BY <1>2 DEF AddBarrier
<1>3. CASE Deliver
  BY <1>3 DEF Deliver, CommandArrives
<1>4. ASSUME NEW c, Record(c) PROVE Phases'
  BY <1>4 DEF Record
<1>5. CASE IssueNothing
  BY <1>5 DEF IssueNothing
<1>6. CASE Retire
  BY <1>6 DEF Retire, ReturnRead
<1>7. CASE UNCHANGED vars
  BY <1>7 DEF vars
<1> QED BY StepCases, <1>1, <1>2, <1>3, <1>4, <1>5, <1>6, <1>7 DEF Column, Bare

\* The last read a rank has accepted is off its bus by the time the shadow lets the
\* next one take it: the shadow's next read is at least that far away, up to RL.
ReadGap(r) ==
  /\ Spaced(rdRet[r], rdBus[r])
  /\ \A b \in Banks : Out(rdRet[r], rdBus[r]) <= mc[r][b].nRd + RL + (IF pc = "deliver" THEN 2 ELSE 1)
  /\ IsRead(bus) /\ bus.rank = r =>
       /\ Out(rdRet[r], rdBus[r]) <= RL + 1
       /\ \A b \in Banks : mc[r][b].nRd >= IF pc = "deliver" THEN Burst - 1 ELSE Burst
ReadGaps == \A r \in Ranks : ReadGap(r)

\* A rank's read bus, one update later.
LEMMA ReadBusAdvances ==
  ASSUME TypeInv, NEW r \in Ranks, Spaced(rdRet[r], rdBus[r]), Deliver
  PROVE  /\ Spaced(Rest(rdRet[r]), rdBus'[r]) /\ Out(rdRet[r], rdBus[r]) \in Nat
         /\ Out(Rest(rdRet[r]), rdBus'[r])
              = IF Out(rdRet[r], rdBus[r]) = 0 THEN 0 ELSE Out(rdRet[r], rdBus[r]) - 1
         /\ Due(rdRet[r]) => rdBus[r].left <= 1
         /\ rdBus'[r].left \in Nat
<1> DEFINE q == rdRet[r]
           b == rdBus[r]
           n == rdBus'[r]
<1>1. /\ q \in Seq(Returns) /\ Apart(q)
      /\ \A x \in Returns : /\ x.left \in Nat \ {0}
                            /\ x.left > 1 => OneLess(x) \in Returns /\ OneLess(x).left = x.left - 1
  BY CountdownTypes
<1>2. b \in {None} \cup [pkt : Finds, left : 1 .. Burst] /\ Burst \in Nat
  BY Geometry DEF TypeInv, ReturnsOK
<1>3. b.left \in Nat
  BY <1>2 DEF None
<1>4. n = IF Due(q) THEN [pkt |-> Head(q).pkt, left |-> Burst] ELSE BusAfter(b)
  BY DEF Deliver, RanksUpdate
<1>5. BusAfter(b).left = IF b.left <= 1 THEN 0 ELSE b.left - 1
  BY <1>2 DEF BusAfter, None
<1>6. n.left = IF Due(q) THEN Burst ELSE IF b.left <= 1 THEN 0 ELSE b.left - 1
  BY <1>4, <1>5
<1>7. Spaced(q, b)
  OBVIOUS
<1> HIDE DEF q, b, n
<1>8. /\ Spaced(Rest(q), n) /\ Out(q, b) \in Nat
      /\ Out(Rest(q), n) = IF Out(q, b) = 0 THEN 0 ELSE Out(q, b) - 1
      /\ Due(q) => b.left <= 1
  BY <1>1, <1>3, <1>6, <1>7, Advance
<1>9. n.left \in Nat
  BY <1>2, <1>3, <1>6
<1> QED BY <1>8, <1>9 DEF q, b, n

\* Reads on their way back keep their distance: at the start,
LEMMA ReadGapsInit == Init => ReadGaps
<1> SUFFICES ASSUME Init, NEW r \in Ranks PROVE ReadGap(r)
  BY DEF ReadGaps
<1>1. rdRet[r] = <<>> /\ rdBus[r] = None /\ bus = NoCmd /\ \A b \in Banks : mc[r][b].nRd = 0
  BY DEF Init, InitBank
<1>2. Spaced(<<>>, None) /\ Out(<<>>, None) = 0
  BY EmptySeq DEF Spaced, Out, None
<1> QED BY <1>1, <1>2, Geometry DEF ReadGap, IsRead

\* and along every step.
LEMMA ReadGapsStep == TypeInv /\ Phases /\ ReadGaps /\ [Next]_vars => ReadGaps'
<1> SUFFICES ASSUME TypeInv, Phases, ReadGaps, [Next]_vars, NEW r \in Ranks
             PROVE  ReadGap(r)'
  BY DEF ReadGaps
<1> DEFINE out == Out(rdRet[r], rdBus[r])
<1>0. /\ ReadGap(r) /\ RL \in Nat \ {0} /\ Burst \in Nat \ {0}
      /\ \A b \in Banks : mc[r][b] \in BankStateType /\ mc[r][b].nRd \in Nat
  BY Geometry, BankWaits DEF ReadGaps, TypeInv, BanksOK
<1>00. out \in Nat
  <2>1. rdRet[r] \in Seq(Returns) /\ rdBus[r] \in {None} \cup [pkt : Finds, left : 1 .. Burst]
    BY DEF TypeInv, ReturnsOK
  <2>2. rdRet[r] # <<>> => Len(rdRet[r]) \in 1 .. Len(rdRet[r])
    BY <2>1, LenProperties, EmptySeq
  <2>3. rdRet[r] # <<>> => rdRet[r][Len(rdRet[r])] \in Returns
    BY <2>1, <2>2, ElementOfSeq
  <2> QED BY <1>0, <2>1, <2>3 DEF Out, None, Returns
<1>1. CASE UNCHANGED <<rdRet, rdBus, mc, bus, pc>>
  BY <1>0, <1>1 DEF ReadGap, IsRead
<1>2. CASE \E o \in {"READ", "WRITE"}, l \in Locations : AddTransaction(o, l)
  BY <1>1, <1>2 DEF AddTransaction, dataVars
<1>3. CASE AddBarrier
  BY <1>1, <1>3 DEF AddBarrier, dataVars
<1>4. CASE Deliver
  <2> DEFINE rest == Rest(rdRet[r])
  <2>1. /\ Spaced(rest, rdBus'[r]) /\ rdBus'[r].left \in Nat
        /\ Out(rest, rdBus'[r]) = IF out = 0 THEN 0 ELSE out - 1
    BY <1>0, <1>4, ReadBusAdvances DEF ReadGap
  <2>2. bus' = NoCmd /\ pc = "deliver" /\ pc' = "issue"
        /\ \A b \in Banks : mc'[r][b].nRd = mc[r][b].nRd
    BY <1>0, <1>4, BankWaits DEF Deliver, CommandArrives
  <2>3. CASE IsRead(bus) /\ bus.rank = r
    <3> DEFINE e == [pkt |-> Found(bus), left |-> RL]
    <3>1. e \in Returns /\ rdRet'[r] = Append(rest, e) /\ e.left = RL /\ rest \in Seq(Returns)
      BY <1>4, <2>3, ReturnsAfter, ReturnsRest
    <3>2. out <= RL + 1 /\ \A b \in Banks : mc[r][b].nRd >= Burst - 1
      BY <1>0, <2>2, <2>3 DEF ReadGap
    <3>3. \A x \in Returns : x.left \in Nat
      BY CountdownTypes
    <3>4. Out(rest, rdBus'[r]) <= RL
      BY <1>0, <1>00, <2>1, <3>2
    <3> HIDE DEF e, rest
    <3>5. Spaced(rdRet'[r], rdBus'[r]) /\ Out(rdRet'[r], rdBus'[r]) = RL + Burst
      BY <2>1, <3>1, <3>3, <3>4, Join
    <3>6. \A b \in Banks : Out(rdRet'[r], rdBus'[r]) <= mc'[r][b].nRd + RL + 1
      BY <1>0, <2>2, <3>2, <3>5
    <3> QED BY <2>2, <3>5, <3>6 DEF ReadGap, IsRead
  <2>4. CASE ~(IsRead(bus) /\ bus.rank = r)
    <3>1. rdRet'[r] = rest
      BY <1>4, <2>4, ReturnsAfter
    <3>2. \A b \in Banks : out <= mc[r][b].nRd + RL + 2
      BY <1>0, <2>2 DEF ReadGap
    <3>3. \A b \in Banks : Out(rdRet'[r], rdBus'[r]) <= mc'[r][b].nRd + RL + 1
      BY <1>0, <1>00, <2>1, <2>2, <3>1, <3>2
    <3> HIDE DEF rest
    <3> QED BY <2>1, <2>2, <3>1, <3>3 DEF ReadGap, IsRead
  <2> QED BY <2>3, <2>4
<1>5. ASSUME NEW c, CommandOf(c) \in Commands, Record(c),
             c.op = "READ" /\ c.rank = r => mc[r][c.bank].nRd = 0
      PROVE  ReadGap(r)'
  <2>1. /\ pc = "issue" /\ pc' = "step" /\ bus' = c /\ rdRet' = rdRet /\ rdBus' = rdBus
        /\ \A b \in Banks : mc'[r][b] = McBank(mc[r][b], c, r, b)
    BY <1>5 DEF Record
  <2>2. \A b \in Banks : /\ mc'[r][b].nRd \in Nat /\ mc'[r][b].nRd >= mc[r][b].nRd
                         /\ c.op = "READ" /\ r = c.rank => mc'[r][b].nRd >= Burst
    BY <1>0, <1>5, <2>1, BankRecords
  <2>3. \A b \in Banks : out <= mc[r][b].nRd + RL + 1
    BY <1>0, <2>1 DEF ReadGap
  <2>4. \A b \in Banks : out <= mc'[r][b].nRd + RL + 1
    BY <1>0, <1>00, <2>2, <2>3
  <2>5. ASSUME IsRead(c), c.rank = r
        PROVE  out <= RL + 1 /\ \A b \in Banks : mc'[r][b].nRd >= Burst
    <3>1. c.op = "READ" /\ c.bank \in Banks
      BY <1>5, <2>5 DEF IsRead, CommandOf, Commands
    <3>2. out <= 0 + RL + 1
      BY <1>5, <2>3, <2>5, <3>1
    <3> QED BY <1>0, <2>2, <2>5, <3>1, <3>2
  <2>6. Spaced(rdRet[r], rdBus[r])
    BY <1>0 DEF ReadGap
  <2> QED BY <2>1, <2>4, <2>5, <2>6 DEF ReadGap, IsRead
<1>6. ASSUME NEW k \in Ranks, NEW i \in Ready(cmdQ[k], Mode(k), mc[k]), Column(k, i)
      PROVE  ReadGap(r)'
  <2> DEFINE p == cmdQ[k][i]
  <2>1. p \in Sendable /\ p.rank = k /\ Issuable(Mode(k), mc[k], p) /\ Record(p)
    BY <1>6, QueueOf DEF Ready, Column
  <2> HIDE DEF p
  <2>2. CommandOf(p) \in Commands /\ (p.op = "READ" /\ p.rank = r => mc[r][p.bank].nRd = 0)
    BY <2>1, SendableFields DEF Issuable
  <2> QED BY <1>5, <2>1, <2>2
<1>7. ASSUME NEW c, Bare(c) PROVE ReadGap(r)'
  BY <1>5, <1>7 DEF Bare
<1>8. CASE IssueNothing
  BY <1>0, <1>8 DEF IssueNothing, dataVars, ReadGap, IsRead, Phases
<1>9. CASE Retire
  <2>1. /\ pc = "step" /\ pc' = "deliver" /\ bus' = bus /\ rdRet' = rdRet /\ rdBus' = rdBus
        /\ \A b \in Banks : mc'[r][b] = AgeBank(mc[r][b])
    BY <1>9 DEF Retire, Aged
  <2>2. \A b \in Banks : mc'[r][b].nRd >= mc[r][b].nRd - 1 /\ mc'[r][b].nRd \in Nat
    <3>1. ASSUME NEW b \in Banks
          PROVE  mc'[r][b].nRd >= mc[r][b].nRd - 1 /\ mc'[r][b].nRd \in Nat
      <4>1. AgeBank(mc[r][b]) \in BankStateType /\ AgeBank(mc[r][b]).nRd >= mc[r][b].nRd - 1
        BY <1>0, BankTypes, BankWaits
      <4> QED BY <2>1, <4>1 DEF BankStateType
    <3> QED BY <3>1
  <2>3. \A b \in Banks : out <= mc[r][b].nRd + RL + 1
    BY <1>0, <2>1 DEF ReadGap
  <2>4. \A b \in Banks : out <= mc'[r][b].nRd + RL + 2
    BY <1>0, <1>00, <2>2, <2>3
  <2>5. ASSUME IsRead(bus), bus.rank = r
        PROVE  out <= RL + 1 /\ \A b \in Banks : mc'[r][b].nRd >= Burst - 1
    <3>1. out <= RL + 1 /\ \A b \in Banks : mc[r][b].nRd >= Burst
      BY <1>0, <2>1, <2>5 DEF ReadGap
    <3> QED BY <1>0, <2>2, <3>1
  <2>6. Spaced(rdRet[r], rdBus[r])
    BY <1>0 DEF ReadGap
  <2> QED BY <2>1, <2>4, <2>5, <2>6 DEF ReadGap, IsRead
<1>10. CASE UNCHANGED vars
  BY <1>1, <1>10 DEF vars, dataVars
<1> QED BY StepCases, <1>2, <1>3, <1>4, <1>6, <1>7, <1>8, <1>9, <1>10

\* What keeps a channel of several ranks from sending two bursts of write data at
\* once: after an activate, tRCDWR leaves the data of another rank's write the bus.
\* A write follows one to an open row of another rank by Burst + tRTRS; a row that
\* is opened in between keeps that distance through tRCDWR alone.
OneRankOrSlow == NumRanks = 1 \/ Burst <= tRCDWR - AL + 1

WriteGaps ==
  /\ Spaced(wrData, wrBus)
  /\ Out(wrData, wrBus) <= WL + Burst - (IF pc = "issue" THEN 1 ELSE 0)
  /\ \A r \in Ranks, b \in Banks :
       NumRanks = 1 \/ mc[r][b].st = "RowActive"
         => Out(wrData, wrBus) <= mc[r][b].nWr + WL + (IF pc = "deliver" THEN 1 ELSE 0)

\* A burst on the write bus counts down.
LEMMA WriteBusAdvances ==
  ASSUME TypeInv, Spaced(wrData, wrBus), Deliver
  PROVE  /\ Spaced(wrData', wrBus') /\ Out(wrData, wrBus) \in Nat
         /\ Out(wrData', wrBus') = IF Out(wrData, wrBus) = 0 THEN 0 ELSE Out(wrData, wrBus) - 1
         /\ Due(wrData) => wrBus.left <= 1
<1> DEFINE X == [left : 1 .. WL]
<1>1. /\ wrData \in Seq(X) /\ Apart(wrData)
      /\ \A x \in X : /\ x.left \in Nat \ {0}
                      /\ x.left > 1 => OneLess(x) \in X /\ OneLess(x).left = x.left - 1
  BY Geometry, CountdownTypes
<1>2. wrBus \in [left : 0 .. Burst] /\ wrBus.left \in Nat /\ Burst \in Nat
  BY Geometry DEF TypeInv, WritesOK
<1>3. wrBus' = (IF Due(wrData) THEN [left |-> Burst] ELSE BusAfter(wrBus)) /\ wrData' = Rest(wrData)
  BY DEF Deliver, WriteData
<1>4. wrBus'.left = IF Due(wrData) THEN Burst ELSE IF wrBus.left <= 1 THEN 0 ELSE wrBus.left - 1
  BY <1>2, <1>3 DEF BusAfter, None
<1> HIDE DEF X
<1> QED BY <1>1, <1>2, <1>3, <1>4, Advance

\* Writes on their way out keep their distance: at the start,
LEMMA WriteGapsInit == Init => WriteGaps
<1> SUFFICES ASSUME Init PROVE WriteGaps
  OBVIOUS
<1>1. wrData = <<>> /\ wrBus = None /\ pc = "deliver" /\ \A r \in Ranks, b \in Banks : mc[r][b].nWr = 0
  BY DEF Init, InitBank
<1>2. Spaced(<<>>, None) /\ Out(<<>>, None) = 0
  BY EmptySeq DEF Spaced, Out, None
<1> QED BY <1>1, <1>2, Geometry DEF WriteGaps

\* and along every step, with one rank or slow activates.
LEMMA WriteGapsStep == OneRankOrSlow /\ TypeInv /\ WriteGaps /\ [Next]_vars => WriteGaps'
<1> SUFFICES ASSUME OneRankOrSlow, TypeInv, WriteGaps, [Next]_vars
             PROVE  WriteGaps'
  OBVIOUS
<1> DEFINE out == Out(wrData, wrBus)
           Watched(r, b) == NumRanks = 1 \/ mc[r][b].st = "RowActive"
<1>0. /\ WL \in Nat \ {0} /\ Burst \in Nat \ {0} /\ NumRanks \in Nat \ {0} /\ tRCDWR - AL \in Nat
      /\ \A r \in Ranks, b \in Banks : mc[r][b] \in BankStateType /\ mc[r][b].nWr \in Nat
  BY Geometry, TimingAssumption, BankWaits DEF TypeInv, BanksOK, TimingAssumption
<1>00. out \in Nat
  <2>1. wrData \in Seq([left : 1 .. WL]) /\ wrBus \in [left : 0 .. Burst]
    BY DEF TypeInv, WritesOK
  <2>2. wrData # <<>> => Len(wrData) \in 1 .. Len(wrData)
    BY <2>1, LenProperties, EmptySeq
  <2>3. wrData # <<>> => wrData[Len(wrData)] \in [left : 1 .. WL]
    BY <2>1, <2>2, ElementOfSeq
  <2> QED BY <1>0, <2>1, <2>3 DEF Out
<1>1. CASE UNCHANGED <<wrData, wrBus, mc, pc>>
  BY <1>1 DEF WriteGaps
<1>2. CASE \E o \in {"READ", "WRITE"}, l \in Locations : AddTransaction(o, l)
  BY <1>1, <1>2 DEF AddTransaction, dataVars
<1>3. CASE AddBarrier
  BY <1>1, <1>3 DEF AddBarrier, dataVars
<1>4. CASE Deliver
  <2>1. Spaced(wrData', wrBus') /\ Out(wrData', wrBus') = IF out = 0 THEN 0 ELSE out - 1
    BY <1>4, WriteBusAdvances DEF WriteGaps
  <2>2. pc = "deliver" /\ pc' = "issue"
        /\ \A r \in Ranks, b \in Banks : mc'[r][b] = SettleBank(mc[r][b])
    BY <1>4 DEF Deliver, CommandArrives
  <2>3. out <= WL + Burst
    BY <1>0, <2>2 DEF WriteGaps
  <2>4. ASSUME NEW r \in Ranks, NEW b \in Banks, NumRanks = 1 \/ mc'[r][b].st = "RowActive"
        PROVE  Out(wrData', wrBus') <= mc'[r][b].nWr + WL
    <3>1. mc'[r][b].nWr = mc[r][b].nWr /\ (mc'[r][b].st = "RowActive" => mc[r][b].st = "RowActive")
      BY <1>0, <2>2, BankWaits
    <3>2. out <= mc[r][b].nWr + WL + 1
      BY <2>2, <2>4, <3>1 DEF WriteGaps
    <3>3. mc[r][b].nWr \in Nat
      BY <1>0
    <3> QED BY <1>0, <1>00, <2>1, <3>1, <3>2, <3>3
  <2>5. Out(wrData', wrBus') <= WL + Burst - 1
    BY <1>0, <1>00, <2>1, <2>3
  <2>6. \A r \in Ranks, b \in Banks : NumRanks = 1 \/ mc'[r][b].st = "RowActive"
          => Out(wrData', wrBus') <= mc'[r][b].nWr + WL + 0
    <3>1. \A r \in Ranks, b \in Banks : mc'[r][b].nWr \in Nat
      BY <1>0, <2>2, BankWaits
    <3> QED BY <1>0, <2>4, <3>1
  <2> QED BY <2>1, <2>2, <2>5, <2>6 DEF WriteGaps
<1>5. ASSUME NEW c, CommandOf(c) \in Commands, Record(c), c.op # "WRITE", wrData' = wrData
      PROVE  WriteGaps'
  <2>1. /\ pc = "issue" /\ pc' = "step" /\ wrBus' = wrBus
        /\ \A r \in Ranks, b \in Banks : mc'[r][b] = McBank(mc[r][b], c, r, b)
    BY <1>5 DEF Record
  <2>2. out <= WL + Burst - 1
    BY <1>0, <2>1 DEF WriteGaps
  <2>3. ASSUME NEW r \in Ranks, NEW b \in Banks, NumRanks = 1 \/ mc'[r][b].st = "RowActive"
        PROVE  out <= mc'[r][b].nWr + WL + 0
    <3>1. /\ mc'[r][b].nWr \in Nat /\ mc'[r][b].nWr >= mc[r][b].nWr /\ mc[r][b].nWr \in Nat
          /\ mc'[r][b].st = "RowActive" =>
               mc[r][b].st = "RowActive" \/ mc'[r][b].nWr >= tRCDWR - AL
      BY <1>0, <1>5, <2>1, BankRecords
    <3>2. CASE Watched(r, b)
      <4>1. out <= mc[r][b].nWr + WL + 0
        BY <2>1, <3>2 DEF WriteGaps
      <4> QED BY <1>0, <1>00, <3>1, <4>1
    <3>3. CASE ~Watched(r, b)
      <4>1. mc'[r][b].nWr >= tRCDWR - AL
        BY <2>3, <3>1, <3>3
      <4>2. Burst <= tRCDWR - AL + 1
        BY <3>3 DEF OneRankOrSlow
      <4> QED BY <1>0, <1>00, <2>2, <3>1, <4>1, <4>2
    <3> QED BY <3>2, <3>3
  <2>4. out <= WL + Burst - 0
    BY <1>0, <1>00, <2>2
  <2>5. Spaced(wrData, wrBus)
    BY DEF WriteGaps
  <2> QED BY <1>5, <2>1, <2>3, <2>4, <2>5 DEF WriteGaps
<1>6. ASSUME NEW k \in Ranks, NEW i \in Ready(cmdQ[k], Mode(k), mc[k]), Column(k, i)
      PROVE  WriteGaps'
  <2> DEFINE p == cmdQ[k][i]
  <2>1. p \in Sendable /\ p.rank = k /\ Issuable(Mode(k), mc[k], p) /\ Record(p)
        /\ wrData' = IF p.op = "WRITE" THEN Append(wrData, [left |-> WL]) ELSE wrData
    BY <1>6, QueueOf DEF Ready, Column
  <2> HIDE DEF p
  <2>2. CommandOf(p) \in Commands /\ p.op \in {"READ", "WRITE"} /\ p.bank \in Banks
    BY <2>1, SendableFields
  <2>3. CASE p.op = "WRITE"
    <3> DEFINE e == [left |-> WL]
               X == [left : 1 .. WL]
    <3>1. /\ pc = "issue" /\ pc' = "step" /\ wrBus' = wrBus
          /\ \A r \in Ranks, b \in Banks : mc'[r][b] = McBank(mc[r][b], p, r, b)
      BY <2>1 DEF Record
    <3>2. mc[k][p.bank].st = "RowActive" /\ mc[k][p.bank].nWr = 0
      BY <2>1, <2>3 DEF Issuable
    <3>3. out <= e.left
      <4>1. out <= 0 + WL + 0
        BY <2>2, <3>1, <3>2 DEF WriteGaps
      <4> QED BY <1>0, <4>1
    <3>4. e \in X /\ wrData \in Seq(X) /\ wrBus.left \in Nat /\ \A x \in X : x.left \in Nat
      BY <1>0 DEF TypeInv, WritesOK
    <3>5. wrData' = Append(wrData, e) /\ e.left = WL
      BY <2>1, <2>3
    <3>6. Spaced(wrData, wrBus)
      BY DEF WriteGaps
    <3> HIDE DEF e, X
    <3>7. Spaced(wrData', wrBus') /\ Out(wrData', wrBus') = WL + Burst
      BY <3>1, <3>3, <3>4, <3>5, <3>6, Join
    <3>8. ASSUME NEW r \in Ranks, NEW b \in Banks, NumRanks = 1 \/ mc'[r][b].st = "RowActive"
          PROVE  WL + Burst <= mc'[r][b].nWr + WL + 0
      <4>1. /\ mc'[r][b].nWr \in Nat
            /\ r = p.rank \/ mc[r][b].st = "RowActive" => mc'[r][b].nWr >= Burst
            /\ mc'[r][b].st = mc[r][b].st
        BY <1>0, <2>2, <2>3, <3>1, BankRecords
      <4>2. NumRanks = 1 => r = p.rank
        BY <2>1 DEF Ranks
      <4>3. mc'[r][b].nWr >= Burst
        BY <3>8, <4>1, <4>2
      <4> QED BY <1>0, <4>1, <4>3
    <3>9. WL + Burst <= WL + Burst - 0
      BY <1>0
    <3> QED BY <3>1, <3>7, <3>8, <3>9 DEF WriteGaps
  <2>4. CASE p.op # "WRITE"
    BY <1>5, <2>1, <2>2, <2>4
  <2> QED BY <2>3, <2>4
<1>7. ASSUME NEW c, Bare(c) PROVE WriteGaps'
  BY <1>5, <1>7 DEF Bare
<1>8. CASE IssueNothing
  <2>1. UNCHANGED <<wrData, wrBus, mc>> /\ pc = "issue" /\ pc' = "step"
    BY <1>8 DEF IssueNothing, dataVars
  <2>2. out <= WL + Burst - 1 /\ Spaced(wrData, wrBus)
    BY <1>0, <2>1 DEF WriteGaps
  <2>3. out <= WL + Burst - 0
    BY <1>0, <1>00, <2>2
  <2>4. \A r \in Ranks, b \in Banks : Watched(r, b) => out <= mc[r][b].nWr + WL + 0
    BY <2>1 DEF WriteGaps
  <2> QED BY <2>1, <2>2, <2>3, <2>4 DEF WriteGaps
<1>9. CASE Retire
  <2>1. /\ pc = "step" /\ pc' = "deliver" /\ wrData' = wrData /\ wrBus' = wrBus
        /\ \A r \in Ranks, b \in Banks : mc'[r][b] = AgeBank(mc[r][b])
    BY <1>9 DEF Retire, Aged
  <2>2. out <= WL + Burst - 0 /\ Spaced(wrData, wrBus)
    BY <2>1 DEF WriteGaps
  <2>3. ASSUME NEW r \in Ranks, NEW b \in Banks, NumRanks = 1 \/ mc'[r][b].st = "RowActive"
        PROVE  out <= mc'[r][b].nWr + WL + 1
    <3>1. /\ mc'[r][b].nWr >= mc[r][b].nWr - 1 /\ mc'[r][b].st = mc[r][b].st
          /\ mc'[r][b].nWr \in Nat /\ mc[r][b].nWr \in Nat
      <4>1. AgeBank(mc[r][b]) \in BankStateType
        BY <1>0, BankTypes
      <4>2. AgeBank(mc[r][b]).nWr \in Nat
        BY <4>1 DEF BankStateType
      <4> QED BY <1>0, <2>1, <4>2, BankWaits
    <3>2. out <= mc[r][b].nWr + WL + 0
      BY <2>1, <2>3, <3>1 DEF WriteGaps
    <3> QED BY <1>0, <1>00, <3>1, <3>2
  <2> QED BY <2>1, <2>2, <2>3 DEF WriteGaps
<1>10. CASE UNCHANGED vars
  BY <1>1, <1>10 DEF vars, dataVars
<1> QED BY StepCases, <1>2, <1>3, <1>4, <1>6, <1>7, <1>8, <1>9, <1>10

-----------------------------------------------------------------------------
(* Reads on their way: how many, of those at a set L of locations. *)

ReadsAt(L) == {p \in Sendable : p.op = "READ" /\ LocationOf(p) \in L}
FindsAt(L) == {f \in Finds : f.loc \in L}
ReturnsAt(L) == {x \in Returns : x.pkt.loc \in L}

RankLoad(L) ==
  [r \in Ranks |-> CountIn(rdRet[r], ReturnsAt(L))
                   + (IF rdBus[r].left > 0 /\ rdBus[r].pkt.loc \in L THEN 1 ELSE 0)]
Sent(L) == IF IsRead(bus) /\ LocationOf(bus) \in L THEN 1 ELSE 0
Back(L) == CountIn(retQ, FindsAt(L))
Flying(L) == Total(RankLoad(L)) + Sent(L) + Back(L)

LoadTo(r, L) == IF IsRead(bus) /\ bus.rank = r /\ LocationOf(bus) \in L THEN 1 ELSE 0
LandsOf(r, L) == IF rdBus[r].left = 1 /\ rdBus[r].pkt.loc \in L THEN 1 ELSE 0

\* One update of a queue of returns takes out the one that is due, if it is of the kind.
LEMMA CountRest ==
  ASSUME TypeInv, NEW r \in Ranks, NEW L
  PROVE  /\ CountIn(Rest(rdRet[r]), ReturnsAt(L))
              = CountIn(rdRet[r], ReturnsAt(L))
                - (IF Due(rdRet[r]) /\ Head(rdRet[r]).pkt.loc \in L THEN 1 ELSE 0)
         /\ CountIn(rdRet[r], ReturnsAt(L)) \in Nat
<1> DEFINE q == rdRet[r]
           K == ReturnsAt(L)
<1>1. q \in Seq(Returns)
  BY DEF TypeInv, ReturnsOK
<1>2. CountIn(q, K) \in Nat
  BY <1>1, CountType
<1>3. Rest(q) \in Seq(Returns)
  BY ReturnsRest
<1>4. CASE Due(q)
  <2>1. /\ Len(Rest(q)) = Len(q) - 1 /\ Len(q) \in Nat
        /\ \A k \in 1 .. Len(q) - 1 : Rest(q)[k].pkt = q[k + 1].pkt /\ q[k + 1] \in Returns
    BY <1>4, ReturnsRest
  <2>2. q # <<>>
    BY <1>4 DEF Due
  <2>3. /\ CountIn(Tail(q), K) = CountIn(q, K) - (IF Head(q) \in K THEN 1 ELSE 0)
        /\ Head(q) \in Returns /\ Tail(q) \in Seq(Returns) /\ Len(Tail(q)) = Len(q) - 1
        /\ \A k \in 1 .. Len(q) - 1 : Tail(q)[k] = q[k + 1]
    BY <1>1, <2>2, CountTail
  <2>4. Head(q) \in K <=> Head(q).pkt.loc \in L
    BY <2>3 DEF ReturnsAt
  <2> DEFINE t == Tail(q)
             u == Rest(q)
  <2>5. \A k \in 1 .. Len(u) : u[k] \in Returns
    BY <1>3, ElementOfSeq
  <2>6. \A k \in 1 .. Len(u) : u[k] \in K <=> t[k] \in K
    BY <2>1, <2>3, <2>5 DEF ReturnsAt
  <2>7. t \in Seq(Returns) /\ u \in Seq(Returns) /\ Len(u) = Len(t)
    BY <1>3, <2>1, <2>3
  <2> HIDE DEF t, u, K
  <2>8. CountIn(u, K) = CountIn(t, K)
    BY <2>6, <2>7, CountSame
  <2> QED BY <1>2, <1>4, <2>3, <2>4, <2>8 DEF t, u, K
<1>5. CASE ~Due(q)
  <2>1. /\ Len(Rest(q)) = Len(q) /\ Len(q) \in Nat
        /\ \A k \in 1 .. Len(q) : Rest(q)[k].pkt = q[k].pkt /\ q[k] \in Returns
    <3>1. /\ Len(Rest(q)) = Len(q) - 0 /\ Len(q) \in Nat
          /\ \A k \in 1 .. Len(q) - 0 : Rest(q)[k].pkt = q[k + 0].pkt /\ q[k + 0] \in Returns
      BY <1>5, ReturnsRest
    <3>2. \A k \in 1 .. Len(q) : k + 0 = k
      OBVIOUS
    <3>3. Len(q) - 0 = Len(q)
      BY <3>1
    <3> QED BY <3>1, <3>2, <3>3
  <2> DEFINE u == Rest(q)
  <2>2. \A k \in 1 .. Len(u) : u[k] \in Returns
    BY <1>3, ElementOfSeq
  <2>3. \A k \in 1 .. Len(u) : u[k] \in K <=> q[k] \in K
    BY <2>1, <2>2 DEF ReturnsAt
  <2>4. u \in Seq(Returns) /\ Len(u) = Len(q)
    BY <1>3, <2>1
  <2> HIDE DEF u, K, q
  <2>5. CountIn(u, K) = CountIn(q, K)
    BY <1>1, <2>3, <2>4, CountSame
  <2> QED BY <1>2, <1>5, <2>5 DEF u, K, q
<1> QED BY <1>2, <1>4, <1>5

\* What leaves a queue and what leaves a bus, against what each takes in.
LEMMA Balance ==
  ASSUME NEW x \in Nat, NEW due \in {0, 1}, NEW busy \in {0, 1}, NEW next \in {0, 1},
         NEW lands \in {0, 1}, NEW loads \in {0, 1}, x - due \in Nat, next + lands = busy + due
  PROVE  /\ ((x - due) + loads) + next \in Nat
         /\ (((x - due) + loads) + next) + lands = (x + busy) + loads
  OBVIOUS

\* In an update a rank takes the read on the bus, if it is for it, and gives up the
\* read whose burst is over: none is lost on its data bus.
LEMMA RankKeeps ==
  ASSUME TypeInv, ReadGaps, Deliver, NEW r \in Ranks, NEW L
  PROVE  /\ RankLoad(L)'[r] + LandsOf(r, L) = RankLoad(L)[r] + LoadTo(r, L)
         /\ RankLoad(L)'[r] \in Nat /\ RankLoad(L)[r] \in Nat
<1> DEFINE q == rdRet[r]
           K == ReturnsAt(L)
           b == rdBus[r]
           n == rdBus'[r]
           due == IF Due(q) /\ Head(q).pkt.loc \in L THEN 1 ELSE 0
           busy == IF b.left > 0 /\ b.pkt.loc \in L THEN 1 ELSE 0
           busyNext == IF n.left > 0 /\ n.pkt.loc \in L THEN 1 ELSE 0
<1>1. RankLoad(L)[r] = CountIn(q, K) + busy /\ CountIn(q, K) \in Nat
  BY CountRest DEF RankLoad
<1>2. RankLoad(L)'[r] = CountIn(rdRet'[r], K) + busyNext
  BY DEF RankLoad, ReturnsAt
<1>3. CountIn(Rest(q), K) = CountIn(q, K) - due
  BY CountRest
<1>4. Rest(q) \in Seq(Returns) /\ CountIn(Rest(q), K) \in Nat
  BY ReturnsRest, CountType
<1>5. CountIn(rdRet'[r], K) = CountIn(Rest(q), K) + LoadTo(r, L)
  <2>1. CASE IsRead(bus) /\ bus.rank = r
    <3> DEFINE e == [pkt |-> Found(bus), left |-> RL]
    <3>1. e \in Returns /\ rdRet'[r] = Append(Rest(q), e) /\ e.pkt.loc = LocationOf(bus)
      BY <2>1, ReturnsAfter
    <3>2. e \in K <=> LocationOf(bus) \in L
      BY <3>1 DEF ReturnsAt
    <3> HIDE DEF e, q, K
    <3>3. CountIn(rdRet'[r], K) = CountIn(Rest(q), K) + (IF e \in K THEN 1 ELSE 0)
      BY <1>4, <3>1, CountAppend
    <3> QED BY <2>1, <3>2, <3>3 DEF LoadTo
  <2>2. CASE ~(IsRead(bus) /\ bus.rank = r)
    BY <1>4, <2>2, ReturnsAfter DEF LoadTo
  <2> QED BY <2>1, <2>2
<1>6. b \in {None} \cup [pkt : Finds, left : 1 .. Burst] /\ Burst \in Nat \ {0}
  BY Geometry DEF TypeInv, ReturnsOK
<1>7. n = IF Due(q) THEN [pkt |-> Head(q).pkt, left |-> Burst] ELSE BusAfter(b)
  BY DEF Deliver, RanksUpdate
<1>8. busyNext + LandsOf(r, L) = busy + due
  <2>1. CASE Due(q)
    <3>1. b.left <= 1
      BY <2>1, ReadBusAdvances DEF ReadGaps, ReadGap
    <3>2. busyNext = due
      BY <1>6, <1>7, <2>1
    <3>3. busy = LandsOf(r, L)
      BY <1>6, <3>1 DEF LandsOf, None
    <3> QED BY <3>2, <3>3
  <2>2. CASE ~Due(q)
    <3>1. n = BusAfter(b)
      BY <1>7, <2>2
    <3>2. busyNext + LandsOf(r, L) = busy
      BY <1>6, <3>1 DEF LandsOf, BusAfter, None
    <3> QED BY <2>2, <3>2
  <2> QED BY <2>1, <2>2
<1>9. due \in {0, 1} /\ busy \in {0, 1} /\ busyNext \in {0, 1}
      /\ LandsOf(r, L) \in {0, 1} /\ LoadTo(r, L) \in {0, 1}
  BY DEF LandsOf, LoadTo
<1> HIDE DEF q, K, b, n, due, busy, busyNext
<1>10. /\ CountIn(q, K) - due \in Nat /\ RankLoad(L)[r] \in Nat
       /\ RankLoad(L)'[r] = ((CountIn(q, K) - due) + LoadTo(r, L)) + busyNext
  BY <1>1, <1>2, <1>3, <1>4, <1>5, <1>9
<1>11. /\ ((CountIn(q, K) - due) + LoadTo(r, L)) + busyNext \in Nat
       /\ (((CountIn(q, K) - due) + LoadTo(r, L)) + busyNext) + LandsOf(r, L)
            = (CountIn(q, K) + busy) + LoadTo(r, L)
  BY <1>1, <1>8, <1>9, <1>10, Balance
<1> QED BY <1>1, <1>10, <1>11

\* What the ranks give up in an update reaches the controller.
LEMMA LandedCount ==
  ASSUME TypeInv, NEW L
  PROVE  CountIn(FlattenSeq(Landed), FindsAt(L)) = Total([r \in Ranks |-> LandsOf(r, L)])
<1> DEFINE K == FindsAt(L)
           f == [r \in Ranks |-> LandsOf(r, L)]
<1>1. PICK up : Sums(f, up) /\ Total(f) = up[NumRanks]
  BY TotalIs
<1>2. NumRanks \in Nat /\ Ranks = 0 .. NumRanks - 1
  BY <1>1, SumSteps
<1>3. Landed \in [1 .. NumRanks -> Seq(Finds)]
  BY LandedType
<1>4. ASSUME NEW i \in 1 .. NumRanks
      PROVE  CountIn(Landed[i], K) = f[i - 1]
  <2>1. i - 1 \in Ranks /\ f[i - 1] = LandsOf(i - 1, L)
    BY <1>2
  <2>2. Landed[i] = IF rdBus[i - 1].left = 1 THEN <<rdBus[i - 1].pkt>> ELSE <<>>
    BY DEF Landed
  <2>3. CASE rdBus[i - 1].left = 1
    <3>1. rdBus[i - 1] \in {None} \cup [pkt : Finds, left : 1 .. Burst]
      BY <2>1 DEF TypeInv, ReturnsOK
    <3>2. rdBus[i - 1].pkt \in Finds
      BY <2>3, <3>1 DEF None
    <3>3. CountIn(<<rdBus[i - 1].pkt>>, K) = IF rdBus[i - 1].pkt \in K THEN 1 ELSE 0
      BY <3>2, CountShort
    <3>4. rdBus[i - 1].pkt \in K <=> rdBus[i - 1].pkt.loc \in L
      BY <3>2 DEF FindsAt
    <3> QED BY <2>1, <2>2, <2>3, <3>3, <3>4 DEF LandsOf
  <2>4. CASE rdBus[i - 1].left # 1
    <3>1. CountIn(<<>>, K) = 0
      BY CountShort
    <3> QED BY <2>1, <2>2, <2>4, <3>1 DEF LandsOf
  <2> QED BY <2>3, <2>4
<1>5. up = [i \in 0 .. NumRanks |-> IF i = 0 THEN 0 ELSE up[i - 1] + f[i - 1]]
  BY <1>1 DEF Sums
<1> HIDE DEF f, K
<1>6. \A i \in 0 .. NumRanks : i # 0 => CountIn(Landed[i], K) = f[i - 1]
  BY <1>2, <1>4
<1>7. up = [i \in 0 .. NumRanks |-> IF i = 0 THEN 0 ELSE up[i - 1] + CountIn(Landed[i], K)]
  BY <1>5, <1>6
<1>8. CountIn(FlattenSeq(Landed), K) = up[NumRanks]
  <2>1. CountSums(Landed, NumRanks, K, up)
    BY <1>7 DEF CountSums
  <2> QED BY <1>2, <1>3, <2>1, FlattenProperties
<1> QED BY <1>1, <1>8 DEF f, K

\* The numbers Flying adds.
LEMMA FlyingTypes ==
  ASSUME TypeInv, NEW L
  PROVE  /\ RankLoad(L) \in [Ranks -> Nat] /\ Total(RankLoad(L)) \in Nat
         /\ Sent(L) \in {0, 1} /\ Back(L) \in Nat /\ Flying(L) \in Nat
<1>1. ASSUME NEW r \in Ranks
      PROVE  CountIn(rdRet[r], ReturnsAt(L)) \in Nat
  BY CountRest
<1>2. RankLoad(L) \in [Ranks -> Nat]
  BY <1>1 DEF RankLoad
<1>3. Total(RankLoad(L)) \in Nat
  BY <1>2, Geometry, TotalAtLeast
<1>4. Back(L) \in Nat
  BY CountType DEF Back, TypeInv, ReturnsOK
<1> QED BY <1>2, <1>3, <1>4 DEF Sent, Flying

\* The read on the bus is sent to one rank.
LEMMA LoadSum ==
  ASSUME TypeInv, NEW L
  PROVE  Total([r \in Ranks |-> LoadTo(r, L)]) = Sent(L)
<1>1. CASE IsRead(bus) /\ LocationOf(bus) \in L
  <2>1. bus \in Sendable
    BY <1>1 DEF TypeInv, BusOK, IsRead
  <2>2. bus.rank \in Ranks
    BY <2>1, SendableFields
  <2>3. [r \in Ranks |-> LoadTo(r, L)] = [r \in Ranks |-> IF r = bus.rank THEN 1 ELSE 0]
    BY <1>1 DEF LoadTo
  <2>4. Total([r \in Ranks |-> IF r = bus.rank THEN 1 ELSE 0]) = 1
    BY <2>2, TotalSingle
  <2> QED BY <1>1, <2>3, <2>4 DEF Sent
<1>2. CASE ~(IsRead(bus) /\ LocationOf(bus) \in L)
  <2>1. [r \in Ranks |-> LoadTo(r, L)] = [r \in Ranks |-> 0]
    BY <1>2 DEF LoadTo
  <2>2. Total([r \in Ranks |-> 0]) = 0
    BY Geometry, TotalSingle
  <2> QED BY <1>2, <2>1, <2>2 DEF Sent
<1> QED BY <1>1, <1>2

\* An update moves reads along, and neither drops nor doubles one.
LEMMA FlyingDelivers ==
  ASSUME TypeInv, ReadGaps, Deliver, NEW L
  PROVE  Flying(L)' = Flying(L)
<1> DEFINE f == RankLoad(L)
           g == RankLoad(L)'
           lands == [r \in Ranks |-> LandsOf(r, L)]
           loads == [r \in Ranks |-> LoadTo(r, L)]
           both == [r \in Ranks |-> f[r] + loads[r]]
<1>1. ASSUME NEW r \in Ranks
      PROVE  /\ g[r] + LandsOf(r, L) = f[r] + LoadTo(r, L) /\ g[r] \in Nat /\ f[r] \in Nat
             /\ LandsOf(r, L) \in {0, 1} /\ LoadTo(r, L) \in {0, 1}
  BY RankKeeps DEF LandsOf, LoadTo
<1>2. DOMAIN f = Ranks /\ f = [r \in Ranks |-> f[r]]
  BY DEF RankLoad
<1>3. DOMAIN g = Ranks /\ g = [r \in Ranks |-> g[r]]
  BY DEF RankLoad
<1> HIDE DEF f, g
<1>4. /\ f \in [Ranks -> Int] /\ g \in [Ranks -> Int] /\ lands \in [Ranks -> Int]
      /\ loads \in [Ranks -> Int] /\ both \in [Ranks -> Int]
      /\ \A r \in Ranks : both[r] = f[r] + loads[r]
      /\ \A r \in Ranks : both[r] = g[r] + lands[r]
  BY <1>1, <1>2, <1>3
<1>5. Total(loads) = Sent(L)
  BY LoadSum
<1>6. CountIn(FlattenSeq(Landed), FindsAt(L)) = Total(lands)
  BY LandedCount
<1> HIDE DEF lands, loads, both
<1>7. Total(both) = Total(f) + Total(loads) /\ Total(f) \in Int /\ Total(loads) \in Int
  BY <1>4, TotalAdd
<1>8. Total(both) = Total(g) + Total(lands) /\ Total(g) \in Int /\ Total(lands) \in Int
  BY <1>4, TotalAdd
<1>9. Back(L)' = Back(L) + Total(lands) /\ Back(L) \in Nat
  <2>1. retQ' = retQ \o FlattenSeq(Landed)
    BY DEF Deliver, RanksUpdate, Landed
  <2>2. retQ \in Seq(Finds) /\ FlattenSeq(Landed) \in Seq(Finds)
    BY LandedType DEF TypeInv, ReturnsOK
  <2>3. CountIn(retQ \o FlattenSeq(Landed), FindsAt(L))
          = CountIn(retQ, FindsAt(L)) + CountIn(FlattenSeq(Landed), FindsAt(L))
    BY <2>2, CountConcat
  <2>4. Back(L)' = CountIn(retQ', FindsAt(L))
    BY DEF Back, FindsAt
  <2> QED BY <1>6, <2>1, <2>3, <2>4, FlyingTypes DEF Back
<1>10. Sent(L)' = 0
  BY DEF Sent, Deliver, CommandArrives, IsRead
<1>11. Flying(L)' = Total(g) + Sent(L)' + Back(L)'
  BY DEF Flying, g
<1>12. Flying(L) = Total(f) + Sent(L) + Back(L)
  BY DEF Flying, f
<1> QED BY <1>5, <1>7, <1>8, <1>9, <1>10, <1>11, <1>12

-----------------------------------------------------------------------------
(* The command queues' packets, and the reads that are pending. *)

QueuedOf(K) == Total([r \in Ranks |-> CountIn(cmdQ[r], K)])

\* The queued reads of a rank are a number.
LEMMA QueuedTypes ==
  ASSUME TypeInv, NEW K
  PROVE  /\ [r \in Ranks |-> CountIn(cmdQ[r], K)] \in [Ranks -> Nat] /\ QueuedOf(K) \in Nat
         /\ \A r \in Ranks : CountIn(cmdQ[r], K) <= QueuedOf(K)
<1> DEFINE f == [r \in Ranks |-> CountIn(cmdQ[r], K)]
<1>1. \A r \in Ranks : CountIn(cmdQ[r], K) \in Nat
  BY QueueOf, CountType
<1>2. f \in [Ranks -> Nat] /\ \A r \in Ranks : f[r] = CountIn(cmdQ[r], K)
  BY <1>1
<1> HIDE DEF f
<1>3. \A r \in Ranks : Total(f) \in Nat /\ f[r] <= Total(f)
  BY <1>2, TotalAtLeast
<1> QED BY <1>2, <1>3, Geometry DEF QueuedOf, f

\* One rank's queue takes in or gives up packets.
LEMMA QueuedChange ==
  ASSUME TypeInv, NEW K, NEW r \in Ranks, NEW q \in Seq(Sendable), cmdQ' = [cmdQ EXCEPT ![r] = q]
  PROVE  QueuedOf(K)' = QueuedOf(K) + CountIn(q, K) - CountIn(cmdQ[r], K)
<1> DEFINE f == [s \in Ranks |-> CountIn(cmdQ[s], K)]
           g == [s \in Ranks |-> CountIn(cmdQ'[s], K)]
<1>1. \A s \in Ranks : cmdQ[s] \in Seq(Sendable) /\ cmdQ'[s] = IF s = r THEN q ELSE cmdQ[s]
  BY QueueOf DEF TypeInv, QueuesOK
<1>2. \A s \in Ranks : CountIn(cmdQ[s], K) \in Nat /\ CountIn(cmdQ'[s], K) \in Nat
  BY <1>1, CountType
<1>3. f \in [Ranks -> Int] /\ g \in [Ranks -> Int]
  BY <1>2
<1>4. f[r] = CountIn(cmdQ[r], K) /\ g[r] = CountIn(q, K) /\ \A s \in Ranks : s # r => g[s] = f[s]
  BY <1>1
<1>5. QueuedOf(K) = Total(f) /\ QueuedOf(K)' = Total(g)
  BY DEF QueuedOf
<1> HIDE DEF f, g
<1>6. Total(g) = Total(f) + g[r] - f[r]
  BY <1>3, <1>4, TotalChange
<1> QED BY <1>4, <1>5, <1>6

\* A packet leaves a command queue.
LEMMA QueuedLeaves ==
  ASSUME TypeInv, NEW r \in Ranks, NEW i \in Ready(cmdQ[r], Mode(r), mc[r]), Column(r, i), NEW K
  PROVE  QueuedOf(K)' = QueuedOf(K) - (IF cmdQ[r][i] \in K THEN 1 ELSE 0)
<1> DEFINE q == cmdQ[r]
<1>1. q \in Seq(Sendable) /\ i \in 1 .. Len(q)
  BY QueueOf DEF Ready
<1>2. RemoveAt(q, i) \in Seq(Sendable)
      /\ CountIn(RemoveAt(q, i), K) = CountIn(q, K) - (IF q[i] \in K THEN 1 ELSE 0)
      /\ CountIn(q, K) \in Nat
  BY <1>1, RemoveAtProperties, CountRemoveAt, CountType
<1>3. cmdQ' = [cmdQ EXCEPT ![r] = RemoveAt(q, i)]
  BY DEF Column
<1>4. QueuedOf(K)' = QueuedOf(K) + CountIn(RemoveAt(q, i), K) - CountIn(q, K)
  BY <1>2, <1>3, QueuedChange
<1>5. QueuedOf(K) \in Nat
  BY QueuedTypes
<1> HIDE DEF q
<1> QED BY <1>2, <1>4, <1>5 DEF q

\* A transaction becomes a command.
Moves(K) == IF Movable # {} /\ transQ[Min(Movable)] \in K THEN 1 ELSE 0

\* How each step changes the queued reads.
LEMMA QueuedMoves ==
  ASSUME TypeInv, UpdateTransactionQueue, NEW K
  PROVE  /\ QueuedOf(K)' = QueuedOf(K) + Moves(K)
         /\ CountIn(transQ', K) = CountIn(transQ, K) - Moves(K)
<1>0. transQ \in Seq(Sendable)
  BY DEF TypeInv, QueuesOK
<1>1. QueuedOf(K) \in Nat /\ CountIn(transQ, K) \in Nat
  BY <1>0, QueuedTypes, CountType
<1>2. CASE Movable = {}
  <2>1. cmdQ' = cmdQ /\ transQ' = transQ
    BY <1>2 DEF UpdateTransactionQueue
  <2>2. QueuedOf(K)' = QueuedOf(K)
    BY <2>1 DEF QueuedOf
  <2> QED BY <1>1, <1>2, <2>1, <2>2 DEF Moves
<1>3. CASE Movable # {}
  <2> DEFINE i == Min(Movable)
             p == transQ[i]
             q == cmdQ[p.rank]
  <2>1. i \in 1 .. Len(transQ) /\ p \in Sendable /\ p.rank \in Ranks
    BY <1>3, MovedProperties
  <2>2. transQ' = RemoveAt(transQ, i) /\ cmdQ' = [cmdQ EXCEPT ![p.rank] = Append(q, p)]
    BY <1>3 DEF UpdateTransactionQueue
  <2>3. Moves(K) = IF p \in K THEN 1 ELSE 0
    BY <1>3 DEF Moves
  <2>4. q \in Seq(Sendable)
    BY <2>1, QueueOf
  <2> HIDE DEF i, q
  <2>5. CountIn(RemoveAt(transQ, i), K) = CountIn(transQ, K) - (IF p \in K THEN 1 ELSE 0)
    BY <1>0, <2>1, CountRemoveAt
  <2> HIDE DEF p
  <2>6. /\ Append(q, p) \in Seq(Sendable) /\ CountIn(q, K) \in Nat
        /\ CountIn(Append(q, p), K) = CountIn(q, K) + (IF p \in K THEN 1 ELSE 0)
    BY <2>1, <2>4, AppendProperties, CountAppend, CountType
  <2>7. QueuedOf(K)' = QueuedOf(K) + CountIn(Append(q, p), K) - CountIn(q, K)
    BY <2>1, <2>2, <2>6, QueuedChange DEF q
  <2> QED BY <1>1, <2>2, <2>3, <2>5, <2>6, <2>7
<1> QED BY <1>2, <1>3

(* Every read that has left the transaction queue is pending once until it is back, *)
(* whatever set of locations one looks at.                                            *)
Accounted(L) == CountIn(pendRd, L) = QueuedOf(ReadsAt(L)) + Flying(L)
Accounts == \A L \in SUBSET Locations : Accounted(L)

\* A read is pending from the moment its command is queued.
LEMMA PendingCount ==
  ASSUME TypeInv, NEW L \in SUBSET Locations
  PROVE  CountIn(PendingNow, L) = CountIn(pendRd, L) + Moves(ReadsAt(L))
         /\ CountIn(pendRd, L) \in Nat /\ CountIn(PendingNow, L) \in Nat
<1>1. pendRd \in Seq(Locations)
  BY DEF TypeInv, ReturnsOK
<1>2. CountIn(pendRd, L) \in Nat /\ CountIn(PendingNow, L) \in Nat
  BY <1>1, MatchProperties, CountType
<1>3. CASE Movable # {} /\ transQ[Min(Movable)].op = "READ"
  <2> DEFINE p == transQ[Min(Movable)]
  <2>1. p \in Sendable /\ LocationOf(p) \in Locations
    BY <1>3, MovedProperties, SendableFields
  <2>2. PendingNow = Append(pendRd, LocationOf(p))
    BY <1>3 DEF PendingNow
  <2>3. CountIn(PendingNow, L) = CountIn(pendRd, L) + (IF LocationOf(p) \in L THEN 1 ELSE 0)
    BY <1>1, <2>1, <2>2, CountAppend
  <2> QED BY <1>2, <1>3, <2>1, <2>3 DEF Moves, ReadsAt
<1>4. CASE ~(Movable # {} /\ transQ[Min(Movable)].op = "READ")
  <2>1. PendingNow = pendRd
    BY <1>4 DEF PendingNow
  <2>2. Moves(ReadsAt(L)) = 0
    BY <1>4 DEF Moves, ReadsAt
  <2> QED BY <1>2, <2>1, <2>2
<1> QED BY <1>2, <1>3, <1>4

\* A read that comes back finds the transaction it answers.
LEMMA MatchFound ==
  ASSUME TypeInv, Accounts, retQ # <<>>
  PROVE  Matching # {}
<1> DEFINE l == Head(retQ).loc
<1>1. retQ \in Seq(Finds)
  BY DEF TypeInv, ReturnsOK
<1>2. Head(retQ) \in Finds
  BY <1>1, CountTail
<1>3. l \in Locations /\ {l} \in SUBSET Locations /\ Head(retQ) \in FindsAt({l})
  BY <1>2 DEF Finds, FindsAt
<1>4. Back({l}) > 0
  BY <1>1, <1>3, CountTail DEF Back
<1> HIDE DEF l
<1>5. CountIn(pendRd, {l}) = QueuedOf(ReadsAt({l})) + Flying({l})
  BY <1>3 DEF Accounts, Accounted
<1>6. /\ Total(RankLoad({l})) \in Nat /\ Sent({l}) \in {0, 1} /\ Back({l}) \in Nat
      /\ QueuedOf(ReadsAt({l})) \in Nat
  BY FlyingTypes, QueuedTypes
<1>7. CountIn(pendRd, {l}) > 0
  BY <1>4, <1>5, <1>6 DEF Flying
<1>8. CountIn(PendingNow, {l}) > 0
  <2>1. Moves(ReadsAt({l})) \in {0, 1}
    BY DEF Moves
  <2> QED BY <1>3, <1>7, <2>1, PendingCount
<1>9. PendingNow \in Seq(Locations)
  BY MatchProperties
<1>10. \E i \in 1 .. Len(PendingNow) : PendingNow[i] \in {l}
  <2>1. CountIn(PendingNow, {l}) = 0 <=> \A i \in 1 .. Len(PendingNow) : PendingNow[i] \notin {l}
    BY <1>9, CountType
  <2> QED BY <1>8, <2>1
<1>11. DOMAIN PendingNow = 1 .. Len(PendingNow)
  BY <1>9, LenProperties
<1> QED BY <1>10, <1>11 DEF Matching, l

\* Nothing on its way moves in a step that touches neither the bus nor the returns.
LEMMA FlyingSame ==
  ASSUME UNCHANGED <<bus, rdRet, rdBus, retQ>>, NEW L
  PROVE  Flying(L)' = Flying(L)
<1>1. RankLoad(L)' = RankLoad(L) /\ Sent(L)' = Sent(L) /\ Back(L)' = Back(L)
  BY DEF RankLoad, Sent, Back, IsRead, LocationOf
<1> QED BY <1>1 DEF Flying

\* A command that is recorded is on the bus, where none was.
LEMMA FlyingSends ==
  ASSUME TypeInv, Phases, NEW c, Record(c), NEW L
  PROVE  Flying(L)' = Flying(L) + (IF IsRead(c) /\ LocationOf(c) \in L THEN 1 ELSE 0)
<1>1. bus = NoCmd /\ bus' = c /\ UNCHANGED <<rdRet, rdBus, retQ>>
  BY DEF Record, Phases
<1>2. RankLoad(L)' = RankLoad(L) /\ Back(L)' = Back(L)
  BY <1>1 DEF RankLoad, Back
<1>3. Sent(L) = 0 /\ Sent(L)' = IF IsRead(c) /\ LocationOf(c) \in L THEN 1 ELSE 0
  BY <1>1 DEF Sent, IsRead, LocationOf
<1>4. Total(RankLoad(L)) \in Nat /\ Back(L) \in Nat
  BY FlyingTypes
<1> QED BY <1>2, <1>3, <1>4 DEF Flying

\* A read that is returned is on its way no longer.
LEMMA FlyingReturns ==
  ASSUME TypeInv, retQ # <<>>, retQ' = Tail(retQ), UNCHANGED <<bus, rdRet, rdBus>>, NEW L
  PROVE  /\ Flying(L)' = Flying(L) - (IF Head(retQ).loc \in L THEN 1 ELSE 0)
         /\ Head(retQ).loc \in L => Flying(L) >= 1
<1> DEFINE one == IF Head(retQ).loc \in L THEN 1 ELSE 0
<1>1. retQ \in Seq(Finds)
  BY DEF TypeInv, ReturnsOK
<1>2. /\ CountIn(Tail(retQ), FindsAt(L))
            = CountIn(retQ, FindsAt(L)) - (IF Head(retQ) \in FindsAt(L) THEN 1 ELSE 0)
      /\ Head(retQ) \in Finds
      /\ Head(retQ) \in FindsAt(L) => CountIn(retQ, FindsAt(L)) > 0
  BY <1>1, CountTail
<1>3. Back(L)' = Back(L) - one /\ (Head(retQ).loc \in L => Back(L) > 0)
  <2>1. Head(retQ) \in FindsAt(L) <=> Head(retQ).loc \in L
    BY <1>2 DEF FindsAt
  <2> QED BY <1>2, <2>1 DEF Back
<1>4. RankLoad(L)' = RankLoad(L) /\ Sent(L)' = Sent(L)
  BY DEF RankLoad, Sent, IsRead, LocationOf
<1>5. one \in {0, 1} /\ Total(RankLoad(L)) \in Nat /\ Sent(L) \in Nat /\ Back(L) \in Nat
  BY FlyingTypes
<1> HIDE DEF one
<1> QED BY <1>3, <1>4, <1>5 DEF Flying, one

\* The account of pending reads, at the start,
LEMMA AccountsInit == Init => Accounts
<1> SUFFICES ASSUME Init, NEW L \in SUBSET Locations PROVE Accounted(L)
  BY DEF Accounts
<1>1. \A K : CountIn(<<>>, K) = 0
  BY CountShort
<1>2. pendRd = <<>> /\ retQ = <<>> /\ bus = NoCmd
      /\ \A r \in Ranks : cmdQ[r] = <<>> /\ rdRet[r] = <<>> /\ rdBus[r] = None
  BY DEF Init
<1>3. RankLoad(L) = [r \in Ranks |-> 0]
  BY <1>1, <1>2 DEF RankLoad, None
<1>4. [r \in Ranks |-> CountIn(cmdQ[r], ReadsAt(L))] = [r \in Ranks |-> 0]
  BY <1>1, <1>2
<1>5. Total([r \in Ranks |-> 0]) = 0
  BY Geometry, TotalSingle
<1>6. QueuedOf(ReadsAt(L)) = 0 /\ Total(RankLoad(L)) = 0
  BY <1>3, <1>4, <1>5 DEF QueuedOf
<1>7. Sent(L) = 0 /\ Back(L) = 0 /\ CountIn(pendRd, L) = 0
  BY <1>1, <1>2 DEF Sent, Back, IsRead
<1> QED BY <1>6, <1>7 DEF Accounted, Flying

\* and along every step.
LEMMA AccountsStep == TypeInv /\ Phases /\ ReadGaps /\ Accounts /\ [Next]_vars => Accounts'
<1> SUFFICES ASSUME TypeInv, Phases, ReadGaps, Accounts, [Next]_vars, NEW L \in SUBSET Locations
             PROVE  Accounted(L)'
  BY DEF Accounts
<1> DEFINE K == ReadsAt(L)
<1>0. /\ CountIn(pendRd, L) = QueuedOf(K) + Flying(L)
      /\ CountIn(pendRd, L) \in Nat /\ QueuedOf(K) \in Nat /\ Flying(L) \in Nat
  BY PendingCount, QueuedTypes, FlyingTypes DEF Accounts, Accounted
<1>1. CASE UNCHANGED <<pendRd, cmdQ, bus, rdRet, rdBus, retQ>>
  <2>1. Flying(L)' = Flying(L) /\ QueuedOf(K)' = QueuedOf(K)
    BY <1>1, FlyingSame DEF QueuedOf
  <2> QED BY <1>0, <1>1, <2>1 DEF Accounted
<1>2. CASE \E o \in {"READ", "WRITE"}, l \in Locations : AddTransaction(o, l)
  BY <1>1, <1>2 DEF AddTransaction, queueVars, dataVars
<1>3. CASE AddBarrier
  BY <1>1, <1>3 DEF AddBarrier, queueVars, dataVars
<1>4. CASE Deliver
  <2>1. pendRd' = pendRd /\ cmdQ' = cmdQ
    BY <1>4 DEF Deliver
  <2>2. Flying(L)' = Flying(L) /\ QueuedOf(K)' = QueuedOf(K)
    BY <1>4, <2>1, FlyingDelivers DEF QueuedOf
  <2> QED BY <1>0, <2>1, <2>2 DEF Accounted
<1>5. ASSUME NEW r \in Ranks, NEW i \in Ready(cmdQ[r], Mode(r), mc[r]), Column(r, i)
      PROVE  Accounted(L)'
  <2> DEFINE p == cmdQ[r][i]
  <2>1. p \in Sendable /\ Record(p) /\ pendRd' = pendRd
    BY <1>5, QueueOf DEF Ready, Column, Record, frontVars
  <2>2. QueuedOf(K)' = QueuedOf(K) - (IF p \in K THEN 1 ELSE 0)
    BY <1>5, QueuedLeaves
  <2> HIDE DEF p
  <2>3. p # NoCmd
    BY <2>1, SendableFields
  <2>4. p \in K <=> IsRead(p) /\ LocationOf(p) \in L
    BY <2>1, <2>3 DEF ReadsAt, IsRead
  <2>5. Flying(L)' = Flying(L) + (IF p \in K THEN 1 ELSE 0)
    BY <2>1, <2>4, FlyingSends
  <2> HIDE DEF K
  <2>6. QueuedOf(K)' + Flying(L)' = QueuedOf(K) + Flying(L)
    BY <1>0, <2>2, <2>5
  <2> QED BY <1>0, <2>1, <2>6 DEF Accounted, K
<1>6. ASSUME NEW c, Bare(c) PROVE Accounted(L)'
  <2>1. Record(c) /\ ~IsRead(c) /\ cmdQ' = cmdQ /\ pendRd' = pendRd
    BY <1>6 DEF Bare, IsRead, Record, frontVars
  <2>2. Flying(L)' = Flying(L) + 0 /\ QueuedOf(K)' = QueuedOf(K)
    BY <2>1, FlyingSends DEF QueuedOf
  <2> QED BY <1>0, <2>1, <2>2 DEF Accounted
<1>7. CASE IssueNothing
  BY <1>1, <1>7 DEF IssueNothing, frontVars, queueVars, dataVars
<1>8. CASE Retire
  <2>1. UpdateTransactionQueue /\ ReturnRead /\ UNCHANGED <<bus, rdRet, rdBus>>
    BY <1>8 DEF Retire
  <2>2. QueuedOf(K)' = QueuedOf(K) + Moves(K) /\ Moves(K) \in {0, 1}
    BY <2>1, QueuedMoves DEF Moves
  <2>3. CountIn(PendingNow, L) = CountIn(pendRd, L) + Moves(K) /\ CountIn(PendingNow, L) \in Nat
    BY PendingCount
  <2>4. CASE retQ = <<>>
    <3>1. pendRd' = PendingNow /\ Flying(L)' = Flying(L)
      BY <2>1, <2>4, FlyingSame DEF ReturnRead
    <3> HIDE DEF K
    <3> QED BY <1>0, <2>2, <2>3, <3>1 DEF Accounted, K
  <2>5. CASE retQ # <<>>
    <3>1. Matching # {}
      BY <2>5, MatchFound
    <3>2. pendRd' = RemoveAt(PendingNow, Min(Matching)) /\ retQ' = Tail(retQ)
      BY <2>1, <2>5, <3>1 DEF ReturnRead
    <3> DEFINE l == Head(retQ).loc
               one == IF l \in L THEN 1 ELSE 0
               m == Min(Matching)
    <3>3. PendingNow \in Seq(Locations) /\ m \in 1 .. Len(PendingNow) /\ PendingNow[m] = l
      BY <3>1, MatchProperties
    <3>4. CountIn(RemoveAt(PendingNow, m), L)
            = CountIn(PendingNow, L) - (IF PendingNow[m] \in L THEN 1 ELSE 0)
      <4> HIDE DEF m
      <4> QED BY <3>3, CountRemoveAt
    <3>5. CountIn(pendRd', L) = CountIn(PendingNow, L) - one
      BY <3>2, <3>3, <3>4
    <3>6. Flying(L)' = Flying(L) - one /\ one \in {0, 1}
      BY <2>1, <2>5, <3>2, FlyingReturns
    <3> HIDE DEF one, l, m, K
    <3> QED BY <1>0, <2>2, <2>3, <3>5, <3>6 DEF Accounted, K
  <2> QED BY <2>4, <2>5
<1>9. CASE UNCHANGED vars
  BY <1>1, <1>9 DEF vars, frontVars, queueVars, dataVars
<1> QED BY StepCases, <1>2, <1>3, <1>4, <1>5, <1>6, <1>7, <1>8, <1>9

\* The counts, as the channel's properties write them.
LEMMA InFlightIs ==
  ASSUME TypeInv
  PROVE  InFlightReads = Flying(Locations)
<1> DEFINE L == Locations
<1>1. ASSUME NEW r \in Ranks
      PROVE  CountIn(rdRet[r], ReturnsAt(L)) = Len(rdRet[r])
             /\ (IF rdBus[r].left > 0 /\ rdBus[r].pkt.loc \in L THEN 1 ELSE 0) = Busy(rdBus[r])
  <2>1. rdRet[r] \in Seq(Returns) /\ rdBus[r] \in {None} \cup [pkt : Finds, left : 1 .. Burst]
    BY DEF TypeInv, ReturnsOK
  <2>2. Returns \subseteq ReturnsAt(L)
    BY DEF Returns, ReturnsAt, Finds
  <2>3. CountIn(rdRet[r], ReturnsAt(L)) = Len(rdRet[r])
    BY <2>1, <2>2, CountType
  <2>4. Burst \in Nat
    BY Geometry
  <2> QED BY <2>1, <2>3, <2>4 DEF Busy, None, Finds
<1>2. RankLoad(L) = [r \in Ranks |-> Len(rdRet[r]) + Busy(rdBus[r])]
  BY <1>1 DEF RankLoad
<1>3. Back(L) = Len(retQ)
  <2>1. retQ \in Seq(Finds)
    BY DEF TypeInv, ReturnsOK
  <2>2. Finds \subseteq FindsAt(L)
    BY DEF Finds, FindsAt
  <2> QED BY <2>1, <2>2, CountType DEF Back
<1>4. Sent(L) = IF IsRead(bus) THEN 1 ELSE 0
  <2>1. IsRead(bus) => LocationOf(bus) \in L
    <3>1. IsRead(bus) => bus \in Sendable
      BY DEF TypeInv, BusOK, IsRead
    <3> QED BY <3>1, SendableFields
  <2> QED BY <2>1 DEF Sent
<1>5. Total(RankLoad(L)) \in Nat /\ Sent(L) \in Nat /\ Back(L) \in Nat
  BY FlyingTypes
<1>6. InRanks = Total(RankLoad(L))
  BY <1>2 DEF InRanks
<1> HIDE DEF L
<1> QED BY <1>3, <1>4, <1>5, <1>6 DEF InFlightReads, Flying, L

\* The account is what ReadsAccounted says.
LEMMA AccountsSuffice == TypeInv /\ Accounts => ReadsAccounted
<1> SUFFICES ASSUME TypeInv, Accounts PROVE ReadsAccounted
  OBVIOUS
<1>1. ASSUME NEW r \in Ranks PROVE ReadsIn(cmdQ[r]) = CountIn(cmdQ[r], ReadsAt(Locations))
  <2> DEFINE q == cmdQ[r]
  <2>1. q \in Seq(Sendable) /\ DOMAIN q = 1 .. Len(q) /\ \A i \in 1 .. Len(q) : q[i] \in Sendable
    BY QueueOf
  <2>2. \A i \in 1 .. Len(q) : q[i].op = "READ" <=> q[i] \in ReadsAt(Locations)
    BY <2>1, SendableFields DEF ReadsAt
  <2>3. {i \in DOMAIN q : q[i].op = "READ"} = Hits(q, ReadsAt(Locations))
    BY <2>1, <2>2 DEF Hits
  <2> QED BY <2>3 DEF ReadsIn, CountIn
<1>2. QueuedOf(ReadsAt(Locations)) = Total([r \in Ranks |-> ReadsIn(cmdQ[r])])
  <2>1. [r \in Ranks |-> ReadsIn(cmdQ[r])] = [r \in Ranks |-> CountIn(cmdQ[r], ReadsAt(Locations))]
    BY <1>1
  <2> QED BY <2>1 DEF QueuedOf
<1>3. CountIn(pendRd, Locations) = Len(pendRd)
  BY CountType DEF TypeInv, ReturnsOK
<1>4. CountIn(pendRd, Locations) = QueuedOf(ReadsAt(Locations)) + Flying(Locations)
  BY DEF Accounts, Accounted
<1> QED BY <1>2, <1>3, <1>4, InFlightIs DEF ReadsAccounted
-----------------------------------------------------------------------------
(* The count the run loops stop on. *)

(* onFly counts what is in flight, once each, in every state the program runs on from. *)
(* Only in the update that ends at Rank::check may a write burst overtake another unseen, *)
(* and not even there when no two bursts meet.                                              *)
ExactInv ==
  /\ onFly \in Nat
  /\ OneRankOrSlow \/ error \in {"none", "noMatch"} =>
       onFly = Len(transQ) + QueuedOf(Sendable) + Flying(Locations) + Len(wrData) + Busy(wrBus)

\* The numbers it adds.
LEMMA CountTypes ==
  ASSUME TypeInv
  PROVE  /\ Len(transQ) \in Nat /\ QueuedOf(Sendable) \in Nat /\ Flying(Locations) \in Nat
         /\ Len(wrData) \in Nat /\ Busy(wrBus) \in {0, 1} /\ wrBus.left \in 0 .. Burst /\ Burst \in Nat
<1>1. transQ \in Seq(Sendable) /\ wrData \in Seq([left : 1 .. WL]) /\ wrBus \in [left : 0 .. Burst]
  BY DEF TypeInv, QueuesOK, WritesOK
<1>2. Len(transQ) \in Nat /\ Len(wrData) \in Nat /\ wrBus.left \in 0 .. Burst
  BY <1>1, LenProperties
<1> QED BY <1>2, QueuedTypes, FlyingTypes, Geometry DEF Busy

\* An update moves the writes along: one leaves when its burst is over.
LEMMA WritesDeliver ==
  ASSUME TypeInv, Deliver, ~(Due(wrData) /\ WriteBusBusy)
  PROVE  Len(wrData') + Busy(wrBus')
           = Len(wrData) + Busy(wrBus) - (IF wrBus.left = 1 THEN 1 ELSE 0)
<1> DEFINE d == IF Due(wrData) THEN 1 ELSE 0
<1>1. wrData \in Seq([left : 1 .. WL]) /\ Apart(wrData)
      /\ \A x \in [left : 1 .. WL] :
           /\ x.left \in Nat \ {0}
           /\ x.left > 1 => OneLess(x) \in [left : 1 .. WL] /\ OneLess(x).left = x.left - 1
  BY CountdownTypes, Geometry
<1>2. Len(Rest(wrData)) = Len(wrData) - d /\ Len(wrData) \in Nat
  BY <1>1, RestProperties
<1>3. wrData' = Rest(wrData) /\ wrBus' = IF Due(wrData) THEN [left |-> Burst] ELSE BusAfter(wrBus)
  BY DEF Deliver, WriteData
<1>4. wrBus.left \in 0 .. Burst /\ Burst \in Nat \ {0} /\ wrBus = [left |-> wrBus.left]
  BY Geometry, CountTypes DEF TypeInv, WritesOK
<1>5. CASE Due(wrData)
  <2>1. BusAfter(wrBus) = None
    BY <1>5 DEF WriteBusBusy
  <2>2. wrBus.left <= 1
    <3>1. wrBus.left > 1 => BusAfter(wrBus).left = wrBus.left - 1
      BY <1>4 DEF BusAfter
    <3> QED BY <1>4, <2>1, <3>1 DEF None
  <2>3. Busy(wrBus') = 1 /\ Busy(wrBus) = IF wrBus.left = 1 THEN 1 ELSE 0
    BY <1>3, <1>4, <1>5, <2>2 DEF Busy
  <2> QED BY <1>2, <1>3, <1>5, <2>3
<1>6. CASE ~Due(wrData)
  <2>1. wrBus' = BusAfter(wrBus)
    BY <1>3, <1>6
  <2>2. wrBus'.left = IF wrBus.left <= 1 THEN 0 ELSE wrBus.left - 1
    BY <1>4, <2>1 DEF BusAfter, None
  <2>3. Busy(wrBus') = Busy(wrBus) - (IF wrBus.left = 1 THEN 1 ELSE 0)
    BY <1>4, <2>2 DEF Busy
  <2>4. Busy(wrBus) \in {0, 1}
    BY DEF Busy
  <2> QED BY <1>2, <1>3, <1>6, <2>3, <2>4
<1> QED BY <1>5, <1>6

\* Bursts that keep their distance do not meet.
LEMMA BusFree ==
  ASSUME TypeInv, WriteGaps, Deliver
  PROVE  ~(Due(wrData) /\ WriteBusBusy)
<1>1. Spaced(wrData, wrBus)
  BY DEF WriteGaps
<1>2. Due(wrData) => wrBus.left <= 1
  BY <1>1, WriteBusAdvances
<1> QED BY <1>2 DEF WriteBusBusy, BusAfter

\* Before the first transaction there is nothing to count.
LEMMA ExactInit == Init => ExactInv
<1> SUFFICES ASSUME Init PROVE ExactInv
  OBVIOUS
<1>1. \A K : CountIn(<<>>, K) = 0
  BY CountShort
<1>2. /\ pendRd = <<>> /\ retQ = <<>> /\ bus = NoCmd /\ transQ = <<>> /\ wrData = <<>> /\ wrBus = None
      /\ onFly = 0 /\ \A r \in Ranks : cmdQ[r] = <<>> /\ rdRet[r] = <<>> /\ rdBus[r] = None
  BY DEF Init
<1>3. [r \in Ranks |-> CountIn(cmdQ[r], Sendable)] = [r \in Ranks |-> 0]
      /\ RankLoad(Locations) = [r \in Ranks |-> 0]
  BY <1>1, <1>2 DEF RankLoad, None
<1>4. Total([r \in Ranks |-> 0]) = 0
  BY Geometry, TotalSingle
<1>5. QueuedOf(Sendable) = 0 /\ Total(RankLoad(Locations)) = 0
  BY <1>3, <1>4 DEF QueuedOf
<1>6. Flying(Locations) = 0
  <2>1. Sent(Locations) = 0 /\ Back(Locations) = 0
    BY <1>1, <1>2 DEF Sent, Back, IsRead
  <2> QED BY <1>5, <2>1 DEF Flying
<1>7. Len(transQ) = 0 /\ Len(wrData) = 0 /\ Busy(wrBus) = 0
  BY <1>2, EmptySeq DEF Busy, None
<1> QED BY <1>2, <1>5, <1>6, <1>7 DEF ExactInv

\* Moving one from here to there, letting one go, and taking one in.
LEMMA Recount ==
  ASSUME NEW t \in Nat, NEW q \in Nat, NEW y \in Nat, NEW w \in Nat, NEW b \in Nat,
         NEW m \in Nat, NEW k \in Nat
  PROVE  /\ (t - m) + (q + m) + (y - k) + w + b = (t + q + y + w + b) - k
         /\ (t + m) + q + y + w + b = (t + q + y + w + b) + m
         /\ \A v, c \in Nat : v + c = w + b - k =>
              (t + m) + q + y + v + c = (t + q + y + w + b) + m - k
  OBVIOUS

\* Every step counts what it brings in and what it lets go.
LEMMA ExactStep ==
  ASSUME TypeInv, Phases, ReadGaps, Accounts, OneRankOrSlow => WriteGaps, ExactInv, [Next]_vars
  PROVE  ExactInv'
<1> DEFINE L == Locations
           t == Len(transQ)
           q == QueuedOf(Sendable)
           y == Flying(L)
           w == Len(wrData)
           b == Busy(wrBus)
           ok == OneRankOrSlow \/ error \in {"none", "noMatch"}
<1>0. /\ t \in Nat /\ q \in Nat /\ y \in Nat /\ w \in Nat /\ b \in {0, 1} /\ onFly \in Nat
      /\ ok => onFly = t + q + y + w + b
      /\ transQ \in Seq(Sendable) /\ pending \in Seq(Sendable)
  BY CountTypes DEF ExactInv, TypeInv, QueuesOK
<1>s. ASSUME onFly' \in Nat, ok' => onFly' = t' + q' + y' + w' + b'
      PROVE  ExactInv'
  BY <1>s DEF ExactInv
<1>1. CASE UNCHANGED <<cmdQ, bus, rdRet, rdBus, retQ, wrData, wrBus, onFly, error>> /\ t' = t
  <2>1. y' = y /\ q' = q /\ b' = b
    BY <1>1, FlyingSame DEF QueuedOf, Busy
  <2> QED BY <1>0, <1>1, <2>1 DEF ExactInv
<1>2. ASSUME NEW o \in {"READ", "WRITE"}, NEW l \in Locations, AddTransaction(o, l) PROVE ExactInv'
  <2> DEFINE p == Request(o, l)
  <2>1. Enqueue(p) /\ error' = error
        /\ UNCHANGED <<cmdQ, bus, rdRet, rdBus, retQ, wrData, wrBus>>
    BY <1>2 DEF AddTransaction, queueVars, dataVars
  <2>2. y' = y /\ q' = q /\ b' = b /\ w' = w
    BY <2>1, FlyingSame DEF QueuedOf, Busy
  <2>3. p \in Sendable
    BY RequestType
  <2> HIDE DEF p
  <2>4. (t' = t + 1 /\ onFly' = onFly + 1) \/ (t' = t /\ onFly' = onFly)
    BY <1>0, <2>1, <2>3, AppendProperties DEF Enqueue
  <2> HIDE DEF q, y, w, b, t
  <2>5. onFly' \in Nat
    BY <1>0, <2>4
  <2>6. (onFly = t + q + y + w + b) => onFly' = t' + q + y + w + b
    <3>1. (t + 1) + q + y + w + b = (t + q + y + w + b) + 1
      BY ONLY <1>0, Recount
    <3> QED BY ONLY <2>4, <3>1
  <2>7. ok' = ok
    BY <2>1
  <2> HIDE DEF ok
  <2> QED BY <1>0, <1>s, <2>2, <2>5, <2>6, <2>7
<1>3. CASE AddBarrier
  <2>1. t' = t
    <3>1. transQ' = IF WillAccept /\ Fences THEN Tagged(transQ) ELSE transQ
      BY <1>3 DEF AddBarrier, TagLast
    <3>2. WillAccept /\ Fences => transQ # <<>>
      BY DEF Fences
    <3> QED BY <1>0, <3>1, <3>2, TaggedProperties
  <2> QED BY <1>1, <1>3, <2>1 DEF AddBarrier, queueVars, dataVars
<1>4. CASE Deliver
  <2> DEFINE in == IF Accepting THEN 1 ELSE 0
             out == IF wrBus.left = 1 THEN 1 ELSE 0
  <2>1. cmdQ' = cmdQ /\ AcceptOne /\ onFly' = onFly + in - out /\ error = "none"
        /\ error' = IF Rejected THEN "rank" ELSE IF Due(wrData) /\ WriteBusBusy THEN "dataBus" ELSE "none"
    BY <1>4 DEF Deliver, Running
  <2>2. y' = y /\ q' = q
    BY <1>4, <2>1, FlyingDelivers DEF QueuedOf
  <2>3. t' = t + in
    <3>1. Accepting => Head(pending) \in Sendable
      BY <1>0, CountTail DEF Accepting
    <3> QED BY <1>0, <2>1, <3>1, AppendProperties DEF AcceptOne
  <2>4. in \in {0, 1} /\ out \in {0, 1} /\ out <= b
    BY DEF Busy
  <2>5. ok' => w' + b' = w + b - out
    BY <1>4, <2>1, WritesDeliver, BusFree
  <2>6. w' \in Nat /\ b' \in {0, 1}
    <3>1. TypeInv'
      BY TypeStep
    <3>2. wrData' \in Seq([left : 1 .. WL])
      BY <3>1 DEF TypeInv, WritesOK
    <3> QED BY <3>2, LenProperties DEF Busy
  <2>7. onFly = t + q + y + w + b
    BY <1>0, <2>1
  <2> HIDE DEF q, y, w, b, t, in, out
  <2>8. onFly' \in Nat
    BY <1>0, <2>1, <2>4, <2>7
  <2>9. ok' => onFly' = t' + q' + y' + w' + b'
    <3>1. ASSUME ok' PROVE onFly' = t' + q' + y' + w' + b'
      <4>1. w' + b' = w + b - out
        BY <2>5, <3>1
      <4>2. onFly' = t + q + y + w + b + in - out
        BY <2>1, <2>7
      <4>3. t' = t + in /\ q' = q /\ y' = y /\ in \in Nat /\ out \in Nat
        BY <2>2, <2>3, <2>4
      <4>4. (t + in) + q + y + w' + b' = (t + q + y + w + b) + in - out
        <5>1. b \in Nat /\ b' \in Nat
          BY <1>0, <2>6
        <5>2. \A v, c \in Nat : v + c = w + b - out =>
                (t + in) + q + y + v + c = (t + q + y + w + b) + in - out
          BY ONLY <1>0, <4>3, <5>1, Recount
        <5> QED BY ONLY <2>6, <4>1, <5>1, <5>2
      <4> QED BY <4>2, <4>3, <4>4
    <3> QED BY <3>1
  <2> QED BY <1>s, <2>8, <2>9
<1>5. ASSUME NEW r \in Ranks, NEW i \in Ready(cmdQ[r], Mode(r), mc[r]), Column(r, i)
      PROVE  ExactInv'
  <2> DEFINE p == cmdQ[r][i]
  <2>1. p \in Sendable /\ Record(p)
        /\ wrData' = IF p.op = "WRITE" THEN Append(wrData, [left |-> WL]) ELSE wrData
    BY <1>5, QueueOf DEF Ready, Column
  <2>2. q' = q - (IF p \in Sendable THEN 1 ELSE 0)
    BY <1>5, QueuedLeaves
  <2> HIDE DEF p
  <2>3. p # NoCmd /\ LocationOf(p) \in L /\ p.op \in {"READ", "WRITE"}
    BY <2>1, SendableFields
  <2>4. y' = y + (IF IsRead(p) /\ LocationOf(p) \in L THEN 1 ELSE 0)
    BY <2>1, FlyingSends
  <2>5. w' = w + (IF p.op = "WRITE" THEN 1 ELSE 0)
    <3>1. wrData \in Seq([left : 1 .. WL]) /\ [left |-> WL] \in [left : 1 .. WL]
      BY Geometry DEF TypeInv, WritesOK
    <3> QED BY <1>0, <2>1, <3>1, AppendProperties
  <2>6. t' = t /\ onFly' = onFly /\ b' = b /\ error' = error
    BY <2>1 DEF Record, frontVars, Busy
  <2>7. y' = y + (IF p.op = "READ" THEN 1 ELSE 0)
    BY <2>3, <2>4 DEF IsRead
  <2> HIDE DEF q, y, w, b, t
  <2>8. t' + q' + y' + w' + b' = t + q + y + w + b
    <3>1. q' = q - 1
      BY ONLY <2>1, <2>2
    <3>2. CASE p.op = "READ"
      <4>1. y' = y + 1 /\ w' = w + 0
        BY ONLY <2>5, <2>7, <3>2
      <4>2. t + (q - 1) + (y + 1) + (w + 0) + b = t + q + y + w + b
        BY ONLY <1>0
      <4> QED BY ONLY <2>6, <3>1, <4>1, <4>2
    <3>3. CASE p.op = "WRITE"
      <4>1. y' = y + 0 /\ w' = w + 1
        BY ONLY <2>5, <2>7, <3>3
      <4>2. t + (q - 1) + (y + 0) + (w + 1) + b = t + q + y + w + b
        BY ONLY <1>0
      <4> QED BY ONLY <2>6, <3>1, <4>1, <4>2
    <3> QED BY ONLY <2>3, <3>2, <3>3
  <2>9. ok' = ok
    BY <2>6
  <2> HIDE DEF ok
  <2> QED BY ONLY <1>0, <1>s, <2>6, <2>8, <2>9
<1>6. ASSUME NEW c, Bare(c) PROVE ExactInv'
  <2>1. Record(c) /\ ~IsRead(c) /\ cmdQ' = cmdQ /\ wrData' = wrData
        /\ UNCHANGED <<transQ, wrBus, onFly, error>>
    BY <1>6 DEF Bare, IsRead, Record, frontVars
  <2>2. y' = y + 0 /\ q' = q /\ b' = b /\ t' = t /\ w' = w
    BY <2>1, FlyingSends DEF QueuedOf, Busy
  <2> HIDE DEF q, y, w, b, t
  <2> QED BY <1>0, <1>s, <2>1, <2>2
<1>7. CASE IssueNothing
  BY <1>1, <1>7 DEF IssueNothing, frontVars, queueVars, dataVars
<1>8. CASE Retire
  <2>1. UpdateTransactionQueue /\ ReturnRead /\ UNCHANGED <<bus, rdRet, rdBus, wrData, wrBus>>
        /\ error = "none"
    BY <1>8 DEF Retire
  <2>2. q' = q + Moves(Sendable) /\ Moves(Sendable) \in {0, 1}
    BY <2>1, QueuedMoves DEF Moves
  <2>3. t' = t - Moves(Sendable)
    <3>1. transQ' \in Seq(Sendable)
      <4>1. TypeInv'
        BY TypeStep
      <4> QED BY <4>1 DEF TypeInv, QueuesOK
    <3>2. CountIn(transQ', Sendable) = CountIn(transQ, Sendable) - Moves(Sendable)
      BY <2>1, QueuedMoves
    <3>3. CountIn(transQ', Sendable) = Len(transQ') /\ CountIn(transQ, Sendable) = Len(transQ)
      BY <1>0, <3>1, CountType
    <3> QED BY <3>2, <3>3
  <2>4. w' = w /\ b' = b
    BY <2>1 DEF Busy
  <2>5. CASE retQ = <<>>
    <3>1. y' = y /\ onFly' = onFly /\ error' = error
      BY <2>1, <2>5, FlyingSame DEF ReturnRead
    <3> HIDE DEF q, y, w, b, t
    <3>2. t' + q' + y' + w' + b' = t + q + y + w + b
      <4>1. (t - Moves(Sendable)) + (q + Moves(Sendable)) + (y - 0) + w + b = (t + q + y + w + b) - 0
        BY ONLY <1>0, <2>2, Recount
      <4>2. y - 0 = y /\ (t + q + y + w + b) - 0 = t + q + y + w + b
        BY ONLY <1>0
      <4> QED BY ONLY <2>2, <2>3, <2>4, <3>1, <4>1, <4>2
    <3>3. onFly = t + q + y + w + b
      BY <1>0, <2>1 DEF ok
    <3> HIDE DEF ok
    <3> QED BY <1>0, <1>s, <3>1, <3>2, <3>3
  <2>6. CASE retQ # <<>>
    <3>1. Matching # {}
      BY <2>6, MatchFound
    <3>2. retQ' = Tail(retQ) /\ onFly' = onFly - 1 /\ error' = error
      BY <2>1, <2>6, <3>1 DEF ReturnRead
    <3>3. retQ \in Seq(Finds)
      BY DEF TypeInv, ReturnsOK
    <3>4. Head(retQ).loc \in L
      <4>1. Head(retQ) \in Finds
        BY <2>6, <3>3, CountTail
      <4> QED BY <4>1 DEF Finds
    <3>5. y' = y - 1 /\ y >= 1
      BY <2>1, <2>6, <3>2, <3>4, FlyingReturns
    <3> HIDE DEF q, y, w, b, t
    <3>6. t' + q' + y' + w' + b' = (t + q + y + w + b) - 1
      <4>1. (t - Moves(Sendable)) + (q + Moves(Sendable)) + (y - 1) + w + b = (t + q + y + w + b) - 1
        <5>1. b \in Nat /\ Moves(Sendable) \in Nat /\ 1 \in Nat
          BY <1>0, <2>2
        <5>2. \A k \in Nat : (t - Moves(Sendable)) + (q + Moves(Sendable)) + (y - k) + w + b
                             = (t + q + y + w + b) - k
          BY ONLY <1>0, <5>1, Recount
        <5> QED BY ONLY <5>1, <5>2
      <4> QED BY ONLY <2>2, <2>3, <2>4, <3>5, <4>1
    <3> HIDE DEF ok
    <3>7. onFly = t + q + y + w + b /\ onFly >= 1
      BY <1>0, <2>1, <3>5 DEF ok
    <3> QED BY <1>0, <1>s, <3>2, <3>6, <3>7
  <2> QED BY <2>5, <2>6
<1>9. CASE UNCHANGED vars
  BY <1>1, <1>9 DEF vars, frontVars, queueVars, dataVars
<1> QED BY StepCases, <1>2, <1>3, <1>4, <1>5, <1>6, <1>7, <1>8, <1>9

\* The count, as the channel's property writes it.
LEMMA ExactSuffices ==
  ASSUME TypeInv, ExactInv, OneRankOrSlow \/ error \in {"none", "noMatch"}
  PROVE  OnFlyExact
<1>1. ASSUME NEW r \in Ranks PROVE Len(cmdQ[r]) = CountIn(cmdQ[r], Sendable)
  BY QueueOf, CountType
<1>2. QueuedOf(Sendable) = Total([r \in Ranks |-> Len(cmdQ[r])])
  <2>1. [r \in Ranks |-> Len(cmdQ[r])] = [r \in Ranks |-> CountIn(cmdQ[r], Sendable)]
    BY <1>1
  <2> QED BY <2>1 DEF QueuedOf
<1> QED BY <1>2, InFlightIs DEF ExactInv, OnFlyExact

(* A transaction waits outside only while the transaction queue is full, or was until *)
(* the step before made one of its transactions a command.                              *)
PendingHeld ==
  pending # <<>> =>
    \/ Len(transQ) = TransQueueDepth
    \/ pc = "deliver" /\ Len(transQ) = TransQueueDepth - 1 /\ \E r \in Ranks : cmdQ[r] # <<>>

\* The client's additions, the drain and updateTransactionQueue keep it so.
LEMMA HeldStep == TypeInv /\ PendingHeld /\ [Next]_vars => PendingHeld'
<1> SUFFICES ASSUME TypeInv, PendingHeld, [Next]_vars PROVE PendingHeld'
  OBVIOUS
<1>0. /\ transQ \in Seq(Sendable) /\ pending \in Seq(Sendable) /\ TransQueueDepth \in Nat
      /\ Len(transQ) \in Nat /\ Len(transQ) <= TransQueueDepth
  BY Geometry, LenProperties DEF TypeInv, QueuesOK
<1>1. CASE UNCHANGED <<pending, transQ, cmdQ>> /\ (pc' = "deliver" \/ pc # "deliver")
  BY <1>1 DEF PendingHeld
<1>2. ASSUME NEW o \in {"READ", "WRITE"}, NEW l \in Locations, AddTransaction(o, l) PROVE PendingHeld'
  <2> DEFINE p == Request(o, l)
  <2>1. Enqueue(p) /\ UNCHANGED <<pc, cmdQ>>
    BY <1>2 DEF AddTransaction, queueVars
  <2>2. p \in Sendable
    BY RequestType
  <2> HIDE DEF p
  <2>3. CASE WillAccept
    <3>1. Len(transQ') = Len(transQ) + 1 /\ pending' = pending
      BY <1>0, <2>1, <2>2, <2>3, AppendProperties DEF Enqueue
    <3>2. pending # <<>> => Len(transQ) = TransQueueDepth - 1
      BY <1>0, <2>3 DEF PendingHeld, WillAccept
    <3> QED BY <1>0, <3>1, <3>2 DEF PendingHeld
  <2>4. CASE ~WillAccept
    BY <1>0, <2>1, <2>4 DEF Enqueue, WillAccept, PendingHeld
  <2> QED BY <2>3, <2>4
<1>3. CASE AddBarrier
  <2>1. UNCHANGED <<pc, cmdQ>> /\ TagLast
    BY <1>3 DEF AddBarrier, queueVars
  <2>2. Len(transQ') = Len(transQ)
    <3>1. WillAccept /\ Fences => transQ # <<>>
      BY DEF Fences
    <3> QED BY <1>0, <2>1, <3>1, TaggedProperties DEF TagLast
  <2>3. pending' # <<>> => pending # <<>>
    <3>1. ~WillAccept /\ Fences => pending # <<>>
      BY DEF Fences
    <3> QED BY <2>1, <3>1 DEF TagLast
  <2> QED BY <2>1, <2>2, <2>3 DEF PendingHeld
<1>4. CASE Deliver
  <2>1. AcceptOne
    BY <1>4 DEF Deliver
  <2>2. CASE Accepting
    <3>1. Head(pending) \in Sendable /\ transQ' = Append(transQ, Head(pending)) /\ pending # <<>>
      BY <1>0, <2>1, <2>2, CountTail DEF AcceptOne, Accepting
    <3>2. Len(transQ') = Len(transQ) + 1
      BY <1>0, <3>1, AppendProperties
    <3>3. Len(transQ) = TransQueueDepth - 1
      BY <1>0, <2>2 DEF PendingHeld, Accepting, WillAccept
    <3> QED BY <1>0, <3>2, <3>3 DEF PendingHeld
  <2>3. CASE ~Accepting
    <3>1. transQ' = transQ /\ pending' = pending
      BY <2>1, <2>3 DEF AcceptOne
    <3>2. pending # <<>> => Len(transQ) = TransQueueDepth
      BY <1>0, <2>3 DEF Accepting, WillAccept
    <3> QED BY <3>1, <3>2 DEF PendingHeld
  <2> QED BY <2>2, <2>3
<1>5. ASSUME NEW c, Record(c) PROVE PendingHeld'
  <2>1. pc = "issue" /\ UNCHANGED <<pending, transQ>>
    BY <1>5 DEF Record, frontVars
  <2> QED BY <2>1 DEF PendingHeld
<1>6. CASE IssueNothing
  BY <1>1, <1>6 DEF IssueNothing, frontVars, queueVars
<1>7. CASE Retire
  <2>1. UpdateTransactionQueue /\ pending' = pending /\ pc = "step" /\ pc' = "deliver"
    BY <1>7 DEF Retire
  <2>2. CASE Movable = {}
    BY <1>1, <2>1, <2>2 DEF UpdateTransactionQueue
  <2>3. CASE Movable # {}
    <3> DEFINE i == Min(Movable)
               p == transQ[i]
    <3>1. i \in 1 .. Len(transQ) /\ p \in Sendable /\ p.rank \in Ranks
      BY <2>3, MovedProperties
    <3>2. transQ' = RemoveAt(transQ, i) /\ cmdQ' = [cmdQ EXCEPT ![p.rank] = Append(@, p)]
      BY <2>1, <2>3 DEF UpdateTransactionQueue
    <3> HIDE DEF i
    <3>3. Len(transQ') = Len(transQ) - 1
      BY <1>0, <3>1, <3>2, RemoveAtProperties
    <3>4. cmdQ'[p.rank] # <<>>
      <4> HIDE DEF p
      <4>1. cmdQ[p.rank] \in Seq(Sendable) /\ p.rank \in DOMAIN cmdQ
        BY <3>1, QueueOf DEF TypeInv, QueuesOK
      <4>2. cmdQ'[p.rank] = Append(cmdQ[p.rank], p)
        BY <3>2, <4>1
      <4>3. Append(cmdQ[p.rank], p) # <<>>
        BY <3>1, <4>1, AppendProperties
      <4> QED BY <4>2, <4>3
    <3>5. pending # <<>> => Len(transQ) = TransQueueDepth
      BY <2>1 DEF PendingHeld
    <3> HIDE DEF p
    <3> QED BY <2>1, <3>1, <3>3, <3>4, <3>5 DEF PendingHeld
  <2> QED BY <2>2, <2>3
<1>8. CASE UNCHANGED vars
  BY <1>1, <1>8 DEF vars, frontVars, queueVars
<1> QED BY StepCases, <1>2, <1>3, <1>4, <1>5, <1>6, <1>7, <1>8 DEF Column, Bare

\* While one waits outside there is one inside, and the count shows it.
LEMMA HeldSuffices == TypeInv /\ Phases /\ ExactInv /\ PendingHeld => NoEarlyStop
<1> SUFFICES ASSUME TypeInv, Phases, ExactInv, PendingHeld, pc = "deliver", pending # <<>>
             PROVE  onFly > 0
  BY DEF NoEarlyStop
<1>1. error \in {"none", "noMatch"}
  BY DEF Phases
<1>2. onFly = Len(transQ) + QueuedOf(Sendable) + Flying(Locations) + Len(wrData) + Busy(wrBus)
  BY <1>1 DEF ExactInv
<1>3. /\ Len(transQ) \in Nat /\ QueuedOf(Sendable) \in Nat /\ Flying(Locations) \in Nat
      /\ Len(wrData) \in Nat /\ Busy(wrBus) \in {0, 1} /\ TransQueueDepth \in Nat \ {0}
  BY CountTypes, Geometry
<1>4. CASE Len(transQ) = TransQueueDepth
  BY <1>2, <1>3, <1>4
<1>5. ASSUME NEW r \in Ranks, cmdQ[r] # <<>> PROVE onFly > 0
  <2>1. CountIn(cmdQ[r], Sendable) = Len(cmdQ[r]) /\ cmdQ[r] \in Seq(Sendable)
    BY QueueOf, CountType
  <2>2. Len(cmdQ[r]) \in Nat /\ Len(cmdQ[r]) # 0
    BY <1>5, <2>1, LenProperties, EmptySeq
  <2>3. CountIn(cmdQ[r], Sendable) <= QueuedOf(Sendable)
    BY QueuedTypes
  <2>4. QueuedOf(Sendable) > 0
    BY <1>3, <2>1, <2>2, <2>3
  <2> QED BY <1>2, <1>3, <2>4
<1> QED BY <1>4, <1>5 DEF PendingHeld

\* A read that is returned finds its transaction; only Deliver may end the program.
LEMMA MatchStep ==
  ASSUME TypeInv, Accounts, [Next]_vars, error # "noMatch"
  PROVE  error' # "noMatch" /\ (OneRankOrSlow /\ WriteGaps /\ error # "dataBus" => error' # "dataBus")
<1>1. CASE error' = error
  BY <1>1
<1>2. CASE \E o \in {"READ", "WRITE"}, l \in Locations : AddTransaction(o, l)
  BY <1>1, <1>2 DEF AddTransaction
<1>3. CASE AddBarrier
  BY <1>1, <1>3 DEF AddBarrier
<1>4. CASE Deliver
  <2>1. error' = IF Rejected THEN "rank" ELSE IF Due(wrData) /\ WriteBusBusy THEN "dataBus" ELSE "none"
    BY <1>4 DEF Deliver
  <2>2. error' \in {"rank", "none"} \/ (Due(wrData) /\ WriteBusBusy /\ error' = "dataBus")
    BY <2>1
  <2> QED BY <1>4, <2>2, BusFree
<1>5. ASSUME NEW c, Record(c) PROVE error' = error
  BY <1>5 DEF Record
<1>6. CASE IssueNothing
  BY <1>1, <1>6 DEF IssueNothing
<1>7. CASE Retire
  <2>1. retQ = <<>> \/ Matching # {}
    BY MatchFound
  <2> QED BY <1>1, <1>7, <2>1 DEF Retire, ReturnRead
<1>8. CASE UNCHANGED vars
  BY <1>1, <1>8 DEF vars
<1> QED BY StepCases, <1>1, <1>2, <1>3, <1>4, <1>5, <1>6, <1>7, <1>8 DEF Column, Bare

-----------------------------------------------------------------------------
(* What holds of every channel. *)

(* TrafficInv: the inductive invariant of a channel's transactions. *)
TrafficInv ==
  /\ TypeInv /\ Phases /\ ReadGaps /\ Accounts /\ ExactInv /\ PendingHeld
  /\ error # "noMatch"
  /\ OneRankOrSlow => WriteGaps /\ error # "dataBus"

\* TrafficInv is kept, whatever the channel's constants.
LEMMA TrafficHolds == Spec => []TrafficInv
<1>1. Init => TrafficInv
  <2>1. Init => PendingHeld /\ error = "none"
    BY DEF Init, PendingHeld
  <2> QED BY <2>1, InitTypes, PhasesInit, ReadGapsInit, WriteGapsInit, AccountsInit, ExactInit DEF TrafficInv
<1>2. TrafficInv /\ [Next]_vars => TrafficInv'
  <2> SUFFICES ASSUME TrafficInv, [Next]_vars PROVE TrafficInv'
    OBVIOUS
  <2> USE DEF TrafficInv
  <2>1. TypeInv' /\ Phases' /\ ReadGaps' /\ Accounts' /\ PendingHeld'
    BY TypeStep, PhasesStep, ReadGapsStep, AccountsStep, HeldStep
  <2>2. OneRankOrSlow => WriteGaps'
    BY WriteGapsStep
  <2>3. ExactInv'
    BY ExactStep
  <2>4. error' # "noMatch" /\ (OneRankOrSlow => error' # "dataBus")
    BY MatchStep
  <2>5. OneRankOrSlow' = OneRankOrSlow
    BY DEF OneRankOrSlow
  <2> QED BY <2>1, <2>2, <2>3, <2>4, <2>5
<1> QED BY <1>1, <1>2, PTL DEF Spec

(* TypeCorrect: the channel's type invariant: no queue outgrows its depth, no     *)
(* countdown its latency, and the count of what is in flight is never taken below 0. *)
THEOREM TypeCorrect == Spec => []TypeOK
<1>1. TrafficInv => TypeOK
  BY TypesSuffice DEF TrafficInv, ExactInv
<1> QED BY <1>1, TrafficHolds, PTL

(* EveryReadPending: pendingReadTransactions holds every read that has left the   *)
(* transaction queue, once, until it is returned.                                    *)
THEOREM EveryReadPending == Spec => []ReadsAccounted
<1>1. TrafficInv => ReadsAccounted
  BY AccountsSuffice DEF TrafficInv
<1> QED BY <1>1, TrafficHolds, PTL

(* LoopsRunOn: hasPendingTransactions() is not 0 while a transaction still waits  *)
(* in MemorySystem::pendingTransactions, where nothing counts it.                    *)
THEOREM LoopsRunOn == Spec => []NoEarlyStop
<1>1. TrafficInv => NoEarlyStop
  BY HeldSuffices DEF TrafficInv
<1> QED BY <1>1, TrafficHolds, PTL

(* ReadsMatch: "Can't find a matching transaction" never ends the program.        *)
THEOREM ReadsMatch == Spec => [](error # "noMatch")
<1>1. TrafficInv => error # "noMatch"
  BY DEF TrafficInv
<1> QED BY <1>1, TrafficHolds, PTL

(* CountedOnce: the count the run loops stop on is exact until a check ends the   *)
(* program.                                                                           *)
THEOREM CountedOnce == Spec => [](error = "none" => OnFlyExact)
<1>1. TrafficInv => (error = "none" => OnFlyExact)
  BY ExactSuffices DEF TrafficInv
<1> QED BY <1>1, TrafficHolds, PTL

(* CountExact: where no two bursts of write data can meet, that is always.        *)
THEOREM CountExact == ASSUME OneRankOrSlow PROVE Spec => []OnFlyExact
<1>1. TrafficInv => OnFlyExact
  BY ExactSuffices DEF TrafficInv
<1> QED BY <1>1, TrafficHolds, PTL

(* ChecksPass: with that, and while no rank is taken out of SB mode, no check on  *)
(* the way of a transaction ends the program: not Rank::check, not "Data Bus           *)
(* Collision", not "Can't find a matching transaction".                                 *)
THEOREM ChecksPass == ASSUME NoModeSwitch, OneRankOrSlow PROVE Spec => []NoCheckFails
<1>1. TrafficInv /\ error # "rank" => NoCheckFails
  BY DEF TrafficInv, TypeInv, ControlOK, NoCheckFails
<1> QED BY <1>1, TrafficHolds, NoRankRejects, PTL

-----------------------------------------------------------------------------
(* The packets on their way to a rank, in line. *)

(* The rank's command queue comes first, then the transaction queue, with what it   *)
(* holds for other ranks, then the transactions that wait outside.                    *)
Line(r) == cmdQ[r] \o transQ \o pending

(* An access in line sees x: the value of the last write to its location ahead of  *)
(* it, at places S, and the bank's if there is none.                                 *)
Writes(l, p) == p.op = "WRITE" /\ ~IsReservedRA(l.row)
Sees(l, s, S, base, x) ==
  /\ (\A k \in S : ~Writes(l, s[k])) => x = base
  /\ \A i \in S : Writes(l, s[i]) /\ (\A k \in S : i < k => ~Writes(l, s[k])) => x = s[i].val

\* The places of a line that are about location l, and those before place j.
About(l, s) == {k \in DOMAIN s : LocationOf(s[k]) = l}
Before(l, s, j) == {k \in About(l, s) : k < j}

(* Every read in line sees what it wants, and the client's last write comes last.  *)
Chain(l, s, base, last) ==
  /\ \A j \in About(l, s) : s[j].op = "READ" => Sees(l, s, Before(l, s, j), base, s[j].val)
  /\ Sees(l, s, About(l, s), base, last)

\* What the bank holds once the command on the bus has reached it.
Base(l) == IF bus # NoCmd /\ Writes(l, bus) /\ LocationOf(bus) = l THEN bus.val ELSE store[l]

Chains == \A l \in Locations : Chain(l, Line(l.rank), Base(l), golden[l])
Served ==
  /\ Chains
  /\ IsRead(bus) => bus.val = store[LocationOf(bus)]
  /\ \A r \in Ranks : \A i \in 1 .. Len(rdRet[r]) : rdRet[r][i].pkt.got = rdRet[r][i].pkt.want

(* A client never adds a transaction ahead of one that waits outside: in a batch   *)
(* the transaction queue only fills up, and a batch starts with nothing outside.      *)
InOrder == Batch \/ NumTrans = 0
AddsLast ==
  /\ Batch /\ adding => pc = "deliver" /\ (pending # <<>> => ~WillAccept)
  /\ NumTrans = 0 => pending = <<>>

(* Epochs grow along a line of which the rank has seen up to one, and wherever they   *)
(* do, a barrier stands between.                                                       *)
Fenced(s, seen, last) ==
  /\ \A i, j \in DOMAIN s : i < j =>
       /\ s[i].epoch <= s[j].epoch
       /\ s[i].epoch < s[j].epoch => \E k \in DOMAIN s : i <= k /\ k < j /\ s[k].bar
  /\ \A i \in DOMAIN s :
       /\ seen <= s[i].epoch /\ s[i].epoch <= last
       /\ s[i].epoch < last => \E k \in DOMAIN s : i <= k /\ s[k].bar
  /\ seen <= last

-----------------------------------------------------------------------------
(* Lines that move up, grow and lose a packet. *)

\* The accesses to a location in the same order, at other places.
Moved(l, f, s, t) ==
  /\ f \in [About(l, t) -> About(l, s)]
  /\ \A k \in About(l, t) : t[k].op = s[f[k]].op /\ t[k].val = s[f[k]].val
  /\ \A j, k \in About(l, t) : j < k => f[j] < f[k]
  /\ \A i \in About(l, s) : \E k \in About(l, t) : f[k] = i
SameOrder(l, s, t) == \E f : Moved(l, f, s, t)

\* A packet leaves, without the others moving up.
Without(s, i) == [k \in DOMAIN s \ {i} |-> s[k]]

\* Whoever stands at an image stands behind whoever stands at a lower one.
LEMMA MovedBack ==
  ASSUME NEW l, NEW f, NEW s, NEW t, Moved(l, f, s, t), DOMAIN s \subseteq Nat, DOMAIN t \subseteq Nat
  PROVE  /\ \A j, k \in About(l, t) : f[j] < f[k] <=> j < k
         /\ \A k \in About(l, t) : f[k] \in About(l, s) /\ f[k] \in Nat
<1>1. \A k \in About(l, t) : f[k] \in About(l, s) /\ f[k] \in Nat /\ k \in Nat
  BY DEF Moved, About
<1>2. \A j, k \in About(l, t) : j < k => f[j] < f[k]
  BY DEF Moved
<1>3. ASSUME NEW j \in About(l, t), NEW k \in About(l, t)
      PROVE  f[j] < f[k] <=> j < k
  <2>1. j \in Nat /\ k \in Nat /\ f[j] \in Nat /\ f[k] \in Nat
    BY <1>1
  <2>2. (j < k => f[j] < f[k]) /\ (k < j => f[k] < f[j])
    BY <1>2
  <2> QED BY <2>1, <2>2
<1> QED BY <1>1, <1>3

\* What an access sees depends on the order alone.
LEMMA SeesMoved ==
  ASSUME NEW l, NEW f, NEW s, NEW t, Moved(l, f, s, t), DOMAIN s \subseteq Nat, DOMAIN t \subseteq Nat,
         NEW A, A \subseteq About(l, s), NEW B, B \subseteq About(l, t),
         \A k \in About(l, t) : k \in B <=> f[k] \in A,
         NEW base, NEW x, Sees(l, s, A, base, x)
  PROVE  Sees(l, t, B, base, x)
<1>1. \A k \in About(l, t) : (Writes(l, t[k]) <=> Writes(l, s[f[k]])) /\ t[k].val = s[f[k]].val
  BY DEF Moved, Writes
<1>2. ASSUME NEW a \in A PROVE \E k \in B : f[k] = a
  BY DEF Moved
<1>3. \A k \in B : f[k] \in A
  OBVIOUS
<1>4. ASSUME \A k \in B : ~Writes(l, t[k]) PROVE x = base
  <2>1. \A a \in A : ~Writes(l, s[a])
    BY <1>1, <1>2, <1>4
  <2> QED BY <2>1 DEF Sees
<1>5. ASSUME NEW i \in B, Writes(l, t[i]), \A k \in B : i < k => ~Writes(l, t[k])
      PROVE  x = t[i].val
  <2>1. f[i] \in A /\ Writes(l, s[f[i]])
    BY <1>1, <1>3, <1>5
  <2>2. ASSUME NEW a \in A, f[i] < a PROVE ~Writes(l, s[a])
    <3>1. PICK k \in B : f[k] = a
      BY <1>2
    <3>2. i < k
      BY <2>2, <3>1, MovedBack
    <3> QED BY <1>1, <1>5, <3>1, <3>2
  <2>3. x = s[f[i]].val
    BY <2>1, <2>2 DEF Sees
  <2> QED BY <1>1, <2>3
<1> QED BY <1>4, <1>5 DEF Sees

\* So a line that keeps that order stays a chain.
LEMMA ChainMoved ==
  ASSUME NEW l, NEW s, NEW t, SameOrder(l, s, t), DOMAIN s \subseteq Nat, DOMAIN t \subseteq Nat,
         NEW base, NEW last, Chain(l, s, base, last)
  PROVE  Chain(l, t, base, last)
<1>1. PICK f : Moved(l, f, s, t)
  BY DEF SameOrder
<1>2. \A k \in About(l, t) : /\ t[k].op = s[f[k]].op /\ t[k].val = s[f[k]].val
                             /\ f[k] \in About(l, s)
  BY <1>1 DEF Moved
<1>3. Sees(l, t, About(l, t), base, last)
  BY <1>1, <1>2, SeesMoved DEF Chain
<1>4. ASSUME NEW j \in About(l, t), t[j].op = "READ"
      PROVE  Sees(l, t, Before(l, t, j), base, t[j].val)
  <2>1. Sees(l, s, Before(l, s, f[j]), base, t[j].val)
    BY <1>2, <1>4 DEF Chain
  <2>2. \A k \in About(l, t) : k \in Before(l, t, j) <=> f[k] \in Before(l, s, f[j])
    BY <1>1, <1>2, MovedBack DEF Before
  <2>3. Before(l, s, f[j]) \subseteq About(l, s) /\ Before(l, t, j) \subseteq About(l, t)
    BY DEF Before
  <2> QED BY <1>1, <2>1, <2>2, <2>3, SeesMoved
<1> QED BY <1>3, <1>4 DEF Chain

\* A new access, made for the client's last write, may join.
LEMMA ChainJoined ==
  ASSUME NEW S, NEW s \in Seq(S), NEW p \in S, NEW t, t = Append(s, p),
         NEW l, NEW base, NEW last, Chain(l, s, base, last),
         LocationOf(p) = l /\ p.op = "READ" => p.val = last,
         NEW next, next = IF LocationOf(p) = l /\ Writes(l, p) THEN p.val ELSE last
  PROVE  Chain(l, t, base, next)
<1> DEFINE n == Len(s) + 1
<1>1. /\ n \in Nat /\ n \notin DOMAIN s /\ DOMAIN t = DOMAIN s \cup {n} /\ t[n] = p
      /\ \A k \in DOMAIN s : k \in Nat /\ k < n /\ t[k] = s[k]
  <2>1. /\ t \in Seq(S) /\ Len(t) = n /\ t[n] = p /\ \A k \in 1 .. Len(s) : t[k] = s[k]
        /\ Len(s) \in Nat /\ DOMAIN s = 1 .. Len(s)
    BY AppendProperties, LenProperties
  <2>2. DOMAIN t = 1 .. n
    BY <2>1, LenProperties
  <2> QED BY <2>1, <2>2
<1> HIDE DEF n
<1>2. About(l, t) = About(l, s) \cup (IF LocationOf(p) = l THEN {n} ELSE {})
  BY <1>1 DEF About
<1>3. \A k \in About(l, s) : k \in Nat /\ k < n /\ t[k] = s[k] /\ k \in DOMAIN s
  BY <1>1 DEF About
<1>4. \A j \in About(l, s) : Before(l, t, j) = Before(l, s, j) /\ Before(l, s, j) \subseteq About(l, s)
  <2>1. \A j \in About(l, s) : ~(n < j)
    BY <1>1, <1>3
  <2> QED BY <1>2, <2>1 DEF Before
<1>5. ASSUME NEW A, A \subseteq About(l, s), NEW x, Sees(l, s, A, base, x)
      PROVE  Sees(l, t, A, base, x)
  <2>1. \A k \in A : t[k] = s[k]
    BY <1>3, <1>5
  <2> QED BY <1>5, <2>1 DEF Sees
<1>6. Sees(l, t, About(l, s), base, last)
  BY <1>5 DEF Chain
<1>7. ASSUME NEW j \in About(l, t), t[j].op = "READ"
      PROVE  Sees(l, t, Before(l, t, j), base, t[j].val)
  <2>1. CASE j \in About(l, s)
    <3>1. Sees(l, s, Before(l, s, j), base, s[j].val) /\ t[j] = s[j]
      BY <1>3, <1>7, <2>1 DEF Chain
    <3> QED BY <1>4, <1>5, <2>1, <3>1
  <2>2. CASE j \notin About(l, s)
    <3>1. LocationOf(p) = l /\ j = n
      BY <1>2, <1>7, <2>2
    <3>2. Before(l, t, n) = About(l, s)
      <4>1. \A k \in About(l, t) : k < n <=> k \in About(l, s)
        <5>1. ~(n < n) /\ n \notin About(l, s)
          BY <1>1 DEF About
        <5> QED BY <1>2, <1>3, <5>1
      <4> QED BY <1>2, <3>1, <4>1 DEF Before
    <3>3. t[j].val = last
      BY <1>1, <1>7, <3>1
    <3> QED BY <1>6, <3>1, <3>2, <3>3
  <2> QED BY <2>1, <2>2
<1>8. Sees(l, t, About(l, t), base, next)
  <2>1. CASE LocationOf(p) # l
    BY <1>2, <1>6, <2>1
  <2>2. CASE LocationOf(p) = l /\ ~Writes(l, p)
    <3>1. About(l, t) = About(l, s) \cup {n} /\ ~Writes(l, t[n]) /\ next = last
      BY <1>1, <1>2, <2>2
    <3> QED BY <1>6, <3>1 DEF Sees
  <2>3. CASE LocationOf(p) = l /\ Writes(l, p)
    <3>1. About(l, t) = About(l, s) \cup {n} /\ Writes(l, t[n]) /\ next = t[n].val
      BY <1>1, <1>2, <2>3
    <3>2. \A i \in About(l, s) : i < n
      BY <1>3
    <3> QED BY <3>1, <3>2 DEF Sees
  <2> QED BY <2>1, <2>2, <2>3
<1> QED BY <1>7, <1>8 DEF Chain

\* The first access to a location leaves the line; others at any place.
LEMMA ChainLeft ==
  ASSUME NEW s, NEW i \in DOMAIN s, DOMAIN s \subseteq Nat,
         NEW l, NEW base, NEW last, Chain(l, s, base, last),
         \A k \in About(l, s) : LocationOf(s[i]) = l => i <= k
  PROVE  /\ Chain(l, Without(s, i),
                  IF LocationOf(s[i]) = l /\ Writes(l, s[i]) THEN s[i].val ELSE base, last)
         /\ LocationOf(s[i]) = l /\ s[i].op = "READ" => s[i].val = base
<1> DEFINE t == Without(s, i)
           next == IF LocationOf(s[i]) = l /\ Writes(l, s[i]) THEN s[i].val ELSE base
<1>1. DOMAIN t = DOMAIN s \ {i} /\ \A k \in DOMAIN t : t[k] = s[k]
  BY DEF Without
<1>2. About(l, t) = About(l, s) \ {i} /\ (i \in About(l, s) <=> LocationOf(s[i]) = l)
  BY <1>1 DEF About
<1>3. \A k \in About(l, s) : k \in Nat /\ k \in DOMAIN s
  BY DEF About
<1> HIDE DEF t
<1>4. ASSUME NEW S, S \subseteq About(l, s), NEW x, Sees(l, s, S, base, x),
             i \in About(l, s) => i \in S \/ ~Writes(l, s[i])
      PROVE  Sees(l, t, S \ {i}, next, x)
  <2>1. \A k \in S \ {i} : t[k] = s[k] /\ k \in Nat
    BY <1>1, <1>3, <1>4
  <2>2. CASE LocationOf(s[i]) = l /\ i \in S
    <3>1. \A k \in S \ {i} : i < k
      BY <1>3, <1>4, <2>2
    <3>2. ASSUME \A k \in S \ {i} : ~Writes(l, t[k]) PROVE x = next
      <4>1. \A k \in S \ {i} : ~Writes(l, s[k])
        BY <2>1, <3>2
      <4>2. CASE Writes(l, s[i])
        <5>1. x = s[i].val
          BY <1>4, <2>2, <4>1, <4>2 DEF Sees
        <5> QED BY <2>2, <4>2, <5>1
      <4>3. CASE ~Writes(l, s[i])
        <5>1. x = base
          BY <1>4, <2>2, <4>1, <4>3 DEF Sees
        <5> QED BY <4>3, <5>1
      <4> QED BY <4>2, <4>3
    <3>3. ASSUME NEW j \in S \ {i}, Writes(l, t[j]), \A k \in S \ {i} : j < k => ~Writes(l, t[k])
          PROVE  x = t[j].val
      <4>1. Writes(l, s[j]) /\ ~(j < i)
        BY <1>3, <2>1, <2>2, <3>1, <3>3
      <4>2. \A k \in S : j < k => ~Writes(l, s[k])
        BY <2>1, <3>3, <4>1
      <4>3. x = s[j].val
        BY <1>4, <3>3, <4>1, <4>2 DEF Sees
      <4> QED BY <2>1, <3>3, <4>3
    <3> QED BY <3>2, <3>3 DEF Sees
  <2>3. CASE ~(LocationOf(s[i]) = l /\ i \in S)
    <3>1. next = base
      BY <1>2, <1>4, <2>3
    <3>2. S \ {i} = S
      BY <1>2, <1>4, <2>3
    <3>3. \A k \in S : t[k] = s[k]
      BY <2>1, <3>2
    <3> QED BY <1>4, <3>1, <3>2, <3>3 DEF Sees
  <2> QED BY <2>2, <2>3
<1>5. Sees(l, t, About(l, t), next, last)
  BY <1>2, <1>4 DEF Chain
<1>6. ASSUME NEW j \in About(l, t), t[j].op = "READ"
      PROVE  Sees(l, t, Before(l, t, j), next, t[j].val)
  <2>1. j \in About(l, s) /\ j # i /\ t[j] = s[j]
    BY <1>1, <1>2, <1>6 DEF About
  <2>2. Sees(l, s, Before(l, s, j), base, s[j].val)
    BY <1>6, <2>1 DEF Chain
  <2>3. Before(l, t, j) = Before(l, s, j) \ {i} /\ Before(l, s, j) \subseteq About(l, s)
    BY <1>2 DEF Before
  <2>4. i \in About(l, s) => i \in Before(l, s, j)
    BY <1>2, <1>3, <2>1 DEF Before
  <2> QED BY <1>4, <2>1, <2>2, <2>3, <2>4
<1>7. LocationOf(s[i]) = l /\ s[i].op = "READ" => s[i].val = base
  <2> SUFFICES ASSUME LocationOf(s[i]) = l, s[i].op = "READ" PROVE s[i].val = base
    OBVIOUS
  <2>1. i \in About(l, s)
    BY <1>2
  <2>2. Before(l, s, i) = {}
    BY <1>3, <2>1 DEF Before
  <2>3. Sees(l, s, {}, base, s[i].val)
    BY <2>1, <2>2 DEF Chain
  <2> QED BY <2>3 DEF Sees
<1> QED BY <1>5, <1>6, <1>7 DEF Chain, t

-----------------------------------------------------------------------------
(* What each step does to the line of a rank. *)

\* An access that leaves may close up the line.
LEMMA Closes ==
  ASSUME NEW S, NEW s \in Seq(S), NEW i \in 1 .. Len(s), NEW l
  PROVE  /\ SameOrder(l, Without(s, i), RemoveAt(s, i))
         /\ DOMAIN Without(s, i) \subseteq Nat /\ DOMAIN RemoveAt(s, i) \subseteq Nat
<1> DEFINE m == Len(s)
           t == RemoveAt(s, i)
           v == Without(s, i)
           f == [k \in About(l, t) |-> IF k < i THEN k ELSE k + 1]
<1>1. /\ t \in Seq(S) /\ Len(t) = m - 1 /\ m \in Nat /\ DOMAIN s = 1 .. m
      /\ \A k \in 1 .. m - 1 : t[k] = IF k < i THEN s[k] ELSE s[k + 1]
  BY RemoveAtProperties, LenProperties
<1>2. DOMAIN t = 1 .. m - 1
  BY <1>1, LenProperties
<1>3. DOMAIN v = (1 .. m) \ {i} /\ \A k \in DOMAIN v : v[k] = s[k]
  BY <1>1 DEF Without
<1> HIDE DEF m, t, v
<1>4. ASSUME NEW k \in 1 .. m - 1
      PROVE  LET j == IF k < i THEN k ELSE k + 1 IN j \in DOMAIN v /\ v[j] = t[k]
  <2>1. CASE k < i
    <3>1. k \in (1 .. m) \ {i} /\ t[k] = s[k]
      BY <1>1, <2>1
    <3> QED BY <1>3, <2>1, <3>1
  <2>2. CASE ~(k < i)
    <3>1. k + 1 \in (1 .. m) \ {i} /\ t[k] = s[k + 1]
      BY <1>1, <2>2
    <3> QED BY <1>3, <2>2, <3>1
  <2> QED BY <2>1, <2>2
<1>5. \A k \in About(l, t) : k \in 1 .. m - 1 /\ LocationOf(t[k]) = l
  BY <1>2 DEF About
<1>6. \A k \in About(l, t) : f[k] \in About(l, v) /\ v[f[k]] = t[k]
  BY <1>4, <1>5 DEF About
<1>7. \A j, k \in About(l, t) : j < k => f[j] < f[k]
  BY <1>5
<1>8. ASSUME NEW j \in About(l, v) PROVE \E k \in About(l, t) : f[k] = j
  <2>1. j \in 1 .. m /\ j # i /\ LocationOf(s[j]) = l
    BY <1>3 DEF About
  <2>2. CASE j < i
    <3>1. j \in 1 .. m - 1 /\ t[j] = s[j]
      BY <1>1, <2>1, <2>2
    <3> QED BY <1>2, <2>1, <2>2, <3>1 DEF About
  <2>3. CASE j > i
    <3>1. j - 1 \in 1 .. m - 1 /\ ~(j - 1 < i) /\ (j - 1) + 1 = j
      BY <1>1, <2>1, <2>3
    <3>2. t[j - 1] = s[j]
      BY <1>1, <3>1
    <3>3. j - 1 \in About(l, t)
      BY <1>2, <2>1, <3>1, <3>2 DEF About
    <3> QED BY <3>1, <3>3
  <2> QED BY <1>1, <2>1, <2>2, <2>3
<1>9. Moved(l, f, v, t)
  BY <1>6, <1>7, <1>8 DEF Moved
<1> QED BY <1>1, <1>2, <1>3, <1>9 DEF SameOrder, t, v

\* A packet that leaves the front or the back of a line leaves the line.
LEMMA RemoveConcat ==
  ASSUME NEW S, NEW s \in Seq(S), NEW t \in Seq(S)
  PROVE  /\ \A i \in 1 .. Len(s) : RemoveAt(s, i) \o t = RemoveAt(s \o t, i)
         /\ \A i \in 1 .. Len(t) : s \o RemoveAt(t, i) = RemoveAt(s \o t, Len(s) + i)
<1> DEFINE u == s \o t
           m == Len(s)
           n == Len(t)
<1>1. /\ m \in Nat /\ n \in Nat /\ u \in Seq(S) /\ Len(u) = m + n
      /\ \A k \in 1 .. m + n : u[k] = IF k <= m THEN s[k] ELSE t[k - m]
  BY LenProperties, ConcatProperties
<1> HIDE DEF u
<1>2. ASSUME NEW i \in 1 .. m PROVE RemoveAt(s, i) \o t = RemoveAt(u, i)
  <2> DEFINE a == RemoveAt(s, i)
             v == RemoveAt(u, i)
  <2>1. /\ a \in Seq(S) /\ Len(a) = m - 1
        /\ \A k \in 1 .. m - 1 : a[k] = IF k < i THEN s[k] ELSE s[k + 1]
    BY RemoveAtProperties
  <2>2. i \in 1 .. Len(u) /\ m - 1 \in Nat
    BY <1>1
  <2>3. /\ v \in Seq(S) /\ Len(v) = (m + n) - 1
        /\ \A k \in 1 .. (m + n) - 1 : v[k] = IF k < i THEN u[k] ELSE u[k + 1]
    BY <1>1, <2>2, RemoveAtProperties
  <2> HIDE DEF a, v, m, n
  <2>4. /\ a \o t \in Seq(S) /\ Len(a \o t) = (m - 1) + n
        /\ \A k \in 1 .. (m - 1) + n : (a \o t)[k] = IF k <= m - 1 THEN a[k] ELSE t[k - (m - 1)]
    <3>1. \A b \in Seq(S) : /\ b \o t \in Seq(S) /\ Len(b \o t) = Len(b) + Len(t)
                            /\ \A k \in 1 .. Len(b) + Len(t) : (b \o t)[k] = IF k <= Len(b) THEN b[k] ELSE t[k - Len(b)]
      BY ConcatProperties
    <3>2. Len(a) = m - 1 /\ Len(t) = n
      BY <2>1 DEF n
    <3>3. /\ a \o t \in Seq(S) /\ Len(a \o t) = Len(a) + Len(t)
          /\ \A k \in 1 .. Len(a) + Len(t) : (a \o t)[k] = IF k <= Len(a) THEN a[k] ELSE t[k - Len(a)]
      BY <2>1, <3>1
    <3> QED BY ONLY <3>2, <3>3
  <2>5. (m - 1) + n = (m + n) - 1
    BY <1>1
  <2>6. ASSUME NEW k \in 1 .. (m + n) - 1 PROVE (a \o t)[k] = v[k]
    <3>1. CASE k < i
      <4>1. k <= m - 1 /\ k \in 1 .. m - 1 /\ k \in 1 .. m + n /\ k <= m
        BY <1>1, <3>1
      <4> QED BY <1>1, <2>1, <2>3, <2>4, <2>5, <3>1, <4>1
    <3>2. CASE ~(k < i) /\ k <= m - 1
      <4>1. k \in 1 .. m - 1 /\ k + 1 \in 1 .. m + n /\ k + 1 <= m
        BY <1>1, <3>2
      <4> QED BY <1>1, <2>1, <2>3, <2>4, <2>5, <3>2, <4>1
    <3>3. CASE ~(k <= m - 1)
      <4>1. ~(k < i) /\ k + 1 \in 1 .. m + n /\ ~(k + 1 <= m) /\ (k + 1) - m = k - (m - 1)
        BY <1>1, <3>3
      <4>2. v[k] = t[(k + 1) - m]
        BY <1>1, <2>3, <4>1
      <4> QED BY <2>4, <2>5, <3>3, <4>1, <4>2
    <3> QED BY <3>1, <3>2, <3>3
  <2> QED BY <2>3, <2>4, <2>5, <2>6, SeqEqual DEF a, v
<1>3. ASSUME NEW i \in 1 .. n PROVE s \o RemoveAt(t, i) = RemoveAt(u, m + i)
  <2> DEFINE a == RemoveAt(t, i)
             v == RemoveAt(u, m + i)
  <2>1. /\ a \in Seq(S) /\ Len(a) = n - 1
        /\ \A k \in 1 .. n - 1 : a[k] = IF k < i THEN t[k] ELSE t[k + 1]
    BY RemoveAtProperties
  <2>2. m + i \in 1 .. Len(u) /\ n - 1 \in Nat
    BY <1>1
  <2>3. /\ v \in Seq(S) /\ Len(v) = (m + n) - 1
        /\ \A k \in 1 .. (m + n) - 1 : v[k] = IF k < m + i THEN u[k] ELSE u[k + 1]
    BY <1>1, <2>2, RemoveAtProperties
  <2> HIDE DEF a, v, m, n
  <2>4. /\ s \o a \in Seq(S) /\ Len(s \o a) = m + (n - 1)
        /\ \A k \in 1 .. m + (n - 1) : (s \o a)[k] = IF k <= m THEN s[k] ELSE a[k - m]
    <3>1. \A b \in Seq(S) : /\ s \o b \in Seq(S) /\ Len(s \o b) = Len(s) + Len(b)
                            /\ \A k \in 1 .. Len(s) + Len(b) : (s \o b)[k] = IF k <= Len(s) THEN s[k] ELSE b[k - Len(s)]
      BY ConcatProperties
    <3>2. Len(s) = m /\ Len(s) + Len(a) = m + (n - 1)
      BY <2>1 DEF m
    <3> QED BY <2>1, <3>1, <3>2
  <2>5. m + (n - 1) = (m + n) - 1
    BY <1>1
  <2>6. ASSUME NEW k \in 1 .. (m + n) - 1 PROVE (s \o a)[k] = v[k]
    <3>1. CASE k <= m
      <4>1. k < m + i /\ k \in 1 .. m + n
        BY <1>1, <3>1
      <4> QED BY <1>1, <2>3, <2>4, <2>5, <3>1, <4>1
    <3>2. CASE ~(k <= m) /\ k < m + i
      <4>1. k - m \in 1 .. n - 1 /\ k - m < i /\ k \in 1 .. m + n
        BY <1>1, <3>2
      <4>2. v[k] = t[k - m]
        BY <1>1, <2>3, <3>2, <4>1
      <4>3. (s \o a)[k] = a[k - m]
        BY <2>4, <2>5, <3>2
      <4> QED BY <2>1, <4>1, <4>2, <4>3
    <3>3. CASE ~(k < m + i)
      <4>1. ~(k <= m) /\ k - m \in 1 .. n - 1 /\ ~(k - m < i) /\ k + 1 \in 1 .. m + n
            /\ ~(k + 1 <= m) /\ (k + 1) - m = (k - m) + 1
        BY <1>1, <3>3
      <4>2. v[k] = t[(k - m) + 1]
        BY <1>1, <2>3, <3>3, <4>1
      <4>3. (s \o a)[k] = a[k - m]
        BY <2>4, <2>5, <4>1
      <4> QED BY <2>1, <4>1, <4>2, <4>3
    <3> QED BY <3>1, <3>2, <3>3
  <2> QED BY <2>3, <2>4, <2>5, <2>6, SeqEqual DEF a, v
<1> QED BY <1>2, <1>3 DEF u

\* push_back at the end of the last queue is push_back at the end of the line.
LEMMA ConcatAppend ==
  ASSUME NEW S, NEW s \in Seq(S), NEW t \in Seq(S), NEW e \in S
  PROVE  s \o Append(t, e) = Append(s \o t, e)
<1>1. <<e>> \in Seq(S) /\ s \o t \in Seq(S)
  BY CountShort, ConcatProperties
<1>2. Append(t, e) = t \o <<e>> /\ Append(s \o t, e) = (s \o t) \o <<e>>
  BY <1>1, AppendIsConcat
<1> QED BY <1>1, <1>2, ConcatAssociative

\* Packets that keep what a chain looks at keep its order.
LEMMA SameAccesses ==
  ASSUME NEW S, NEW s \in Seq(S), NEW t \in Seq(S), Len(s) = Len(t), NEW l,
         \A k \in 1 .. Len(s) : /\ LocationOf(t[k]) = LocationOf(s[k])
                                /\ t[k].op = s[k].op /\ t[k].val = s[k].val
  PROVE  SameOrder(l, s, t) /\ DOMAIN s \subseteq Nat /\ DOMAIN t \subseteq Nat
<1>1. DOMAIN s = 1 .. Len(s) /\ DOMAIN t = 1 .. Len(s) /\ Len(s) \in Nat
  BY LenProperties
<1> DEFINE f == [k \in About(l, t) |-> k]
<1>2. About(l, t) = About(l, s) /\ \A k \in About(l, t) : k \in 1 .. Len(s)
  BY <1>1 DEF About
<1>3. Moved(l, f, s, t)
  BY <1>2 DEF Moved
<1> QED BY <1>1, <1>3 DEF SameOrder

\* A packet that overtakes others only, from a queue into the one before it, keeps
\* the order of the accesses to a location.
LEMMA HandsOver ==
  ASSUME NEW S, NEW s \in Seq(S), NEW t \in Seq(S), NEW i \in 1 .. Len(t), NEW l,
         \A m \in 1 .. i - 1 : LocationOf(t[m]) # l
  PROVE  LET v == Append(s, t[i]) \o RemoveAt(t, i) IN
         SameOrder(l, s \o t, v) /\ DOMAIN (s \o t) \subseteq Nat /\ DOMAIN v \subseteq Nat
<1> DEFINE u == s \o t
           a == Append(s, t[i])
           b == RemoveAt(t, i)
           v == a \o b
           n == Len(s)
           m == Len(t)
           f == [k \in About(l, v) |-> IF k = n + 1 THEN n + i ELSE k]
<1>1. /\ n \in Nat /\ m \in Nat /\ i \in 1 .. m /\ u \in Seq(S) /\ Len(u) = n + m
      /\ \A k \in 1 .. n + m : u[k] = IF k <= n THEN s[k] ELSE t[k - n]
  BY LenProperties, ConcatProperties
<1>2. /\ a \in Seq(S) /\ Len(a) = n + 1
      /\ \A k \in 1 .. n + 1 : a[k] = IF k = n + 1 THEN t[i] ELSE s[k]
  <2>1. t[i] \in S
    BY ElementOfSeq
  <2>2. /\ a \in Seq(S) /\ Len(a) = n + 1 /\ a[n + 1] = t[i] /\ \A k \in 1 .. n : a[k] = s[k]
    BY <2>1, AppendProperties
  <2> QED BY <1>1, <2>2
<1>3. /\ b \in Seq(S) /\ Len(b) = m - 1
      /\ \A k \in 1 .. m - 1 : b[k] = IF k < i THEN t[k] ELSE t[k + 1]
  BY RemoveAtProperties
<1> HIDE DEF a, b, u, n, m
<1>4. /\ v \in Seq(S) /\ Len(v) = n + m
      /\ \A k \in 1 .. n + m : v[k] = IF k <= n + 1 THEN a[k] ELSE b[k - (n + 1)]
  <2>1. /\ v \in Seq(S) /\ Len(v) = Len(a) + Len(b)
        /\ \A k \in 1 .. Len(a) + Len(b) : v[k] = IF k <= Len(a) THEN a[k] ELSE b[k - Len(a)]
    BY <1>2, <1>3, ConcatProperties
  <2>2. Len(a) = n + 1 /\ Len(a) + Len(b) = n + m
    BY <1>1, <1>2, <1>3
  <2> HIDE DEF v
  <2> QED BY ONLY <2>1, <2>2
<1> HIDE DEF v
<1>5. DOMAIN u = 1 .. n + m /\ DOMAIN v = 1 .. n + m
  BY <1>1, <1>4, LenProperties
\* What stands where.
<1>6. /\ \A k \in 1 .. n : v[k] = u[k]
      /\ v[n + 1] = u[n + i]
      /\ \A k \in n + 2 .. n + m : v[k] = IF k <= n + i THEN u[k - 1] ELSE u[k]
      /\ \A k \in n + 1 .. (n + i) - 1 : LocationOf(u[k]) # l
  <2>1. ASSUME NEW k \in 1 .. n PROVE v[k] = u[k]
    <3>1. k \in 1 .. n + m /\ k <= n + 1 /\ k <= n /\ k \in 1 .. n + 1 /\ k # n + 1
      BY <1>1
    <3> QED BY <1>1, <1>2, <1>4, <3>1
  <2>2. v[n + 1] = u[n + i]
    <3>1. /\ n + 1 \in 1 .. n + m /\ n + 1 \in 1 .. n + 1 /\ n + i \in 1 .. n + m /\ ~(n + i <= n)
          /\ (n + i) - n = i
      BY <1>1
    <3>2. v[n + 1] = t[i]
      BY <1>1, <1>2, <1>4, <3>1
    <3> QED BY <1>1, <3>1, <3>2
  <2>3. ASSUME NEW k \in n + 2 .. n + m PROVE v[k] = IF k <= n + i THEN u[k - 1] ELSE u[k]
    <3>1. /\ k \in 1 .. n + m /\ ~(k <= n + 1) /\ k - (n + 1) \in 1 .. m - 1
          /\ k - 1 \in 1 .. n + m /\ ~(k - 1 <= n) /\ (k - 1) - n = k - (n + 1)
          /\ ~(k <= n) /\ k - n = (k - (n + 1)) + 1 /\ (k <= n + i <=> k - (n + 1) < i)
      BY <1>1
    <3>2. v[k] = b[k - (n + 1)]
      BY <1>4, <3>1
    <3>3. u[k - 1] = t[k - (n + 1)] /\ u[k] = t[(k - (n + 1)) + 1]
      BY <1>1, <3>1
    <3> QED BY <1>3, <3>1, <3>2, <3>3
  <2>4. ASSUME NEW k \in n + 1 .. (n + i) - 1 PROVE LocationOf(u[k]) # l
    <3>1. k \in 1 .. n + m /\ ~(k <= n) /\ k - n \in 1 .. i - 1
      BY <1>1
    <3> QED BY <1>1, <3>1
  <2> QED BY <2>1, <2>2, <2>3, <2>4
<1>7. \A k \in About(l, v) : /\ k \in 1 .. n + m /\ (k <= n \/ k = n + 1 \/ k > n + i)
                             /\ v[k] = u[f[k]] /\ f[k] \in About(l, u)
  <2> SUFFICES ASSUME NEW k \in About(l, v)
               PROVE  /\ k \in 1 .. n + m /\ (k <= n \/ k = n + 1 \/ k > n + i)
                      /\ v[k] = u[f[k]] /\ f[k] \in About(l, u)
    OBVIOUS
  <2>1. k \in 1 .. n + m /\ LocationOf(v[k]) = l
    BY <1>5 DEF About
  <2>2. CASE k <= n
    <3>1. k \in 1 .. n /\ k # n + 1
      BY <1>1, <2>1, <2>2
    <3> QED BY <1>5, <1>6, <2>1, <3>1 DEF About
  <2>3. CASE k = n + 1
    <3>1. n + i \in 1 .. n + m
      BY <1>1
    <3> QED BY <1>5, <1>6, <2>1, <2>3, <3>1 DEF About
  <2>4. CASE k > n + i
    <3>1. k \in n + 2 .. n + m /\ ~(k <= n + i) /\ k # n + 1
      BY <1>1, <2>1, <2>4
    <3> QED BY <1>5, <1>6, <2>1, <2>4, <3>1 DEF About
  <2>5. CASE ~(k <= n) /\ k # n + 1 /\ ~(k > n + i)
    <3>1. k \in n + 2 .. n + m /\ k <= n + i /\ k - 1 \in n + 1 .. (n + i) - 1
      <4>1. k \in 1 .. n + m /\ n \in Nat /\ m \in Nat /\ i \in 1 .. m
        BY <1>1, <2>1
      <4> QED BY ONLY <2>5, <4>1
    <3> QED BY <1>6, <2>1, <3>1
  <2> QED BY <2>2, <2>3, <2>4, <2>5
<1>8. ASSUME NEW j \in About(l, v), NEW k \in About(l, v), j < k PROVE f[j] < f[k]
  <2>1. /\ f[j] = IF j = n + 1 THEN n + i ELSE j
        /\ f[k] = IF k = n + 1 THEN n + i ELSE k
        /\ j \in Nat /\ (j <= n \/ j = n + 1 \/ j > n + i)
        /\ k \in Nat /\ (k <= n \/ k = n + 1 \/ k > n + i)
    BY <1>7
  <2> QED BY ONLY <1>1, <1>8, <2>1
<1>9. ASSUME NEW j \in About(l, u) PROVE \E k \in About(l, v) : f[k] = j
  <2>1. j \in 1 .. n + m /\ LocationOf(u[j]) = l /\ ~(j \in n + 1 .. (n + i) - 1)
    BY <1>5, <1>6 DEF About
  <2>2. CASE j <= n
    <3>1. j \in 1 .. n /\ j # n + 1
      BY <1>1, <2>1, <2>2
    <3>2. j \in About(l, v)
      BY <1>5, <1>6, <2>1, <3>1 DEF About
    <3> QED BY <3>1, <3>2
  <2>3. CASE j = n + i
    <3>1. n + 1 \in 1 .. n + m
      BY <1>1
    <3>2. n + 1 \in About(l, v)
      BY <1>5, <1>6, <2>1, <2>3, <3>1 DEF About
    <3> QED BY <2>3, <3>2
  <2>4. CASE j > n + i
    <3>1. j \in n + 2 .. n + m /\ ~(j <= n + i) /\ j # n + 1
      BY <1>1, <2>1, <2>4
    <3>2. j \in About(l, v)
      BY <1>5, <1>6, <2>1, <3>1 DEF About
    <3> QED BY <3>1, <3>2
  <2> QED BY <1>1, <2>1, <2>2, <2>3, <2>4
<1>10. Moved(l, f, u, v)
  BY <1>7, <1>8, <1>9 DEF Moved
<1>11. DOMAIN u \subseteq Nat /\ DOMAIN v \subseteq Nat
  BY <1>1, <1>5
<1>12. SameOrder(l, u, v)
  BY <1>10 DEF SameOrder
<1> QED BY <1>11, <1>12 DEF u, v, a, b

-----------------------------------------------------------------------------
(* Every step keeps the chains. *)

\* Queues of packets, put one behind another.  A packet that goes from the front of
\* one to the end of the one before it leaves the line as it was.
LEMMA QueueAssoc ==
  ASSUME NEW q \in Seq(Sendable), NEW t \in Seq(Sendable), NEW w \in Seq(Sendable)
  PROVE  (q \o t) \o w = q \o (t \o w)
  BY ConcatAssociative

LEMMA QueueAppend ==
  ASSUME NEW q \in Seq(Sendable), NEW t \in Seq(Sendable), NEW p \in Sendable
  PROVE  q \o Append(t, p) = Append(q \o t, p)
  BY ConcatAppend

LEMMA QueueAround ==
  ASSUME NEW q \in Seq(Sendable), NEW t \in Seq(Sendable), NEW w \in Seq(Sendable), w # <<>>
  PROVE  (q \o Append(t, Head(w))) \o Tail(w) = (q \o t) \o w
<1> DEFINE h == Head(w)
<1>1. h \in Sendable /\ Tail(w) \in Seq(Sendable) /\ h = w[1] /\ Len(w) \in Nat \ {0}
  BY HeadTailProperties, CountTail
<1>2. w = <<h>> \o Tail(w)
  <2>1. 1 \in 1 .. Len(w) /\ Len(w) \in 1 .. Len(w)
    BY <1>1
  <2>2. SubSeq(w, 1, Len(w)) = <<w[1]>> \o SubSeq(w, 2, Len(w))
    BY <2>1, SubSeqRecursiveFirst
  <2> QED BY <1>1, <2>2, SubSeqFull, TailIsSubSeq
<1> HIDE DEF h
<1>3. <<h>> \in Seq(Sendable) /\ q \o t \in Seq(Sendable)
  BY <1>1, CountShort, ConcatProperties
<1>4. q \o Append(t, h) = (q \o t) \o <<h>>
  <2>1. q \o Append(t, h) = Append(q \o t, h)
    BY <1>1, QueueAppend
  <2>2. Append(q \o t, h) = (q \o t) \o <<h>>
    BY <1>1, <1>3, AppendIsConcat
  <2> QED BY ONLY <2>1, <2>2
<1>5. ((q \o t) \o <<h>>) \o Tail(w) = (q \o t) \o (<<h>> \o Tail(w))
  BY ONLY <1>1, <1>3, QueueAssoc
<1> QED BY <1>2, <1>4, <1>5 DEF h

\* The same as one formula.
LEMMA QueueConcat ==
  /\ \A q, t \in Seq(Sendable) : q \o t \in Seq(Sendable)
  /\ \A q, t, w \in Seq(Sendable) : (q \o t) \o w = q \o (t \o w)
  /\ \A q, t \in Seq(Sendable) : \A p \in Sendable : q \o Append(t, p) = Append(q \o t, p)
  /\ \A q, t, w \in Seq(Sendable) : w # <<>> => (q \o Append(t, Head(w))) \o Tail(w) = (q \o t) \o w
<1>1. ASSUME NEW q \in Seq(Sendable), NEW t \in Seq(Sendable) PROVE q \o t \in Seq(Sendable)
  BY ConcatProperties
<1>2. ASSUME NEW q \in Seq(Sendable), NEW t \in Seq(Sendable), NEW w \in Seq(Sendable)
      PROVE  (q \o t) \o w = q \o (t \o w)
  BY QueueAssoc, Zenon
<1>3. ASSUME NEW q \in Seq(Sendable), NEW t \in Seq(Sendable), NEW p \in Sendable
      PROVE  q \o Append(t, p) = Append(q \o t, p)
  BY QueueAppend, Zenon
<1>4. ASSUME NEW q \in Seq(Sendable), NEW t \in Seq(Sendable), NEW w \in Seq(Sendable), w # <<>>
      PROVE  (q \o Append(t, Head(w))) \o Tail(w) = (q \o t) \o w
  BY ONLY <1>4, QueueAround
<1> QED BY <1>1, <1>2, <1>3, <1>4

\* A line holds packets that a client has made, its command queue's first.
LEMMA LineType ==
  ASSUME TypeInv, NEW r \in Ranks
  PROVE  /\ cmdQ[r] \in Seq(Sendable) /\ transQ \in Seq(Sendable) /\ pending \in Seq(Sendable)
         /\ cmdQ[r] \o transQ \in Seq(Sendable)
         /\ Line(r) \in Seq(Sendable) /\ Len(Line(r)) \in Nat
         /\ DOMAIN Line(r) = 1 .. Len(Line(r)) /\ DOMAIN Line(r) \subseteq Nat
         /\ \A k \in 1 .. Len(Line(r)) : Line(r)[k] \in Sendable
         /\ Len(cmdQ[r]) <= Len(Line(r)) /\ \A k \in 1 .. Len(cmdQ[r]) : Line(r)[k] = cmdQ[r][k]
<1>1. cmdQ[r] \in Seq(Sendable) /\ transQ \in Seq(Sendable) /\ pending \in Seq(Sendable)
  BY DEF TypeInv, QueuesOK
<1>2. cmdQ[r] \o transQ \in Seq(Sendable) /\ Line(r) \in Seq(Sendable)
  BY <1>1, ConcatProperties DEF Line
<1>3. /\ Len(Line(r)) \in Nat /\ DOMAIN Line(r) = 1 .. Len(Line(r))
      /\ \A k \in 1 .. Len(Line(r)) : Line(r)[k] \in Sendable
  BY <1>2, LenProperties, ElementOfSeq
<1>4. Len(cmdQ[r]) <= Len(Line(r)) /\ \A k \in 1 .. Len(cmdQ[r]) : Line(r)[k] = cmdQ[r][k]
  <2> DEFINE q == cmdQ[r]
             u == transQ \o pending
  <2>1. q \in Seq(Sendable) /\ u \in Seq(Sendable) /\ Line(r) = q \o u
    <3>1. (cmdQ[r] \o transQ) \o pending = cmdQ[r] \o (transQ \o pending)
      BY ONLY <1>1, QueueAssoc
    <3> QED BY <1>1, <3>1, ConcatProperties DEF Line
  <2> HIDE DEF q, u
  <2>2. Len(q) \in Nat /\ Len(u) \in Nat /\ Len(Line(r)) = Len(q) + Len(u)
    BY <2>1, ConcatProperties, LenProperties
  <2>3. \A k \in 1 .. Len(q) + Len(u) : k <= Len(q) => Line(r)[k] = q[k]
    BY <2>1, ConcatProperties
  <2>4. \A k \in 1 .. Len(q) : k \in 1 .. Len(q) + Len(u) /\ k <= Len(q)
    BY <2>2
  <2> QED BY <2>2, <2>3, <2>4 DEF q
<1> QED BY <1>1, <1>2, <1>3, <1>4

\* Chains after a step are chains of the lines after it.
LEMMA ChainPrimed ==
  ASSUME \A l \in Locations : Chain(l, Line(l.rank)', Base(l)', golden'[l])
  PROVE  Chains'
<1>1. \A l \in Locations : Chain(l, Line(l.rank), Base(l), golden[l])' = Chain(l, Line(l.rank)', Base(l)', golden'[l])
  BY DEF Chain, Sees, About, Before, Writes, LocationOf
<1> QED BY <1>1 DEF Chains

\* A step that leaves the queues, the bus and the banks' values alone.
LEMMA ServedSame ==
  ASSUME Served, UNCHANGED <<cmdQ, transQ, pending, bus, store, golden, rdRet>>
  PROVE  Served'
<1>1. \A l \in Locations : Line(l.rank)' = Line(l.rank)
  BY DEF Line
<1>2. \A l \in Locations : Base(l)' = Base(l)
  BY DEF Base, Writes, LocationOf
<1>3. ASSUME NEW l \in Locations PROVE Chain(l, Line(l.rank)', Base(l)', golden'[l])
  BY <1>1, <1>2 DEF Served, Chains
<1>4. Chains'
  BY <1>3, ChainPrimed
<1> QED BY <1>4 DEF Served, IsRead, LocationOf

\* While the client may add and the transaction queue has room, nothing waits outside.
LEMMA NoneWaits ==
  ASSUME AddsLast, NoEarlyStop, InOrder, ClientMayAdd, WillAccept
  PROVE  pending = <<>>
<1>1. CASE NumTrans = 0
  BY <1>1 DEF AddsLast
<1>2. CASE Batch /\ adding
  BY <1>2 DEF AddsLast
<1>3. CASE Batch /\ ~adding
  <2>1. ~(onFly > 0) /\ pc = "deliver"
    BY <1>3 DEF ClientMayAdd
  <2> QED BY <2>1 DEF NoEarlyStop
<1> QED BY <1>1, <1>2, <1>3 DEF InOrder

\* addTransaction: the request stands behind all that wait for its rank.
LEMMA LineAdded ==
  ASSUME TypeInv, AddsLast, NoEarlyStop, InOrder, NEW o \in {"READ", "WRITE"}, NEW l \in Locations,
         AddTransaction(o, l), NEW r \in Ranks
  PROVE  /\ Line(r)' = Append(Line(r), Request(o, l))
         /\ pending' # <<>> => ~WillAccept /\ pc = "deliver"
<1> DEFINE p == Request(o, l)
<1>1. p \in Sendable /\ cmdQ' = cmdQ /\ Enqueue(p) /\ pc = "deliver"
  BY RequestType DEF AddTransaction, queueVars, ClientMayAdd
<1> HIDE DEF p
<1>2. CASE WillAccept
  <2>1. transQ' = Append(transQ, p) /\ pending' = pending
    BY <1>1, <1>2 DEF Enqueue
  <2>2. pending = <<>>
    BY <1>2, NoneWaits DEF AddTransaction
  <2>3. Line(r) = cmdQ[r] \o transQ
    BY <2>2, LineType, ConcatEmptySeq DEF Line
  <2>4. Line(r)' = cmdQ[r] \o Append(transQ, p)
    <3>1. cmdQ[r] \o Append(transQ, p) \in Seq(Sendable)
      BY <1>1, LineType, AppendProperties, ConcatProperties
    <3> QED BY <1>1, <2>1, <2>2, <3>1, ConcatEmptySeq DEF Line
  <2>5. cmdQ[r] \o Append(transQ, p) = Append(cmdQ[r] \o transQ, p)
    <3>1. /\ cmdQ[r] \in Seq(Sendable) /\ transQ \in Seq(Sendable) /\ pending \in Seq(Sendable)
          /\ cmdQ[r] \o transQ \in Seq(Sendable) /\ p \in Sendable
      BY <1>1, LineType
    <3> QED BY <3>1, QueueAppend
  <2> QED BY <1>1, <2>1, <2>2, <2>3, <2>4, <2>5 DEF p
<1>3. CASE ~WillAccept
  <2>1. pending' = Append(pending, p) /\ transQ' = transQ
    BY <1>1, <1>3 DEF Enqueue
  <2>2. Line(r)' = (cmdQ[r] \o transQ) \o Append(pending, p)
    BY <1>1, <2>1 DEF Line
  <2>3. (cmdQ[r] \o transQ) \o Append(pending, p) = Append((cmdQ[r] \o transQ) \o pending, p)
    <3>1. /\ cmdQ[r] \in Seq(Sendable) /\ transQ \in Seq(Sendable) /\ pending \in Seq(Sendable)
          /\ cmdQ[r] \o transQ \in Seq(Sendable) /\ p \in Sendable
      BY <1>1, LineType
    <3> QED BY <3>1, QueueAppend
  <2> QED BY <1>1, <1>3, <2>2, <2>3 DEF Line, p
<1> QED BY <1>2, <1>3

\* It was made for the last value written, or writes the next.
LEMMA ServedAdded ==
  ASSUME TypeInv, AddsLast, NoEarlyStop, InOrder, Served, NEW o \in {"READ", "WRITE"}, NEW l \in Locations,
         AddTransaction(o, l)
  PROVE  Served'
<1> DEFINE p == Request(o, l)
<1>1. /\ p \in Sendable /\ LocationOf(p) = l /\ p.op = o
      /\ p.val = IF o = "READ" THEN golden[l] ELSE p.val
      /\ golden' = IF Writes(l, p) THEN [golden EXCEPT ![l] = p.val] ELSE golden
      /\ UNCHANGED <<bus, store, rdRet>>
  BY RequestType DEF AddTransaction, dataVars, Writes, Request
<1> HIDE DEF p
<1>2. ASSUME NEW m \in Locations
      PROVE  Chain(m, Line(m.rank)', Base(m), golden'[m])
  <2>1. m.rank \in Ranks
    BY Geometry
  <2>2. Line(m.rank)' = Append(Line(m.rank), p) /\ Line(m.rank) \in Seq(Sendable)
    BY <2>1, LineAdded, LineType DEF p
  <2>3. Chain(m, Line(m.rank), Base(m), golden[m])
    BY DEF Served, Chains
  <2>4. LocationOf(p) = m /\ p.op = "READ" => p.val = golden[m]
    BY <1>1
  <2>5. golden'[m] = IF LocationOf(p) = m /\ Writes(m, p) THEN p.val ELSE golden[m]
    BY <1>1 DEF TypeInv, ClientOK
  <2> QED BY <1>1, <2>2, <2>3, <2>4, <2>5, ChainJoined
<1>3. Chains'
  <2>1. \A m \in Locations : Base(m)' = Base(m)
    BY <1>1 DEF Base, Writes, LocationOf
  <2> QED BY <1>2, <2>1, ChainPrimed
<1> QED BY <1>1, <1>3 DEF Served, IsRead, LocationOf

\* A tag on the last packet of the last queue is one on the last of the line.
LEMMA TaggedConcat ==
  ASSUME NEW s \in Seq(Sendable), NEW t \in Seq(Sendable), t # <<>>
  PROVE  s \o Tagged(t) = Tagged(s \o t) /\ s \o t # <<>>
<1> DEFINE a == Tagged(t)
           u == s \o t
           v == Tagged(u)
           n == Len(s)
           m == Len(t)
<1>1. /\ n \in Nat /\ m \in Nat \ {0} /\ a \in Seq(Sendable) /\ Len(a) = m
      /\ \A i \in 1 .. m : a[i] = IF i = m THEN [t[i] EXCEPT !.bar = TRUE] ELSE t[i]
  BY LenProperties, TaggedProperties
<1>2. /\ u \in Seq(Sendable) /\ Len(u) = n + m
      /\ \A i \in 1 .. n + m : u[i] = IF i <= n THEN s[i] ELSE t[i - n]
  BY ConcatProperties
<1>3. u # <<>>
  <2>1. Len(u) # 0
    BY <1>1, <1>2
  <2> QED BY <2>1, EmptySeq
<1>4. /\ v \in Seq(Sendable) /\ Len(v) = n + m
      /\ \A i \in 1 .. n + m : v[i] = IF i = n + m THEN [u[i] EXCEPT !.bar = TRUE] ELSE u[i]
  <2> HIDE DEF u
  <2>1. /\ v \in Seq(Sendable) /\ Len(v) = Len(u)
        /\ \A i \in 1 .. Len(u) : v[i] = IF i = Len(u) THEN [u[i] EXCEPT !.bar = TRUE] ELSE u[i]
    BY <1>2, <1>3, TaggedProperties
  <2> HIDE DEF n, m, v
  <2> QED BY ONLY <1>2, <2>1
<1> HIDE DEF a, u, v, m
<1>5. /\ s \o a \in Seq(Sendable) /\ Len(s \o a) = n + m
      /\ \A i \in 1 .. n + m : (s \o a)[i] = IF i <= n THEN s[i] ELSE a[i - n]
  <2>1. s \in Seq(Sendable) /\ a \in Seq(Sendable) /\ n = Len(s) /\ m = Len(a)
    BY <1>1
  <2>2. /\ s \o a \in Seq(Sendable) /\ Len(s \o a) = Len(s) + Len(a)
        /\ \A i \in 1 .. Len(s) + Len(a) : (s \o a)[i] = IF i <= Len(s) THEN s[i] ELSE a[i - Len(s)]
    BY ONLY <2>1, ConcatProperties
  <2> HIDE DEF n
  <2> QED BY ONLY <2>1, <2>2
<1> HIDE DEF n
<1>6. ASSUME NEW i \in 1 .. n + m PROVE (s \o a)[i] = v[i]
  <2>1. CASE i <= n
    <3>1. i # n + m
      BY <1>1, <2>1
    <3> QED BY <1>2, <1>4, <1>5, <2>1, <3>1
  <2>2. CASE ~(i <= n)
    <3>1. i - n \in 1 .. m /\ (i - n = m <=> i = n + m)
      BY <1>1, <2>2
    <3>2. u[i] = t[i - n] /\ (s \o a)[i] = a[i - n]
      BY <1>2, <1>5, <2>2
    <3>3. a[i - n] = IF i = n + m THEN [t[i - n] EXCEPT !.bar = TRUE] ELSE t[i - n]
      BY <1>1, <3>1
    <3>4. v[i] = IF i = n + m THEN [t[i - n] EXCEPT !.bar = TRUE] ELSE t[i - n]
      BY <1>4, <3>2
    <3> QED BY <3>2, <3>3, <3>4
  <2> QED BY <2>1, <2>2
<1>7. s \o a = v
  BY <1>4, <1>5, <1>6, SeqEqual
<1> QED BY <1>3, <1>7 DEF a, u, v

\* addBarrier tags the last packet of every line.
LEMMA LineTagged ==
  ASSUME TypeInv, AddsLast, NoEarlyStop, InOrder, AddBarrier, NEW r \in Ranks
  PROVE  Line(r)' = Tagged(Line(r)) /\ Line(r) # <<>>
<1>1. TagLast /\ Fences /\ cmdQ' = cmdQ /\ ClientMayAdd
  BY DEF AddBarrier, queueVars
<1>2. CASE WillAccept
  <2>1. transQ' = Tagged(transQ) /\ pending' = pending /\ transQ # <<>> /\ pending = <<>>
    BY <1>1, <1>2, NoneWaits DEF TagLast, Fences
  <2>2. Line(r) = cmdQ[r] \o transQ
    BY <2>1, LineType, ConcatEmptySeq DEF Line
  <2>3. Line(r)' = cmdQ[r] \o Tagged(transQ)
    <3>1. cmdQ[r] \o Tagged(transQ) \in Seq(Sendable)
      BY <2>1, LineType, TaggedProperties, QueueConcat
    <3> QED BY <1>1, <2>1, <3>1, ConcatEmptySeq DEF Line
  <2> QED BY <2>1, <2>2, <2>3, LineType, TaggedConcat
<1>3. CASE ~WillAccept
  <2>1. pending' = Tagged(pending) /\ transQ' = transQ /\ pending # <<>>
    BY <1>1, <1>3 DEF TagLast, Fences
  <2>2. Line(r)' = (cmdQ[r] \o transQ) \o Tagged(pending)
    BY <1>1, <2>1 DEF Line
  <2> QED BY <2>1, <2>2, LineType, TaggedConcat DEF Line
<1> QED BY <1>2, <1>3

\* Which is not what a chain looks at.
LEMMA ServedTagged ==
  ASSUME TypeInv, AddsLast, NoEarlyStop, InOrder, Served, AddBarrier
  PROVE  Served'
<1>1. UNCHANGED <<bus, store, golden, rdRet>>
  BY DEF AddBarrier, dataVars
<1>2. ASSUME NEW l \in Locations PROVE Chain(l, Line(l.rank)', Base(l)', golden'[l])
  <2>1. l.rank \in Ranks
    BY Geometry
  <2>2. /\ Line(l.rank) \in Seq(Sendable) /\ Line(l.rank) # <<>>
        /\ Line(l.rank)' = Tagged(Line(l.rank))
    BY <2>1, LineTagged, LineType
  <2>3. SameOrder(l, Line(l.rank), Tagged(Line(l.rank)))
        /\ DOMAIN Line(l.rank) \subseteq Nat /\ DOMAIN Tagged(Line(l.rank)) \subseteq Nat
    BY <2>2, TaggedProperties, SameAccesses
  <2>4. Chain(l, Line(l.rank), Base(l), golden[l])
    BY DEF Served, Chains
  <2>5. Chain(l, Tagged(Line(l.rank)), Base(l), golden[l])
    BY <2>3, <2>4, ChainMoved
  <2>6. Base(l)' = Base(l)
    BY <1>1 DEF Base, Writes, LocationOf
  <2> QED BY <1>1, <2>2, <2>5, <2>6
<1>3. Chains'
  BY <1>2, ChainPrimed
<1> QED BY <1>1, <1>3 DEF Served, IsRead, LocationOf

\* Deliver: MemorySystem::update accepts the first that waits.
LEMMA LineDelivered ==
  ASSUME TypeInv, Deliver, NEW r \in Ranks
  PROVE  Line(r)' = Line(r)
<1>1. AcceptOne /\ cmdQ' = cmdQ
  BY DEF Deliver
<1>2. CASE Accepting
  <2>1. transQ' = Append(transQ, Head(pending)) /\ pending' = Tail(pending) /\ pending # <<>>
    BY <1>1, <1>2 DEF AcceptOne, Accepting
  <2>2. (cmdQ[r] \o Append(transQ, Head(pending))) \o Tail(pending) = (cmdQ[r] \o transQ) \o pending
    <3>1. cmdQ[r] \in Seq(Sendable) /\ transQ \in Seq(Sendable) /\ pending \in Seq(Sendable)
      BY LineType
    <3> QED BY <2>1, <3>1, QueueConcat, Zenon
  <2> QED BY <1>1, <2>1, <2>2 DEF Line
<1>3. CASE ~Accepting
  BY <1>1, <1>3 DEF AcceptOne, Line
<1> QED BY <1>2, <1>3

\* The command on the bus reaches the bank, which then holds what it brought; a
\* read takes what the bank holds on its way back.
LEMMA ServedDelivered ==
  ASSUME TypeInv, \A r \in Ranks : Mode(r) = "SB", Served, Deliver
  PROVE  Served'
<1>1. /\ store' = IF bus # NoCmd /\ bus.op = "WRITE" /\ ~IsReservedRA(bus.row) /\ Mode(bus.rank) = "SB"
                  THEN [store EXCEPT ![LocationOf(bus)] = bus.val] ELSE store
      /\ bus' = NoCmd /\ golden' = golden
  BY DEF Deliver, CommandArrives
<1>2. ASSUME NEW l \in Locations PROVE store'[l] = Base(l)
  <2>1. CASE bus # NoCmd /\ bus.op = "WRITE"
    <3>1. bus \in Sendable
      BY <2>1 DEF TypeInv, BusOK
    <3>2. bus.rank \in Ranks /\ LocationOf(bus).row = bus.row /\ Mode(bus.rank) = "SB"
      BY <3>1, SendableFields DEF LocationOf
    <3> QED BY <1>1, <2>1, <3>2 DEF Base, Writes, TypeInv, ClientOK
  <2>2. CASE ~(bus # NoCmd /\ bus.op = "WRITE")
    BY <1>1, <2>2 DEF Base, Writes
  <2> QED BY <2>1, <2>2
<1>3. \A l \in Locations : Base(l)' = Base(l)
  <2>1. \A l \in Locations : Base(l)' = store'[l]
    BY <1>1 DEF Base, Writes, LocationOf
  <2> QED BY <1>2, <2>1
<1>4. Chains'
  <2>1. ASSUME NEW l \in Locations PROVE Chain(l, Line(l.rank)', Base(l)', golden'[l])
    <3>1. Line(l.rank)' = Line(l.rank)
      BY Geometry, LineDelivered
    <3> QED BY <1>1, <1>3, <3>1 DEF Served, Chains
  <2> QED BY <2>1, ChainPrimed
<1>5. ASSUME NEW r \in Ranks, NEW i \in 1 .. Len(rdRet'[r])
      PROVE  rdRet'[r][i].pkt.got = rdRet'[r][i].pkt.want
  <2> DEFINE q == rdRet[r]
             d == IF Due(q) THEN 1 ELSE 0
             t == Rest(q)
  <2>1. /\ t \in Seq(Returns) /\ Len(t) = Len(q) - d /\ Len(q) \in Nat
        /\ \A k \in 1 .. Len(q) - d : t[k].pkt = q[k + d].pkt
    BY ReturnsRest
  <2>2. \A k \in 1 .. Len(q) : q[k].pkt.got = q[k].pkt.want
    BY DEF Served
  <2>3. d \in {0, 1}
    OBVIOUS
  <2> HIDE DEF q, d
  <2>4. \A k \in 1 .. Len(t) : t[k].pkt.got = t[k].pkt.want
    <3>1. \A k \in 1 .. Len(q) - d : k + d \in 1 .. Len(q)
      BY <2>1, <2>3
    <3> QED BY <2>1, <2>2, <3>1
  <2> HIDE DEF t
  <2>5. CASE IsRead(bus) /\ bus.rank = r
    <3> DEFINE e == [pkt |-> Found(bus), left |-> RL]
    <3>1. e \in Returns /\ rdRet'[r] = Append(t, e)
      BY <2>5, ReturnsAfter DEF t, q
    <3>2. e.pkt.got = e.pkt.want
      BY <2>5 DEF Found, Served
    <3> HIDE DEF e
    <3>3. Len(Append(t, e)) = Len(t) + 1 /\ Append(t, e)[Len(t) + 1] = e
          /\ Len(t) \in Nat /\ \A k \in 1 .. Len(t) : Append(t, e)[k] = t[k]
      BY <2>1, <3>1, AppendProperties, LenProperties
    <3>4. CASE i = Len(t) + 1
      BY <3>1, <3>2, <3>3, <3>4
    <3>5. CASE i # Len(t) + 1
      <4>1. i \in 1 .. Len(t)
        BY <3>1, <3>3, <3>5
      <4> QED BY <2>4, <3>1, <3>3, <4>1
    <3> QED BY <3>4, <3>5
  <2>6. CASE ~(IsRead(bus) /\ bus.rank = r)
    <3>1. rdRet'[r] = t
      BY <2>6, ReturnsAfter DEF t, q
    <3> QED BY <2>4, <3>1
  <2> QED BY <2>5, <2>6
<1> QED BY <1>1, <1>4, <1>5 DEF Served, IsRead

\* pop: a packet leaves the line of its rank.
LEMMA LineSent ==
  ASSUME TypeInv, NEW r \in Ranks, NEW i \in Ready(cmdQ[r], Mode(r), mc[r]), Column(r, i)
  PROVE  /\ i \in 1 .. Len(Line(r)) /\ Line(r)[i] = cmdQ[r][i]
         /\ Line(r)' = RemoveAt(Line(r), i)
         /\ \A s \in Ranks \ {r} : Line(s)' = Line(s)
<1>1. i \in 1 .. Len(cmdQ[r])
  BY QueueOf DEF Ready
<1>2. cmdQ' = [cmdQ EXCEPT ![r] = RemoveAt(@, i)] /\ UNCHANGED <<transQ, pending>>
  BY DEF Column, Record, frontVars
<1>3. cmdQ'[r] = RemoveAt(cmdQ[r], i) /\ \A s \in Ranks \ {r} : cmdQ'[s] = cmdQ[s]
  BY <1>2 DEF TypeInv, QueuesOK
<1>4. i \in 1 .. Len(Line(r)) /\ Line(r)[i] = cmdQ[r][i]
  <2>1. Len(cmdQ[r]) \in Nat
    BY QueueOf
  <2> QED BY <1>1, <2>1, LineType
<1>5. Line(r)' = RemoveAt(Line(r), i)
  <2> DEFINE q == cmdQ[r]
             u == transQ \o pending
  <2>1. q \in Seq(Sendable) /\ transQ \in Seq(Sendable) /\ pending \in Seq(Sendable)
        /\ u \in Seq(Sendable) /\ RemoveAt(q, i) \in Seq(Sendable)
    BY <1>1, LineType, ConcatProperties, RemoveAtProperties
  <2>2. Line(r) = q \o u
    <3>1. Line(r) = (q \o transQ) \o pending
      BY DEF Line
    <3>2. q \in Seq(Sendable) /\ transQ \in Seq(Sendable) /\ pending \in Seq(Sendable)
      BY <2>1
    <3>3. (q \o transQ) \o pending = q \o (transQ \o pending)
      BY ONLY <3>2, QueueAssoc
    <3> QED BY <3>1, <3>3, Zenon
  <2>3. Line(r)' = (RemoveAt(q, i) \o transQ) \o pending
    BY <1>2, <1>3 DEF Line
  <2>4. Line(r)' = RemoveAt(q, i) \o u
    <3>1. (RemoveAt(q, i) \o transQ) \o pending = RemoveAt(q, i) \o (transQ \o pending)
      BY ONLY <2>1, QueueAssoc
    <3> QED BY <2>3, <3>1, Zenon
  <2>5. RemoveAt(q, i) \o u = RemoveAt(q \o u, i)
    <3> HIDE DEF u
    <3>1. q \in Seq(Sendable) /\ u \in Seq(Sendable) /\ i \in 1 .. Len(q)
      BY <1>1, <2>1
    <3> HIDE DEF q
    <3> QED BY ONLY <3>1, RemoveConcat
  <2> QED BY <2>2, <2>4, <2>5
<1> QED BY <1>2, <1>3, <1>4, <1>5 DEF Line

\* It was the first of its location: a read finds what the bank holds, a write
\* becomes what the bank will hold.
LEMMA ServedSent ==
  ASSUME TypeInv, Phases, Served,
         NEW r \in Ranks, NEW i \in Ready(cmdQ[r], Mode(r), mc[r]), Column(r, i)
  PROVE  Served'
<1> DEFINE s == Line(r)
           p == s[i]
<1>1. /\ s \in Seq(Sendable) /\ i \in 1 .. Len(s) /\ p = cmdQ[r][i] /\ p \in Sendable
      /\ DOMAIN s \subseteq Nat /\ DOMAIN s = 1 .. Len(s)
      /\ Line(r)' = RemoveAt(s, i) /\ \A q \in Ranks \ {r} : Line(q)' = Line(q)
  BY LineSent, LineType
<1>2. /\ bus = NoCmd /\ bus' = p /\ UNCHANGED <<store, golden, rdRet>> /\ p # NoCmd /\ p.rank = r
  <2>1. p.rank = r /\ p # NoCmd
    BY <1>1, QueueOf, SendableFields DEF Ready
  <2> QED BY <1>1, <2>1 DEF Column, Record, Phases, clientVars
<1>3. \A k \in 1 .. i - 1 : LocationOf(s[k]) # LocationOf(p)
  <2> SUFFICES ASSUME NEW k \in 1 .. i - 1 PROVE LocationOf(s[k]) # LocationOf(p)
    OBVIOUS
  <2>1. k \in 1 .. Len(cmdQ[r]) /\ i \in 1 .. Len(cmdQ[r])
    BY QueueOf DEF Ready
  <2>2. s[k] = cmdQ[r][k]
    BY <2>1, LineType
  <2>3. ~SameColumn(cmdQ[r][k], cmdQ[r][i])
    BY DEF Ready
  <2> QED BY <1>1, <2>2, <2>3 DEF SameColumn, LocationOf
<1> HIDE DEF s
<1>4. ASSUME NEW l \in Locations PROVE Base(l) = store[l] /\ Base(l)' = IF LocationOf(p) = l /\ Writes(l, p) THEN p.val ELSE store[l]
  BY <1>2 DEF Base, Writes, LocationOf
<1>5. ASSUME NEW l \in Locations, l.rank = r
      PROVE  /\ Chain(l, RemoveAt(s, i), Base(l)', golden[l])
             /\ LocationOf(p) = l /\ p.op = "READ" => p.val = store[l]
  <2>1. Chain(l, s, store[l], golden[l])
    BY <1>4, <1>5 DEF Served, Chains, s
  <2>2. \A k \in About(l, s) : LocationOf(s[i]) = l => i <= k
    <3>1. \A k \in About(l, s) : k \in 1 .. Len(s) /\ LocationOf(s[k]) = l
      BY <1>1 DEF About
    <3>2. Len(s) \in Nat
      BY <1>1, LenProperties
    <3> QED BY <1>1, <1>3, <3>1, <3>2
  <2>3. /\ Chain(l, Without(s, i), IF LocationOf(s[i]) = l /\ Writes(l, s[i]) THEN s[i].val ELSE store[l], golden[l])
        /\ LocationOf(p) = l /\ p.op = "READ" => p.val = store[l]
    BY <1>1, <2>1, <2>2, ChainLeft
  <2>4. Chain(l, Without(s, i), Base(l)', golden[l])
    BY <1>4, <2>3
  <2>5. /\ SameOrder(l, Without(s, i), RemoveAt(s, i))
        /\ DOMAIN Without(s, i) \subseteq Nat /\ DOMAIN RemoveAt(s, i) \subseteq Nat
    BY <1>1, Closes
  <2> QED BY <2>3, <2>4, <2>5, ChainMoved
<1>6. ASSUME NEW l \in Locations PROVE Chain(l, Line(l.rank)', Base(l)', golden'[l])
  <2>1. CASE l.rank = r
    BY <1>1, <1>2, <1>5, <2>1
  <2>2. CASE l.rank # r
    <3>1. l.rank \in Ranks \ {r}
      BY <2>2, Geometry
    <3>2. LocationOf(p) # l
      BY <1>2, <2>2 DEF LocationOf
    <3>3. Line(l.rank)' = Line(l.rank) /\ Base(l)' = Base(l)
      BY <1>1, <1>4, <3>1, <3>2
    <3> QED BY <1>2, <3>3 DEF Served, Chains
  <2> QED BY <2>1, <2>2
<1>7. Chains'
  BY <1>6, ChainPrimed
<1>8. IsRead(p) => p.val = store[LocationOf(p)]
  <2>1. LocationOf(p) \in Locations /\ LocationOf(p).rank = r
    BY <1>1, <1>2, SendableFields DEF LocationOf
  <2> QED BY <1>5, <2>1 DEF IsRead
<1> HIDE DEF p
<1>9. (IsRead(bus) => bus.val = store[LocationOf(bus)])'
  BY <1>2, <1>8 DEF IsRead, LocationOf
<1> QED BY <1>2, <1>7, <1>9 DEF Served

\* updateTransactionQueue: the first transaction whose rank has room becomes a
\* command.  It overtakes transactions of other ranks only.
LEMMA ServedMoved ==
  ASSUME TypeInv, Served, Retire
  PROVE  Served'
<1>1. UNCHANGED <<pending, bus, store, golden, rdRet>> /\ UpdateTransactionQueue
  BY DEF Retire, clientVars
<1>2. CASE Movable = {}
  BY <1>1, <1>2, ServedSame DEF UpdateTransactionQueue
<1>3. CASE Movable # {}
  <2> DEFINE i == Min(Movable)
             p == transQ[i]
  <2>1. /\ i \in 1 .. Len(transQ) /\ Len(transQ) \in Nat /\ p \in Sendable /\ p.rank \in Ranks
        /\ HasRoom(cmdQ[p.rank])
    BY <1>3, MovedProperties
  <2>2. transQ' = RemoveAt(transQ, i) /\ cmdQ' = [cmdQ EXCEPT ![p.rank] = Append(@, p)]
    BY <1>1, <1>3 DEF UpdateTransactionQueue
  <2>3. \A m \in 1 .. i - 1 : transQ[m].rank # p.rank
    <3>1. Movable \subseteq Nat /\ \A m \in Movable : i <= m
      <4>1. Movable \subseteq Nat
        BY LineType, LenProperties, Geometry DEF Movable
      <4> QED BY <1>3, <4>1, MinIn
    <3>2. \A m \in 1 .. i - 1 : m \in 1 .. Len(transQ) /\ ~(i <= m)
      BY <2>1
    <3>3. DOMAIN transQ = 1 .. Len(transQ)
      BY LineType, LenProperties, Geometry
    <3> QED BY <2>1, <3>1, <3>2, <3>3 DEF Movable
  <2> HIDE DEF i, p
  <2>4. ASSUME NEW l \in Locations PROVE Chain(l, Line(l.rank)', Base(l)', golden'[l])
    <3> DEFINE q == cmdQ[l.rank]
               t == transQ \o pending
    <3>1. /\ l.rank \in Ranks /\ q \in Seq(Sendable) /\ transQ \in Seq(Sendable) /\ pending \in Seq(Sendable)
          /\ t \in Seq(Sendable) /\ RemoveAt(transQ, i) \in Seq(Sendable)
      BY <2>1, Geometry, LineType, QueueConcat, RemoveAtProperties
    <3>2. Line(l.rank) = q \o t
      <4>1. Line(l.rank) = (q \o transQ) \o pending
        BY DEF Line
      <4>2. q \in Seq(Sendable) /\ transQ \in Seq(Sendable) /\ pending \in Seq(Sendable)
        BY <3>1
      <4>3. (q \o transQ) \o pending = q \o (transQ \o pending)
        BY ONLY <4>2, QueueAssoc
      <4> QED BY <4>1, <4>3, Zenon
    <3>3. /\ Len(t) \in Nat /\ i \in 1 .. Len(t) /\ t[i] = p
          /\ \A m \in 1 .. i - 1 : t[m] = transQ[m]
          /\ RemoveAt(transQ, i) \o pending = RemoveAt(t, i)
      <4>1. /\ Len(t) = Len(transQ) + Len(pending) /\ Len(pending) \in Nat
            /\ \A k \in 1 .. Len(transQ) + Len(pending) : k <= Len(transQ) => t[k] = transQ[k]
        BY <3>1, ConcatProperties, LenProperties
      <4>2. RemoveAt(transQ, i) \o pending = RemoveAt(t, i)
        BY <2>1, <3>1, RemoveConcat
      <4> QED BY <2>1, <4>1, <4>2 DEF p
    <3>4. Chain(l, q \o t, Base(l), golden[l]) /\ Base(l)' = Base(l) /\ golden' = golden
      BY <1>1, <3>2 DEF Served, Chains, Base, Writes, LocationOf
    <3> HIDE DEF q, t
    <3>5. CASE l.rank = p.rank
      <4> DEFINE s == q \o t
                 v == Append(q, p) \o RemoveAt(t, i)
      <4> HIDE DEF s, v
      <4>1. cmdQ'[l.rank] = Append(q, p)
        BY <2>2, <3>1, <3>5 DEF q, TypeInv, QueuesOK
      <4>2. Line(l.rank)' = Append(q, p) \o RemoveAt(t, i)
        <5>1. Line(l.rank)' = (Append(q, p) \o RemoveAt(transQ, i)) \o pending
          BY <1>1, <2>2, <4>1 DEF Line
        <5>2. Append(q, p) \in Seq(Sendable)
          BY <2>1, <3>1, AppendProperties
        <5>3. (Append(q, p) \o RemoveAt(transQ, i)) \o pending = Append(q, p) \o (RemoveAt(transQ, i) \o pending)
          <6> DEFINE y == Append(q, p)
                     z == RemoveAt(transQ, i)
          <6>1. y \in Seq(Sendable) /\ z \in Seq(Sendable)
            BY <3>1, <5>2
          <6> HIDE DEF y, z
          <6>2. pending \in Seq(Sendable)
            BY <3>1
          <6>3. \A w \in Seq(Sendable) : (y \o z) \o w = y \o (z \o w)
            BY <6>1, QueueConcat
          <6> QED BY <6>2, <6>3 DEF y, z
        <5> QED BY <3>3, <5>1, <5>3, Zenon
      <4>3. \A m \in 1 .. i - 1 : LocationOf(t[m]) # l
        BY <2>3, <3>3, <3>5 DEF LocationOf
      <4>4. LET z == Append(q, t[i]) \o RemoveAt(t, i) IN
            SameOrder(l, q \o t, z) /\ DOMAIN (q \o t) \subseteq Nat /\ DOMAIN z \subseteq Nat
        BY <3>1, <3>3, <4>3, HandsOver
      <4>5. SameOrder(l, s, v) /\ DOMAIN s \subseteq Nat /\ DOMAIN v \subseteq Nat
        BY <3>3, <4>4 DEF s, v
      <4>6. Chain(l, s, Base(l), golden[l])
        BY <3>4 DEF s
      <4>7. Chain(l, v, Base(l), golden[l])
        BY <4>5, <4>6, ChainMoved
      <4>8. Chain(l, Append(q, p) \o RemoveAt(t, i), Base(l), golden[l])
        BY <4>7 DEF v
      <4> QED BY <3>4, <4>2, <4>8
    <3>6. CASE l.rank # p.rank
      <4> DEFINE s == q \o t
                 j == Len(q) + i
      <4>1. cmdQ'[l.rank] = q
        BY <2>2, <3>1, <3>6 DEF q, TypeInv, QueuesOK
      <4>2. Line(l.rank)' = q \o RemoveAt(t, i)
        <5>1. Line(l.rank)' = (q \o RemoveAt(transQ, i)) \o pending
          BY <1>1, <2>2, <4>1 DEF Line
        <5>2. (q \o RemoveAt(transQ, i)) \o pending = q \o (RemoveAt(transQ, i) \o pending)
          BY ONLY <3>1, QueueAssoc
        <5> QED BY <3>3, <5>1, <5>2, Zenon
      <4>3. /\ q \o RemoveAt(t, i) = RemoveAt(s, j) /\ j \in 1 .. Len(s) /\ s[j] = p
            /\ s \in Seq(Sendable) /\ DOMAIN s = 1 .. Len(s) /\ DOMAIN s \subseteq Nat
        <5>1. /\ s \in Seq(Sendable) /\ Len(s) = Len(q) + Len(t) /\ Len(q) \in Nat
              /\ \A k \in 1 .. Len(q) + Len(t) : s[k] = IF k <= Len(q) THEN q[k] ELSE t[k - Len(q)]
          BY <3>1, ConcatProperties, LenProperties
        <5>2. j \in 1 .. Len(q) + Len(t) /\ ~(j <= Len(q)) /\ j - Len(q) = i
          BY <3>3, <5>1
        <5>3. q \o RemoveAt(t, i) = RemoveAt(s, j)
          BY <3>1, <3>3, RemoveConcat
        <5>4. DOMAIN s = 1 .. Len(s) /\ DOMAIN s \subseteq Nat
          BY <5>1, LenProperties
        <5> HIDE DEF s, j
        <5> QED BY <3>3, <5>1, <5>2, <5>3, <5>4
      <4>4. Chain(l, s, Base(l), golden[l])
        BY <3>4
      <4>5. LocationOf(p) # l
        BY <3>6 DEF LocationOf
      <4> HIDE DEF s, j
      <4>6. Chain(l, Without(s, j), Base(l), golden[l])
        BY <4>3, <4>4, <4>5, ChainLeft
      <4>7. /\ SameOrder(l, Without(s, j), RemoveAt(s, j))
            /\ DOMAIN Without(s, j) \subseteq Nat /\ DOMAIN RemoveAt(s, j) \subseteq Nat
        BY <4>3, Closes
      <4>8. Chain(l, RemoveAt(s, j), Base(l), golden[l])
        BY <4>6, <4>7, ChainMoved
      <4> QED BY <3>4, <4>2, <4>3, <4>8
    <3> QED BY <3>5, <3>6
  <2>5. Chains'
    BY <2>4, ChainPrimed
  <2> QED BY <1>1, <2>5 DEF Served, IsRead, LocationOf
<1> QED BY <1>2, <1>3

\* The client never gets ahead of what waits outside.
LEMMA AddsLastStep ==
  ASSUME TypeInv, NoEarlyStop, InOrder, AddsLast, [Next]_vars
  PROVE  AddsLast'
<1>0. transQ \in Seq(Sendable) /\ pending \in Seq(Sendable) /\ Len(transQ) \in Nat
  BY LenProperties DEF TypeInv, QueuesOK
<1>1. ASSUME NEW o \in {"READ", "WRITE"}, NEW l \in Locations, AddTransaction(o, l)
      PROVE  AddsLast'
  <2>1. ClientMayAdd /\ Enqueue(Request(o, l)) /\ pc' = pc /\ (NumTrans = 0 => WillAccept)
    BY <1>1 DEF AddTransaction
  <2>2. pc = "deliver"
    BY <2>1 DEF ClientMayAdd
  <2>3. CASE WillAccept
    BY <2>1, <2>2, <2>3, NoneWaits DEF AddsLast, Enqueue
  <2>4. CASE ~WillAccept
    <3>1. transQ' = transQ
      BY <2>1, <2>4 DEF Enqueue
    <3> QED BY <2>1, <2>2, <2>4, <3>1 DEF AddsLast, WillAccept
  <2> QED BY <2>3, <2>4
<1>2. CASE AddBarrier
  <2>1. TagLast /\ pc' = pc /\ adding' = adding /\ NumTrans # 0
    BY <1>2 DEF AddBarrier
  <2>2. Len(transQ') = Len(transQ) /\ (pending' # <<>> => pending # <<>>)
    <3>1. CASE WillAccept /\ Fences
      BY <1>0, <2>1, <3>1, TaggedProperties DEF TagLast, Fences
    <3>2. CASE ~WillAccept /\ Fences
      BY <1>0, <2>1, <3>2 DEF TagLast, Fences
    <3>3. CASE ~Fences
      BY <2>1, <3>3 DEF TagLast
    <3> QED BY <3>1, <3>2, <3>3
  <2> QED BY <2>1, <2>2 DEF AddsLast, WillAccept
<1>3. CASE Deliver
  BY <1>3 DEF AddsLast, Deliver, AcceptOne, Accepting
<1>4. CASE pc # "deliver" /\ adding' = adding /\ pending' = pending
  BY <1>4 DEF AddsLast
<1>5. ASSUME NEW r \in Ranks, NEW i \in Ready(cmdQ[r], Mode(r), mc[r]), Column(r, i)
      PROVE  AddsLast'
  BY <1>4, <1>5 DEF Column, Record, clientVars, frontVars
<1>6. ASSUME NEW c, Bare(c)
      PROVE  AddsLast'
  BY <1>4, <1>6 DEF Bare, Record, clientVars, frontVars
<1>7. CASE IssueNothing
  BY <1>4, <1>7 DEF IssueNothing, clientVars, frontVars
<1>8. CASE Retire
  BY <1>4, <1>8 DEF Retire, clientVars
<1>9. CASE UNCHANGED vars
  BY <1>9 DEF vars, AddsLast, WillAccept, clientVars, frontVars
<1> QED BY StepCases, <1>1, <1>2, <1>3, <1>5, <1>6, <1>7, <1>8, <1>9

\* At the start nothing is in line and every location holds 0.
LEMMA ServedInit == Init => AddsLast /\ Served
<1> SUFFICES ASSUME Init PROVE AddsLast /\ Served
  OBVIOUS
<1>1. AddsLast
  BY DEF Init, AddsLast
<1>2. bus = NoCmd /\ \A r \in Ranks : rdRet[r] = <<>>
  BY DEF Init
<1>3. ASSUME NEW l \in Locations PROVE Chain(l, Line(l.rank), Base(l), golden[l])
  <2>1. Line(l.rank) = <<>>
    <3>1. cmdQ[l.rank] = <<>> /\ transQ = <<>> /\ pending = <<>>
      BY Geometry DEF Init
    <3>2. <<>> \in Seq(Sendable)
      BY EmptySeq
    <3>3. <<>> \o <<>> = <<>>
      BY <3>2, ConcatEmptySeq
    <3> QED BY <3>1, <3>3 DEF Line
  <2>2. About(l, Line(l.rank)) = {}
    <3>1. DOMAIN <<>> = {}
      OBVIOUS
    <3> QED BY <2>1, <3>1 DEF About
  <2>3. Base(l) = 0 /\ golden[l] = 0
    BY <1>2 DEF Init, Base
  <2> QED BY <2>2, <2>3 DEF Chain, Sees
<1>4. ~IsRead(bus) /\ \A r \in Ranks : \A i \in 1 .. Len(rdRet[r]) : FALSE
  BY <1>2, EmptySeq DEF IsRead
<1> QED BY <1>1, <1>3, <1>4 DEF Served, Chains

\* Every step of a channel in SB mode keeps the chains.
LEMMA ServedStep ==
  ASSUME TypeInv, Phases, NoEarlyStop, InOrder, \A r \in Ranks : Mode(r) = "SB",
         AddsLast, Served, [Next]_vars
  PROVE  Served'
<1>1. ASSUME NEW c, Bare(c)
      PROVE  Served'
  <2>1. bus = NoCmd /\ bus' = c /\ c.op # "READ" /\ c.op # "WRITE"
        /\ UNCHANGED <<cmdQ, transQ, pending, store, golden, rdRet>>
    BY <1>1 DEF Bare, Record, Phases, clientVars, frontVars
  <2>2. \A l \in Locations : Line(l.rank)' = Line(l.rank) /\ Base(l)' = Base(l)
    BY <2>1 DEF Line, Base, Writes
  <2>3. \A l \in Locations : Chain(l, Line(l.rank)', Base(l)', golden'[l])
    BY <2>1, <2>2 DEF Served, Chains
  <2>4. Chains'
    BY <2>3, ChainPrimed
  <2> QED BY <2>1, <2>4 DEF Served, IsRead
<1>2. CASE IssueNothing
  BY <1>2, ServedSame DEF IssueNothing, clientVars, frontVars, queueVars, dataVars
<1>3. CASE UNCHANGED vars
  BY <1>3, ServedSame DEF vars, clientVars, frontVars, queueVars, dataVars
<1> QED BY StepCases, <1>1, <1>2, <1>3, ServedAdded, ServedTagged, ServedDelivered, ServedSent, ServedMoved

(* ReadsFindWrites: for every geometry, timing and number of ranks, every read       *)
(* finds the value of the last write its client added to that location before it, if  *)
(* the client runs every batch to its end before it adds the next, or adds only what   *)
(* the transaction queue has room for, and none of its locations switches modes.        *)
THEOREM ReadsFindWrites == ASSUME NoModeSwitch, InOrder PROVE Spec => []DataIntegrity
<1> DEFINE Inv == SBInv /\ TrafficInv
<1>1. Spec => []Inv
  BY SBHolds, TrafficHolds, PTL
<1>2. Inv => TypeInv /\ Phases /\ NoEarlyStop /\ \A r \in Ranks : Mode(r) = "SB"
  BY HeldSuffices DEF TrafficInv, SBInv, StaysSB
<1>3. Init => AddsLast /\ Served
  BY ServedInit
<1>4. Inv /\ (AddsLast /\ Served) /\ [Next]_vars => (AddsLast /\ Served)'
  BY <1>2, AddsLastStep, ServedStep
<1>5. Inv /\ Served => DataIntegrity
  <2> SUFFICES ASSUME Inv, Served, NEW r \in Ranks, NEW i \in DOMAIN rdRet[r]
               PROVE  rdRet[r][i].pkt.got = rdRet[r][i].pkt.want
    BY DEF DataIntegrity
  <2>1. rdRet[r] \in Seq(Returns)
    BY <1>2, CountdownTypes
  <2>2. i \in 1 .. Len(rdRet[r])
    BY <2>1, LenProperties
  <2> QED BY <2>2 DEF Served
<1> QED BY <1>1, <1>3, <1>4, <1>5, PTL DEF Spec

-----------------------------------------------------------------------------
(* Barriers. *)

\* A line of packets: where they are and when they were added.
LEMMA LineEpochs ==
  ASSUME NEW s \in Seq(Sendable)
  PROVE  /\ Len(s) \in Nat /\ DOMAIN s = 1 .. Len(s)
         /\ \A i \in 1 .. Len(s) : s[i] \in Sendable /\ s[i].epoch \in Nat
<1>1. Len(s) \in Nat /\ DOMAIN s = 1 .. Len(s) /\ \A i \in 1 .. Len(s) : s[i] \in Sendable
  BY LenProperties, ElementOfSeq
<1> QED BY <1>1, SendableFields

\* A packet of the last epoch may join.
LEMMA FencedAdded ==
  ASSUME NEW s \in Seq(Sendable), NEW seen \in Nat, NEW last \in Nat, Fenced(s, seen, last),
         NEW p \in Sendable, p.epoch = last
  PROVE  Fenced(Append(s, p), seen, last)
<1> DEFINE t == Append(s, p)
           n == Len(s)
<1>1. /\ n \in Nat /\ DOMAIN s = 1 .. n /\ \A i \in 1 .. n : s[i].epoch \in Nat
  BY LineEpochs
<1>2. /\ DOMAIN t = 1 .. n + 1 /\ t[n + 1] = p /\ \A i \in 1 .. n : t[i] = s[i]
  <2>1. t \in Seq(Sendable) /\ Len(t) = n + 1 /\ t[n + 1] = p /\ \A i \in 1 .. n : t[i] = s[i]
    BY AppendProperties
  <2> QED BY <2>1, LenProperties
<1> HIDE DEF t, n
<1>3. \A i \in 1 .. n + 1 : i \in 1 .. n \/ i = n + 1
  BY <1>1
<1>4. ASSUME NEW i \in 1 .. n + 1, NEW j \in 1 .. n + 1, i < j
      PROVE  /\ t[i].epoch <= t[j].epoch
             /\ t[i].epoch < t[j].epoch => \E k \in 1 .. n + 1 : i <= k /\ k < j /\ t[k].bar
  <2>1. i \in 1 .. n /\ t[i] = s[i]
    BY <1>1, <1>2, <1>4
  <2>2. CASE j = n + 1
    <3>1. s[i].epoch <= last /\ (s[i].epoch < last => \E k \in 1 .. n : i <= k /\ s[k].bar)
      BY <1>1, <2>1 DEF Fenced
    <3>2. \A k \in 1 .. n : k \in 1 .. n + 1 /\ k < j /\ t[k] = s[k]
      BY <1>1, <1>2, <2>2
    <3> QED BY <1>2, <2>1, <2>2, <3>1, <3>2
  <2>3. CASE j \in 1 .. n
    <3>1. /\ s[i].epoch <= s[j].epoch
          /\ s[i].epoch < s[j].epoch => \E k \in 1 .. n : i <= k /\ k < j /\ s[k].bar
      BY <1>1, <1>4, <2>1, <2>3 DEF Fenced
    <3>2. \A k \in 1 .. n : k \in 1 .. n + 1 /\ t[k] = s[k]
      BY <1>1, <1>2
    <3> QED BY <2>1, <2>3, <3>1, <3>2
  <2> QED BY <1>3, <2>2, <2>3
<1>5. ASSUME NEW i \in 1 .. n + 1
      PROVE  /\ seen <= t[i].epoch /\ t[i].epoch <= last
             /\ t[i].epoch < last => \E k \in 1 .. n + 1 : i <= k /\ t[k].bar
  <2>1. CASE i = n + 1
    BY <1>2, <2>1 DEF Fenced
  <2>2. CASE i \in 1 .. n
    <3>1. /\ seen <= s[i].epoch /\ s[i].epoch <= last
          /\ s[i].epoch < last => \E k \in 1 .. n : i <= k /\ s[k].bar
      BY <1>1, <2>2 DEF Fenced
    <3>2. \A k \in 1 .. n : k \in 1 .. n + 1 /\ t[k] = s[k]
      BY <1>1, <1>2
    <3> QED BY <2>2, <3>1, <3>2
  <2> QED BY <1>3, <2>1, <2>2
<1>6. Fenced(t, seen, last)
  BY <1>2, <1>4, <1>5 DEF Fenced
<1> QED BY <1>6 DEF t

\* A barrier on the last of a line begins a new epoch.
LEMMA FencedTagged ==
  ASSUME NEW s \in Seq(Sendable), s # <<>>, NEW seen \in Nat, NEW last \in Nat, Fenced(s, seen, last)
  PROVE  Fenced(Tagged(s), seen, last + 1)
<1> DEFINE t == Tagged(s)
           n == Len(s)
<1>1. /\ n \in Nat \ {0} /\ DOMAIN s = 1 .. n /\ \A i \in 1 .. n : s[i].epoch \in Nat
  BY LineEpochs, EmptySeq
<1>2. DOMAIN t = 1 .. n /\ t[n].bar /\ \A i \in 1 .. n : t[i].epoch = s[i].epoch /\ (s[i].bar => t[i].bar)
  <2>1. /\ t \in Seq(Sendable) /\ Len(t) = n
        /\ \A i \in 1 .. n : t[i].epoch = s[i].epoch /\ (t[i].bar <=> i = n \/ s[i].bar)
    BY TaggedProperties
  <2> HIDE DEF t, n
  <2>2. DOMAIN t = 1 .. n
    BY <2>1, LenProperties
  <2>3. n \in 1 .. n
    BY <1>1
  <2> QED BY <2>1, <2>2, <2>3
<1> HIDE DEF t, n
<1>3. ASSUME NEW i \in 1 .. n, NEW j \in 1 .. n, i < j
      PROVE  /\ t[i].epoch <= t[j].epoch
             /\ t[i].epoch < t[j].epoch => \E k \in 1 .. n : i <= k /\ k < j /\ t[k].bar
  BY <1>1, <1>2, <1>3 DEF Fenced
<1>4. ASSUME NEW i \in 1 .. n
      PROVE  /\ seen <= t[i].epoch /\ t[i].epoch <= last + 1
             /\ \E k \in 1 .. n : i <= k /\ t[k].bar
  <2>1. seen <= s[i].epoch /\ s[i].epoch <= last /\ s[i].epoch \in Nat
    BY <1>1 DEF Fenced
  <2>2. n \in 1 .. n /\ i <= n
    BY <1>1
  <2>3. seen <= t[i].epoch /\ t[i].epoch <= last + 1
    BY <1>2, <2>1
  <2> QED BY <1>2, <2>2, <2>3
<1>5. seen <= last + 1
  BY DEF Fenced
<1>6. Fenced(t, seen, last + 1)
  BY <1>2, <1>3, <1>4, <1>5 DEF Fenced
<1> QED BY <1>6 DEF t

\* A packet leaves past no barrier, and one that carries a barrier as the first.
LEMMA FencedLeft ==
  ASSUME NEW s \in Seq(Sendable), NEW seen \in Nat, NEW last \in Nat, Fenced(s, seen, last),
         NEW i \in 1 .. Len(s), \A k \in 1 .. i - 1 : ~s[k].bar, i = 1 \/ ~s[i].bar
  PROVE  Fenced(RemoveAt(s, i), Later(seen, s[i].epoch), last)
<1> DEFINE t == RemoveAt(s, i)
           n == Len(s)
           e == s[i].epoch
           up == [k \in 1 .. n - 1 |-> IF k < i THEN k ELSE k + 1]
<1>1. n \in Nat /\ DOMAIN s = 1 .. n /\ i \in 1 .. n /\ \A k \in 1 .. n : s[k].epoch \in Nat
  BY LineEpochs
<1>2. /\ DOMAIN t = 1 .. n - 1 /\ \A k \in 1 .. n - 1 : t[k] = s[up[k]]
  <2>1. /\ t \in Seq(Sendable) /\ Len(t) = n - 1
        /\ \A k \in 1 .. n - 1 : t[k] = IF k < i THEN s[k] ELSE s[k + 1]
    BY RemoveAtProperties
  <2> QED BY <2>1, LenProperties
<1> HIDE DEF t, n
<1>3. /\ \A k \in 1 .. n - 1 : up[k] \in 1 .. n /\ up[k] # i
      /\ \A j, k \in 1 .. n - 1 : j < k <=> up[j] < up[k]
      /\ \A j, k \in 1 .. n - 1 : j <= k <=> up[j] <= up[k]
  BY <1>1
<1>4. \A j \in 1 .. n : j # i => \E k \in 1 .. n - 1 : up[k] = j
  <2> SUFFICES ASSUME NEW j \in 1 .. n, j # i PROVE \E k \in 1 .. n - 1 : up[k] = j
    OBVIOUS
  <2>1. CASE j < i
    <3>1. j \in 1 .. n - 1
      BY <1>1, <2>1
    <3> QED BY <2>1, <3>1
  <2>2. CASE ~(j < i)
    <3>1. j - 1 \in 1 .. n - 1 /\ ~(j - 1 < i) /\ (j - 1) + 1 = j
      BY <1>1, <2>2
    <3> QED BY <3>1
  <2> QED BY <2>1, <2>2
<1> HIDE DEF up
<1>5. /\ \A j, k \in 1 .. n : j < k =>
           /\ s[j].epoch <= s[k].epoch
           /\ s[j].epoch < s[k].epoch => \E b \in 1 .. n : j <= b /\ b < k /\ s[b].bar
      /\ \A j \in 1 .. n :
           /\ seen <= s[j].epoch /\ s[j].epoch <= last
           /\ s[j].epoch < last => \E b \in 1 .. n : j <= b /\ s[b].bar
  BY <1>1 DEF Fenced
<1>6. Later(seen, e) = e /\ e \in Nat
  BY <1>1, <1>5 DEF Later
\* Whoever is left is of the packet's epoch or a later one.
<1>7. ASSUME NEW j \in 1 .. n, j # i PROVE e <= s[j].epoch
  <2>1. CASE i < j
    BY <1>1, <1>5, <2>1
  <2>2. CASE ~(i < j)
    <3>1. j < i /\ j \in 1 .. i - 1
      BY <1>1, <1>7, <2>2
    <3>2. \A b \in 1 .. n : j <= b /\ b < i => ~s[b].bar
      BY <1>1, <3>1
    <3>3. ~(s[j].epoch < e)
      BY <1>1, <1>5, <3>1, <3>2
    <3> QED BY <1>1, <3>3
  <2> QED BY <2>1, <2>2
\* And the barriers that fence the others are still there.
<1>8. ASSUME NEW j \in 1 .. n, j # i, NEW b \in 1 .. n, j <= b, s[b].bar
      PROVE  b # i
  <2> SUFFICES ASSUME b = i PROVE FALSE
    OBVIOUS
  <2>1. i = 1
    BY <1>8
  <2> QED BY <1>1, <1>8, <2>1
<1>9. ASSUME NEW j \in 1 .. n - 1, NEW k \in 1 .. n - 1, j < k
      PROVE  /\ t[j].epoch <= t[k].epoch
             /\ t[j].epoch < t[k].epoch => \E b \in 1 .. n - 1 : j <= b /\ b < k /\ t[b].bar
  <2>1. up[j] \in 1 .. n /\ up[k] \in 1 .. n /\ up[j] < up[k] /\ up[j] # i
    BY <1>3, <1>9
  <2>2. t[j] = s[up[j]] /\ t[k] = s[up[k]]
    BY <1>2
  <2>3. ASSUME s[up[j]].epoch < s[up[k]].epoch
        PROVE  \E b \in 1 .. n - 1 : j <= b /\ b < k /\ t[b].bar
    <3>1. PICK b \in 1 .. n : up[j] <= b /\ b < up[k] /\ s[b].bar
      BY <1>5, <2>1, <2>3
    <3>2. PICK a \in 1 .. n - 1 : up[a] = b
      BY <1>4, <1>8, <2>1, <3>1
    <3> QED BY <1>2, <1>3, <3>1, <3>2
  <2> QED BY <1>5, <2>1, <2>2, <2>3
<1>10. ASSUME NEW j \in 1 .. n - 1
       PROVE  /\ e <= t[j].epoch /\ t[j].epoch <= last
              /\ t[j].epoch < last => \E b \in 1 .. n - 1 : j <= b /\ t[b].bar
  <2>1. up[j] \in 1 .. n /\ up[j] # i /\ t[j] = s[up[j]]
    BY <1>2, <1>3
  <2>2. ASSUME s[up[j]].epoch < last
        PROVE  \E b \in 1 .. n - 1 : j <= b /\ t[b].bar
    <3>1. PICK b \in 1 .. n : up[j] <= b /\ s[b].bar
      BY <1>5, <2>1, <2>2
    <3>2. PICK a \in 1 .. n - 1 : up[a] = b
      BY <1>4, <1>8, <2>1, <3>1
    <3> QED BY <1>2, <1>3, <3>1, <3>2
  <2> QED BY <1>5, <1>7, <2>1, <2>2
<1>11. e <= last
  BY <1>1, <1>5
<1>12. Fenced(t, e, last)
  BY <1>2, <1>9, <1>10, <1>11 DEF Fenced
<1> QED BY <1>6, <1>12 DEF t

\* The first of a queue is erased by what pops it.
LEMMA FirstRemoved ==
  ASSUME NEW S, NEW s \in Seq(S), s # <<>>
  PROVE  RemoveAt(s, 1) = Tail(s) /\ Head(s) = s[1] /\ 1 \in 1 .. Len(s)
<1> DEFINE a == RemoveAt(s, 1)
           b == Tail(s)
           n == Len(s)
<1>1. /\ n \in Nat \ {0} /\ Head(s) = s[1] /\ b \in Seq(S) /\ Len(b) = n - 1
      /\ \A k \in 1 .. n - 1 : b[k] = s[k + 1]
  BY CountTail
<1>2. 1 \in 1 .. n
  BY <1>1
<1>3. /\ a \in Seq(S) /\ Len(a) = n - 1
      /\ \A k \in 1 .. n - 1 : a[k] = IF k < 1 THEN s[k] ELSE s[k + 1]
  BY <1>2, RemoveAtProperties
<1> HIDE DEF a, b, n
<1>4. Len(a) = Len(b) /\ \A k \in 1 .. Len(a) : a[k] = b[k]
  BY <1>1, <1>3
<1>5. a = b
  BY <1>1, <1>3, <1>4, SeqEqual
<1> QED BY <1>1, <1>2, <1>5 DEF a, b, n

\* With one rank, what updateTransactionQueue moves is the first of its queue, and
\* the line stays as it was.
LEMMA LineMoved ==
  ASSUME TypeInv, NumRanks = 1, Retire
  PROVE  Line(0)' = Line(0)
<1>1. UpdateTransactionQueue /\ pending' = pending
  BY DEF Retire
<1>2. CASE Movable = {}
  BY <1>1, <1>2 DEF UpdateTransactionQueue, Line
<1>3. CASE Movable # {}
  <2>1. /\ cmdQ[0] \in Seq(Sendable) /\ transQ \in Seq(Sendable) /\ pending \in Seq(Sendable)
        /\ DOMAIN transQ = 1 .. Len(transQ) /\ Len(transQ) \in Nat /\ Ranks = {0}
        /\ \A m \in 1 .. Len(transQ) : transQ[m] \in Sendable /\ transQ[m].rank = 0
    <3>1. Ranks = {0} /\ 0 \in Ranks
      BY DEF Ranks
    <3>2. cmdQ[0] \in Seq(Sendable) /\ transQ \in Seq(Sendable) /\ pending \in Seq(Sendable)
      BY <3>1, LineType
    <3>3. DOMAIN transQ = 1 .. Len(transQ) /\ Len(transQ) \in Nat
      BY <3>2, LenProperties
    <3>4. \A m \in 1 .. Len(transQ) : transQ[m] \in Sendable /\ transQ[m].rank = 0
      BY <3>1, <3>2, ElementOfSeq, SendableFields
    <3> QED BY <3>1, <3>2, <3>3, <3>4
  <2>2. Min(Movable) = 1 /\ 1 \in 1 .. Len(transQ)
    <3>1. Movable \subseteq Nat /\ 1 \in Movable /\ \A m \in Movable : 1 <= m
      BY <1>3, <2>1 DEF Movable
    <3>2. Min(Movable) \in Movable /\ Min(Movable) <= 1
      BY <3>1, MinIn
    <3>3. Min(Movable) \in Nat /\ 1 <= Min(Movable)
      BY <3>1, <3>2
    <3>4. Min(Movable) = 1
      BY ONLY <3>2, <3>3
    <3>5. 1 \in 1 .. Len(transQ)
      BY <3>1 DEF Movable
    <3> QED BY ONLY <3>4, <3>5
  <2>3. transQ # <<>>
    BY <2>1, <2>2, EmptySeq
  <2>4. /\ RemoveAt(transQ, 1) = Tail(transQ) /\ Head(transQ) = transQ[1] /\ transQ[1] \in Sendable
        /\ Tail(transQ) \in Seq(Sendable)
    <3>1. RemoveAt(transQ, 1) = Tail(transQ) /\ Head(transQ) = transQ[1]
      BY <2>1, <2>3, FirstRemoved
    <3>2. Tail(transQ) \in Seq(Sendable)
      BY <2>1, <2>3, CountTail
    <3> QED BY <2>1, <2>2, <3>1, <3>2
  <2>5. transQ' = Tail(transQ) /\ cmdQ'[0] = Append(cmdQ[0], Head(transQ))
    <3>1. transQ' = RemoveAt(transQ, 1) /\ cmdQ' = [cmdQ EXCEPT ![transQ[1].rank] = Append(@, transQ[1])]
      BY <1>1, <1>3, <2>2 DEF UpdateTransactionQueue
    <3>2. cmdQ'[0] = Append(cmdQ[0], transQ[1])
      BY <2>1, <2>2, <3>1 DEF TypeInv, QueuesOK
    <3> QED BY <2>4, <3>1, <3>2
  <2>6. Append(cmdQ[0], Head(transQ)) \o Tail(transQ) = cmdQ[0] \o transQ
    <3> DEFINE q == cmdQ[0]
               e == <<>>
    <3>1. q \in Seq(Sendable) /\ e \in Seq(Sendable)
      BY <2>1, EmptySeq
    <3>2. Append(q, Head(transQ)) \in Seq(Sendable)
      BY <2>4, <3>1, AppendProperties
    <3> HIDE DEF q
    <3>3. e \o Append(q, Head(transQ)) = Append(q, Head(transQ)) /\ e \o q = q
      BY <3>1, <3>2, ConcatEmptySeq
    <3> HIDE DEF e
    <3>4. (e \o Append(q, Head(transQ))) \o Tail(transQ) = (e \o q) \o transQ
      BY ONLY <2>1, <2>3, <3>1, QueueAround
    <3> QED BY <3>3, <3>4 DEF q
  <2> QED BY <1>1, <2>5, <2>6 DEF Line
<1> QED BY <1>2, <1>3

\* The line of the one rank, and the epoch it has seen.
Fence == Fenced(Line(0), issued[0], epoch)

\* At the start the line is empty.
LEMMA FenceInit == ASSUME NumRanks = 1 PROVE Init => Fence
<1> SUFFICES ASSUME Init PROVE Fence
  OBVIOUS
<1>1. 0 \in Ranks
  BY DEF Ranks
<1>2. cmdQ[0] = <<>> /\ transQ = <<>> /\ pending = <<>> /\ issued[0] = 0 /\ epoch = 0
  BY <1>1 DEF Init
<1>3. Line(0) = <<>>
  <2>1. <<>> \in Seq(Sendable)
    BY EmptySeq
  <2>2. <<>> \o <<>> = <<>>
    BY <2>1, ConcatEmptySeq
  <2> QED BY <1>2, <2>2 DEF Line
<1>4. DOMAIN Line(0) = {}
  BY <1>3
<1> QED BY <1>2, <1>4 DEF Fence, Fenced

\* Every step keeps the fences.
LEMMA FenceStep ==
  ASSUME TypeInv, NumRanks = 1, NoEarlyStop, InOrder, AddsLast, Fence, [Next]_vars
  PROVE  Fence'
<1>1. Ranks = {0} /\ 0 \in Ranks
  BY DEF Ranks
<1>2. Line(0) \in Seq(Sendable) /\ issued[0] \in Nat /\ epoch \in Nat /\ Fenced(Line(0), issued[0], epoch)
  BY <1>1, LineType DEF TypeInv, ClientOK, Fence
<1>3. ASSUME Fenced(Line(0)', issued'[0], epoch') PROVE Fence'
  BY <1>3 DEF Fence, Fenced
<1>4. CASE Line(0)' = Line(0) /\ issued' = issued /\ epoch' = epoch
  BY <1>2, <1>3, <1>4
<1>5. ASSUME NEW o \in {"READ", "WRITE"}, NEW l \in Locations, AddTransaction(o, l)
      PROVE  Fence'
  <2>1. Line(0)' = Append(Line(0), Request(o, l))
    BY <1>1, <1>5, LineAdded
  <2>2. Request(o, l) \in Sendable /\ Request(o, l).epoch = epoch
    BY RequestType
  <2>3. issued' = issued /\ epoch' = epoch
    BY <1>5 DEF AddTransaction, queueVars
  <2> HIDE DEF Request
  <2>4. Fenced(Append(Line(0), Request(o, l)), issued[0], epoch)
    BY <1>2, <2>2, FencedAdded
  <2> QED BY <1>3, <2>1, <2>3, <2>4
<1>6. CASE AddBarrier
  <2>1. Line(0)' = Tagged(Line(0)) /\ Line(0) # <<>>
    BY <1>1, <1>6, LineTagged
  <2>2. issued' = issued /\ epoch' = epoch + 1
    BY <1>6 DEF AddBarrier, queueVars
  <2>3. Fenced(Tagged(Line(0)), issued[0], epoch + 1)
    BY <1>2, <2>1, FencedTagged
  <2> QED BY <1>3, <2>1, <2>2, <2>3
<1>7. CASE Deliver
  BY <1>1, <1>4, <1>7, LineDelivered DEF Deliver
<1>8. ASSUME NEW r \in Ranks, NEW i \in Ready(cmdQ[r], Mode(r), mc[r]), Column(r, i)
      PROVE  Fence'
  <2> DEFINE s == Line(0)
  <2>1. r = 0 /\ i \in 1 .. Len(s) /\ s[i] = cmdQ[0][i] /\ Line(0)' = RemoveAt(s, i)
    BY <1>1, <1>8, LineSent
  <2>2. issued'[0] = Later(issued[0], s[i].epoch) /\ epoch' = epoch
    BY <1>1, <1>8, <2>1 DEF Column, Record, clientVars, TypeInv, ClientOK
  <2>3. (\A k \in 1 .. i - 1 : ~s[k].bar) /\ (i = 1 \/ ~s[i].bar)
    <3>1. (\A k \in 1 .. i - 1 : ~cmdQ[0][k].bar) /\ (i = 1 \/ ~cmdQ[0][i].bar)
      BY <2>1 DEF Ready
    <3>2. i \in 1 .. Len(cmdQ[0]) /\ Len(cmdQ[0]) \in Nat
      BY <1>1, <2>1, QueueOf DEF Ready
    <3>3. \A k \in 1 .. i - 1 : s[k] = cmdQ[0][k]
      BY <1>1, <3>2, LineType
    <3> QED BY <2>1, <3>1, <3>3
  <2> HIDE DEF s
  <2>4. Fenced(RemoveAt(s, i), Later(issued[0], s[i].epoch), epoch)
    BY <1>2, <2>1, <2>3, FencedLeft DEF s
  <2> QED BY <1>3, <2>1, <2>2, <2>4
<1>9. ASSUME NEW c, Bare(c)
      PROVE  Fence'
  BY <1>4, <1>9 DEF Bare, Record, clientVars, frontVars, Line
<1>10. CASE IssueNothing
  BY <1>4, <1>10 DEF IssueNothing, clientVars, frontVars, queueVars, Line
<1>11. CASE Retire
  BY <1>4, <1>11, LineMoved DEF Retire, clientVars
<1>12. CASE UNCHANGED vars
  BY <1>4, <1>12 DEF vars, clientVars, frontVars, queueVars, Line
<1> QED BY StepCases, <1>5, <1>6, <1>7, <1>8, <1>9, <1>10, <1>11, <1>12

(* BarriersHold: on a channel of one rank, of any size and timing, once the command   *)
(* queue has let go of a packet that was added after a barrier, nothing added before     *)
(* it still waits, in the command queue, the transaction queue or outside.                *)
THEOREM BarriersHold == ASSUME NumRanks = 1, InOrder PROVE Spec => []BarrierOrder
<1>1. TrafficInv => TypeInv /\ NoEarlyStop
  BY HeldSuffices DEF TrafficInv
<1>2. Init => AddsLast /\ Fence
  BY ServedInit, FenceInit
<1>3. TrafficInv /\ (AddsLast /\ Fence) /\ [Next]_vars => (AddsLast /\ Fence)'
  BY <1>1, AddsLastStep, FenceStep
<1>4. TrafficInv /\ Fence => BarrierOrder
  <2> SUFFICES ASSUME TrafficInv, Fence, NEW r \in Ranks, NEW p \in Waiting(r)
               PROVE  p.epoch >= issued[r]
    BY DEF BarrierOrder
  <2>1. r = 0
    BY DEF Ranks
  <2> DEFINE q == cmdQ[0]
             u == q \o transQ
             s == Line(0)
  <2>2. /\ q \in Seq(Sendable) /\ transQ \in Seq(Sendable) /\ pending \in Seq(Sendable)
        /\ u \in Seq(Sendable) /\ s = u \o pending /\ s \in Seq(Sendable)
    BY <1>1, <2>1, LineType DEF Line
  <2>3. /\ DOMAIN q = 1 .. Len(q) /\ DOMAIN transQ = 1 .. Len(transQ) /\ DOMAIN pending = 1 .. Len(pending)
        /\ DOMAIN s = 1 .. Len(s) /\ Len(q) \in Nat /\ Len(transQ) \in Nat /\ Len(pending) \in Nat
    BY <2>2, LenProperties
  <2>4. /\ Len(u) = Len(q) + Len(transQ)
        /\ \A k \in 1 .. Len(q) + Len(transQ) : u[k] = IF k <= Len(q) THEN q[k] ELSE transQ[k - Len(q)]
    BY <2>2, ConcatProperties
  <2> HIDE DEF u, q
  <2>5. /\ Len(s) = Len(u) + Len(pending)
        /\ \A k \in 1 .. Len(u) + Len(pending) : s[k] = IF k <= Len(u) THEN u[k] ELSE pending[k - Len(u)]
    BY <2>2, ConcatProperties
  <2> HIDE DEF s
  <2>6. ASSUME NEW k \in 1 .. Len(u) PROVE k \in DOMAIN s /\ s[k] = u[k]
    BY <2>3, <2>4, <2>5
  <2>7. \E k \in DOMAIN s : s[k] = p
    <3>1. ASSUME NEW k \in 1 .. Len(q) PROVE q[k] = u[k] /\ k \in 1 .. Len(u)
      BY <2>3, <2>4
    <3>2. ASSUME NEW k \in 1 .. Len(transQ)
          PROVE  transQ[k] = u[Len(q) + k] /\ Len(q) + k \in 1 .. Len(u)
      <4>1. Len(q) + k \in 1 .. Len(u) /\ ~(Len(q) + k <= Len(q)) /\ (Len(q) + k) - Len(q) = k
        BY <2>3, <2>4
      <4> QED BY <2>4, <4>1
    <3>3. ASSUME NEW k \in 1 .. Len(pending)
          PROVE  pending[k] = s[Len(u) + k] /\ Len(u) + k \in DOMAIN s
      <4>1. /\ Len(u) + k \in 1 .. Len(u) + Len(pending) /\ ~(Len(u) + k <= Len(u))
            /\ (Len(u) + k) - Len(u) = k
        BY <2>3, <2>4
      <4> QED BY <2>3, <2>5, <4>1
    <3>4. \/ \E k \in 1 .. Len(q) : p = q[k]
          \/ \E k \in 1 .. Len(transQ) : p = transQ[k]
          \/ \E k \in 1 .. Len(pending) : p = pending[k]
      BY <2>1, <2>3 DEF Waiting, ToSet, q
    <3> QED BY <2>6, <3>1, <3>2, <3>3, <3>4
  <2>8. PICK k \in DOMAIN s : s[k] = p
    BY <2>7
  <2>9. issued[0] <= p.epoch
    BY <2>8 DEF Fence, Fenced, s
  <2>10. p.epoch \in Nat /\ issued[0] \in Nat
    <3>1. s[k].epoch \in Nat
      BY <2>2, <2>3, LineEpochs
    <3> QED BY <1>1, <2>1, <2>8, <3>1 DEF TypeInv, ClientOK
  <2> QED BY <2>1, <2>9, <2>10
<1> QED BY <1>2, <1>3, <1>4, TrafficHolds, PTL DEF Spec

=============================================================================
