----------------------------- MODULE Hbm3Proofs -----------------------------
(***************************************************************************)
(* The HBM3-PIM controller of one channel, for every geometry, timing, buffer *)
(* size, program and whatever is read in freed memory: its buffers and clocks  *)
(* stay in bounds, reads and writes never have two rows of a bank open, no PIM *)
(* request passes a barrier, and with room in the active buffer none is lost.  *)
(***************************************************************************)
EXTENDS Hbm3Controller, QueueLemmas

-----------------------------------------------------------------------------
(* The device's clocks. *)

BusyOK(bz) == \A k \in DOMAIN bz : bz[k] \in Nat \ {0}

\* An upper bound of all timing constraints.
ColumnTimes == T.nBL + T.nCL + T.nCWL + T.nWR + T.nWTRS + T.nWTRL
GapTimes == T.nCCDS + T.nCCDL + T.nCCDAB + T.nCCDSB + T.nRTPS + T.nRTPL
RowTimes == T.nRCDRD + T.nRCDWR + T.nRP + T.nRAS + T.nRC + T.nRFC
ActTimes == T.nRRDS + T.nRRDL + T.nFAW + 2
Longest == (ColumnTimes + GapTimes) + (RowTimes + ActTimes)

LEMMA Cycles ==
  /\ T.nBL \in Nat /\ T.nCL \in Nat /\ T.nRCDRD \in Nat /\ T.nRCDWR \in Nat /\ T.nRP \in Nat
  /\ T.nRAS \in Nat /\ T.nRC \in Nat /\ T.nWR \in Nat /\ T.nRTPS \in Nat /\ T.nRTPL \in Nat
  /\ T.nCWL \in Nat /\ T.nCCDS \in Nat /\ T.nCCDL \in Nat /\ T.nCCDAB \in Nat /\ T.nCCDSB \in Nat
  /\ T.nRRDS \in Nat /\ T.nRRDL \in Nat /\ T.nWTRS \in Nat /\ T.nWTRL \in Nat /\ T.nFAW \in Nat
  /\ T.nRFC \in Nat /\ T.nREFI \in Nat
BY DeviceAssumption DEF TimingNames

LEMMA Groups ==
  /\ ColumnTimes \in Nat /\ GapTimes \in Nat /\ RowTimes \in Nat /\ ActTimes \in Nat
  /\ T.nBL <= ColumnTimes /\ T.nCWL + T.nBL + T.nWR <= ColumnTimes
  /\ T.nCWL + T.nBL + T.nWTRS <= ColumnTimes /\ T.nCWL + T.nBL + T.nWTRL <= ColumnTimes
  /\ T.nCL + T.nBL + 2 - T.nCWL \in Int /\ T.nCL + T.nBL + 2 - T.nCWL <= ColumnTimes + 2
  /\ T.nCCDS <= GapTimes /\ T.nCCDL <= GapTimes /\ T.nCCDAB <= GapTimes
  /\ T.nCCDSB <= GapTimes /\ T.nRTPS <= GapTimes /\ T.nRTPL <= GapTimes
  /\ T.nRCDRD <= RowTimes /\ T.nRCDWR <= RowTimes /\ T.nRP <= RowTimes
  /\ T.nRAS <= RowTimes /\ T.nRC <= RowTimes /\ T.nRFC <= RowTimes
  /\ T.nRRDS <= ActTimes /\ T.nRRDL <= ActTimes /\ T.nFAW <= ActTimes /\ 2 <= ActTimes
<1>1. /\ ColumnTimes \in Nat /\ T.nBL <= ColumnTimes /\ T.nCWL + T.nBL + T.nWR <= ColumnTimes
      /\ T.nCWL + T.nBL + T.nWTRS <= ColumnTimes /\ T.nCWL + T.nBL + T.nWTRL <= ColumnTimes
      /\ T.nCL + T.nBL + 2 - T.nCWL \in Int /\ T.nCL + T.nBL + 2 - T.nCWL <= ColumnTimes + 2
  BY ONLY Cycles, SMT DEF ColumnTimes
<1>2. /\ GapTimes \in Nat /\ T.nCCDS <= GapTimes /\ T.nCCDL <= GapTimes /\ T.nCCDAB <= GapTimes
      /\ T.nCCDSB <= GapTimes /\ T.nRTPS <= GapTimes /\ T.nRTPL <= GapTimes
  BY ONLY Cycles, SMT DEF GapTimes
<1>3. /\ RowTimes \in Nat /\ T.nRCDRD <= RowTimes /\ T.nRCDWR <= RowTimes /\ T.nRP <= RowTimes
      /\ T.nRAS <= RowTimes /\ T.nRC <= RowTimes /\ T.nRFC <= RowTimes
  BY ONLY Cycles, SMT DEF RowTimes
<1>4. /\ ActTimes \in Nat /\ T.nRRDS <= ActTimes /\ T.nRRDL <= ActTimes /\ T.nFAW <= ActTimes
      /\ 2 <= ActTimes
  BY ONLY Cycles, SMT DEF ActTimes
<1> QED BY <1>1, <1>2, <1>3, <1>4, Zenon

\* What a constraint can ask for.
Asked ==
  {2, T.nCCDAB, T.nRC, T.nRCDRD, T.nRAS, T.nRTPL, T.nRP, T.nRFC, T.nBL, T.nCCDSB, T.nCCDS, T.nCCDL,
   T.nRTPS, T.nRRDS, T.nRRDL, T.nRCDWR, T.nCWL + T.nBL + T.nWR, T.nCL + T.nBL + 2 - T.nCWL,
   T.nCWL + T.nBL + T.nWTRS, T.nCWL + T.nBL + T.nWTRL}

LEMMA Bounded ==
  /\ Longest \in Nat /\ T.nFAW <= Longest
  /\ \A c \in PimTiming \cup DramTiming : c[4] \in Int /\ c[4] <= Longest
<1>1. Longest \in Nat /\ T.nFAW <= Longest
  BY ONLY Groups, Cycles, SMT DEF Longest
<1>2. ASSUME NEW c \in PimTiming PROVE c[4] \in Asked
  BY ONLY <1>2 DEF PimTiming, Asked
<1>3. ASSUME NEW c \in DramTiming PROVE c[4] \in Asked
  BY ONLY <1>3 DEF DramTiming, Asked
<1>4. ASSUME NEW n \in Asked PROVE n \in Int /\ n <= Longest
  BY ONLY <1>4, Groups, Cycles, SMT DEF Asked, Longest
<1> QED BY <1>1, <1>2, <1>3, <1>4, Zenon

\* Integers with an upper bound have a greatest.
LEMMA Greatest ==
  ASSUME NEW S, S \subseteq Int, S # {}, NEW m \in Int, \A x \in S : x <= m
  PROVE  \E n \in S : \A x \in S : x <= n
<1> DEFINE R == {m - x : x \in S}
<1>1. R \subseteq Nat /\ R # {}
  <2>1. \A x \in S : m - x \in Nat
    OBVIOUS
  <2>2. PICK x \in S : TRUE
    OBVIOUS
  <2>3. m - x \in R
    BY <2>2
  <2> QED BY <2>1, <2>3
<1>2. PICK r \in R : \A y \in R : r <= y
  BY <1>1, NatMin
<1>3. PICK n \in S : r = m - n
  BY <1>2
<1>4. ASSUME NEW x \in S PROVE x <= n
  <2>1. m - n <= m - x
    BY <1>2, <1>3
  <2>2. n \in Int /\ x \in Int
    OBVIOUS
  <2> QED BY ONLY m \in Int, <2>1, <2>2, SMT
<1> QED BY <1>4

\* m_cmd_ready_clk of a command moves to the latest of its constraints.
LEMMA LaterOK ==
  ASSUME NEW bz, BusyOK(bz), NEW waits, NEW most \in Int,
         \A w \in waits : w[2] \in Int /\ w[2] <= most
  PROVE  BusyOK(Later(bz, waits))
<1> DEFINE keys == DOMAIN bz \cup {w[1] : w \in {x \in waits : x[2] > 0}}
           all(k) == {w[2] : w \in {x \in waits : x[1] = k}}
                       \cup (IF k \in DOMAIN bz THEN {bz[k]} ELSE {})
           latest(k) == CHOOSE n \in all(k) : \A m \in all(k) : m <= n
<1>1. Later(bz, waits) = [k \in keys |-> latest(k)]
  BY DEF Later
<1>2. ASSUME NEW k \in keys PROVE latest(k) \in Nat \ {0}
  <2> DEFINE S == all(k)
  <2>1. \A n \in S : n \in Int
    BY DEF BusyOK
  <2>2. PICK p \in S : p > 0
    <3>1. CASE k \in DOMAIN bz
      BY <3>1 DEF BusyOK
    <3>2. CASE k \notin DOMAIN bz
      <4>1. PICK w \in waits : w[1] = k /\ w[2] > 0
        BY <3>2
      <4> QED BY <4>1
    <3> QED BY <3>1, <3>2
  <2>3. PICK bound \in Int : \A n \in S : n <= bound
    <3>1. CASE k \in DOMAIN bz
      <4>1. bz[k] \in Nat
        BY <3>1 DEF BusyOK
      <4> DEFINE more == IF bz[k] <= most THEN most ELSE bz[k]
      <4>2. more \in Int /\ \A n \in S : n <= more
        BY <3>1, <4>1
      <4> QED BY <4>2
    <3>2. CASE k \notin DOMAIN bz
      BY <3>2
    <3> QED BY <3>1, <3>2
  <2> HIDE DEF S
  <2>4. \E n \in S : \A m \in S : m <= n
    <3>1. S \subseteq Int /\ S # {}
      BY <2>1, <2>2
    <3> QED BY ONLY <2>3, <3>1, Greatest
  <2>5. latest(k) \in S /\ \A m \in S : m <= latest(k)
    BY <2>4 DEF S
  <2>6. latest(k) \in Int /\ p \in Int /\ p <= latest(k)
    BY <2>1, <2>2, <2>5
  <2> HIDE DEF latest
  <2> QED BY ONLY <2>2, <2>6, SMT
<1> HIDE DEF keys, latest
<1> QED BY <1>1, <1>2 DEF BusyOK

\* Constraints name cycles up to Longest.
LEMMA WaitsBounded ==
  ASSUME NEW cmd \in Commands, NEW node, NEW l \in Levels, NEW w \in Waits(cmd, node, l)
  PROVE  w[2] \in Int /\ w[2] <= Longest
<1>1. PICK wait \in TimingCons[l][cmd] : w = <<<<node, wait[1]>>, wait[2]>>
  BY DEF Waits
<1>2. TimingCons[l][cmd] = UNION {{<<f, c[4]>> : f \in c[3]} :
              c \in {x \in PimTiming \cup DramTiming : x[1] = l /\ cmd \in x[2]}}
  BY DEF TimingCons
<1>3. PICK con \in PimTiming \cup DramTiming : \E f \in con[3] : wait = <<f, con[4]>>
  BY <1>1, <1>2
<1> QED BY <1>1, <1>3, Bounded

\* The histories of the ranks: ages, the youngest first.
AgesOK(a) == a \in Seq(Nat) /\ \A i, j \in 1 .. Len(a) : i < j => a[i] <= a[j]
ActsOK(as) == DOMAIN as = RankNodes /\ \A r \in RankNodes : AgesOK(as[r])

\* The first n elements of a queue.
LEMMA FirstPart ==
  ASSUME NEW S, NEW s \in Seq(S), NEW n \in 0 .. Len(s)
  PROVE  /\ SubSeq(s, 1, n) \in Seq(S) /\ Len(SubSeq(s, 1, n)) = n
         /\ \A i \in 1 .. n : SubSeq(s, 1, n)[i] = s[i]
<1>1. Len(s) \in Nat /\ 1 \in 1 .. Len(s) + 1 /\ n \in 1 - 1 .. Len(s)
  BY LenProperties
<1>2. /\ SubSeq(s, 1, n) \in Seq(S) /\ Len(SubSeq(s, 1, n)) = IF 1 <= n THEN n - 1 + 1 ELSE 0
      /\ \A i \in 1 .. n - 1 + 1 : SubSeq(s, 1, n)[i] = s[1 + i - 1]
  BY <1>1, SubSeqProperties
<1> QED BY <1>1, <1>2

LEMMA RankOfAddress ==
  ASSUME NEW addr \in Addresses
  PROVE  NodeAt(addr, 2) \in RankNodes
<1>1. addr \in Seq(Nat) /\ Len(addr) = 6 /\ addr[1] < PseudoChannels /\ addr[2] < Ranks
  BY DEF Addresses
<1>2. NodeAt(addr, 2) \in Seq(Nat) /\ Len(NodeAt(addr, 2)) = 2
      /\ NodeAt(addr, 2)[1] = addr[1] /\ NodeAt(addr, 2)[2] = addr[2]
  <2>1. 1 \in 1 .. Len(addr) + 1 /\ 2 \in 0 .. Len(addr)
    BY <1>1
  <2> QED BY <1>1, <2>1, FirstPart DEF NodeAt
<1>3. NodeAt(addr, 2) = <<addr[1], addr[2]>> /\ addr[1] \in Nat /\ addr[2] \in Nat
  BY <1>1, <1>2
<1> QED BY <1>1, <1>3, DeviceAssumption DEF RankNodes

\* An activate is due in a history only where its address has a rank.
LEMMA FourBounded ==
  ASSUME NEW as, ActsOK(as), NEW cmd, NEW addr, cmd = "ACT" => addr \in Addresses,
         NEW w \in FourActivates(as, cmd, addr)
  PROVE  w[2] \in Int /\ w[2] <= Longest
<1> DEFINE r == NodeAt(addr, 2)
           a == as[r]
<1>1. FourActivates(as, cmd, addr) =
        IF cmd = "ACT" /\ Len(a) >= 3 THEN {<<<<r, "ACT">>, T.nFAW - a[3]>>} ELSE {}
  BY DEF FourActivates
<1> HIDE DEF r
<1>2. cmd = "ACT" /\ Len(a) >= 3 /\ w = <<<<r, "ACT">>, T.nFAW - a[3]>>
  BY <1>1, Zenon
<1>3. AgesOK(a)
  BY <1>2, RankOfAddress DEF ActsOK, r
<1> HIDE DEF a
<1>4. a[3] \in Nat
  <2>1. a \in Seq(Nat) /\ Len(a) \in Nat
    BY <1>3 DEF AgesOK
  <2>2. 3 \in 1 .. Len(a)
    BY <1>2, <2>1
  <2> QED BY <2>1, <2>2, ElementOfSeq
<1>5. w[2] = T.nFAW - a[3]
  BY <1>2
<1> QED BY ONLY <1>4, <1>5, Cycles, Bounded, SMT

LEMMA UpdateTimingOK ==
  ASSUME NEW bz, BusyOK(bz), NEW as, ActsOK(as), NEW cmd \in Commands, NEW addr,
         cmd = "ACT" => addr \in Addresses
  PROVE  BusyOK(UpdateTiming(bz, as, cmd, addr))
<1> DEFINE waits == (UNION {Waits(cmd, NodeAt(addr, Depth[l]), l) :
                              l \in {x \in Levels : Depth[x] <= Len(addr)}})
                    \cup (UNION {Waits(cmd, b, "bank") : b \in AlsoTimed(cmd, addr)})
                    \cup FourActivates(as, cmd, addr)
<1>1. UpdateTiming(bz, as, cmd, addr) = Later(bz, waits)
  BY DEF UpdateTiming
<1>2. ASSUME NEW w \in waits PROVE w[2] \in Int /\ w[2] <= Longest
  <2>1. CASE \E l \in Levels : w \in Waits(cmd, NodeAt(addr, Depth[l]), l)
    BY <2>1, WaitsBounded
  <2>2. CASE \E b : w \in Waits(cmd, b, "bank")
    <3>1. "bank" \in Levels
      BY DEF Levels
    <3> QED BY <2>2, <3>1, WaitsBounded
  <2>3. CASE w \in FourActivates(as, cmd, addr)
    BY <2>3, FourBounded
  <2> QED BY <2>1, <2>2, <2>3
<1> HIDE DEF waits
<1> QED BY <1>1, <1>2, Bounded, LaterOK

LEMMA HistoryOK ==
  ASSUME NEW as, ActsOK(as), NEW cmd, NEW addr, cmd = "ACT" => addr \in Addresses
  PROVE  ActsOK(History(as, cmd, addr))
<1>1. CASE cmd # "ACT"
  BY <1>1 DEF History
<1>2. CASE cmd = "ACT"
  <2> DEFINE r == NodeAt(addr, 2)
             a == as[r]
             n == Lesser(Len(a), 2)
             b == <<0>> \o SubSeq(a, 1, n)
  <2>1. r \in RankNodes /\ AgesOK(a)
    BY <1>2, RankOfAddress DEF ActsOK
  <2>2. History(as, cmd, addr) = [as EXCEPT ![r] = b]
    BY <1>2 DEF History
  <2> HIDE DEF r
  <2>3. a \in Seq(Nat) /\ Len(a) \in Nat /\ n \in 0 .. Len(a)
    <3> HIDE DEF a
    <3>1. a \in Seq(Nat) /\ Len(a) \in Nat
      BY <2>1, LenProperties DEF AgesOK
    <3> QED BY <3>1 DEF Lesser
  <2>4. /\ SubSeq(a, 1, n) \in Seq(Nat) /\ Len(SubSeq(a, 1, n)) = n
        /\ \A i \in 1 .. n : SubSeq(a, 1, n)[i] = a[i]
    BY <2>3, FirstPart
  <2> HIDE DEF n, a
  <2>5. /\ b \in Seq(Nat) /\ Len(b) = n + 1 /\ b[1] = 0
        /\ \A i \in 2 .. n + 1 : b[i] = a[i - 1]
    <3>1. <<0>> \in Seq(Nat) /\ Len(<<0>>) = 1 /\ <<0>>[1] = 0
      OBVIOUS
    <3> QED BY <2>3, <2>4, <3>1, ConcatProperties
  <2> HIDE DEF b
  <2>6. AgesOK(b)
    <3> SUFFICES ASSUME NEW i \in 1 .. Len(b), NEW j \in 1 .. Len(b), i < j PROVE b[i] <= b[j]
      BY <2>5 DEF AgesOK
    <3>1. b[j] = a[j - 1] /\ j - 1 \in 1 .. Len(a)
      BY <2>3, <2>5
    <3>2. b[j] \in Nat
      BY <2>5
    <3>3. CASE i = 1
      BY <2>5, <3>2, <3>3
    <3>4. CASE i # 1
      <4>1. i \in 2 .. n + 1 /\ n \in Nat /\ i < j /\ j \in Nat /\ n <= Len(a) /\ Len(a) \in Nat
        BY <2>3, <2>5, <3>4
      <4>2. i - 1 \in 1 .. Len(a) /\ i - 1 < j - 1
        BY ONLY <4>1
      <4>3. b[i] = a[i - 1]
        BY ONLY <2>5, <4>1
      <4> QED BY <2>1, <3>1, <4>2, <4>3 DEF AgesOK
    <3> QED BY <3>3, <3>4
  <2> QED BY <2>1, <2>2, <2>6 DEF ActsOK
<1> QED BY <1>1, <1>2

\* tick: the waits are a cycle shorter, the activates a cycle older.
LEMMA AgedOK ==
  ASSUME NEW bz, BusyOK(bz)
  PROVE  BusyOK(Aged(bz))
<1>1. DOMAIN Aged(bz) = {x \in DOMAIN bz : bz[x] > 1}
      /\ \A k \in DOMAIN Aged(bz) : Aged(bz)[k] = bz[k] - 1
  BY DEF Aged
<1> QED BY <1>1 DEF BusyOK

LEMMA AgedActsOK ==
  ASSUME NEW as, ActsOK(as)
  PROVE  ActsOK(AgedActs(as))
<1>1. ASSUME NEW r \in RankNodes PROVE AgesOK(AgedActs(as)[r])
  <2> DEFINE a == as[r]
             kept == {k \in DOMAIN a : a[k] + 1 < T.nFAW}
             b == AgedActs(as)[r]
  <2>1. b = [i \in kept |-> a[i] + 1]
    BY DEF AgedActs
  <2>2. a \in Seq(Nat) /\ Len(a) \in Nat /\ DOMAIN a = 1 .. Len(a)
        /\ (\A k \in 1 .. Len(a) : a[k] \in Nat)
        /\ \A i, j \in 1 .. Len(a) : i < j => a[i] <= a[j]
    <3>1. AgesOK(a)
      BY DEF ActsOK
    <3> HIDE DEF a
    <3>2. a \in Seq(Nat) /\ \A i, j \in 1 .. Len(a) : i < j => a[i] <= a[j]
      BY <3>1 DEF AgesOK
    <3> QED BY <3>2, LenProperties, ElementOfSeq
  <2> HIDE DEF a, b
  <2>3. PICK n \in Nat : n <= Len(a) /\ kept = 1 .. n
    <3>1. CASE kept = {}
      BY <2>2, <3>1
    <3>2. CASE kept # {}
      <4>1. kept \subseteq Int /\ \A k \in kept : k <= Len(a)
        BY <2>2
      <4>2. PICK n \in kept : \A k \in kept : k <= n
        <5>1. Len(a) \in Int
          BY <2>2
        <5> HIDE DEF kept
        <5> QED BY ONLY <3>2, <4>1, <5>1, Greatest
      <4>3. n \in 1 .. Len(a) /\ a[n] + 1 < T.nFAW
        BY <2>2, <4>2
      <4>4. ASSUME NEW k \in 1 .. n PROVE k \in kept
        <5>1. k \in 1 .. Len(a) /\ a[k] <= a[n]
          BY <2>2, <4>3
        <5>2. a[k] + 1 < T.nFAW
          BY <2>2, <4>3, <5>1, Cycles
        <5> QED BY <2>2, <5>1, <5>2
      <4>5. \A k \in kept : k \in 1 .. n
        BY <2>2, <4>2
      <4> QED BY <4>3, <4>4, <4>5
    <3> QED BY <3>1, <3>2
  <2> HIDE DEF kept
  <2>4. b \in [1 .. n -> Nat] /\ \A i \in 1 .. n : b[i] = a[i] + 1
    BY <2>1, <2>2, <2>3
  <2>5. b \in Seq(Nat) /\ Len(b) = n
    BY <2>4, FunctionSeq
  <2>6. \A i, j \in 1 .. n : i < j => b[i] <= b[j]
    BY <2>2, <2>3, <2>4
  <2> QED BY <2>5, <2>6 DEF AgesOK, b
<1> QED BY <1>1 DEF ActsOK, AgedActs
-----------------------------------------------------------------------------
(* The scheduler. *)

\* A barrier at the head of the pim buffer falls.
LEMMA PassProperties ==
  ASSUME NEW S, NEW s \in Seq(S)
  PROVE  /\ PassBarrier(s) \in Seq(S) /\ Len(PassBarrier(s)) \in Nat /\ Len(PassBarrier(s)) <= Len(s)
         /\ \/ PassBarrier(s) = s
            \/ /\ s # <<>> /\ s[1].type = "PIM_BARRIER" /\ Len(PassBarrier(s)) = Len(s) - 1
               /\ \A k \in 1 .. Len(s) - 1 : PassBarrier(s)[k] = s[k + 1]
<1>1. CASE s # <<>> /\ s[1].type = "PIM_BARRIER"
  <2>1. PassBarrier(s) = Tail(s)
    BY <1>1 DEF PassBarrier
  <2>2. Len(s) \in Nat \ {0}
    BY <1>1, EmptySeq, LenProperties
  <2>3. Tail(s) \in Seq(S) /\ Len(Tail(s)) = Len(s) - 1
        /\ \A k \in 1 .. Len(Tail(s)) : Tail(s)[k] = s[k + 1]
    BY <1>1, HeadTailProperties
  <2> DEFINE t == PassBarrier(s)
  <2>4. t \in Seq(S) /\ Len(t) \in Nat /\ Len(t) <= Len(s) /\ Len(t) = Len(s) - 1
        /\ \A k \in 1 .. Len(s) - 1 : t[k] = s[k + 1]
    BY <2>1, <2>2, <2>3
  <2> QED BY <1>1, <2>4, Zenon
<1>2. CASE ~(s # <<>> /\ s[1].type = "PIM_BARRIER")
  <2>1. PassBarrier(s) = s
    BY <1>2 DEF PassBarrier
  <2> QED BY <2>1, LenProperties
<1> QED BY <1>1, <1>2

\* The best of the first requests of a buffer, one more at a time.
Bests(rs, bz, s, full, up) ==
  up = [j \in 1 .. Len(s) |-> IF j = 1 THEN 1 ELSE Better(rs, bz, s, full, up[j - 1], j)]

LEMMA BestsExist ==
  ASSUME NEW rs, NEW bz, NEW S, NEW s \in Seq(S), NEW full
  PROVE  \E up : Bests(rs, bz, s, full, up)
<1> DEFINE step(best, j) == Better(rs, bz, s, full, best, j)
           P(m) == \E up : up = [j \in 1 .. m |-> IF j = 1 THEN 1 ELSE step(up[j - 1], j)]
           G == {m \in Nat : P(m)}
<1> HIDE DEF step
<1>1. P(0)
  <2> DEFINE none == [j \in 1 .. 0 |-> 1]
  <2>1. none = [j \in 1 .. 0 |-> IF j = 1 THEN 1 ELSE step(none[j - 1], j)]
    OBVIOUS
  <2> QED BY <2>1
<1>2. ASSUME NEW m \in Nat, P(m) PROVE P(m + 1)
  <2>1. PICK up : up = [j \in 1 .. m |-> IF j = 1 THEN 1 ELSE step(up[j - 1], j)]
    BY <1>2
  <2> DEFINE last == IF m = 0 THEN 1 ELSE step(up[m], m + 1)
             more == [j \in 1 .. m + 1 |-> IF j = m + 1 THEN last ELSE up[j]]
  <2>2. ASSUME NEW j \in 1 .. m + 1
        PROVE  more[j] = IF j = 1 THEN 1 ELSE step(more[j - 1], j)
    <3>1. CASE j = m + 1
      <4>1. CASE m = 0
        BY <3>1, <4>1
      <4>2. CASE m # 0
        <5>1. more[j] = step(up[m], m + 1) /\ j - 1 = m /\ more[m] = up[m] /\ j # 1
          BY <3>1, <4>2
        <5> HIDE DEF more
        <5> QED BY <3>1, <5>1
      <4> QED BY <4>1, <4>2
    <3>2. CASE j # m + 1
      <4>1. more[j] = up[j] /\ j \in 1 .. m /\ (j # 1 => more[j - 1] = up[j - 1])
        BY <3>2
      <4>2. up[j] = IF j = 1 THEN 1 ELSE step(up[j - 1], j)
        BY <2>1, <4>1
      <4> HIDE DEF more
      <4> QED BY <4>1, <4>2
    <3> QED BY <3>1, <3>2
  <2>3. more = [j \in 1 .. m + 1 |-> IF j = 1 THEN 1 ELSE step(more[j - 1], j)]
    <3>1. DOMAIN more = 1 .. m + 1 /\ more = [j \in 1 .. m + 1 |-> more[j]]
      OBVIOUS
    <3> HIDE DEF more
    <3> QED BY <2>2, <3>1
  <2> HIDE DEF more
  <2> QED BY <2>3
<1> HIDE DEF P
<1>3. 0 \in G /\ \A m \in 0 .. Len(s) - 1 : m \in G => m + 1 \in G
  BY <1>1, <1>2
<1> HIDE DEF G
<1>4. Len(s) \in G
  <2>1. Len(s) \in Nat /\ Len(s) \in 0 .. Len(s)
    BY LenProperties
  <2>2. \A m \in 0 .. Len(s) : m \in G
    BY ONLY <1>3, <2>1, Climb, Zenon
  <2> QED BY <2>1, <2>2
<1> QED BY <1>4 DEF G, P, step, Bests

\* The best request of a buffer, past a barrier at its head: one of it, the first or
\* one that barriers between let through.
LEMMA BestProperties ==
  ASSUME NEW rs, NEW bz, NEW S, NEW full \in Seq(S)
  PROVE  LET s == PassBarrier(full)
             n == BestRequest(rs, bz, full)
         IN  /\ n \in 0 .. Len(s)
             /\ n > 1 => Considered(rs, s, n)
             /\ n = 0 <=> s = <<>>
<1> DEFINE s == PassBarrier(full)
           n == BestRequest(rs, bz, full)
           up == CHOOSE f : Bests(rs, bz, s, full, f)
           G == {j \in Nat : j + 1 \in 1 .. Len(s) =>
                   up[j + 1] \in 1 .. j + 1 /\ (up[j + 1] > 1 => Considered(rs, s, up[j + 1]))}
<1>1. s \in Seq(S) /\ Len(s) \in Nat
  BY PassProperties
<1>2. n = IF s = <<>> THEN 0 ELSE up[Len(s)]
  BY DEF BestRequest, Bests
<1> HIDE DEF s, n
<1>3. Bests(rs, bz, s, full, up)
  BY <1>1, BestsExist
<1> HIDE DEF up
<1>4. \A j \in 1 .. Len(s) : up[j] = IF j = 1 THEN 1 ELSE Better(rs, bz, s, full, up[j - 1], j)
  BY <1>3 DEF Bests
<1>5. 0 \in G
  BY <1>1, <1>4
<1>6. ASSUME NEW j \in 0 .. Len(s) - 1, j \in G PROVE j + 1 \in G
  <2> SUFFICES ASSUME j + 2 \in 1 .. Len(s)
               PROVE  up[j + 2] \in 1 .. j + 2 /\ (up[j + 2] > 1 => Considered(rs, s, up[j + 2]))
    BY <1>1
  <2>1. up[j + 1] \in 1 .. j + 1 /\ (up[j + 1] > 1 => Considered(rs, s, up[j + 1]))
    BY <1>1, <1>6
  <2>2. up[j + 2] = Better(rs, bz, s, full, up[j + 1], j + 2)
    BY <1>1, <1>4
  <2>3. \/ up[j + 2] = up[j + 1]
        \/ up[j + 2] = j + 2 /\ Considered(rs, s, j + 2)
    BY <2>2, Zenon DEF Better, Compare
  <2> QED BY <1>1, <2>1, <2>3
<1> HIDE DEF G
<1>7. CASE s = <<>>
  <2>1. n = 0
    BY <1>2, <1>7
  <2> QED BY <1>1, <1>7, <2>1 DEF s, n
<1>8. CASE s # <<>>
  <2>1. Len(s) \in Nat \ {0} /\ n = up[Len(s)]
    BY <1>1, <1>2, <1>8, EmptySeq
  <2>2. Len(s) - 1 \in G
    <3>1. \A j \in 0 .. (Len(s) - 1) - 1 : j \in G => j + 1 \in G
      BY <1>1, <1>6
    <3>2. \A j \in 0 .. Len(s) - 1 : j \in G
      <4> DEFINE m == Len(s) - 1
      <4>1. m \in Nat /\ \A j \in 0 .. m - 1 : j \in G => j + 1 \in G
        BY <2>1, <3>1
      <4> HIDE DEF m
      <4>2. \A j \in 0 .. m : j \in G
        BY ONLY <1>5, <4>1, Climb, Zenon
      <4> QED BY <4>2 DEF m
    <3> QED BY <2>1, <3>2
  <2>3. n \in 1 .. Len(s) /\ (n > 1 => Considered(rs, s, n))
    BY <2>1, <2>2 DEF G
  <2> QED BY <1>8, <2>1, <2>3 DEF s, n
<1> QED BY <1>7, <1>8
-----------------------------------------------------------------------------
(* What the buffers hold. *)

Ordinary == {"Read", "Write"}
Refreshes == {Refresh(p) : p \in 0 .. PseudoChannels - 1}
\* Requests of the program that have been accepted.
Requests ==
  {r \in [id : 1 .. sent, type : RequestTypes, addr : Addresses, arrive : Nat] :
     r.type = program[r.id].type /\ r.addr = program[r.id].addr}
EntriesOf(n) ==
  IF n = "priority" THEN Refreshes
  ELSE {r \in Requests : IF n = "pim" THEN r.type \notin Ordinary ELSE r.type \in Ordinary}
Room(n) == (IF n = "priority" THEN PrioritySize ELSE MaxSize) + 1
BuffersOK(q) ==
  /\ DOMAIN q = BufferNames
  /\ \A n \in BufferNames : q[n] \in Seq(EntriesOf(n)) /\ Len(q[n]) <= Room(n)

LEMMA FinalIsFinal ==
  ASSUME NEW type \in RequestTypes \cup {"REFRESH"}
  PROVE  ~Opening(FinalCommand(type)) /\ ~Closing(FinalCommand(type))
BY DEF RequestTypes, FinalCommand, Opening, Closing

LEMMA OrdinaryCommands ==
  ASSUME NEW rs, NEW r, r.type \in Ordinary
  PROVE  /\ Command(rs, r) \in {"RD", "WR", "ACT", "PRE"}
         /\ Command(rs, r) = "ACT" => rs[BankOf(r.addr)] = {}
<1>1. FinalCommand(r.type) \in {"RD", "WR"}
  BY DEF Ordinary, FinalCommand
<1>2. Command(rs, r) = RequireRowOpen(rs, FinalCommand(r.type), r.addr)
  BY <1>1 DEF Command, PreqCommand
<1> QED BY <1>1, <1>2 DEF RequireRowOpen

LEMMA RefreshCommands ==
  ASSUME NEW rs, NEW r \in Refreshes
  PROVE  r.type = "REFRESH" /\ Command(rs, r) \in {"REFab", "PREA"}
<1>1. r.type = "REFRESH"
  BY DEF Refreshes, Refresh
<1>2. FinalCommand(r.type) = "REFab"
  BY <1>1 DEF FinalCommand
<1>3. Command(rs, r) = RequireAllBanksClosed(rs, "REFab")
  BY <1>2 DEF Command, PreqCommand
<1> QED BY <1>1, <1>3 DEF RequireAllBanksClosed

-----------------------------------------------------------------------------
(* What a slot decides. *)

\* The buffers as a slot leaves them before anything is issued.
Passed(q) == [q EXCEPT !.pim = PassBarrier(@)]

\* What is found is the next command of a request of the buffer it is taken from; a
\* request of the pim buffer has no barrier between it and the first.
Takes(s, q, rs, allowed) ==
  /\ s.from \in BufferNames /\ s.at \in 1 .. Len(s.q[s.from])
  /\ s.cmd \in allowed /\ s.cmd = Command(rs, Picked(s))
  /\ s.from = "pim" =>
       s.pim /\ s.q = Passed(q) /\ (s.at > 1 => Considered(rs, s.q.pim, s.at))
SlotOK(s, q, rs, allowed) ==
  /\ s.q = q \/ s.q = Passed(q)
  /\ s.wm \in BOOLEAN /\ s.pim \in BOOLEAN /\ s.found \in BOOLEAN
  /\ s.found => Takes(s, q, rs, allowed)

LEMMA PassedOK ==
  ASSUME NEW q, BuffersOK(q)
  PROVE  /\ BuffersOK(Passed(q)) /\ Passed(q).pim = PassBarrier(q.pim)
         /\ \A n \in BufferNames \ {"pim"} : Passed(q)[n] = q[n]
<1>1. DOMAIN q = BufferNames /\ q.pim \in Seq(EntriesOf("pim")) /\ Len(q.pim) <= Room("pim")
  BY DEF BuffersOK, BufferNames
<1>2. DOMAIN Passed(q) = BufferNames /\ Passed(q).pim = PassBarrier(q.pim)
      /\ \A n \in BufferNames \ {"pim"} : Passed(q)[n] = q[n]
  BY <1>1 DEF Passed, BufferNames
<1>3. PassBarrier(q.pim) \in Seq(EntriesOf("pim")) /\ Len(PassBarrier(q.pim)) <= Room("pim")
  <2>1. PassBarrier(q.pim) \in Seq(EntriesOf("pim"))
        /\ Len(PassBarrier(q.pim)) \in Nat /\ Len(PassBarrier(q.pim)) <= Len(q.pim)
    BY <1>1, PassProperties
  <2>2. Len(q.pim) \in Nat /\ Room("pim") \in Nat
    BY <1>1, LenProperties, ControllerAssumption DEF Room
  <2> QED BY <1>1, <2>1, <2>2
<1> QED BY <1>2, <1>3 DEF BuffersOK

LEMMA ScheduleOK ==
  ASSUME NEW rs, NEW bz, NEW q, BuffersOK(q), NEW wm \in BOOLEAN, NEW pim \in BOOLEAN, NEW allowed
  PROVE  SlotOK(Schedule(rs, bz, q, wm, pim, allowed), q, rs, allowed)
<1> DEFINE commandAt(n, i) == IF i = 0 THEN "END" ELSE Command(rs, q[n][i])
           ready(n, i) == i # 0 /\ commandAt(n, i) \in allowed
                          /\ CheckReady(bz, commandAt(n, i), q[n][i].addr)
           passed == [q EXCEPT !.pim = PassBarrier(@)]
           wm2 == SetWriteMode(q, wm)
           side == IF wm2 THEN "write" ELSE "read"
           actAt == BestRequest(rs, bz, q.active)
           bestPim == BestRequest(rs, bz, q.pim)
           pimAt == IF bestPim = 0 THEN 0 ELSE bestPim + Len(q.pim) - Len(passed.pim)
           sideAt == BestRequest(rs, bz, q[side])
           pick(n, i, found, newq, newwm, newpim) ==
             [from |-> n, at |-> i - Len(q[n]) + Len(newq[n]), cmd |-> commandAt(n, i),
              found |-> found /\ ~Interrupts(q, commandAt(n, i), q[n][i].addr),
              q |-> newq, wm |-> newwm, pim |-> newpim]
           s == Schedule(rs, bz, q, wm, pim, allowed)
<1>1. s = IF ready("active", actAt)
          THEN pick("active", actAt, TRUE, q, wm, pim)
          ELSE IF q.priority # <<>> /\ commandAt("priority", 1) \in allowed
          THEN pick("priority", 1, ready("priority", 1), q, wm, pim /\ ~ready("priority", 1))
          ELSE IF ready("pim", pimAt)
          THEN pick("pim", pimAt, TRUE, passed, wm, TRUE)
          ELSE pick(side, sideAt, ready(side, sideAt), passed, wm2, FALSE)
  BY DEF Schedule
<1> HIDE DEF s
<1>2. passed = Passed(q) /\ wm2 \in BOOLEAN /\ side \in {"read", "write"}
  BY DEF Passed, SetWriteMode
<1>3. \A n \in BufferNames : q[n] \in Seq(EntriesOf(n)) /\ Len(q[n]) \in Nat
  BY LenProperties DEF BuffersOK
<1>4. \A n \in BufferNames \ {"pim"} : passed[n] = q[n]
  BY <1>2, PassedOK
<1> HIDE DEF passed, wm2, side
\* A choice from a buffer the slot leaves alone.
<1>5. ASSUME NEW n \in BufferNames \ {"pim"}, NEW i, NEW found \in BOOLEAN,
             found => ready(n, i) /\ i \in 1 .. Len(q[n]),
             NEW newq, newq = q \/ newq = Passed(q), NEW newwm \in BOOLEAN, NEW newpim \in BOOLEAN
      PROVE  SlotOK(pick(n, i, found, newq, newwm, newpim), q, rs, allowed)
  <2> DEFINE x == pick(n, i, found, newq, newwm, newpim)
  <2>1. newq[n] = q[n]
    BY <1>5, PassedOK
  <2>2. x.from = n /\ x.q = newq /\ x.wm = newwm /\ x.pim = newpim /\ x.found \in BOOLEAN
    OBVIOUS
  <2>3. x.found => found /\ x.at = i /\ x.cmd = Command(rs, q[n][i]) /\ x.cmd \in allowed
    BY <1>3, <1>5, <2>1
  <2> HIDE DEF x
  <2>4. x.found => Takes(x, q, rs, allowed)
    BY <1>5, <2>1, <2>2, <2>3 DEF Takes, Picked
  <2> QED BY <1>5, <2>2, <2>4 DEF SlotOK, x
\* What is ready is in its buffer.
<1>6. ASSUME NEW n \in BufferNames, NEW i, i = BestRequest(rs, bz, q[n]), i # 0
      PROVE  i \in 1 .. Len(q[n])
  <2>1. i \in 0 .. Len(PassBarrier(q[n]))
    BY <1>3, <1>6, BestProperties
  <2>2. Len(PassBarrier(q[n])) \in Nat /\ Len(PassBarrier(q[n])) <= Len(q[n])
    BY <1>3, PassProperties
  <2> QED BY <1>3, <1>6, <2>1, <2>2
<1>7. CASE ready("active", actAt)
  <2> DEFINE i == actAt
  <2>1. i # 0 /\ i \in 1 .. Len(q["active"]) /\ "active" \in BufferNames \ {"pim"}
    BY <1>6, <1>7 DEF BufferNames
  <2>2. SlotOK(pick("active", i, TRUE, q, wm, pim), q, rs, allowed)
    <3>1. ready("active", i) /\ (q = q \/ q = Passed(q)) /\ TRUE \in BOOLEAN
      BY <1>7
    <3> HIDE DEF ready, pick, i
    <3> QED BY <1>5, <2>1, <3>1, Zenon
  <2>3. s = pick("active", actAt, TRUE, q, wm, pim)
    BY <1>1, <1>7
  <2> QED BY <2>2, <2>3 DEF s
<1>8. CASE ~ready("active", actAt) /\ q.priority # <<>> /\ commandAt("priority", 1) \in allowed
  <2> DEFINE found == ready("priority", 1)
  <2>1. 1 \in 1 .. Len(q["priority"]) /\ "priority" \in BufferNames \ {"pim"}
    BY <1>3, <1>8, EmptySeq DEF BufferNames
  <2>2. found \in BOOLEAN /\ (pim /\ ~found) \in BOOLEAN
    BY DEF CheckReady
  <2>3. SlotOK(pick("priority", 1, found, q, wm, pim /\ ~found), q, rs, allowed)
    <3>1. (found => ready("priority", 1)) /\ (q = q \/ q = Passed(q))
      OBVIOUS
    <3> HIDE DEF ready, pick, found
    <3> QED BY <1>5, <2>1, <2>2, <3>1, Zenon
  <2>4. s = pick("priority", 1, found, q, wm, pim /\ ~found)
    BY <1>1, <1>8
  <2> QED BY <2>3, <2>4 DEF s
<1>9. CASE ~ready("active", actAt) /\ ~(q.priority # <<>> /\ commandAt("priority", 1) \in allowed)
           /\ ready("pim", pimAt)
  <2> DEFINE x == pick("pim", pimAt, TRUE, passed, wm, TRUE)
             t == PassBarrier(q.pim)
  <2>1. s = x
    BY <1>1, <1>9
  <2>2. "pim" \in BufferNames /\ q.pim \in Seq(EntriesOf("pim")) /\ Len(q.pim) \in Nat
    BY <1>3 DEF BufferNames
  <2>3. passed.pim = t /\ x.q = passed /\ x.q.pim = t
    BY <1>2, PassedOK
  <2>4. bestPim \in 0 .. Len(t) /\ (bestPim > 1 => Considered(rs, t, bestPim)) /\ bestPim # 0
    BY <1>9, <2>2, BestProperties
  <2> HIDE DEF bestPim
  <2>5. Len(t) \in Nat /\ Len(t) <= Len(q.pim) /\ t \in Seq(EntriesOf("pim"))
        /\ \/ t = q.pim
           \/ Len(t) = Len(q.pim) - 1 /\ \A k \in 1 .. Len(q.pim) - 1 : t[k] = q.pim[k + 1]
    BY <2>2, PassProperties
  <2> HIDE DEF t
  <2>6. pimAt = bestPim + Len(q.pim) - Len(t) /\ pimAt \in 1 .. Len(q.pim) /\ bestPim \in 1 .. Len(t)
    BY <2>2, <2>3, <2>4, <2>5
  <2>7. q.pim[pimAt] = t[bestPim]
    <3> HIDE DEF pimAt
    <3>1. CASE t = q.pim
      <4>1. pimAt = bestPim
        BY <2>2, <2>4, <2>6, <3>1
      <4> QED BY <3>1, <4>1
    <3>2. CASE Len(t) = Len(q.pim) - 1 /\ \A k \in 1 .. Len(q.pim) - 1 : t[k] = q.pim[k + 1]
      <4>1. pimAt = bestPim + 1 /\ bestPim \in 1 .. Len(q.pim) - 1
        BY <2>2, <2>4, <2>6, <3>2
      <4> QED BY <3>2, <4>1
    <3> QED BY <2>5, <3>1, <3>2
  <2> HIDE DEF pimAt
  <2>8. /\ x.from = "pim" /\ x.wm = wm /\ x.pim = TRUE /\ x.found \in BOOLEAN
        /\ x.at = bestPim /\ x.cmd = Command(rs, t[bestPim]) /\ x.cmd \in allowed
    <3>1. x.at = pimAt - Len(q.pim) + Len(t) /\ x.cmd = Command(rs, q.pim[pimAt])
      BY <2>3, <2>6
    <3>2. x.at = bestPim
      <4> DEFINE lt == Len(t)
                 lq == Len(q.pim)
                 at == x.at
      <4>1. at = pimAt - lq + lt /\ pimAt = bestPim + lq - lt /\ lq \in Nat /\ lt \in Nat /\ bestPim \in Nat
        <5>1. bestPim \in Nat
          BY <2>4, <2>5
        <5> QED BY <2>2, <2>5, <2>6, <3>1, <5>1, Zenon
      <4> HIDE DEF lt, lq, at
      <4>2. at = bestPim
        BY ONLY <4>1, SMT
      <4> QED BY <4>2 DEF at
    <3>3. x.cmd \in allowed
      BY <1>9
    <3> QED BY <2>7, <3>1, <3>2, <3>3
  <2> HIDE DEF x
  <2>9. Takes(x, q, rs, allowed)
    BY <1>2, <2>2, <2>3, <2>4, <2>6, <2>8 DEF Takes, Picked
  <2>10. SlotOK(x, q, rs, allowed)
    BY <1>2, <2>3, <2>8, <2>9 DEF SlotOK
  <2> QED BY <2>1, <2>10 DEF s
<1>10. CASE ~ready("active", actAt) /\ ~(q.priority # <<>> /\ commandAt("priority", 1) \in allowed)
            /\ ~ready("pim", pimAt)
  <2> DEFINE found == ready(side, sideAt)
  <2>1. side \in BufferNames \ {"pim"}
    BY <1>2 DEF BufferNames
  <2>2. found \in BOOLEAN
    BY DEF CheckReady
  <2>3. found => ready(side, sideAt) /\ sideAt \in 1 .. Len(q[side])
    BY <1>6, <2>1
  <2>4. SlotOK(pick(side, sideAt, found, passed, wm2, FALSE), q, rs, allowed)
    <3>1. passed = q \/ passed = Passed(q)
      BY <1>2
    <3>2. wm2 \in BOOLEAN /\ FALSE \in BOOLEAN
      BY <1>2
    <3> HIDE DEF found, sideAt, ready, pick
    <3> QED BY ONLY <1>5, <2>1, <2>2, <2>3, <3>1, <3>2, Zenon
  <2>5. s = pick(side, sideAt, found, passed, wm2, FALSE)
    BY <1>1, <1>10
  <2> QED BY <2>4, <2>5 DEF s
<1> QED BY <1>7, <1>8, <1>9, <1>10

-----------------------------------------------------------------------------
(* What a slot leaves behind. *)

\* Reads and writes keep one row of a bank open.
OrdinaryOnly == \A i \in DOMAIN program : program[i].type \in Ordinary
RowsOK(rs) == OrdinaryOnly => \A b \in BankNodes : rs[b] = {} \/ \E x : rs[b] = {x}

\* A program's length, and how far it has come.
ProgramOK == program \in Seq([type : RequestTypes, addr : Addresses]) /\ sent \in 0 .. Len(program)

LEMMA PickedEntry ==
  ASSUME NEW q, BuffersOK(q), NEW rs, NEW allowed, NEW s, SlotOK(s, q, rs, allowed), s.found
  PROVE  /\ BuffersOK(s.q) /\ s.from \in BufferNames /\ s.at \in 1 .. Len(s.q[s.from])
         /\ Picked(s) = s.q[s.from][s.at] /\ Picked(s) \in EntriesOf(s.from)
         /\ s.cmd = Command(rs, Picked(s)) /\ s.cmd \in allowed
         /\ Picked(s).type \in RequestTypes \cup {"REFRESH"}
<1>1. BuffersOK(s.q)
  BY PassedOK DEF SlotOK
<1>2. s.from \in BufferNames /\ s.at \in 1 .. Len(s.q[s.from])
      /\ s.cmd = Command(rs, Picked(s)) /\ s.cmd \in allowed
  BY DEF SlotOK, Takes
<1>3. s.q[s.from] \in Seq(EntriesOf(s.from))
  BY <1>1, <1>2 DEF BuffersOK
<1>4. Picked(s) = s.q[s.from][s.at] /\ Picked(s) \in EntriesOf(s.from)
  BY <1>2, <1>3, ElementOfSeq DEF Picked
<1>5. Picked(s).type \in RequestTypes \cup {"REFRESH"}
  <2>1. CASE s.from = "priority"
    BY <1>4, <2>1, RefreshCommands DEF EntriesOf
  <2>2. CASE s.from # "priority"
    <3>1. Picked(s) \in Requests
      BY <1>4, <2>2 DEF EntriesOf
    <3> QED BY <3>1 DEF Requests
  <2> QED BY <2>1, <2>2
<1> QED BY <1>1, <1>2, <1>4, <1>5

\* Only a read or a write moves to the active buffer.
LEMMA MovesOrdinary ==
  ASSUME NEW q, BuffersOK(q), NEW rs, NEW allowed, NEW s, SlotOK(s, q, rs, allowed), s.found, Moves(s)
  PROVE  s.from # "pim" /\ Picked(s) \in EntriesOf("active")
<1>1. ~s.pim /\ Opening(s.cmd)
  BY DEF Moves
<1>2. s.from # "pim"
  BY <1>1 DEF SlotOK, Takes
<1>3. Picked(s) \in EntriesOf(s.from) /\ s.cmd = Command(rs, Picked(s)) /\ s.from \in BufferNames
  BY PickedEntry
<1>4. s.from # "priority"
  <2> SUFFICES ASSUME s.from = "priority" PROVE FALSE
    OBVIOUS
  <2>1. Picked(s) \in Refreshes
    BY <1>3 DEF EntriesOf
  <2>2. s.cmd \in {"REFab", "PREA"}
    BY <1>3, <2>1, RefreshCommands
  <2> QED BY <1>1, <2>2 DEF Opening
<1> QED BY <1>2, <1>3, <1>4 DEF EntriesOf

\* issue: a request leaves its buffer with its last command and moves with the one
\* that opens its row; no buffer outgrows its size.
LEMMA AfterIssueOK ==
  ASSUME NEW q, BuffersOK(q), NEW rs, NEW allowed, NEW s, SlotOK(s, q, rs, allowed), s.found
  PROVE  BuffersOK(AfterIssue(s))
<1> DEFINE n == s.from
           t == s.q[n]
           u == RemoveAt(t, s.at)
           left == [s.q EXCEPT ![n] = RemoveAt(@, s.at)]
<1>1. BuffersOK(s.q) /\ n \in BufferNames /\ s.at \in 1 .. Len(t)
  BY PickedEntry
<1>2. t \in Seq(EntriesOf(n)) /\ Len(t) <= Room(n) /\ Len(t) \in Nat /\ Room(n) \in Nat
  BY <1>1, LenProperties, ControllerAssumption DEF BuffersOK, Room
<1>3. u \in Seq(EntriesOf(n)) /\ Len(u) = Len(t) - 1
  BY <1>1, <1>2, RemoveAtProperties
<1>4. DOMAIN left = BufferNames /\ \A m \in BufferNames : left[m] = IF m = n THEN u ELSE s.q[m]
  BY <1>1 DEF BuffersOK
<1> HIDE DEF left, u
<1>5. BuffersOK(left)
  <2>1. Len(u) <= Room(n)
    BY <1>2, <1>3
  <2> QED BY <1>1, <1>3, <1>4, <2>1 DEF BuffersOK
<1>6. ASSUME Moves(s), Len(s.q.active) <= MaxSize
      PROVE  BuffersOK([left EXCEPT !.active = Append(@, Picked(s))])
  <2> DEFINE a == left.active
             b == Append(a, Picked(s))
             more == [left EXCEPT !.active = b]
  <2>1. Picked(s) \in EntriesOf("active")
    BY <1>6, MovesOrdinary
  <2>2. a \in Seq(EntriesOf("active")) /\ Len(a) \in Nat /\ Len(a) <= MaxSize
    <3>1. a \in Seq(EntriesOf("active"))
      BY <1>5 DEF BuffersOK, BufferNames
    <3>2. Len(a) <= Len(s.q.active) /\ Len(s.q.active) \in Nat
      <4>1. "active" \in BufferNames
        BY DEF BufferNames
      <4>2. s.q.active \in Seq(EntriesOf("active"))
        BY <1>1, <4>1 DEF BuffersOK
      <4>3. Len(s.q.active) \in Nat
        BY <4>2, LenProperties
      <4>4. CASE n = "active"
        BY <1>2, <1>3, <1>4, <4>1, <4>4
      <4>5. CASE n # "active"
        BY <1>4, <4>1, <4>3, <4>5
      <4> QED BY <4>3, <4>4, <4>5
    <3> QED BY <1>6, <3>1, <3>2, LenProperties, ControllerAssumption
  <2> HIDE DEF a
  <2>3. b \in Seq(EntriesOf("active")) /\ Len(b) = Len(a) + 1
    BY <2>1, <2>2, AppendProperties
  <2> HIDE DEF b
  <2>4. DOMAIN more = BufferNames /\ \A m \in BufferNames : more[m] = IF m = "active" THEN b ELSE left[m]
    BY <1>4 DEF BufferNames
  <2>5. Len(b) <= Room("active")
    BY <2>2, <2>3, ControllerAssumption DEF Room
  <2>6. BuffersOK(more)
    <3> HIDE DEF more
    <3> QED BY <1>5, <2>3, <2>4, <2>5 DEF BuffersOK
  <2> QED BY <2>6 DEF a, b
<1> QED BY <1>1, <1>5, <1>6 DEF AfterIssue, left

\* The device and the buffers after a slot.
DoneOK(o) ==
  /\ BuffersOK(o.buffers) /\ BusyOK(o.busy) /\ ActsOK(o.acts) /\ RowsOK(o.rows)
  /\ o.wm \in BOOLEAN /\ o.pim \in BOOLEAN
  /\ o.bus = <<>> \/ \E c : o.bus = <<c>>

\* An activate goes only to a closed bank, so it opens the bank's one row.
LEMMA RowsKept ==
  ASSUME ProgramOK, NEW rs, RowsOK(rs), NEW q, BuffersOK(q), NEW allowed,
         NEW s, SlotOK(s, q, rs, allowed), s.found
  PROVE  RowsOK(UpdateStates(rs, s.cmd, Picked(s).addr))
<1> DEFINE r == Picked(s)
<1> SUFFICES ASSUME OrdinaryOnly, NEW b \in BankNodes
             PROVE  LET x == UpdateStates(rs, s.cmd, r.addr)[b] IN x = {} \/ \E y : x = {y}
  BY DEF RowsOK
<1>1. /\ s.from \in BufferNames /\ r \in EntriesOf(s.from) /\ s.cmd = Command(rs, r)
  BY PickedEntry
<1> HIDE DEF r
<1>2. s.cmd \in {"RD", "WR", "PRE", "REFab", "PREA", "ACT"} /\ (s.cmd = "ACT" => rs[BankOf(r.addr)] = {})
  <2>1. CASE s.from = "priority"
    <3>1. r \in Refreshes
      BY <1>1, <2>1 DEF EntriesOf
    <3> QED BY <1>1, <3>1, RefreshCommands
  <2>2. CASE s.from # "priority"
    <3>1. r \in Requests
      BY <1>1, <2>2 DEF EntriesOf
    <3>2. r.id \in 1 .. sent /\ r.type = program[r.id].type
      BY <3>1 DEF Requests
    <3>3. r.id \in DOMAIN program
      BY <3>2 DEF ProgramOK
    <3>4. r.type \in Ordinary
      BY <3>2, <3>3 DEF OrdinaryOnly
    <3> QED BY <1>1, <3>4, OrdinaryCommands
  <2> QED BY <2>1, <2>2
<1>3. UpdateStates(rs, s.cmd, r.addr)[b] =
        IF b \in ClosedBy(s.cmd, r.addr) THEN {}
        ELSE IF b \in Opened(s.cmd, r.addr) THEN rs[b] \cup {RowOf(r.addr)} ELSE rs[b]
  BY DEF UpdateStates
<1>4. rs[b] = {} \/ \E y : rs[b] = {y}
  BY DEF RowsOK
<1>5. CASE s.cmd = "ACT"
  <2>1. Opened(s.cmd, r.addr) = {BankOf(r.addr)}
    BY <1>5 DEF Opened
  <2>2. b \in Opened(s.cmd, r.addr) => rs[b] = {}
    BY <1>2, <1>5, <2>1
  <2> QED BY <1>3, <1>4, <2>2, Zenon
<1>6. CASE s.cmd # "ACT"
  <2>1. Opened(s.cmd, r.addr) = {}
    BY <1>2, <1>6 DEF Opened
  <2> QED BY <1>3, <1>4, <2>1
<1> QED BY <1>5, <1>6

LEMMA IssueOK ==
  ASSUME ProgramOK, NEW rs, RowsOK(rs), NEW bz, BusyOK(bz), NEW as, ActsOK(as),
         NEW q, BuffersOK(q), NEW allowed, allowed \subseteq Commands,
         NEW s, SlotOK(s, q, rs, allowed)
  PROVE  DoneOK(Issue(rs, bz, as, s))
<1> DEFINE o == Issue(rs, bz, as, s)
           addr == Picked(s).addr
<1>1. s.wm \in BOOLEAN /\ s.pim \in BOOLEAN /\ s.found \in BOOLEAN
  BY DEF SlotOK
<1>2. CASE ~s.found
  <2>1. o.rows = rs /\ o.busy = bz /\ o.acts = as /\ o.buffers = s.q /\ o.wm = s.wm /\ o.pim = s.pim
        /\ o.bus = <<>>
    BY <1>2 DEF Issue
  <2>2. BuffersOK(s.q)
    BY PassedOK DEF SlotOK
  <2> HIDE DEF o
  <2> QED BY <1>1, <2>1, <2>2 DEF DoneOK, o
<1>3. CASE s.found
  <2>1. /\ o.rows = UpdateStates(rs, s.cmd, addr) /\ o.busy = UpdateTiming(bz, as, s.cmd, addr)
        /\ o.acts = History(as, s.cmd, addr) /\ o.buffers = AfterIssue(s)
        /\ o.wm = s.wm /\ o.pim = s.pim /\ o.bus = <<[cmd |-> s.cmd, addr |-> addr]>>
    BY <1>3 DEF Issue
  <2>2. s.cmd \in Commands /\ (s.cmd = "ACT" => addr \in Addresses)
    <3>1. s.from \in BufferNames /\ Picked(s) \in EntriesOf(s.from) /\ s.cmd = Command(rs, Picked(s))
          /\ s.cmd \in allowed
      BY <1>3, PickedEntry
    <3>2. CASE s.from = "priority"
      <4>1. Picked(s) \in Refreshes
        BY <3>1, <3>2 DEF EntriesOf
      <4> QED BY <3>1, <4>1, RefreshCommands
    <3>3. CASE s.from # "priority"
      <4>1. Picked(s) \in Requests
        BY <3>1, <3>3 DEF EntriesOf
      <4> QED BY <3>1, <4>1 DEF Requests
    <3> QED BY <3>2, <3>3
  <2>3. BusyOK(o.busy) /\ ActsOK(o.acts)
    BY <2>1, <2>2, UpdateTimingOK, HistoryOK
  <2>4. BuffersOK(o.buffers)
    BY <1>3, <2>1, AfterIssueOK
  <2>5. RowsOK(o.rows)
    BY <1>3, <2>1, RowsKept
  <2> HIDE DEF o
  <2> QED BY <1>1, <2>1, <2>3, <2>4, <2>5 DEF DoneOK, o
<1> QED BY <1>1, <1>2, <1>3

-----------------------------------------------------------------------------
(* Barriers. *)

Fences(i, j) ==
  /\ i < j /\ program[i].type \notin Ordinary /\ program[j].type \notin Ordinary
  /\ \E b \in i + 1 .. j : program[b].type = "PIM_BARRIER"
Waiting(t, i) == \E k \in 1 .. Len(t) : t[k].id = i
\* The pim buffer is in the order of the program, and while a request waits in it so
\* does whatever must not pass it.
InOrder(t) ==
  /\ \A i, j \in 1 .. Len(t) : i < j => t[i].id < t[j].id
  /\ \A i, j \in 1 .. sent : Fences(i, j) /\ Waiting(t, i) => Waiting(t, j)

\* The first request may leave, or one before which there is no barrier but the first.
LEMMA LeavesInOrder ==
  ASSUME ProgramOK, NEW t \in Seq(EntriesOf("pim")), InOrder(t), NEW at \in 1 .. Len(t),
         at = 1 \/ (\A k \in 2 .. at : t[k].type # "PIM_BARRIER"),
         NEW u \in Seq(EntriesOf("pim")), Len(u) = Len(t) - 1,
         \A k \in 1 .. Len(t) - 1 : u[k] = IF k < at THEN t[k] ELSE t[k + 1]
  PROVE  InOrder(u)
<1>1. Len(t) \in Nat /\ Len(u) \in Nat /\ sent \in Nat
  BY LenProperties DEF ProgramOK
<1>2. \A k \in 1 .. Len(t) : t[k].id \in 1 .. sent /\ t[k].type = program[t[k].id].type
  <2> TAKE k \in 1 .. Len(t)
  <2>1. t[k] \in EntriesOf("pim")
    BY ElementOfSeq
  <2>2. t[k] \in Requests
    BY <2>1 DEF EntriesOf
  <2> QED BY <2>2 DEF Requests
<1>3. \A i, j \in 1 .. Len(t) : i < j => t[i].id < t[j].id
  BY DEF InOrder
<1>4. \A k \in 1 .. Len(u) : \E l \in 1 .. Len(t) \ {at} : u[k] = t[l] /\ l = IF k < at THEN k ELSE k + 1
  BY <1>1
<1>5. \A l \in 1 .. Len(t) \ {at} : \E k \in 1 .. Len(u) : u[k] = t[l]
  <2> TAKE l \in 1 .. Len(t) \ {at}
  <2>1. CASE l < at
    BY <1>1, <2>1
  <2>2. CASE l > at
    <3>1. l - 1 \in 1 .. Len(u) /\ ~(l - 1 < at) /\ (l - 1) + 1 = l
      BY <1>1, <2>2
    <3> QED BY <3>1
  <2>3. l < at \/ l > at
    BY <1>1
  <2> QED BY ONLY <2>1, <2>2, <2>3
<1>6. \A i, j \in 1 .. Len(u) : i < j => u[i].id < u[j].id
  <2> TAKE i \in 1 .. Len(u), j \in 1 .. Len(u)
  <2> HAVE i < j
  <2>1. PICK k \in 1 .. Len(t) \ {at} : u[i] = t[k] /\ k = IF i < at THEN i ELSE i + 1
    BY <1>4
  <2>2. PICK l \in 1 .. Len(t) \ {at} : u[j] = t[l] /\ l = IF j < at THEN j ELSE j + 1
    BY <1>4
  <2>3. k < l
    BY <1>1, <2>1, <2>2
  <2> QED BY <1>3, <2>1, <2>2, <2>3
<1>7. ASSUME NEW i \in 1 .. sent, NEW j \in 1 .. sent, Fences(i, j), Waiting(u, i)
      PROVE  Waiting(u, j)
  <2>1. PICK k \in 1 .. Len(t) \ {at} : t[k].id = i
    BY <1>4, <1>7 DEF Waiting
  <2>2. PICK l \in 1 .. Len(t) : t[l].id = j
    BY <1>7, <2>1 DEF Waiting, InOrder
  <2>3. CASE l # at
    BY <1>5, <2>2, <2>3 DEF Waiting
  <2>4. CASE l = at
    <3>1. k < at
      BY <1>1, <1>3, <1>7, <2>1, <2>2, <2>4 DEF Fences
    <3>2. PICK b \in i + 1 .. j : program[b].type = "PIM_BARRIER"
      BY <1>7 DEF Fences
    <3>3. b \in 1 .. sent /\ i < b /\ b <= j
      BY <1>1, <3>2
    <3>4. Fences(i, b)
      <4>1. b \in i + 1 .. b
        BY <1>1, <3>3
      <4> QED BY <1>7, <3>2, <3>3, <4>1 DEF Fences, Ordinary
    <3>5. PICK m \in 1 .. Len(t) : t[m].id = b
      BY <2>1, <3>3, <3>4 DEF Waiting, InOrder
    <3>6. k < m /\ m <= at
      BY <1>1, <1>3, <2>1, <2>2, <2>4, <3>3, <3>5
    <3>7. m \in 2 .. at /\ t[m].type = "PIM_BARRIER"
      BY <1>1, <1>2, <3>2, <3>5, <3>6
    <3> QED BY <1>1, <3>1, <3>7
  <2> QED BY <2>3, <2>4
<1> QED BY <1>6, <1>7 DEF InOrder

\* A barrier that falls is the first of its buffer.
LEMMA FallsInOrder ==
  ASSUME ProgramOK, NEW t \in Seq(EntriesOf("pim")), InOrder(t)
  PROVE  InOrder(PassBarrier(t))
<1> DEFINE u == PassBarrier(t)
<1>1. /\ u \in Seq(EntriesOf("pim"))
      /\ \/ u = t
         \/ t # <<>> /\ Len(u) = Len(t) - 1 /\ \A k \in 1 .. Len(t) - 1 : u[k] = t[k + 1]
  BY PassProperties
<1> HIDE DEF u
<1>2. CASE u # t
  <2>1. Len(t) \in Nat \ {0}
    BY <1>1, <1>2, LenProperties, EmptySeq
  <2>2. 1 \in 1 .. Len(t) /\ \A k \in 1 .. Len(t) - 1 : u[k] = IF k < 1 THEN t[k] ELSE t[k + 1]
    BY <1>1, <1>2, <2>1
  <2>3. InOrder(u)
    BY <1>1, <1>2, <2>2, LeavesInOrder
  <2> QED BY <2>3 DEF u
<1>3. CASE u = t
  BY <1>3 DEF u
<1> QED BY <1>2, <1>3

\* Only a request's own command takes it out of the pim buffer, and that is no
\* opening or closing command: no barrier but the first stands before it.
LEMMA IssuedInOrder ==
  ASSUME ProgramOK, NEW rs, NEW bz, NEW as, NEW q, BuffersOK(q), InOrder(q.pim), NEW allowed,
         NEW s, SlotOK(s, q, rs, allowed)
  PROVE  InOrder(Issue(rs, bz, as, s).buffers.pim)
<1> DEFINE t == s.q.pim
           b == Issue(rs, bz, as, s).buffers
<1>1. "pim" \in BufferNames /\ q.pim \in Seq(EntriesOf("pim")) /\ BuffersOK(s.q)
      /\ (t = q.pim \/ t = PassBarrier(q.pim)) /\ DOMAIN s.q = BufferNames
  BY PassedOK DEF SlotOK, BuffersOK, BufferNames
<1>2. t \in Seq(EntriesOf("pim")) /\ InOrder(t)
  BY <1>1, FallsInOrder, PassProperties
<1>3. CASE ~s.found
  <2>1. b.pim = t
    BY <1>3 DEF Issue
  <2> QED BY <1>2, <2>1
<1>4. CASE s.found
  <2>1. b = AfterIssue(s)
    BY <1>4 DEF Issue
  <2> HIDE DEF b
  <2>2. CASE Final(s) /\ s.from = "pim"
    <3>1. b.pim = RemoveAt(t, s.at)
      BY <1>1, <2>1, <2>2 DEF AfterIssue
    <3>2. Takes(s, q, rs, allowed) /\ s.at \in 1 .. Len(t) /\ Picked(s) = t[s.at]
      BY <1>4, <2>2 DEF SlotOK, Takes, Picked
    <3>3. s.at = 1 \/ \A k \in 2 .. s.at : t[k].type # "PIM_BARRIER"
      <4>1. ~Opening(s.cmd) /\ ~Closing(s.cmd)
        <5>1. s.cmd = FinalCommand(Picked(s).type)
          BY <2>2 DEF Final
        <5>2. Picked(s).type \in RequestTypes \cup {"REFRESH"}
          BY <1>4, PickedEntry
        <5> QED BY <5>1, <5>2, FinalIsFinal
      <4>2. s.at > 1 => Considered(rs, t, s.at)
        BY <2>2, <3>2 DEF Takes
      <4>3. s.cmd = Command(rs, t[s.at])
        BY <3>2 DEF Takes
      <4>4. Len(t) \in Nat
        BY <1>2, LenProperties
      <4> QED BY <3>2, <4>1, <4>2, <4>3, <4>4 DEF Considered
    <3>4. /\ b.pim \in Seq(EntriesOf("pim")) /\ Len(b.pim) = Len(t) - 1
          /\ \A k \in 1 .. Len(t) - 1 : b.pim[k] = IF k < s.at THEN t[k] ELSE t[k + 1]
      <4>1. t \in Seq(EntriesOf("pim")) /\ s.at \in 1 .. Len(t)
        BY <1>2, <3>2
      <4>2. /\ RemoveAt(t, s.at) \in Seq(EntriesOf("pim")) /\ Len(RemoveAt(t, s.at)) = Len(t) - 1
            /\ \A k \in 1 .. Len(t) - 1 : RemoveAt(t, s.at)[k] = IF k < s.at THEN t[k] ELSE t[k + 1]
        BY ONLY <4>1, RemoveAtProperties
      <4> QED BY <3>1, <4>2
    <3> DEFINE u == b.pim
               at == s.at
    <3> HIDE DEF t, u, at
    <3>5. InOrder(u)
      BY <1>2, <3>2, <3>3, <3>4, LeavesInOrder DEF u, at
    <3> QED BY <3>5 DEF u, b
  <2>3. CASE ~(Final(s) /\ s.from = "pim")
    <3>1. Moves(s) => s.from # "pim"
      BY <1>4, MovesOrdinary
    <3>2. b.pim = t
      BY <1>1, <2>1, <2>3, <3>1 DEF AfterIssue, BufferNames
    <3> QED BY <1>2, <3>2 DEF b
  <2> QED BY <2>2, <2>3
<1> QED BY <1>3, <1>4

-----------------------------------------------------------------------------
(* The two slots of a cycle. *)

SlotDone(o) == DoneOK(o) /\ InOrder(o.buffers.pim)

LEMMA SlotKeeps ==
  ASSUME ProgramOK, NEW rs, RowsOK(rs), NEW bz, BusyOK(bz), NEW as, ActsOK(as),
         NEW q, BuffersOK(q), InOrder(q.pim), NEW wm \in BOOLEAN, NEW pim \in BOOLEAN,
         NEW allowed, allowed \subseteq Commands
  PROVE  SlotDone(Issue(rs, bz, as, Schedule(rs, bz, q, wm, pim, allowed)))
<1> DEFINE s == Schedule(rs, bz, q, wm, pim, allowed)
<1>1. SlotOK(s, q, rs, allowed)
  BY ScheduleOK
<1> HIDE DEF s
<1>2. DoneOK(Issue(rs, bz, as, s))
  BY <1>1, IssueOK
<1>3. InOrder(Issue(rs, bz, as, s).buffers.pim)
  BY <1>1, IssuedInOrder
<1> QED BY <1>2, <1>3 DEF SlotDone, s

LEMMA FirstKeeps ==
  ASSUME ProgramOK, NEW rs, RowsOK(rs), NEW bz, BusyOK(bz), NEW as, ActsOK(as),
         NEW q, BuffersOK(q), InOrder(q.pim), NEW wm \in BOOLEAN, NEW pim \in BOOLEAN
  PROVE  SlotDone(First(rs, bz, as, q, wm, pim))
<1>1. Commands \subseteq Commands
  OBVIOUS
<1>2. SlotDone(Issue(rs, bz, as, Schedule(rs, bz, q, wm, pim, Commands)))
  BY <1>1, SlotKeeps
<1> QED BY <1>2 DEF First

LEMMA SecondKeeps ==
  ASSUME ProgramOK, NEW one, SlotDone(one), NEW type
  PROVE  SlotDone(Second(one, type))
<1> DEFINE allowed == {cmd \in Commands : Beside(type, cmd)}
<1>1. allowed \subseteq Commands
  OBVIOUS
<1>2. /\ RowsOK(one.rows) /\ BusyOK(one.busy) /\ ActsOK(one.acts) /\ BuffersOK(one.buffers)
      /\ InOrder(one.buffers.pim) /\ one.wm \in BOOLEAN /\ one.pim \in BOOLEAN
  BY DEF SlotDone, DoneOK
<1> HIDE DEF allowed
<1>3. SlotDone(Issue(one.rows, one.busy, one.acts,
        Schedule(one.rows, one.busy, one.buffers, one.wm, one.pim, allowed)))
  BY <1>1, <1>2, SlotKeeps
<1> QED BY <1>3 DEF Second, allowed

-----------------------------------------------------------------------------
(* The inductive invariant. *)

ControlOK ==
  /\ program \in Programs /\ sent \in 0 .. Len(program) /\ epoch \in 0 .. sent
  /\ writeMode \in BOOLEAN /\ isPim \in BOOLEAN /\ thrown \in BOOLEAN
  /\ due \in 0 .. T.nREFI /\ (T.nREFI > 0 => due > 0)
  /\ Len(bus) <= 2
DeviceOK == RowsOK(rows) /\ BusyOK(busy) /\ ActsOK(acts)
IInv == ControlOK /\ DeviceOK /\ BuffersOK(buffers) /\ InOrder(buffers.pim)

LEMMA ProgramsOK ==
  ASSUME ControlOK
  PROVE  ProgramOK
BY ControllerAssumption DEF ControlOK, ProgramOK

\* Every buffer and every history is empty, every bank closed.
LEMMA InitOK == Init => IInv
<1> SUFFICES ASSUME Init PROVE IInv
  OBVIOUS
<1>1. T.nREFI \in Nat
  BY Cycles
<1>2. ControlOK
  <2>1. program \in Programs /\ sent = 0 /\ epoch = 0 /\ writeMode = FALSE /\ isPim = FALSE
        /\ due = T.nREFI /\ thrown = FALSE /\ bus = <<>>
    BY DEF Init
  <2>2. Len(program) \in Nat
    BY <2>1, ControllerAssumption, LenProperties
  <2>3. Len(bus) = 0
    BY <2>1
  <2>4. sent \in 0 .. Len(program) /\ epoch \in 0 .. sent /\ due \in 0 .. T.nREFI
        /\ (T.nREFI > 0 => due > 0) /\ Len(bus) <= 2
    BY <1>1, <2>1, <2>2, <2>3
  <2> QED BY <2>1, <2>4 DEF ControlOK
<1>3. DeviceOK
  <2>1. rows = [b \in BankNodes |-> {}] /\ busy = <<>> /\ acts = [r \in RankNodes |-> <<>>]
    BY DEF Init, DeviceInit
  <2>2. AgesOK(<<>>)
    BY EmptySeq DEF AgesOK
  <2>3. DOMAIN busy = {}
    BY <2>1
  <2> QED BY <2>1, <2>2, <2>3 DEF DeviceOK, RowsOK, BusyOK, ActsOK
<1>4. BuffersOK(buffers) /\ InOrder(buffers.pim)
  <2>1. buffers = [n \in BufferNames |-> <<>>]
    BY DEF Init
  <2>2. \A n \in BufferNames : buffers[n] = <<>> /\ Len(buffers[n]) = 0
    BY <2>1
  <2>3. \A n \in BufferNames : Room(n) \in Nat
    BY ControllerAssumption DEF Room
  <2>4. \A S : <<>> \in Seq(S)
    BY EmptySeq
  <2>5. BuffersOK(buffers)
    BY <2>1, <2>2, <2>3, <2>4 DEF BuffersOK
  <2>6. InOrder(buffers.pim)
    BY <2>2 DEF InOrder, Waiting, BufferNames
  <2> QED BY <2>5, <2>6
<1> QED BY <1>2, <1>3, <1>4 DEF IInv

\* send: what the buffers hold stays what they may hold.
LEMMA EntriesGrow ==
  ASSUME ProgramOK, program' = program, sent' = sent + 1
  PROVE  \A n \in BufferNames : EntriesOf(n) \subseteq EntriesOf(n)'
<1>1. sent \in Nat /\ 1 .. sent \subseteq 1 .. sent'
  BY LenProperties DEF ProgramOK
<1>2. Requests \subseteq Requests'
  BY <1>1 DEF Requests
<1>3. Refreshes' = Refreshes
  BY DEF Refreshes, Refresh
<1> QED BY <1>2, <1>3 DEF EntriesOf

\* The request a front end sends next.
LEMMA NextRequestOK ==
  ASSUME ControlOK, program' = program, sent' = sent + 1, sent < Len(program)
  PROVE  LET r == [id |-> sent + 1, type |-> NextRequest.type, addr |-> NextRequest.addr,
                   arrive |-> epoch]
         IN  /\ r.id = sent + 1 /\ r.type = program[sent + 1].type
             /\ \E n \in {"read", "write", "pim"} :
                  /\ n = BufferFor(r.type) /\ r \in EntriesOf(n)'
                  /\ n = "pim" <=> r.type \notin Ordinary
<1> DEFINE r == [id |-> sent + 1, type |-> NextRequest.type, addr |-> NextRequest.addr, arrive |-> epoch]
<1>1. /\ program \in Seq([type : RequestTypes, addr : Addresses]) /\ Len(program) \in Nat
      /\ sent \in Nat /\ epoch \in Nat
  BY ProgramsOK, LenProperties DEF ControlOK, ProgramOK
<1>2. sent + 1 \in 1 .. Len(program)
  BY <1>1
<1>3. NextRequest \in [type : RequestTypes, addr : Addresses]
  BY <1>1, <1>2, ElementOfSeq DEF NextRequest
<1>4. /\ r \in [id : 1 .. sent + 1, type : RequestTypes, addr : Addresses, arrive : Nat]
      /\ r.id = sent + 1 /\ r.type = program[sent + 1].type /\ r.addr = program[sent + 1].addr
  BY <1>1, <1>3 DEF NextRequest
<1> HIDE DEF r
<1>5. r \in Requests'
  BY <1>4 DEF Requests
<1>6. PICK n \in {"read", "write", "pim"} :
        n = BufferFor(r.type) /\ (n = "pim" <=> r.type \notin Ordinary)
  BY DEF BufferFor, Ordinary
<1>7. r \in EntriesOf(n)'
  BY <1>5, <1>6 DEF EntriesOf
<1> QED BY <1>4, <1>6, <1>7 DEF r

\* A read answered from a write joins no buffer.
LEMMA SendKeepsBuffers ==
  ASSUME IInv, Send
  PROVE  BuffersOK(buffers)' /\ InOrder(buffers.pim)'
<1> DEFINE r == [id |-> sent + 1, type |-> NextRequest.type, addr |-> NextRequest.addr, arrive |-> epoch]
<1>1. /\ program' = program /\ sent' = sent + 1 /\ sent < Len(program)
      /\ Forwarded(NextRequest) \/ Fits(BufferFor(r.type))
      /\ IF Forwarded(r) THEN buffers' = buffers
         ELSE buffers' = [buffers EXCEPT ![BufferFor(r.type)] = Append(@, r)]
  BY DEF Send, Accepts
<1>2. Forwarded(NextRequest) <=> Forwarded(r)
  BY DEF Forwarded
<1>3. ControlOK /\ ProgramOK /\ BuffersOK(buffers) /\ InOrder(buffers.pim)
  BY ProgramsOK DEF IInv
<1>4. PICK n \in {"read", "write", "pim"} :
        /\ n = BufferFor(r.type) /\ r \in EntriesOf(n)' /\ (n = "pim" <=> r.type \notin Ordinary)
        /\ r.id = sent + 1 /\ r.type = program[sent + 1].type
  BY <1>1, <1>3, NextRequestOK
<1>5. \A m \in BufferNames : EntriesOf(m) \subseteq EntriesOf(m)'
  BY <1>1, <1>3, EntriesGrow
<1>6. \A m \in BufferNames : buffers[m] \in Seq(EntriesOf(m)') /\ Len(buffers[m]) \in Nat
                             /\ Len(buffers[m]) <= Room(m)
  <2> TAKE m \in BufferNames
  <2>1. buffers[m] \in Seq(EntriesOf(m)) /\ Len(buffers[m]) <= Room(m)
    BY <1>3 DEF BuffersOK
  <2>2. Len(buffers[m]) \in Nat
    BY <2>1, LenProperties
  <2>3. \A k \in 1 .. Len(buffers[m]) : buffers[m][k] \in EntriesOf(m)'
    BY <1>5, <2>1, ElementOfSeq
  <2>4. buffers[m] \in Seq(EntriesOf(m)')
    BY <2>1, <2>3, SeqRetype
  <2> QED BY <2>1, <2>2, <2>4
<1>7. sent \in Nat /\ sent' = sent + 1
  BY <1>1, <1>3, LenProperties DEF ProgramOK
<1> DEFINE t == buffers.pim
<1>8. /\ \A i, j \in 1 .. Len(t) : i < j => t[i].id < t[j].id
      /\ \A i, j \in 1 .. sent : Fences(i, j) /\ Waiting(t, i) => Waiting(t, j)
      /\ \A k \in 1 .. Len(t) : t[k].id \in 1 .. sent
  <2>1. \A k \in 1 .. Len(t) : t[k].id \in 1 .. sent
    <3> TAKE k \in 1 .. Len(t)
    <3>1. t \in Seq(EntriesOf("pim"))
      BY <1>3 DEF BuffersOK, BufferNames
    <3>2. t[k] \in EntriesOf("pim")
      BY <3>1, ElementOfSeq
    <3>3. t[k] \in Requests
      BY <3>2 DEF EntriesOf
    <3> QED BY <3>3 DEF Requests
  <2> QED BY <1>3, <2>1 DEF InOrder
<1>9. \A i, j : Fences(i, j)' <=> Fences(i, j)
  BY <1>1 DEF Fences
<1>10. CASE Forwarded(r)
  <2>1. buffers' = buffers /\ r.type = "Read"
    BY <1>1, <1>10 DEF Forwarded
  <2>2. BuffersOK(buffers)'
    BY <1>3, <1>6, <2>1 DEF BuffersOK, Room
  <2>3. \A i : ~Fences(i, sent + 1)
    BY <1>4, <2>1 DEF Fences, Ordinary
  <2>4. \A i \in 1 .. sent' : ~Fences(sent + 1, i)
    BY <1>7 DEF Fences
  <2>5. \A i, j \in 1 .. sent' : Fences(i, j) => i \in 1 .. sent /\ j \in 1 .. sent
    <3> TAKE i, j \in 1 .. sent'
    <3>1. (i \in 1 .. sent \/ i = sent + 1) /\ (j \in 1 .. sent \/ j = sent + 1)
      BY <1>7
    <3> QED BY <2>3, <2>4, <3>1
  <2>6. InOrder(buffers.pim)'
    BY <1>8, <1>9, <2>1, <2>5 DEF InOrder, Waiting
  <2> QED BY <2>2, <2>6
<1>11. CASE ~Forwarded(r)
  <2> DEFINE u == Append(buffers[n], r)
  <2>1. Fits(n) /\ buffers' = [buffers EXCEPT ![n] = u]
    BY <1>1, <1>2, <1>4, <1>11
  <2>2. n \in BufferNames /\ n # "priority" /\ Len(buffers[n]) <= MaxSize
    BY <1>4, <2>1 DEF BufferNames, Fits
  <2>3. u \in Seq(EntriesOf(n)') /\ Len(u) = Len(buffers[n]) + 1 /\ u[Len(u)] = r
        /\ \A k \in 1 .. Len(buffers[n]) : u[k] = buffers[n][k]
    <3>1. PICK S : S = EntriesOf(n)'
      OBVIOUS
    <3> HIDE DEF r
    <3> QED BY <1>4, <1>6, <2>2, <3>1, AppendProperties
  <2>4. DOMAIN buffers' = BufferNames /\ \A m \in BufferNames : buffers'[m] = IF m = n THEN u ELSE buffers[m]
    <3> HIDE DEF u
    <3> QED BY <1>3, <2>1, <2>2 DEF BuffersOK
  <2> HIDE DEF u, r
  <2>5. Len(u) <= Room(n)
    BY <1>6, <2>2, <2>3, ControllerAssumption DEF Room
  <2>6. BuffersOK(buffers)'
    <3>1. \A m \in BufferNames : buffers'[m] \in Seq(EntriesOf(m)') /\ Len(buffers'[m]) <= Room(m)
      <4> TAKE m \in BufferNames
      <4>1. CASE m = n
        BY <2>2, <2>3, <2>4, <2>5, <4>1
      <4>2. CASE m # n
        BY <1>6, <2>4, <4>2
      <4> QED BY <4>1, <4>2
    <3> QED BY <2>4, <3>1 DEF BuffersOK, Room
  <2>7. CASE n # "pim"
    <3>1. buffers'.pim = t
      BY <2>4, <2>7 DEF BufferNames
    <3>2. \A i : ~Fences(i, sent + 1) /\ ~Fences(sent + 1, i)
      BY <1>4, <2>7 DEF Fences
    <3>3. \A i, j \in 1 .. sent' : Fences(i, j) => i \in 1 .. sent /\ j \in 1 .. sent
      <4> TAKE i, j \in 1 .. sent'
      <4>1. (i \in 1 .. sent \/ i = sent + 1) /\ (j \in 1 .. sent \/ j = sent + 1)
        BY <1>7
      <4> QED BY <3>2, <4>1
    <3>4. InOrder(buffers.pim)'
      BY <1>8, <1>9, <3>1, <3>3 DEF InOrder, Waiting
    <3> QED BY <2>6, <3>4
  <2>8. CASE n = "pim"
    <3>1. buffers'.pim = u /\ Len(u) = Len(t) + 1 /\ u[Len(u)].id = sent + 1 /\ Len(t) \in Nat
          /\ \A k \in 1 .. Len(t) : u[k] = t[k]
      BY <1>4, <1>6, <2>3, <2>4, <2>8 DEF BufferNames
    <3> HIDE DEF t
    <3>2. \A i, j \in 1 .. Len(u) : i < j => u[i].id < u[j].id
      <4> TAKE i, j \in 1 .. Len(u)
      <4> HAVE i < j
      <4>1. i \in 1 .. Len(t) /\ (j \in 1 .. Len(t) \/ j = Len(u))
        BY <3>1
      <4>2. u[i] = t[i] /\ t[i].id \in 1 .. sent
        BY <1>8, <3>1, <4>1
      <4>3. CASE j \in 1 .. Len(t)
        BY <1>8, <3>1, <4>1, <4>3
      <4>4. CASE j = Len(u)
        BY <1>7, <3>1, <4>2, <4>4
      <4> QED BY <4>1, <4>3, <4>4
    <3>3. Waiting(u, sent + 1)
      BY <3>1 DEF Waiting
    <3>4. \A i \in 1 .. sent : Waiting(u, i) <=> Waiting(t, i)
      <4> TAKE i \in 1 .. sent
      <4>1. \A k \in 1 .. Len(u) : k \in 1 .. Len(t) \/ k = Len(u)
        BY <3>1
      <4>2. i # sent + 1 /\ \A k \in 1 .. Len(t) : k \in 1 .. Len(u)
        BY <1>7, <3>1
      <4> QED BY <3>1, <4>1, <4>2 DEF Waiting
    <3>5. \A i, j \in 1 .. sent' : Fences(i, j) /\ Waiting(u, i) => Waiting(u, j)
      <4> TAKE i, j \in 1 .. sent'
      <4> HAVE Fences(i, j) /\ Waiting(u, i)
      <4>1. i \in 1 .. sent /\ (j \in 1 .. sent \/ j = sent + 1)
        BY <1>7 DEF Fences
      <4> QED BY <1>8, <3>3, <3>4, <4>1
    <3>6. InOrder(buffers.pim)'
      BY <1>9, <3>1, <3>2, <3>5 DEF InOrder, Waiting
    <3> QED BY <2>6, <3>6
  <2> QED BY <2>7, <2>8
<1> QED BY <1>10, <1>11

\* A refresh joins the priority buffer only when there is room for one of each
\* pseudochannel.
LEMMA RefreshKeepsBuffers ==
  ASSUME BuffersOK(buffers), RefreshDue => RefreshFits
  PROVE  BuffersOK(AfterRefresh) /\ AfterRefresh.pim = buffers.pim
<1>1. CASE ~RefreshDue
  <2>1. AfterRefresh = buffers
    BY <1>1 DEF AfterRefresh
  <2> QED BY <2>1
<1>2. CASE RefreshDue
  <2> DEFINE s == buffers.priority
             more == [p \in 1 .. PseudoChannels |-> Refresh(p - 1)]
             u == s \o more
  <2>1. AfterRefresh = [buffers EXCEPT !.priority = u]
    BY <1>2 DEF AfterRefresh
  <2>2. "priority" \in BufferNames /\ "pim" \in BufferNames /\ DOMAIN buffers = BufferNames
    BY DEF BuffersOK, BufferNames
  <2>3. s \in Seq(Refreshes) /\ Len(s) \in Nat
    <3>1. s \in Seq(EntriesOf("priority"))
      BY <2>2 DEF BuffersOK
    <3>2. s \in Seq(Refreshes)
      BY <3>1 DEF EntriesOf
    <3> QED BY <3>2, LenProperties
  <2>4. more \in Seq(Refreshes) /\ Len(more) = PseudoChannels /\ PseudoChannels \in Nat
    <3>1. PseudoChannels \in Nat
      BY DeviceAssumption
    <3>2. \A p \in 1 .. PseudoChannels : p - 1 \in 0 .. PseudoChannels - 1
      BY <3>1
    <3>3. \A p \in 1 .. PseudoChannels : Refresh(p - 1) \in Refreshes
      BY <3>2 DEF Refreshes
    <3>4. more \in [1 .. PseudoChannels -> Refreshes]
      BY <3>3
    <3> HIDE DEF more
    <3> QED BY <3>1, <3>4, FunctionSeq
  <2> HIDE DEF more, s
  <2>5. u \in Seq(Refreshes) /\ Len(u) = Len(s) + PseudoChannels
    BY <2>3, <2>4, ConcatProperties
  <2>6. Len(u) <= Room("priority")
    BY <1>2, <2>5 DEF RefreshFits, Room, s
  <2> HIDE DEF u
  <2>7. DOMAIN AfterRefresh = BufferNames
        /\ \A m \in BufferNames : AfterRefresh[m] = IF m = "priority" THEN u ELSE buffers[m]
    BY <2>1, <2>2
  <2>8. u \in Seq(EntriesOf("priority"))
    BY <2>5 DEF EntriesOf
  <2>9. BuffersOK(AfterRefresh)
    BY <2>6, <2>7, <2>8 DEF BuffersOK
  <2>10. AfterRefresh.pim = buffers.pim
    BY <2>2, <2>7
  <2> QED BY <2>9, <2>10
<1> QED BY <1>1, <1>2

\* The clock of the refreshes starts again when it runs out.
LEMMA ClockKeeps ==
  ASSUME ControlOK, Clock
  PROVE  due' \in 0 .. T.nREFI /\ (T.nREFI > 0 => due' > 0)
<1>1. T.nREFI \in Nat /\ due \in 0 .. T.nREFI /\ (T.nREFI > 0 => due > 0)
  BY Cycles DEF ControlOK
<1>2. due' = IF T.nREFI = 0 THEN due ELSE IF due = 1 THEN T.nREFI ELSE due - 1
  BY DEF Clock, RefreshDue
<1> QED BY ONLY <1>1, <1>2, SMT

\* A slot sends one command or none.
LEMMA ShortBus ==
  ASSUME NEW a, NEW b, a = <<>> \/ \E c : a = <<c>>, b = <<>> \/ \E c : b = <<c>>
  PROVE  Len(a \o b) <= 2
<1>1. PICK c : a = <<>> \/ a = <<c>>
  OBVIOUS
<1>2. PICK d : b = <<>> \/ b = <<d>>
  OBVIOUS
<1>3. /\ <<>> \in Seq({c, d}) /\ <<c>> \in Seq({c, d}) /\ <<d>> \in Seq({c, d})
      /\ Len(<<>>) = 0 /\ Len(<<c>>) = 1 /\ Len(<<d>>) = 1
  OBVIOUS
<1>4. a \in Seq({c, d}) /\ b \in Seq({c, d}) /\ Len(a) \in {0, 1} /\ Len(b) \in {0, 1}
  BY ONLY <1>1, <1>2, <1>3, Zenon
<1>5. Len(a \o b) = Len(a) + Len(b)
  BY ONLY <1>4, ConcatProperties
<1> DEFINE la == Len(a)
           lb == Len(b)
<1>6. la \in {0, 1} /\ lb \in {0, 1} /\ Len(a \o b) = la + lb
  BY <1>4, <1>5
<1> HIDE DEF la, lb
<1>7. la + lb <= 2
  BY ONLY <1>6
<1> QED BY <1>6, <1>7

\* What the two slots of a cycle leave is the next state.
LEMMA TickKeeps ==
  ASSUME IInv, Tick
  PROVE  IInv'
<1>1. ControlOK /\ ProgramOK /\ BuffersOK(buffers) /\ InOrder(buffers.pim)
      /\ RowsOK(rows) /\ BusyOK(busy) /\ ActsOK(acts)
  BY ProgramsOK DEF IInv, DeviceOK
<1>2. program' = program /\ sent' = sent /\ epoch' = sent /\ Clock
  BY DEF Tick
<1>3. due' \in 0 .. T.nREFI /\ (T.nREFI > 0 => due' > 0) /\ sent \in Nat
  BY <1>1, <1>2, ClockKeeps, LenProperties DEF ProgramOK
\* What is said of the requests and the rows depends on the program and how far it is.
<1>4. /\ \A q : BuffersOK(q)' <=> BuffersOK(q)
      /\ \A t : InOrder(t)' <=> InOrder(t)
      /\ \A rs : RowsOK(rs)' <=> RowsOK(rs)
  <2>1. \A n : EntriesOf(n)' = EntriesOf(n)
    BY <1>2 DEF EntriesOf, Refreshes, Refresh, Requests
  <2>2. \A q : BuffersOK(q)' <=> BuffersOK(q)
    BY <2>1 DEF BuffersOK, Room
  <2>3. \A t : InOrder(t)' <=> InOrder(t)
    BY <1>2 DEF InOrder, Fences, Waiting
  <2>4. \A rs : RowsOK(rs)' <=> RowsOK(rs)
    BY <1>2 DEF RowsOK, OrdinaryOnly
  <2> QED BY <2>2, <2>3, <2>4
<1>5. CASE RefreshDue /\ ~RefreshFits
  <2>1. thrown' = TRUE /\ buffers' = buffers /\ writeMode' = writeMode /\ isPim' = isPim /\ bus' = bus
        /\ rows' = rows /\ busy' = busy /\ acts' = acts
    BY <1>5 DEF Tick, deviceVars
  <2>2. ControlOK'
    BY <1>1, <1>2, <1>3, <2>1 DEF ControlOK
  <2>3. (RowsOK(rows) /\ BuffersOK(buffers) /\ InOrder(buffers.pim))'
    BY <1>1, <1>4, <2>1
  <2>4. DeviceOK'
    BY <1>1, <2>1, <2>3 DEF DeviceOK, BusyOK, ActsOK, AgesOK
  <2> QED BY <2>2, <2>3, <2>4 DEF IInv
<1>6. CASE ~(RefreshDue /\ ~RefreshFits)
  <2> DEFINE before == First(rows, Aged(busy), AgedActs(acts), AfterRefresh, writeMode, isPim)
  <2>0. PICK one \in {before} : \E type \in FirstTypes(one) : \E two \in {Second(one, type)} :
          /\ rows' = two.rows /\ busy' = two.busy /\ acts' = two.acts
          /\ buffers' = two.buffers
          /\ writeMode' = two.wm /\ isPim' = two.pim
          /\ bus' = one.bus \o two.bus
          /\ thrown' = FALSE
    BY <1>6 DEF Tick
  <2>1. PICK type, two :
          /\ two = Second(one, type)
          /\ rows' = two.rows /\ busy' = two.busy /\ acts' = two.acts
          /\ buffers' = two.buffers
          /\ writeMode' = two.wm /\ isPim' = two.pim
          /\ bus' = one.bus \o two.bus
          /\ thrown' = FALSE
    BY <2>0
  <2>2. BuffersOK(AfterRefresh) /\ InOrder(AfterRefresh.pim)
    BY <1>1, <1>6, RefreshKeepsBuffers
  <2>3. BusyOK(Aged(busy)) /\ ActsOK(AgedActs(acts))
    BY <1>1, AgedOK, AgedActsOK
  <2>4. SlotDone(one)
    <3>1. SlotDone(before)
      BY <1>1, <2>2, <2>3, FirstKeeps DEF ControlOK
    <3> HIDE DEF before
    <3> QED BY <2>1, <3>1
  <2>5. SlotDone(two)
    <3> HIDE DEF before
    <3> QED BY <1>1, <2>1, <2>4, SecondKeeps
  <2> HIDE DEF before
  <2>6. Len(bus') <= 2
    <3>1. one.bus = <<>> \/ \E c : one.bus = <<c>>
      BY <2>4 DEF SlotDone, DoneOK
    <3>2. two.bus = <<>> \/ \E c : two.bus = <<c>>
      BY <2>5 DEF SlotDone, DoneOK
    <3>3. bus' = one.bus \o two.bus
      BY <2>1
    <3> QED BY <3>1, <3>2, <3>3, ShortBus
  <2>7. /\ BuffersOK(two.buffers) /\ BusyOK(two.busy) /\ ActsOK(two.acts) /\ RowsOK(two.rows)
        /\ two.wm \in BOOLEAN /\ two.pim \in BOOLEAN /\ InOrder(two.buffers.pim)
    BY <2>5 DEF SlotDone, DoneOK
  <2>8. ControlOK'
    <3>1. sent \in 0 .. Len(program) /\ sent \in 0 .. sent
      BY <1>1, <1>3 DEF ControlOK
    <3> QED BY <1>1, <1>2, <1>3, <2>1, <2>6, <2>7, <3>1 DEF ControlOK
  <2>9. (RowsOK(rows) /\ BuffersOK(buffers) /\ InOrder(buffers.pim))'
    BY <1>4, <2>1, <2>7
  <2>10. DeviceOK'
    BY <2>1, <2>7, <2>9 DEF DeviceOK, BusyOK, ActsOK, AgesOK
  <2> QED BY <2>8, <2>9, <2>10 DEF IInv
<1> QED BY <1>5, <1>6

LEMMA NextKeeps == IInv /\ [Next]_vars => IInv'
<1> SUFFICES ASSUME IInv, [Next]_vars PROVE IInv'
  OBVIOUS
<1>1. CASE Send
  <2>1. /\ program' = program /\ sent' = sent + 1 /\ sent < Len(program) /\ epoch' = epoch
        /\ writeMode' = writeMode /\ isPim' = isPim /\ due' = due /\ thrown' = thrown /\ bus' = bus
        /\ rows' = rows /\ busy' = busy /\ acts' = acts
    BY <1>1 DEF Send, Accepts, deviceVars
  <2>2. ControlOK'
    <3>1. Len(program) \in Nat /\ sent \in 0 .. Len(program) /\ epoch \in 0 .. sent
      BY ProgramsOK, LenProperties DEF IInv, ControlOK, ProgramOK
    <3>2. sent' \in 0 .. Len(program) /\ epoch \in 0 .. sent'
      BY <2>1, <3>1
    <3> QED BY <2>1, <3>2 DEF IInv, ControlOK
  <2>3. DeviceOK'
    BY <2>1 DEF IInv, DeviceOK, RowsOK, OrdinaryOnly, BusyOK, ActsOK, AgesOK
  <2> QED BY <1>1, <2>2, <2>3, SendKeepsBuffers DEF IInv
<1>2. CASE Tick
  BY <1>2, TickKeeps
<1>3. CASE UNCHANGED vars
  BY <1>3 DEF vars, ctrlVars, deviceVars, IInv, ControlOK, DeviceOK, RowsOK, OrdinaryOnly, BusyOK,
              ActsOK, AgesOK, BuffersOK, EntriesOf, Refreshes, Refresh, Requests, Room, InOrder,
              Fences, Waiting
<1> QED BY <1>1, <1>2, <1>3 DEF Next

LEMMA Inductive == Spec => []IInv
BY InitOK, NextKeeps, PTL DEF Spec

-----------------------------------------------------------------------------
(* What it shows. *)

\* Buffers never hold more than one request above their sizes, a cycle sends at most
\* two commands, and the clocks of the refresh manager and the device stay in range
\* (send, priority_send, tick).
THEOREM TypeCorrect == Spec => []TypeOK
<1>1. IInv => TypeOK
  <2> SUFFICES ASSUME IInv PROVE TypeOK
    OBVIOUS
  <2>1. \A n \in BufferNames : Len(buffers[n]) <= (IF n = "priority" THEN PrioritySize ELSE MaxSize) + 1
    BY DEF IInv, BuffersOK, Room
  <2>2. \A k \in DOMAIN busy : busy[k] > 0
    BY DEF IInv, DeviceOK, BusyOK
  <2> QED BY <2>1, <2>2 DEF IInv, ControlOK, TypeOK
<1> QED BY <1>1, Inductive, PTL

\* However the two slots of a cycle, the refreshes and the closing of rows fall, a
\* program of reads and writes opens a row only in a closed bank
\* (RequireRowOpen, update_states).
THEOREM OneRow == Spec => []OneRowOpen
<1>1. IInv => OneRowOpen
  <2> SUFFICES ASSUME IInv, \A i \in DOMAIN program : program[i].type \in {"Read", "Write"},
                      NEW b \in BankNodes
               PROVE  Cardinality(rows[b]) <= 1
    BY DEF OneRowOpen
  <2>1. rows[b] = {} \/ \E x : rows[b] = {x}
    BY DEF IInv, DeviceOK, RowsOK, OrdinaryOnly, Ordinary
  <2>2. CASE rows[b] = {}
    BY <2>2, FS_EmptySet
  <2>3. CASE \E x : rows[b] = {x}
    <3>1. PICK x : rows[b] = {x}
      BY <2>3
    <3>2. Cardinality({x}) = 1
      BY FS_Singleton
    <3> QED BY <3>1, <3>2
  <2> QED BY <2>1, <2>2, <2>3
<1> QED BY <1>1, Inductive, PTL

\* No PIM request is served before an older one with a barrier between them, whatever
\* the buffers hold and whichever request is the readiest (get_best_request).
THEOREM BarriersHold == Spec => []PimInOrder
<1>1. IInv => PimInOrder
  <2> SUFFICES ASSUME IInv, NEW j \in ServedIds, Service!Pim(j), NEW i \in Service!Before(j)
               PROVE  i \in ServedIds
    BY DEF PimInOrder
  <2>1. sent \in Nat /\ j \in 1 .. sent /\ i \in 1 .. j /\ i \in 1 .. sent
    <3>1. sent \in Nat /\ j \in 1 .. sent
      BY ProgramsOK, LenProperties DEF IInv, ProgramOK, ServedIds
    <3>2. i \in 1 .. j
      BY DEF Service!Before
    <3> QED BY <3>1, <3>2
  <2>2. Fences(i, j)
    BY DEF Service!Before, Service!MustPrecede, Service!Pim, Service!Barrier, Fences, Ordinary
  <2>3. ASSUME NEW r \in Held, program[r.id].type \notin Ordinary
        PROVE  \E k \in 1 .. Len(buffers.pim) : r = buffers.pim[k]
    <3>1. PICK n \in BufferNames \ {"priority"} : r \in ToSet(buffers[n])
      BY DEF Held
    <3>2. buffers[n] \in Seq(EntriesOf(n))
      BY DEF IInv, BuffersOK
    <3>3. PICK k \in 1 .. Len(buffers[n]) : r = buffers[n][k]
      BY <3>1, <3>2, LenProperties DEF ToSet
    <3>4. r \in EntriesOf(n)
      BY <3>2, <3>3, ElementOfSeq
    <3>5. n = "pim"
      BY <2>3, <3>1, <3>4 DEF EntriesOf, Requests
    <3> QED BY <3>3, <3>5
  <2>4. SUFFICES ASSUME i \notin ServedIds PROVE FALSE
    OBVIOUS
  <2>5. PICK r \in Held : r.id = i
    BY <2>1, <2>4 DEF ServedIds
  <2>6. Waiting(buffers.pim, i)
    BY <2>2, <2>3, <2>5 DEF Waiting, Fences
  <2>7. PICK k \in 1 .. Len(buffers.pim) : buffers.pim[k].id = j
    BY <2>1, <2>2, <2>6 DEF IInv, InOrder, Waiting
  <2>8. buffers.pim[k] \in Held
    <3>1. buffers.pim \in Seq(EntriesOf("pim")) /\ "pim" \in BufferNames \ {"priority"}
      BY DEF IInv, BuffersOK, BufferNames
    <3>2. buffers.pim[k] \in ToSet(buffers.pim)
      BY <3>1, LenProperties DEF ToSet
    <3> QED BY <3>1, <3>2 DEF Held
  <2> QED BY <2>7, <2>8 DEF ServedIds
<1> QED BY <1>1, Inductive, PTL

-----------------------------------------------------------------------------
(* No request is lost. *)

\* The requests that are waiting, as Held counts them, and those a slot takes away.
HeldIn(q) == UNION {ToSet(q[n]) : n \in BufferNames \ {"priority"}}
Lost(q, o) == {r \in HeldIn(q) \ HeldIn(o.buffers) : r.type # "PIM_BARRIER"}
Served(r) == [cmd |-> FinalCommand(r.type), addr |-> r.addr]
\* A slot takes away one request at most, and sends its command.
Accounts(q, o) ==
  /\ \A r, x \in Lost(q, o) : r = x
  /\ \A r \in Lost(q, o) : o.bus = <<Served(r)>>

LEMMA HeldPlace ==
  ASSUME NEW q, BuffersOK(q), NEW r
  PROVE  r \in HeldIn(q) <=>
           \E n \in BufferNames \ {"priority"} : \E k \in 1 .. Len(q[n]) : r = q[n][k]
<1>1. \A n \in BufferNames : DOMAIN q[n] = 1 .. Len(q[n])
  BY LenProperties DEF BuffersOK
<1> QED BY <1>1 DEF HeldIn, ToSet

\* A barrier that falls takes no other request with it.
LEMMA FallKeepsRequests ==
  ASSUME NEW q, BuffersOK(q), NEW r \in HeldIn(q), r.type # "PIM_BARRIER"
  PROVE  r \in HeldIn(Passed(q))
<1>1. PICK n \in BufferNames \ {"priority"}, k \in Nat : k \in 1 .. Len(q[n]) /\ r = q[n][k]
  <2>1. \A n \in BufferNames : \A k \in 1 .. Len(q[n]) : k \in Nat
    BY LenProperties DEF BuffersOK
  <2> QED BY <2>1, HeldPlace
<1>2. BuffersOK(Passed(q)) /\ Passed(q).pim = PassBarrier(q.pim)
      /\ \A m \in BufferNames \ {"pim"} : Passed(q)[m] = q[m]
  BY PassedOK
<1>3. CASE n # "pim"
  BY <1>1, <1>2, <1>3, HeldPlace
<1>4. CASE n = "pim"
  <2> DEFINE t == q.pim
             u == PassBarrier(t)
  <2>1. t \in Seq(EntriesOf("pim")) /\ Len(t) \in Nat
    BY <1>1, <1>4, LenProperties DEF BuffersOK
  <2>2. \/ u = t
        \/ t[1].type = "PIM_BARRIER" /\ Len(u) = Len(t) - 1 /\ \A i \in 1 .. Len(t) - 1 : u[i] = t[i + 1]
    BY <2>1, PassProperties
  <2> HIDE DEF t, u
  <2>3. k \in 1 .. Len(t) /\ r = t[k]
    BY <1>1, <1>4 DEF t
  <2>4. \E i \in 1 .. Len(u) : r = u[i]
    <3>1. CASE u = t
      BY <2>3, <3>1
    <3>2. CASE u # t
      <4>1. k - 1 \in 1 .. Len(t) - 1 /\ (k - 1) + 1 = k
        <5>1. k # 1
          BY <2>2, <2>3, <3>2
        <5> QED BY <2>1, <2>3, <5>1
      <4>2. u[k - 1] = t[k] /\ k - 1 \in 1 .. Len(u)
        BY <2>2, <3>2, <4>1
      <4> QED BY <2>3, <4>2
    <3> QED BY <3>1, <3>2
  <2>5. "pim" \in BufferNames \ {"priority"} /\ Passed(q)["pim"] = u
    BY <1>2 DEF BufferNames, u, t
  <2> QED BY <1>2, <2>4, <2>5, HeldPlace
<1> QED BY <1>3, <1>4

\* Removing one request from a buffer keeps every other.
LEMMA RemovalKeepsRequests ==
  ASSUME NEW q, BuffersOK(q), NEW n \in BufferNames, NEW at \in 1 .. Len(q[n]),
         NEW r \in HeldIn(q), r # q[n][at]
  PROVE  \E m \in BufferNames \ {"priority"} :
           r \in ToSet(IF m = n THEN RemoveAt(q[n], at) ELSE q[m])
<1> DEFINE t == q[n]
           u == RemoveAt(t, at)
<1>1. PICK m \in BufferNames \ {"priority"} : r \in ToSet(q[m])
  BY DEF HeldIn
<1>2. CASE m # n
  BY <1>1, <1>2
<1>3. CASE m = n
  <2>1. t \in Seq(EntriesOf(n)) /\ Len(t) \in Nat
    BY LenProperties DEF BuffersOK
  <2>2. /\ u \in Seq(EntriesOf(n)) /\ Len(u) = Len(t) - 1
        /\ \A i \in 1 .. Len(t) - 1 : u[i] = IF i < at THEN t[i] ELSE t[i + 1]
    BY <2>1, RemoveAtProperties
  <2>3. at \in 1 .. Len(t) /\ r # t[at]
    OBVIOUS
  <2>4. PICK k \in 1 .. Len(t) : r = t[k]
    BY <1>1, <1>3, <2>1, LenProperties DEF ToSet
  <2> HIDE DEF t, u
  <2>5. \E i \in 1 .. Len(u) : r = u[i]
    <3>1. CASE k < at
      <4>1. k \in 1 .. Len(u) /\ u[k] = t[k]
        BY <2>1, <2>2, <2>3, <3>1
      <4> QED BY <2>4, <4>1
    <3>2. CASE k > at
      <4>1. k - 1 \in 1 .. Len(t) - 1 /\ ~(k - 1 < at) /\ (k - 1) + 1 = k
        BY <2>1, <2>3, <3>2
      <4>2. k - 1 \in 1 .. Len(u) /\ u[k - 1] = t[k]
        BY <2>2, <4>1
      <4> QED BY <2>4, <4>2
    <3>3. k # at /\ (k # at => k < at \/ k > at)
      BY <2>1, <2>3, <2>4
    <3> QED BY <3>1, <3>2, <3>3
  <2>6. r \in ToSet(u)
    BY <2>2, <2>5, LenProperties DEF ToSet
  <2> QED BY <1>1, <1>3, <2>6 DEF u, t
<1> QED BY <1>2, <1>3

\* What a slot takes away has just had its own command, as long as a request that
\* opens its row finds room in the active buffer.
LEMMA SlotLoses ==
  ASSUME NEW rs, NEW bz, NEW as, NEW q, BuffersOK(q), NEW allowed,
         NEW s, SlotOK(s, q, rs, allowed), Len(q.active) <= MaxSize, NEW o, o = Issue(rs, bz, as, s)
  PROVE  Accounts(q, o)
<1> DEFINE last == Picked(s)
<1> SUFFICES ASSUME NEW r \in Lost(q, o) PROVE r = last /\ o.bus = <<Served(r)>>
  <2> HIDE DEF last
  <2> QED BY DEF Accounts
<1> DEFINE b == o.buffers
           n == s.from
           left == [s.q EXCEPT ![n] = RemoveAt(@, s.at)]
<1>1. r \in HeldIn(q) /\ r.type # "PIM_BARRIER" /\ r \notin HeldIn(b)
  BY DEF Lost
<1>2. r \in HeldIn(s.q) /\ BuffersOK(s.q)
  BY <1>1, FallKeepsRequests, PassedOK DEF SlotOK
<1>3. s.found
  <2> SUFFICES ASSUME ~s.found PROVE FALSE
    OBVIOUS
  <2>1. b = s.q
    BY DEF Issue
  <2> HIDE DEF b
  <2> QED BY <1>1, <1>2, <2>1
<1>4. b = AfterIssue(s) /\ o.bus = <<[cmd |-> s.cmd, addr |-> Picked(s).addr]>>
  BY <1>3 DEF Issue
<1>5. n \in BufferNames /\ s.at \in 1 .. Len(s.q[n]) /\ Picked(s) = s.q[n][s.at]
  BY <1>3, PickedEntry
<1>6. DOMAIN left = BufferNames
      /\ \A m \in BufferNames : left[m] = IF m = n THEN RemoveAt(s.q[n], s.at) ELSE s.q[m]
  BY <1>2, <1>5 DEF BuffersOK
<1> HIDE DEF b, left
\* Any other request is still in its buffer.
<1>7. r # Picked(s) => \E m \in BufferNames \ {"priority"} : r \in ToSet(left[m])
  <2> SUFFICES ASSUME r # Picked(s)
               PROVE  \E m \in BufferNames \ {"priority"} : r \in ToSet(left[m])
    OBVIOUS
  <2>1. r # s.q[n][s.at]
    BY <1>5
  <2>2. PICK m \in BufferNames \ {"priority"} :
          r \in ToSet(IF m = n THEN RemoveAt(s.q[n], s.at) ELSE s.q[m])
    BY <1>2, <1>5, <2>1, RemovalKeepsRequests
  <2> QED BY <1>6, <2>2
<1>8. CASE Final(s)
  <2>1. b = left
    BY <1>4, <1>8 DEF AfterIssue, left
  <2>2. r = Picked(s)
    BY <1>1, <1>7, <2>1 DEF HeldIn
  <2>3. s.cmd = FinalCommand(r.type)
    BY <1>8, <2>2 DEF Final
  <2> QED BY <1>4, <2>2, <2>3 DEF Served
<1>9. CASE ~Final(s) /\ ~Moves(s)
  <2>1. b = s.q
    BY <1>4, <1>9 DEF AfterIssue
  <2> QED BY <1>1, <1>2, <2>1
<1>10. CASE ~Final(s) /\ Moves(s)
  <2>1. s.q.active = q.active /\ "active" \in BufferNames \ {"priority"}
    BY PassedOK DEF SlotOK, BufferNames
  <2>2. b = [left EXCEPT !.active = Append(@, Picked(s))]
    <3>1. Len(s.q.active) <= MaxSize
      BY <2>1
    <3> QED BY <1>4, <1>10, <3>1, Zenon DEF AfterIssue, left
  <2>3. left.active \in Seq(EntriesOf("active")) /\ Picked(s) \in EntriesOf("active")
    <3>1. Picked(s) \in EntriesOf("active")
      BY <1>3, <1>10, MovesOrdinary
    <3>2. s.q[n] \in Seq(EntriesOf(n)) /\ s.q.active \in Seq(EntriesOf("active"))
      BY <1>2, <1>5, <2>1 DEF BuffersOK
    <3>3. RemoveAt(s.q[n], s.at) \in Seq(EntriesOf(n))
      BY <1>5, <3>2, RemoveAtProperties
    <3> QED BY <1>6, <2>1, <3>1, <3>2, <3>3
  <2> DEFINE a == left.active
             c == Append(a, Picked(s))
  <2> HIDE DEF a
  <2>4. ToSet(a) \cup {Picked(s)} \subseteq ToSet(c)
    <3>1. a \in Seq(EntriesOf("active")) /\ Len(a) \in Nat
      BY <2>3, LenProperties DEF a
    <3>2. /\ c \in Seq(EntriesOf("active")) /\ Len(c) = Len(a) + 1
          /\ \A i \in 1 .. Len(a) : c[i] = a[i]
          /\ c[Len(a) + 1] = Picked(s)
      BY <2>3, <3>1, AppendProperties
    <3>3. DOMAIN a = 1 .. Len(a) /\ DOMAIN c = 1 .. Len(a) + 1
      BY <3>1, <3>2, LenProperties
    <3> HIDE DEF c
    <3> QED BY <3>1, <3>2, <3>3 DEF ToSet
  <2> HIDE DEF c
  <2>5. \A m \in BufferNames : b[m] = IF m = "active" THEN c ELSE left[m]
    BY <1>6, <2>1, <2>2 DEF a, c
  <2>6. \A m \in BufferNames : ToSet(left[m]) \subseteq ToSet(b[m])
    BY <2>4, <2>5 DEF a
  <2>7. Picked(s) \in ToSet(b["active"])
    BY <2>1, <2>4, <2>5
  <2>8. r \in HeldIn(b)
    BY <1>7, <2>1, <2>6, <2>7 DEF HeldIn
  <2> QED BY <1>1, <2>8
<1> QED BY <1>8, <1>9, <1>10

\* A slot fills at most one place of the active buffer.
LEMMA SlotAdds ==
  ASSUME NEW rs, NEW bz, NEW as, NEW q, BuffersOK(q), NEW allowed,
         NEW s, SlotOK(s, q, rs, allowed)
  PROVE  Len(Issue(rs, bz, as, s).buffers.active) <= Len(q.active) + 1
<1> DEFINE b == Issue(rs, bz, as, s).buffers
           n == s.from
           left == [s.q EXCEPT ![n] = RemoveAt(@, s.at)]
           a == left.active
           old == Len(q.active)
<1>1. "active" \in BufferNames /\ s.q.active = q.active /\ BuffersOK(s.q)
  BY PassedOK DEF SlotOK, BufferNames
<1>2. q.active \in Seq(EntriesOf("active")) /\ old \in Nat
  BY <1>1, LenProperties DEF BuffersOK
<1>3. CASE ~s.found
  <2>1. b = s.q
    BY <1>3 DEF Issue
  <2> HIDE DEF b
  <2>2. Len(b.active) = old
    BY <1>1, <2>1
  <2> HIDE DEF old
  <2>3. Len(b.active) <= old + 1
    BY <1>2, <2>2
  <2> QED BY <2>3 DEF b, old
<1>4. CASE s.found
  <2>1. b = AfterIssue(s)
    BY <1>4 DEF Issue
  <2>2. n \in BufferNames /\ s.at \in 1 .. Len(s.q[n])
    BY <1>4, PickedEntry
  <2>3. a = IF n = "active" THEN RemoveAt(q.active, s.at) ELSE q.active
    BY <1>1, <2>2 DEF BuffersOK
  <2>4. a \in Seq(EntriesOf("active")) /\ Len(a) \in Nat /\ Len(a) <= old
    <3>1. CASE n = "active"
      <4>1. s.at \in 1 .. Len(q.active) /\ a = RemoveAt(q.active, s.at)
        BY <1>1, <2>2, <2>3, <3>1
      <4> HIDE DEF a
      <4>2. a \in Seq(EntriesOf("active")) /\ Len(a) = old - 1
        BY <1>2, <4>1, RemoveAtProperties
      <4> HIDE DEF old
      <4>3. Len(a) \in Nat
        BY <4>2, LenProperties
      <4> QED BY <1>2, <4>2, <4>3
    <3>2. CASE n # "active"
      <4>1. a = q.active
        BY <2>3, <3>2
      <4> HIDE DEF a
      <4> QED BY <1>2, <4>1
    <3> QED BY <3>1, <3>2
  <2>5. DOMAIN left = BufferNames
    BY <1>1 DEF BuffersOK
  <2>6. b.active = s.q.active \/ b.active = a \/ (b.active = Append(a, Picked(s)) /\ Moves(s))
    <3> DEFINE more == [left EXCEPT !.active = Append(@, Picked(s))]
               moves == Moves(s)
    <3>1. b = left \/ b = s.q \/ (b = more /\ moves)
      <4>1. AfterIssue(s) = IF Final(s) THEN left
                            ELSE IF ~moves THEN s.q
                            ELSE IF Len(s.q.active) <= MaxSize THEN more ELSE left
        BY DEF AfterIssue
      <4> HIDE DEF b, left, more, moves
      <4> QED BY <2>1, <4>1
    <3> HIDE DEF b, left
    <3> QED BY <1>1, <2>5, <3>1 DEF a
  <2>7. Moves(s) => Len(Append(a, Picked(s))) = Len(a) + 1
    <3> SUFFICES ASSUME Moves(s) PROVE Len(Append(a, Picked(s))) = Len(a) + 1
      OBVIOUS
    <3>1. Picked(s) \in EntriesOf("active")
      BY <1>4, MovesOrdinary
    <3> HIDE DEF a
    <3> QED BY <2>4, <3>1, AppendProperties
  <2> DEFINE now == b.active
             la == Len(a)
  <2>8. Len(now) = old \/ Len(now) = la \/ Len(now) = la + 1
    <3> HIDE DEF b, a
    <3> QED BY <1>1, <2>6, <2>7
  <2>9. la \in Nat /\ la <= old
    BY <2>4
  <2> HIDE DEF now, la, old
  <2>10. Len(now) <= old + 1
    BY <1>2, <2>8, <2>9
  <2> QED BY <2>10 DEF now, old
<1> QED BY <1>3, <1>4

\* A slot leaves its account, and may fill one place of the active buffer.
LEMMA SlotAccounts ==
  ASSUME NEW rs, NEW bz, NEW as, NEW q, BuffersOK(q), NEW wm \in BOOLEAN, NEW pim \in BOOLEAN,
         Len(q.active) <= MaxSize, NEW allowed,
         NEW o, o = Issue(rs, bz, as, Schedule(rs, bz, q, wm, pim, allowed))
  PROVE  Len(o.buffers.active) <= Len(q.active) + 1 /\ Accounts(q, o)
<1> DEFINE s == Schedule(rs, bz, q, wm, pim, allowed)
<1>1. SlotOK(s, q, rs, allowed)
  BY ScheduleOK
<1>2. o = Issue(rs, bz, as, s)
  OBVIOUS
<1> HIDE DEF s
<1>3. Len(o.buffers.active) <= Len(q.active) + 1
  BY <1>1, <1>2, SlotAdds
<1>4. Accounts(q, o)
  BY <1>1, <1>2, SlotLoses
<1> QED BY <1>3, <1>4

LEMMA FirstAccounts ==
  ASSUME NEW rs, NEW bz, NEW as, NEW q, BuffersOK(q), NEW wm \in BOOLEAN, NEW pim \in BOOLEAN,
         Len(q.active) <= MaxSize, NEW o, o = First(rs, bz, as, q, wm, pim)
  PROVE  Len(o.buffers.active) <= Len(q.active) + 1 /\ Accounts(q, o)
<1>1. o = Issue(rs, bz, as, Schedule(rs, bz, q, wm, pim, Commands))
  BY DEF First
<1> QED BY <1>1, SlotAccounts

LEMMA SecondAccounts ==
  ASSUME NEW one, BuffersOK(one.buffers), one.wm \in BOOLEAN, one.pim \in BOOLEAN,
         Len(one.buffers.active) <= MaxSize, NEW type, NEW o, o = Second(one, type)
  PROVE  Accounts(one.buffers, o)
<1> DEFINE allowed == {cmd \in Commands : Beside(type, cmd)}
<1>1. o = Issue(one.rows, one.busy, one.acts,
                Schedule(one.rows, one.busy, one.buffers, one.wm, one.pim, allowed))
  BY DEF Second
<1> HIDE DEF allowed
<1> QED BY <1>1, SlotAccounts

\* The place on the bus of what a slot sends.
LEMMA BusPlaces ==
  ASSUME NEW a, NEW b, a = <<>> \/ \E c : a = <<c>>, b = <<>> \/ \E c : b = <<c>>,
         NEW u, u = a \o b, NEW last, last = Len(a) + 1
  PROVE  /\ \A c : a = <<c>> => 1 \in DOMAIN u /\ u[1] = c
         /\ \A d : b = <<d>> => last \in DOMAIN u /\ u[last] = d /\ (a # <<>> => last # 1)
<1>1. PICK x : a = <<>> \/ a = <<x>>
  OBVIOUS
<1>2. PICK y : b = <<>> \/ b = <<y>>
  OBVIOUS
<1>3. /\ <<>> \in Seq({x, y}) /\ <<x>> \in Seq({x, y}) /\ <<y>> \in Seq({x, y})
      /\ Len(<<>>) = 0 /\ Len(<<x>>) = 1 /\ Len(<<y>>) = 1
  OBVIOUS
<1>4. a \in Seq({x, y}) /\ b \in Seq({x, y}) /\ Len(a) \in {0, 1} /\ Len(b) \in {0, 1}
  BY ONLY <1>1, <1>2, <1>3, Zenon
<1> DEFINE la == Len(a)
           lb == Len(b)
<1>5. /\ u \in Seq({x, y}) /\ Len(u) = la + lb
      /\ \A i \in 1 .. la + lb : u[i] = IF i <= la THEN a[i] ELSE b[i - la]
  <2>1. u = a \o b
    OBVIOUS
  <2> QED BY ONLY <1>4, <2>1, ConcatProperties
<1>6. DOMAIN u = 1 .. la + lb
  BY <1>5, LenProperties
<1>7. la \in {0, 1} /\ lb \in {0, 1} /\ (a # <<>> => la = 1)
  BY <1>1, <1>3, <1>4
<1>8. last = la + 1
  OBVIOUS
<1> HIDE DEF la, lb
<1>9. ASSUME NEW c, a = <<c>> PROVE 1 \in DOMAIN u /\ u[1] = c
  <2>1. a[1] = c /\ la = 1
    BY <1>9 DEF la
  <2> QED BY <1>5, <1>6, <1>7, <2>1
<1>10. ASSUME NEW d, b = <<d>> PROVE la + 1 \in DOMAIN u /\ u[la + 1] = d
  <2>1. b[1] = d /\ lb = 1
    BY <1>10 DEF lb
  <2>2. la + 1 \in 1 .. la + lb /\ ~(la + 1 <= la) /\ (la + 1) - la = 1
    BY <1>7, <2>1
  <2> QED BY <1>5, <1>6, <2>1, <2>2
<1>11. a # <<>> => la + 1 # 1
  BY <1>7
<1> QED BY <1>8, <1>9, <1>10, <1>11

\* Whatever a cycle takes out of the buffers has its own place on the bus.
LEMMA TickLosesNone ==
  ASSUME IInv, Tick, Len(buffers.active) < MaxSize
  PROVE  NoneLost
<1>1. ControlOK /\ BuffersOK(buffers) /\ InOrder(buffers.pim)
      /\ RowsOK(rows) /\ BusyOK(busy) /\ ActsOK(acts) /\ ProgramOK
  BY ProgramsOK DEF IInv, DeviceOK
<1>2. Held = HeldIn(buffers) /\ Held' = HeldIn(buffers')
  BY DEF Held, HeldIn
<1>3. CASE RefreshDue /\ ~RefreshFits
  <2>1. buffers' = buffers
    BY <1>3 DEF Tick
  <2> QED BY <1>2, <2>1 DEF NoneLost
<1>4. CASE ~(RefreshDue /\ ~RefreshFits)
  <2> DEFINE q == AfterRefresh
             before == First(rows, Aged(busy), AgedActs(acts), q, writeMode, isPim)
  <2>1. PICK one \in {before} : \E type \in FirstTypes(one) : \E two \in {Second(one, type)} :
          buffers' = two.buffers /\ bus' = one.bus \o two.bus
    BY <1>4 DEF Tick
  <2>2. PICK type, two : two = Second(one, type) /\ buffers' = two.buffers /\ bus' = one.bus \o two.bus
    BY <2>1
  <2>3. /\ BuffersOK(q) /\ InOrder(q.pim) /\ HeldIn(q) = HeldIn(buffers)
        /\ q.active = buffers.active
    <3>1. BuffersOK(q) /\ InOrder(q.pim)
      BY <1>1, <1>4, RefreshKeepsBuffers
    <3>2. \A n \in BufferNames \ {"priority"} : q[n] = buffers[n]
      BY <1>1 DEF AfterRefresh, BuffersOK
    <3> HIDE DEF q
    <3> QED BY <3>1, <3>2 DEF HeldIn, BufferNames
  <2>4. Len(q.active) \in Nat /\ Len(q.active) < MaxSize /\ MaxSize \in Nat
    BY <2>3, LenProperties, ControllerAssumption DEF BuffersOK, BufferNames
  <2>5. BusyOK(Aged(busy)) /\ ActsOK(AgedActs(acts)) /\ writeMode \in BOOLEAN /\ isPim \in BOOLEAN
    BY <1>1, AgedOK, AgedActsOK DEF ControlOK
  <2> HIDE DEF q
  <2>6. SlotDone(before)
    BY <1>1, <2>3, <2>5, FirstKeeps
  <2>7. Len(before.buffers.active) <= Len(q.active) + 1
        /\ Accounts(q, before)
    BY <2>3, <2>4, <2>5, FirstAccounts
  <2>8. one = before
    BY <2>1
  <2> HIDE DEF before
  <2>9. Accounts(q, one)
    BY <2>7, <2>8
  <2>10. /\ BuffersOK(one.buffers) /\ one.wm \in BOOLEAN /\ one.pim \in BOOLEAN /\ SlotDone(one)
         /\ one.bus = <<>> \/ \E c : one.bus = <<c>>
    BY <2>6, <2>8 DEF SlotDone, DoneOK
  <2>11. Len(one.buffers.active) <= MaxSize
    <3>1. Len(one.buffers.active) \in Nat
      BY <2>10, LenProperties DEF BuffersOK, BufferNames
    <3> QED BY <2>4, <2>7, <2>8, <3>1
  <2>12. Accounts(one.buffers, two)
    BY <2>2, <2>10, <2>11, SecondAccounts
  <2>13. two.bus = <<>> \/ \E c : two.bus = <<c>>
    <3>1. SlotDone(two)
      BY <1>1, <2>2, <2>10, SecondKeeps
    <3> QED BY <3>1 DEF SlotDone, DoneOK
  <2> DEFINE left == {r \in Held \ Held' : r.type # "PIM_BARRIER"}
             for(r) == {i \in DOMAIN bus' : bus'[i].cmd = FinalCommand(r.type) /\ bus'[i].addr = r.addr}
             last == Len(one.bus) + 1
  <2>14. \A r \in left : r \in Lost(q, one) \/ r \in Lost(one.buffers, two)
    BY <1>2, <2>2, <2>3 DEF Lost
  <2>15. /\ \A c : one.bus = <<c>> => 1 \in DOMAIN bus' /\ bus'[1] = c
         /\ \A d : two.bus = <<d>> => /\ last \in DOMAIN bus' /\ bus'[last] = d
                                      /\ (one.bus # <<>> => last # 1)
    <3>1. last = Len(one.bus) + 1 /\ bus' = one.bus \o two.bus
      BY <2>2
    <3> DEFINE a == one.bus
               b == two.bus
               u == bus'
    <3>2. (a = <<>> \/ \E c : a = <<c>>) /\ (b = <<>> \/ \E c : b = <<c>>) /\ u = a \o b /\ last = Len(a) + 1
      BY <2>10, <2>13, <3>1
    <3> HIDE DEF last, a, b, u
    <3>3. /\ \A c : a = <<c>> => 1 \in DOMAIN u /\ u[1] = c
          /\ \A d : b = <<d>> => last \in DOMAIN u /\ u[last] = d /\ (a # <<>> => last # 1)
      BY <3>2, BusPlaces
    <3> QED BY <3>3 DEF a, b, u
  <2>16. \A r : Served(r).cmd = FinalCommand(r.type) /\ Served(r).addr = r.addr
    BY DEF Served
  <2> HIDE DEF last
  <2>17. \A r \in Lost(q, one) : 1 \in for(r) /\ one.bus # <<>>
    <3> TAKE r \in Lost(q, one)
    <3>1. one.bus = <<Served(r)>>
      BY <2>9 DEF Accounts
    <3>2. 1 \in DOMAIN bus' /\ bus'[1] = Served(r) /\ one.bus # <<>>
      BY <2>15, <3>1
    <3> QED BY <2>16, <3>2
  <2>18. \A r \in Lost(one.buffers, two) : last \in for(r) /\ (one.bus # <<>> => last # 1)
    <3> TAKE r \in Lost(one.buffers, two)
    <3>1. two.bus = <<Served(r)>>
      BY <2>12 DEF Accounts
    <3>2. last \in DOMAIN bus' /\ bus'[last] = Served(r) /\ (one.bus # <<>> => last # 1)
      BY <2>15, <3>1
    <3> QED BY <2>16, <3>2
  <2>19. NoneLost <=> /\ \A r \in left : for(r) # {}
                      /\ \A r \in left, s \in left : r # s => \E i \in for(r), j \in for(s) : i # j
    BY DEF NoneLost
  <2> HIDE DEF left, for
  <2>20. \A r \in left : for(r) # {}
    BY <2>14, <2>17, <2>18
  <2>21. ASSUME NEW r \in left, NEW s \in left, r # s
         PROVE  \E i \in for(r), j \in for(s) : i # j
    <3>1. ~(r \in Lost(q, one) /\ s \in Lost(q, one))
      BY <2>9, <2>21 DEF Accounts
    <3>2. ~(r \in Lost(one.buffers, two) /\ s \in Lost(one.buffers, two))
      BY <2>12, <2>21 DEF Accounts
    <3>3. \/ r \in Lost(q, one) /\ s \in Lost(one.buffers, two)
          \/ r \in Lost(one.buffers, two) /\ s \in Lost(q, one)
      BY <2>14, <2>21, <3>1, <3>2
    <3> QED BY <2>17, <2>18, <3>3
  <2> QED BY <2>19, <2>20, <2>21
<1> QED BY <1>3, <1>4

\* A cycle that starts with room in the active buffer for a request of each slot takes
\* a request out of the buffers only by its own command (send, tick).
LEMMA RoomySteps == Spec => [][Len(buffers.active) < MaxSize => NoneLost]_vars
<1>1. ASSUME IInv, [Next]_vars, Len(buffers.active) < MaxSize
      PROVE  NoneLost \/ UNCHANGED vars
  <2>1. CASE Send
    <3>1. \A n \in BufferNames : ToSet(buffers[n]) \subseteq ToSet(buffers[n])'
      <4>1. CASE buffers' = buffers
        BY <4>1
      <4>2. CASE buffers' # buffers
        <5>1. PICK m, r : buffers' = [buffers EXCEPT ![m] = Append(@, r)]
          BY <2>1, <4>2 DEF Send
        <5> SUFFICES ASSUME NEW n \in BufferNames PROVE ToSet(buffers[n]) \subseteq ToSet(buffers[n])'
          OBVIOUS
        <5>2. DOMAIN buffers = BufferNames /\ buffers[n] \in Seq(EntriesOf(n))
          BY <1>1 DEF IInv, BuffersOK
        <5>3. buffers'[n] = buffers[n] \/ buffers'[n] = Append(buffers[n], r)
          BY <5>1, <5>2
        <5> DEFINE s == buffers[n]
                   t == Append(s, r)
        <5>4. ToSet(s) \subseteq ToSet(t)
          <6>1. s \in Seq(EntriesOf(n) \cup {r}) /\ r \in EntriesOf(n) \cup {r}
            BY <5>2, SeqRetype
          <6>2. Len(s) \in Nat /\ DOMAIN s = 1 .. Len(s)
            BY <5>2, LenProperties
          <6> HIDE DEF s
          <6>3. t \in Seq(EntriesOf(n) \cup {r}) /\ Len(t) = Len(s) + 1 /\ \A i \in 1 .. Len(s) : t[i] = s[i]
            BY <6>1, AppendProperties
          <6>4. DOMAIN t = 1 .. Len(s) + 1
            BY <6>3, LenProperties
          <6> HIDE DEF t
          <6> QED BY <6>2, <6>3, <6>4 DEF ToSet
        <5> QED BY <5>3, <5>4
      <4> QED BY <4>1, <4>2
    <3>2. Held \subseteq Held'
      BY <3>1 DEF Held
    <3> QED BY <3>2 DEF NoneLost
  <2>2. CASE Tick
    BY <1>1, <2>2, TickLosesNone
  <2>3. CASE UNCHANGED vars
    BY <2>3
  <2> QED BY <1>1, <2>1, <2>2, <2>3 DEF Next
<1>2. IInv /\ [Next]_vars => [Len(buffers.active) < MaxSize => NoneLost]_vars
  BY <1>1
<1> QED BY <1>2, Inductive, PTL DEF Spec

\* A request leaves the buffers only by its own command going out, once, as long as the
\* active buffer has that room: schedule_request does not look at what
\* m_active_buffer.enqueue returns, and a request that finds no room there is gone.
THEOREM RequestsServed == Spec /\ [](Len(buffers.active) < MaxSize) => EveryRequestServed
BY RoomySteps, PTL DEF EveryRequestServed

-----------------------------------------------------------------------------
(* MemService, what the controller promises, by itself. *)
VARIABLES accepted, served, returned
Abstract == INSTANCE MemService

\* Only accepted requests are served and only served reads return (send,
\* serve_completed_reads).
THEOREM ServiceTypeCorrect == Abstract!Spec => []Abstract!ServiceTypeOK
<1>1. Abstract!Init => Abstract!ServiceTypeOK
  BY DEF Abstract!Init, Abstract!ServiceTypeOK
<1>2. Abstract!ServiceTypeOK /\ [Abstract!Next]_Abstract!serviceVars => Abstract!ServiceTypeOK'
  <2> SUFFICES ASSUME Abstract!ServiceTypeOK, [Abstract!Next]_Abstract!serviceVars
               PROVE  Abstract!ServiceTypeOK'
    OBVIOUS
  <2>1. CASE Abstract!Accept
    <3>1. accepted' = accepted + 1 /\ program' = program /\ returned' = returned
      BY <2>1 DEF Abstract!Accept
    <3>2. 1 .. accepted \subseteq 1 .. accepted' /\ accepted' \in 1 .. accepted' /\ accepted' \in Nat
      BY <3>1 DEF Abstract!ServiceTypeOK
    <3>3. served' \subseteq served \cup {accepted'} /\ served \subseteq served'
      BY <2>1, <3>1 DEF Abstract!Accept
    <3> QED BY <3>1, <3>2, <3>3 DEF Abstract!ServiceTypeOK
  <2>2. CASE Abstract!Work
    BY <2>2 DEF Abstract!Work, Abstract!ServiceTypeOK
  <2>3. CASE UNCHANGED Abstract!serviceVars
    BY <2>3 DEF Abstract!serviceVars, Abstract!ServiceTypeOK
  <2> QED BY <2>1, <2>2, <2>3 DEF Abstract!Next
<1> QED BY <1>1, <1>2, PTL DEF Abstract!Spec

\* A read that is answered from a write precedes nothing and nothing precedes it.
LEMMA ReadsAreFree ==
  ASSUME NEW j, program[j].type = "Read"
  PROVE  Abstract!Before(j) = {}
  BY DEF Abstract!Before, Abstract!MustPrecede, Abstract!Pim

\* No request is served before one that must precede it: none overtakes a barrier, no
\* write an older one of its address (get_best_request).
THEOREM ServedInOrder == Abstract!Spec => []Abstract!Ordered
<1>1. Abstract!Init => Abstract!Ordered
  BY DEF Abstract!Init, Abstract!Ordered
<1>2. Abstract!Ordered /\ [Abstract!Next]_Abstract!serviceVars => Abstract!Ordered'
  <2> SUFFICES ASSUME Abstract!Ordered, [Abstract!Next]_Abstract!serviceVars
               PROVE  Abstract!Ordered'
    OBVIOUS
  <2>1. program' = program
    BY DEF Abstract!Next, Abstract!Accept, Abstract!Work, Abstract!serviceVars
  <2>2. ASSUME NEW j PROVE Abstract!Before(j)' = Abstract!Before(j)
    BY <2>1 DEF Abstract!Before, Abstract!MustPrecede, Abstract!Pim, Abstract!Barrier
  <2>3. CASE Abstract!Accept
    <3>1. CASE served' = served
      BY <2>2, <3>1 DEF Abstract!Ordered
    <3>2. CASE Abstract!Answerable(accepted + 1) /\ served' = served \cup {accepted + 1}
      <4>1. Abstract!Before(accepted + 1) = {}
        BY <3>2, ReadsAreFree DEF Abstract!Answerable
      <4> QED BY <2>2, <3>2, <4>1 DEF Abstract!Ordered
    <3> QED BY <2>3, <3>1, <3>2 DEF Abstract!Accept
  <2>4. CASE Abstract!Work
    <3>1. PICK S \in SUBSET ((1 .. accepted) \ served) :
            /\ \A j \in S : Abstract!Before(j) \subseteq served \cup S
            /\ served' = served \cup S
      BY <2>4 DEF Abstract!Work
    <3> QED BY <2>2, <3>1 DEF Abstract!Ordered
  <2>5. CASE UNCHANGED Abstract!serviceVars
    BY <2>2, <2>5 DEF Abstract!serviceVars, Abstract!Ordered
  <2> QED BY <2>3, <2>4, <2>5 DEF Abstract!Next
<1> QED BY <1>1, <1>2, PTL DEF Abstract!Spec
=============================================================================
