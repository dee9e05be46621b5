-------------------------- MODULE DramTimingProofs --------------------------
(***************************************************************************)
(* For every number of ranks and banks and every value of the timings that    *)
(* TimingAssumption allows: the type invariant of DramTiming, and that the      *)
(* controller's shadow stays conservative, so that no rank ever rejects a       *)
(* command.  The lemmas speak of one bank; the theorem puts banks together.      *)
(***************************************************************************)
EXTENDS DramTiming, TLAPS

\* Later is the maximum: a natural, at least as large as both of its arguments.
LEMMA LaterType == ASSUME NEW m \in Nat, NEW n \in Nat
                   PROVE  Later(m, n) \in Nat /\ Later(m, n) >= m /\ Later(m, n) >= n
  BY DEF Later

\* Ageing takes at most one off a count and leaves a natural.
LEMMA AgeType == ASSUME NEW n \in Nat PROVE Age(n) \in Nat /\ Age(n) <= n /\ n <= Age(n) + 1
  BY DEF Age

\* A burst lasts a natural number of cycles.
LEMMA BurstType == Burst \in Nat
  BY TimingAssumption DEF TimingAssumption, Burst

\* The delays of Configuration are naturals: none of its unsigned subtractions wraps;
\* and the shorter write-to-read delay is the shorter.
LEMMA DelayTypes ==
  /\ READ_TO_PRE_DELAY \in Nat /\ WRITE_TO_PRE_DELAY \in Nat
  /\ READ_TO_WRITE_DELAY \in Nat
  /\ WRITE_TO_READ_DELAY_B_LONG \in Nat /\ WRITE_TO_READ_DELAY_B_SHORT \in Nat
  /\ WRITE_TO_READ_DELAY_R \in Nat
  /\ WRITE_TO_READ_DELAY_B_SHORT <= WRITE_TO_READ_DELAY_B_LONG
  /\ tRCDRD - AL \in Nat /\ tRCDWR - AL \in Nat
  BY TimingAssumption, BurstType
  DEF TimingAssumption, READ_TO_PRE_DELAY, WRITE_TO_PRE_DELAY, READ_TO_WRITE_DELAY,
      WRITE_TO_READ_DELAY_B_LONG, WRITE_TO_READ_DELAY_B_SHORT, WRITE_TO_READ_DELAY_R, Later

\* So are the gaps between columns and between activates.
LEMMA GapTypes == ASSUME NEW i \in Banks, NEW j \in Banks
                  PROVE  ColumnGap(i, j) \in Nat /\ ActivateGap(i, j) \in Nat
  BY TimingAssumption, BurstType DEF TimingAssumption, ColumnGap, ActivateGap, Later

-----------------------------------------------------------------------------
(* Types of one bank. *)

\* A clock step keeps a bank's type.
LEMMA AgeBankType == ASSUME NEW x \in BankStateType PROVE AgeBank(x) \in BankStateType
  BY AgeType DEF AgeBank, BankStateType

\* So does updateBankState, which counts down only what is not yet 0.
LEMMA SettleBankType == ASSUME NEW x \in BankStateType PROVE SettleBank(x) \in BankStateType
<1>1. CASE x.cd = 0
  BY <1>1 DEF SettleBank
<1>2. CASE x.cd # 0
  <2>1. x.cd - 1 \in Nat /\ x.cd \in Nat
    BY <1>2 DEF BankStateType
  <2>2. ASSUME NEW s \in {"Idle", "RowActive", "Precharging", "Refreshing"}
        PROVE  [x EXCEPT !.cd = x.cd - 1, !.st = s] \in BankStateType
    BY <2>1 DEF BankStateType
  <2>3. x.st \in {"Idle", "RowActive", "Precharging", "Refreshing"}
    BY DEF BankStateType
  <2> QED BY <1>2, <2>2, <2>3 DEF SettleBank
<1> QED BY <1>1, <1>2

\* So does setBankStatesRW.
LEMMA ColumnDelaysType ==
  ASSUME NEW x \in BankStateType, NEW rd \in Nat, NEW wr \in Nat
  PROVE  ColumnDelays(x, rd, wr) \in BankStateType
  BY LaterType DEF ColumnDelays, BankStateType

\* So does updateCommandQueue, for any command.
LEMMA McBankType ==
  ASSUME NEW x \in BankStateType, NEW c \in Commands, NEW i \in Ranks, NEW j \in Banks
  PROVE  McBank(x, c, i, j) \in BankStateType
<1>1. c.op \in Ops /\ c.bank \in Banks /\ c.row \in Nat
  BY DEF Commands
<1>2. CASE c.op = "READ"
  <2> DEFINE far == ColumnDelays(x, Burst + tRTRS, READ_TO_WRITE_DELAY)
             y == ColumnDelays(x, ColumnGap(j, c.bank), READ_TO_WRITE_DELAY)
  <2>0. Burst + tRTRS \in Nat /\ ColumnGap(j, c.bank) \in Nat
    BY <1>1, GapTypes, BurstType, TimingAssumption DEF TimingAssumption
  <2>1. far \in BankStateType /\ y \in BankStateType
    BY <2>0, ColumnDelaysType, DelayTypes
  <2> HIDE DEF far, y
  <2>2. [y EXCEPT !.nPre = Later(@, READ_TO_PRE_DELAY), !.last = "READ"] \in BankStateType
    BY <2>1, DelayTypes, LaterType DEF BankStateType, Ops
  <2>3. McRead(x, c, i, j) \in BankStateType
    BY <2>1, <2>2 DEF McRead, far, y
  <2> QED BY <1>2, <2>3 DEF McBank
<1>3. CASE c.op = "WRITE"
  <2> DEFINE far == ColumnDelays(x, WRITE_TO_READ_DELAY_R, Burst + tRTRS)
             y == ColumnDelays(x, WRITE_TO_READ_DELAY_B_LONG, ColumnGap(j, c.bank))
  <2>0. Burst + tRTRS \in Nat /\ ColumnGap(j, c.bank) \in Nat
    BY <1>1, GapTypes, BurstType, TimingAssumption DEF TimingAssumption
  <2>1. far \in BankStateType /\ y \in BankStateType
    BY <2>0, ColumnDelaysType, DelayTypes
  <2> HIDE DEF far, y
  <2>2. [y EXCEPT !.nPre = Later(@, WRITE_TO_PRE_DELAY), !.last = "WRITE"] \in BankStateType
    BY <2>1, DelayTypes, LaterType DEF BankStateType, Ops
  <2>3. McWrite(x, c, i, j) \in BankStateType
    BY <2>1, <2>2 DEF McWrite, far, y
  <2> QED BY <1>3, <2>3 DEF McBank
<1>4. CASE c.op = "ACTIVATE"
  <2> DEFINE y == ColumnDelays(x, tRCDRD - AL, tRCDWR - AL)
  <2>1. y \in BankStateType
    BY ColumnDelaysType, DelayTypes
  <2> HIDE DEF y
  <2>2. [y EXCEPT !.st = "RowActive", !.row = c.row, !.last = "ACTIVATE",
                  !.nAct = Later(@, tRC), !.nPre = Later(@, tRAS)] \in BankStateType
    BY <1>1, <2>1, LaterType, TimingAssumption DEF BankStateType, Ops, TimingAssumption
  <2>3. [x EXCEPT !.nAct = Later(@, ActivateGap(j, c.bank))] \in BankStateType
    BY <1>1, GapTypes, LaterType DEF BankStateType
  <2>4. McActivate(x, c, i, j) \in BankStateType
    BY <2>2, <2>3 DEF McActivate, y
  <2> QED BY <1>4, <2>4 DEF McBank
<1>5. CASE c.op = "PRECHARGE"
  <2>1. McPrecharge(x, c, i, j) \in BankStateType
    BY LaterType, TimingAssumption DEF McPrecharge, BankStateType, Ops, TimingAssumption
  <2> QED BY <1>5, <2>1 DEF McBank
<1>6. CASE c.op = "REF"
  <2>1. McRefresh(x, c, i) \in BankStateType
    BY TimingAssumption DEF McRefresh, BankStateType, Ops, TimingAssumption
  <2> QED BY <1>6, <2>1 DEF McBank
<1> QED BY <1>1, <1>2, <1>3, <1>4, <1>5, <1>6 DEF Ops

\* So does Rank::updateState, for any command.
LEMMA RankBankType ==
  ASSUME NEW x \in BankStateType, NEW c \in Commands, NEW j \in Banks, NEW mode
  PROVE  RankBank(mode, x, c, j) \in BankStateType
<1>1. c.op \in Ops /\ c.row \in Nat
  BY DEF Commands
<1> DEFINE target == IF mode = "SB" THEN j = c.bank ELSE j % 2 = c.bank
           group == mode # "SB" \/ SameBankgroup(j, c.bank)
<1> HIDE DEF target, group
<1>2. RankRead(x, target, group) \in BankStateType
  BY DelayTypes, LaterType, BurstType, TimingAssumption
  DEF RankRead, BankStateType, TimingAssumption
<1>3. RankWrite(x, target, group) \in BankStateType
  BY DelayTypes, LaterType, BurstType, TimingAssumption
  DEF RankWrite, BankStateType, TimingAssumption
<1>4. RankActivate(x, c, target, group) \in BankStateType
  BY <1>1, DelayTypes, LaterType, TimingAssumption
  DEF RankActivate, BankStateType, TimingAssumption
<1>5. RankPrecharge(x, target) \in BankStateType
  BY LaterType, TimingAssumption DEF RankPrecharge, BankStateType, TimingAssumption
<1>6. [x EXCEPT !.nAct = tRFC] \in BankStateType
  BY TimingAssumption DEF BankStateType, TimingAssumption
<1> QED BY <1>1, <1>2, <1>3, <1>4, <1>5, <1>6 DEF RankBank, target, group, Ops

-----------------------------------------------------------------------------
(* How one count moves on the two sides: m is the shadow's, x the rank's, and   *)
(* the command travels while both age by a cycle.                               *)

\* Both counts age.
LEMMA LagAge == ASSUME NEW m \in Nat, NEW x \in Nat, x <= m + 1
                PROVE  Age(x) <= Age(m) + 1
  BY DEF Age

\* Both age, the shadow's is also raised.
LEMMA LagKeep == ASSUME NEW m \in Nat, NEW x \in Nat, NEW e \in Nat, x <= m + 1
                 PROVE  Age(x) <= Age(Later(m, e)) + 1
  BY DEF Age, Later

\* The rank overwrites its count by a delay no longer than the one the shadow is raised by.
LEMMA LagSet == ASSUME NEW m \in Nat, NEW d \in Nat, NEW e \in Nat, d <= e
                PROVE  d <= Age(Later(m, e)) + 1
  BY DEF Age, Later

\* Both are raised, the rank's a cycle later, by a delay no longer than the shadow's.
LEMMA LagLater == ASSUME NEW m \in Nat, NEW x \in Nat, NEW d \in Nat, NEW e \in Nat,
                         x <= m + 1, d <= e
                  PROVE  Later(Age(x), d) <= Age(Later(m, e)) + 1
  BY DEF Age, Later

-----------------------------------------------------------------------------
(* One bank: each of the controller's commands keeps the shadow fitting.        *)

\* What an issued command c says of bank j of rank i, whose shadow is m.
Aimed(m, c, i, j) ==
  /\ c \in Commands
  /\ c.op = "REF" => c.row = 0 /\ (i = c.rank => m.st # "RowActive")
  /\ i = c.rank /\ j = c.bank /\ c.op = "PRECHARGE" => m.st = "RowActive" /\ c.row = m.row
  /\ i = c.rank /\ j = c.bank /\ c.op = "ACTIVATE" => m.st # "RowActive"

\* A clock step touches the four counts and nothing else.
LEMMA AgedFields ==
  ASSUME NEW x \in BankStateType
  PROVE  /\ AgeBank(x).st = x.st /\ AgeBank(x).row = x.row /\ AgeBank(x).last = x.last
         /\ AgeBank(x).nRd = Age(x.nRd) /\ AgeBank(x).nWr = Age(x.nWr)
         /\ AgeBank(x).nAct = Age(x.nAct) /\ AgeBank(x).nPre = Age(x.nPre)
  BY DEF AgeBank, BankStateType

\* A clock step on both sides keeps the rank at most a cycle behind.
LEMMA AgeLags ==
  ASSUME NEW m \in BankStateType, NEW x \in BankStateType, Lags(m, x)
  PROVE  Lags(AgeBank(m), AgeBank(x))
<1>1. /\ m.nRd \in Nat /\ m.nWr \in Nat /\ m.nAct \in Nat /\ m.nPre \in Nat
      /\ x.nRd \in Nat /\ x.nWr \in Nat /\ x.nAct \in Nat /\ x.nPre \in Nat
  BY DEF BankStateType
<1> QED BY <1>1, AgedFields, LagAge DEF Lags

\* A shadow that grows is only more careful.
LEMMA LagsGrow ==
  ASSUME NEW m \in BankStateType, NEW n \in BankStateType, NEW x \in BankStateType,
         Lags(m, x),
         m.nRd <= n.nRd, m.nWr <= n.nWr, m.nAct <= n.nAct, m.nPre <= n.nPre
  PROVE  Lags(n, x)
<1>1. /\ m.nRd \in Nat /\ m.nWr \in Nat /\ m.nAct \in Nat /\ m.nPre \in Nat
      /\ n.nRd \in Nat /\ n.nWr \in Nat /\ n.nAct \in Nat /\ n.nPre \in Nat
      /\ x.nRd \in Nat /\ x.nWr \in Nat /\ x.nAct \in Nat /\ x.nPre \in Nat
  BY DEF BankStateType
<1> QED BY <1>1 DEF Lags

\* What recording a command does to the shadow's counts: they only grow, save
\* for the overwrite of a refresh.
LEMMA McGrows ==
  ASSUME NEW m \in BankStateType, NEW c \in Commands, NEW i \in Ranks, NEW j \in Banks,
         c.op # "REF" \/ i # c.rank
  PROVE  LET n == McBank(m, c, i, j) IN
         m.nRd <= n.nRd /\ m.nWr <= n.nWr /\ m.nAct <= n.nAct /\ m.nPre <= n.nPre
<1>1. /\ m.nRd \in Nat /\ m.nWr \in Nat /\ m.nAct \in Nat /\ m.nPre \in Nat
      /\ c.op \in Ops /\ c.bank \in Banks
  BY DEF BankStateType, Commands
<1>2. /\ ColumnGap(j, c.bank) \in Nat /\ ActivateGap(j, c.bank) \in Nat
      /\ Burst + tRTRS \in Nat /\ tRC \in Nat /\ tRAS \in Nat /\ tRP \in Nat
  BY <1>1, GapTypes, BurstType, TimingAssumption DEF TimingAssumption
<1>3. CASE c.op = "READ"
  BY <1>1, <1>2, <1>3, DelayTypes, LaterType DEF McBank, McRead, ColumnDelays, BankStateType
<1>4. CASE c.op = "WRITE"
  BY <1>1, <1>2, <1>4, DelayTypes, LaterType DEF McBank, McWrite, ColumnDelays, BankStateType
<1>5. CASE c.op = "ACTIVATE"
  BY <1>1, <1>2, <1>5, DelayTypes, LaterType DEF McBank, McActivate, ColumnDelays, BankStateType
<1>6. CASE c.op = "PRECHARGE"
  BY <1>1, <1>2, <1>6, LaterType DEF McBank, McPrecharge, BankStateType
<1>7. CASE c.op = "REF"
  BY <1>1, <1>7 DEF McBank, McRefresh, BankStateType
<1> QED BY <1>1, <1>3, <1>4, <1>5, <1>6, <1>7 DEF Ops

\* The rank records a command on counts one cycle older than the shadow's, by
\* delays that are no longer than the shadow's.
LEMMA RecordedLags ==
  ASSUME NEW m \in BankStateType, NEW x \in BankStateType, NEW c \in Commands,
         NEW j \in Banks, Lags(m, x)
  PROVE  Lags(AgeBank(McBank(m, c, c.rank, j)), RankBank("SB", AgeBank(x), c, j))
<1> DEFINE n == McBank(m, c, c.rank, j)
           z == RankBank("SB", AgeBank(x), c, j)
<1>1. c.op \in Ops /\ c.bank \in Banks /\ c.rank \in Ranks
  BY DEF Commands
<1>2. n \in BankStateType /\ z \in BankStateType
  BY <1>1, McBankType, AgeBankType, RankBankType
<1>3. /\ m.nRd \in Nat /\ m.nWr \in Nat /\ m.nAct \in Nat /\ m.nPre \in Nat
      /\ x.nRd \in Nat /\ x.nWr \in Nat /\ x.nAct \in Nat /\ x.nPre \in Nat
      /\ x.nRd <= m.nRd + 1 /\ x.nWr <= m.nWr + 1
      /\ x.nAct <= m.nAct + 1 /\ x.nPre <= m.nPre + 1
  BY DEF BankStateType, Lags
<1>4. /\ ColumnGap(j, c.bank) \in Nat /\ ActivateGap(j, c.bank) \in Nat
      /\ tRC \in Nat /\ tRAS \in Nat /\ tRP \in Nat /\ tRFC \in Nat
  BY <1>1, GapTypes, TimingAssumption DEF TimingAssumption
<1>5. SUFFICES /\ z.nRd <= Age(n.nRd) + 1 /\ z.nWr <= Age(n.nWr) + 1
               /\ z.nAct <= Age(n.nAct) + 1 /\ z.nPre <= Age(n.nPre) + 1
  BY <1>2, AgedFields DEF Lags
<1>6. CASE c.op = "READ"
  <2>1. /\ n.nRd = Later(m.nRd, ColumnGap(j, c.bank))
        /\ n.nWr = Later(m.nWr, READ_TO_WRITE_DELAY)
        /\ n.nAct = m.nAct
        /\ n.nPre = IF j = c.bank THEN Later(m.nPre, READ_TO_PRE_DELAY) ELSE m.nPre
    BY <1>6 DEF McBank, McRead, ColumnDelays, BankStateType
  <2>2. /\ z.nRd = Later(Age(x.nRd), ColumnGap(j, c.bank))
        /\ z.nWr = Later(Age(x.nWr), READ_TO_WRITE_DELAY)
        /\ z.nAct = Age(x.nAct)
        /\ z.nPre = IF j = c.bank THEN Later(Age(x.nPre), READ_TO_PRE_DELAY) ELSE Age(x.nPre)
    BY <1>6 DEF RankBank, RankRead, AgeBank, BankStateType, ColumnGap
  <2>3. /\ Later(Age(x.nPre), READ_TO_PRE_DELAY) <= Age(Later(m.nPre, READ_TO_PRE_DELAY)) + 1
        /\ Age(x.nPre) <= Age(m.nPre) + 1 /\ Age(x.nAct) <= Age(m.nAct) + 1
        /\ Later(Age(x.nWr), READ_TO_WRITE_DELAY) <= Age(Later(m.nWr, READ_TO_WRITE_DELAY)) + 1
    <3>1. Later(Age(x.nPre), READ_TO_PRE_DELAY) <= Age(Later(m.nPre, READ_TO_PRE_DELAY)) + 1
      BY <1>3, DelayTypes, LagLater
    <3>2. Age(x.nPre) <= Age(m.nPre) + 1 /\ Age(x.nAct) <= Age(m.nAct) + 1
      BY <1>3, LagAge
    <3>3. Later(Age(x.nWr), READ_TO_WRITE_DELAY) <= Age(Later(m.nWr, READ_TO_WRITE_DELAY)) + 1
      BY <1>3, DelayTypes, LagLater
    <3> QED BY ONLY <3>1, <3>2, <3>3
  <2>4. Later(Age(x.nRd), ColumnGap(j, c.bank)) <= Age(Later(m.nRd, ColumnGap(j, c.bank))) + 1
    BY <1>3, <1>4, LagLater
  <2> HIDE DEF n, z
  <2> QED BY <2>1, <2>2, <2>3, <2>4
<1>7. CASE c.op = "WRITE"
  <2> DEFINE short == IF SameBankgroup(j, c.bank) THEN WRITE_TO_READ_DELAY_B_LONG
                                                 ELSE WRITE_TO_READ_DELAY_B_SHORT
  <2>1. /\ n.nRd = Later(m.nRd, WRITE_TO_READ_DELAY_B_LONG)
        /\ n.nWr = Later(m.nWr, ColumnGap(j, c.bank))
        /\ n.nAct = m.nAct
        /\ n.nPre = IF j = c.bank THEN Later(m.nPre, WRITE_TO_PRE_DELAY) ELSE m.nPre
    BY <1>7 DEF McBank, McWrite, ColumnDelays, BankStateType
  <2>2. /\ z.nRd = Later(Age(x.nRd), short)
        /\ z.nWr = Later(Age(x.nWr), ColumnGap(j, c.bank))
        /\ z.nAct = Age(x.nAct)
        /\ z.nPre = IF j = c.bank THEN Later(Age(x.nPre), WRITE_TO_PRE_DELAY) ELSE Age(x.nPre)
    BY <1>7 DEF RankBank, RankWrite, AgeBank, BankStateType, ColumnGap
  <2>3. /\ short \in Nat /\ short <= WRITE_TO_READ_DELAY_B_LONG
        /\ WRITE_TO_READ_DELAY_B_LONG \in Nat
    BY DelayTypes
  <2>4. /\ Later(Age(x.nPre), WRITE_TO_PRE_DELAY) <= Age(Later(m.nPre, WRITE_TO_PRE_DELAY)) + 1
        /\ Age(x.nPre) <= Age(m.nPre) + 1 /\ Age(x.nAct) <= Age(m.nAct) + 1
    BY <1>3, DelayTypes, LagAge, LagLater
  <2> HIDE DEF short
  <2>5. Later(Age(x.nRd), short) <= Age(Later(m.nRd, WRITE_TO_READ_DELAY_B_LONG)) + 1
    BY <1>3, <2>3, LagLater
  <2>6. Later(Age(x.nWr), ColumnGap(j, c.bank)) <= Age(Later(m.nWr, ColumnGap(j, c.bank))) + 1
    BY <1>3, <1>4, LagLater
  <2> HIDE DEF n, z
  <2> QED BY <2>1, <2>2, <2>4, <2>5, <2>6
<1>8. CASE c.op = "ACTIVATE"
  <2>1. CASE j = c.bank
    <3>1. /\ n.nRd = Later(m.nRd, tRCDRD - AL) /\ n.nWr = Later(m.nWr, tRCDWR - AL)
          /\ n.nAct = Later(m.nAct, tRC) /\ n.nPre = Later(m.nPre, tRAS)
      BY <1>8, <2>1 DEF McBank, McActivate, ColumnDelays, BankStateType
    <3>2. /\ z.nRd = tRCDRD - AL /\ z.nWr = tRCDWR - AL
          /\ z.nAct = tRC /\ z.nPre = tRAS
      BY <1>8, <2>1 DEF RankBank, RankActivate, AgeBank, BankStateType
    <3> HIDE DEF n, z
    <3> QED BY <1>3, <1>4, <3>1, <3>2, DelayTypes, LagSet
  <2>2. CASE j # c.bank
    <3>1. /\ n.nRd = m.nRd /\ n.nWr = m.nWr /\ n.nPre = m.nPre
          /\ n.nAct = Later(m.nAct, ActivateGap(j, c.bank))
      BY <1>8, <2>2 DEF McBank, McActivate, BankStateType
    <3>2. /\ z.nRd = Age(x.nRd) /\ z.nWr = Age(x.nWr) /\ z.nPre = Age(x.nPre)
          /\ z.nAct = Later(Age(x.nAct), ActivateGap(j, c.bank))
      BY <1>8, <2>2 DEF RankBank, RankActivate, AgeBank, BankStateType, ActivateGap
    <3> HIDE DEF n, z
    <3>3. ActivateGap(j, c.bank) \in Nat
      BY <1>4
    <3>4. Age(x.nRd) <= Age(m.nRd) + 1 /\ Age(x.nWr) <= Age(m.nWr) + 1 /\ Age(x.nPre) <= Age(m.nPre) + 1
      BY <1>3, LagAge
    <3>5. Later(Age(x.nAct), ActivateGap(j, c.bank)) <= Age(Later(m.nAct, ActivateGap(j, c.bank))) + 1
      BY <1>3, <3>3, LagLater
    <3> QED BY ONLY <3>1, <3>2, <3>4, <3>5
  <2> QED BY <2>1, <2>2
<1>9. CASE c.op = "PRECHARGE"
  <2>1. /\ n.nRd = m.nRd /\ n.nWr = m.nWr /\ n.nPre = m.nPre
        /\ n.nAct = IF j = c.bank THEN Later(m.nAct, tRP) ELSE m.nAct
    BY <1>9 DEF McBank, McPrecharge, BankStateType
  <2>2. /\ z.nRd = Age(x.nRd) /\ z.nWr = Age(x.nWr) /\ z.nPre = Age(x.nPre)
        /\ z.nAct = IF j = c.bank THEN Later(Age(x.nAct), tRP) ELSE Age(x.nAct)
    BY <1>9 DEF RankBank, RankPrecharge, AgeBank, BankStateType
  <2>3. /\ Later(Age(x.nAct), tRP) <= Age(Later(m.nAct, tRP)) + 1
        /\ Age(x.nAct) <= Age(m.nAct) + 1
    BY <1>3, <1>4, LagAge, LagLater
  <2> HIDE DEF n, z
  <2>4. z.nAct <= Age(n.nAct) + 1
    BY <2>1, <2>2, <2>3
  <2> QED BY <1>3, <2>1, <2>2, <2>4, LagAge
<1>10. CASE c.op = "REF"
  <2>1. n.nRd = m.nRd /\ n.nWr = m.nWr /\ n.nPre = m.nPre /\ n.nAct = tRFC
    BY <1>10 DEF McBank, McRefresh, BankStateType
  <2>2. z.nRd = Age(x.nRd) /\ z.nWr = Age(x.nWr) /\ z.nPre = Age(x.nPre) /\ z.nAct = tRFC
    BY <1>10 DEF RankBank, AgeBank, BankStateType
  <2>3. tRFC <= Age(tRFC) + 1
    BY <1>4, AgeType
  <2> HIDE DEF n, z
  <2> QED BY <1>3, <1>4, <2>1, <2>2, <2>3, LagAge
<1> QED BY <1>1, <1>6, <1>7, <1>8, <1>9, <1>10 DEF Ops

\* The open row on the two sides: a precharge carries the row it closes, so a
\* reserved row, open only in the shadow, is closed only there.
LEMMA RecordedAgrees ==
  ASSUME NEW m \in BankStateType, NEW x \in BankStateType, NEW i \in Ranks, NEW j \in Banks,
         NEW c, Agree(m, x), Aimed(m, c, i, j)
  PROVE  Agree(AgeBank(McBank(m, c, i, j)), AfterCommand(AgeBank(x), c, i, j))
<1> DEFINE n == McBank(m, c, i, j)
           z == AfterCommand(AgeBank(x), c, i, j)
<1>1. c \in Commands /\ c.op \in Ops /\ c.bank \in Banks
  BY DEF Aimed, Commands
<1>2. n \in BankStateType /\ AgeBank(x) \in BankStateType
  BY <1>1, McBankType, AgeBankType
<1>3. SUFFICES Agree(n, z)
  BY <1>2, AgedFields DEF Agree
<1>4. c # NoCmd
  BY <1>1 DEF NoCmd, Ops
<1>5. ~IsReservedRA(0)
  BY DEF IsReservedRA
<1>6. AgeBank(x).st = x.st /\ AgeBank(x).row = x.row
  BY AgedFields
<1>7. CASE c.op \in {"READ", "WRITE"}
  <2>1. n.st = m.st /\ n.row = m.row /\ n.last \in {m.last, "READ", "WRITE"}
    BY <1>7 DEF McBank, McRead, McWrite, ColumnDelays, BankStateType
  <2>2. z.st = x.st /\ z.row = x.row
    BY <1>6, <1>7 DEF AfterCommand, RankBank, RankRead, RankWrite, AgeBank, BankStateType
  <2> HIDE DEF n, z
  <2> QED BY <2>1, <2>2 DEF Agree
<1>8. CASE c.op = "ACTIVATE"
  <2>1. CASE i = c.rank /\ j = c.bank
    <3>1. n.st = "RowActive" /\ n.row = c.row /\ n.last = "ACTIVATE"
      BY <1>8, <2>1 DEF McBank, McActivate, ColumnDelays, BankStateType
    <3>2. x.st = "Idle"
      BY <1>8, <2>1 DEF Aimed, Agree
    <3>3. IF IsReservedRA(c.row) THEN z.st = "Idle" ELSE z.st = "RowActive" /\ z.row = c.row
      BY <1>4, <1>6, <1>8, <2>1, <3>2
      DEF AfterCommand, Checked, RankBank, RankActivate, AgeBank, BankStateType
    <3> HIDE DEF n, z
    <3> QED BY <3>1, <3>3 DEF Agree
  <2>2. CASE ~(i = c.rank /\ j = c.bank)
    <3>1. n.st = m.st /\ n.row = m.row /\ n.last = m.last
      BY <1>8, <2>2 DEF McBank, McActivate, BankStateType
    <3>2. z.st = x.st /\ z.row = x.row
      BY <1>6, <1>8, <2>2 DEF AfterCommand, RankBank, RankActivate, AgeBank, BankStateType
    <3> HIDE DEF n, z
    <3> QED BY <3>1, <3>2 DEF Agree
  <2> QED BY <2>1, <2>2
<1>9. CASE c.op = "PRECHARGE"
  <2>1. CASE i = c.rank /\ j = c.bank
    <3>1. n.st = "Precharging"
      BY <1>9, <2>1 DEF McBank, McPrecharge, BankStateType
    <3>2. m.st = "RowActive" /\ c.row = m.row
      BY <1>9, <2>1 DEF Aimed
    <3>3. z.st = "Idle"
      <4>1. CASE IsReservedRA(c.row)
        BY <1>6, <3>2, <4>1 DEF Agree, AfterCommand, Checked
      <4>2. CASE ~IsReservedRA(c.row)
        BY <1>4, <1>9, <2>1, <4>2
        DEF AfterCommand, Checked, RankBank, RankPrecharge, AgeBank, BankStateType
      <4> QED BY <4>1, <4>2
    <3> HIDE DEF n, z
    <3> QED BY <3>1, <3>3 DEF Agree
  <2>2. CASE ~(i = c.rank /\ j = c.bank)
    <3>1. n.st = m.st /\ n.row = m.row /\ n.last = m.last
      BY <1>9, <2>2 DEF McBank, McPrecharge, BankStateType
    <3>2. z.st = x.st /\ z.row = x.row
      BY <1>6, <1>9, <2>2 DEF AfterCommand, RankBank, RankPrecharge, AgeBank, BankStateType
    <3> HIDE DEF n, z
    <3> QED BY <3>1, <3>2 DEF Agree
  <2> QED BY <2>1, <2>2
<1>10. CASE c.op = "REF"
  <2>1. z.st = x.st /\ z.row = x.row
    BY <1>6, <1>10 DEF AfterCommand, RankBank, AgeBank, BankStateType
  <2>2. CASE i = c.rank
    <3>1. n.st = "Refreshing" /\ x.st = "Idle"
      BY <1>10, <2>2 DEF McBank, McRefresh, BankStateType, Aimed, Agree
    <3> HIDE DEF n, z
    <3> QED BY <2>1, <3>1 DEF Agree
  <2>3. CASE i # c.rank
    <3>1. n = m
      BY <1>10, <2>3 DEF McBank, McRefresh
    <3> HIDE DEF n, z
    <3> QED BY <2>1, <3>1 DEF Agree
  <2> QED BY <2>2, <2>3
<1> QED BY <1>1, <1>7, <1>8, <1>9, <1>10 DEF Ops

\* The command on the bus included, the shadow still fits after recording it.
LEMMA CommandKeepsShadow ==
  ASSUME NEW m \in BankStateType, NEW x \in BankStateType, NEW i \in Ranks, NEW j \in Banks,
         NEW c, Shadows(m, x), Aimed(m, c, i, j)
  PROVE  Shadows(AgeBank(McBank(m, c, i, j)), AfterCommand(AgeBank(x), c, i, j))
<1>1. c \in Commands /\ c # NoCmd /\ Lags(m, x) /\ Agree(m, x)
  BY DEF Aimed, Shadows, Commands, NoCmd, Ops
<1>2. Lags(AgeBank(McBank(m, c, i, j)), AfterCommand(AgeBank(x), c, i, j))
  <2>1. CASE Checked(c) /\ c.rank = i
    BY <1>1, <2>1, RecordedLags DEF AfterCommand
  <2>2. CASE ~(Checked(c) /\ c.rank = i)
    <3> DEFINE n == McBank(m, c, i, j)
    <3>1. c.op # "REF" \/ i # c.rank
      BY <1>1, <2>2 DEF Aimed, Checked, IsReservedRA
    <3>2. n \in BankStateType /\ Lags(n, x)
      BY <1>1, <3>1, McBankType, McGrows, LagsGrow
    <3>3. Lags(AgeBank(n), AgeBank(x))
      BY <3>2, AgeLags
    <3> QED BY <2>2, <3>3 DEF AfterCommand
  <2> QED BY <2>1, <2>2
<1> QED BY <1>1, <1>2, RecordedAgrees DEF Shadows

\* A clock step without a command keeps the shadow fitting.
LEMMA AgeKeepsShadow ==
  ASSUME NEW m \in BankStateType, NEW x \in BankStateType, Shadows(m, x)
  PROVE  Shadows(AgeBank(m), AgeBank(x))
  BY AgeLags, AgedFields DEF Shadows, Agree

\* The end of a precharge or a refresh changes a state the rank calls Idle already.
LEMMA SettleKeepsShadow ==
  ASSUME NEW m \in BankStateType, NEW x \in BankStateType, Shadows(m, x)
  PROVE  Shadows(SettleBank(m), x)
<1>1. CASE m.cd = 0
  BY <1>1 DEF SettleBank
<1>2. CASE m.cd # 0
  <2> DEFINE n == SettleBank(m)
  <2>1. /\ n.row = m.row /\ n.last = m.last /\ n.nRd = m.nRd /\ n.nWr = m.nWr
        /\ n.nAct = m.nAct /\ n.nPre = m.nPre
        /\ n.st = IF m.cd = 1 /\ m.last \in {"REF", "PRECHARGE"} THEN "Idle" ELSE m.st
    BY <1>2 DEF SettleBank, BankStateType
  <2> HIDE DEF n
  <2>2. Lags(n, x)
    BY <2>1 DEF Shadows, Lags
  <2>3. CASE n.st = m.st
    BY <2>1, <2>2, <2>3 DEF Shadows, Agree, n
  <2>4. CASE n.st = "Idle" /\ m.last \in {"REF", "PRECHARGE"}
    <3>1. x.st = "Idle"
      BY <2>4 DEF Shadows, Agree
    <3> QED BY <2>2, <2>4, <3>1 DEF Shadows, Agree, n
  <2> QED BY <2>1, <2>3, <2>4 DEF n
<1> QED BY <1>1, <1>2

\* What isIssuable allows on the shadow, the rank accepts a cycle later.
LEMMA IssuableAccepted ==
  ASSUME NEW m \in BankStateType, NEW x \in BankStateType, Shadows(m, x),
         NEW c \in Commands, c.op # "REF", ~IsReservedRA(c.row),
         NEW bs, bs[c.bank] = m, Issuable("SB", bs, c), c.op = "PRECHARGE" => c.row = m.row
  PROVE  BankAccepts(AgeBank(x), c)
<1>1. /\ m.nRd \in Nat /\ m.nWr \in Nat /\ m.nAct \in Nat /\ m.nPre \in Nat
      /\ x.nRd \in Nat /\ x.nWr \in Nat /\ x.nAct \in Nat /\ x.nPre \in Nat
      /\ c.op \in Ops
  BY DEF BankStateType, Commands
<1>2. /\ m.nRd = 0 => Age(x.nRd) = 0
      /\ m.nWr = 0 => Age(x.nWr) = 0
      /\ m.nAct = 0 => Age(x.nAct) = 0
      /\ m.nPre = 0 => Age(x.nPre) = 0
  BY <1>1 DEF Shadows, Lags, Age
<1>3. CASE c.op = "READ"
  BY <1>2, <1>3, AgedFields DEF Issuable, BankAccepts, Shadows, Agree
<1>4. CASE c.op = "WRITE"
  BY <1>2, <1>4, AgedFields DEF Issuable, BankAccepts, Shadows, Agree
<1>5. CASE c.op = "ACTIVATE"
  BY <1>2, <1>5, AgedFields DEF Issuable, BankAccepts, Shadows, Agree
<1>6. CASE c.op = "PRECHARGE"
  BY <1>2, <1>6, AgedFields DEF Issuable, BankAccepts, Shadows, Agree
<1> QED BY <1>1, <1>3, <1>4, <1>5, <1>6 DEF Ops

-----------------------------------------------------------------------------
(* The whole channel. *)

\* The types hold at the start.
LEMMA TypeInit == Init => TypeOK
<1>1. InitBank \in BankStateType
  BY DEF InitBank, BankStateType, Ops
<1>2. [i \in Ranks |-> [j \in Banks |-> InitBank]] \in [Ranks -> [Banks -> BankStateType]]
  BY <1>1
<1> QED BY <1>2 DEF Init, TypeOK

\* Every step keeps the types.
LEMMA TypeStep == TypeOK /\ [Next]_vars => TypeOK'
<1> SUFFICES ASSUME TypeOK, [Next]_vars PROVE TypeOK'
  OBVIOUS
<1>1. CASE Deliver
  <2>1. \A i \in Ranks, j \in Banks : SettleBank(mc[i][j]) \in BankStateType
    BY SettleBankType DEF TypeOK
  <2>2. \A i \in Ranks, j \in Banks : AfterCommand(rk[i][j], bus, i, j) \in BankStateType
    BY RankBankType DEF TypeOK, AfterCommand, Checked
  <2>3. mc' \in [Ranks -> [Banks -> BankStateType]]
    BY <1>1, <2>1 DEF Deliver
  <2>4. rk' \in [Ranks -> [Banks -> BankStateType]]
    BY <1>1, <2>2 DEF Deliver, TypeOK
  <2>5. bus' \in Commands \cup {NoCmd} /\ pc' \in {"deliver", "issue", "step"} /\ exited' \in BOOLEAN
    BY <1>1 DEF Deliver
  <2> QED BY <2>3, <2>4, <2>5 DEF TypeOK
<1>2. ASSUME NEW o \in Ops, NEW i \in Ranks, NEW j \in Banks, NEW w \in Rows \cup {0},
             Issue([op |-> o, rank |-> i, bank |-> j, row |-> w])
      PROVE  TypeOK'
  <2> DEFINE c == [op |-> o, rank |-> i, bank |-> j, row |-> w]
  <2>1. c \in Commands
    BY RowsAssumption DEF Commands
  <2> HIDE DEF c
  <2>2. \A r \in Ranks, b \in Banks : McBank(mc[r][b], c, r, b) \in BankStateType
    BY <2>1, McBankType DEF TypeOK
  <2>3. /\ mc' = [r \in Ranks |-> [b \in Banks |-> McBank(mc[r][b], c, r, b)]]
        /\ bus' = c /\ pc' = "step" /\ UNCHANGED <<rk, exited>>
    BY <1>2 DEF Issue, c
  <2> QED BY <2>1, <2>2, <2>3 DEF TypeOK
<1>3. CASE NoIssue
  BY <1>3 DEF NoIssue, TypeOK
<1>4. CASE Step
  <2>1. \A i \in Ranks, j \in Banks : /\ AgeBank(mc[i][j]) \in BankStateType
                                       /\ AgeBank(rk[i][j]) \in BankStateType
    BY AgeBankType DEF TypeOK
  <2> QED BY <1>4, <2>1 DEF Step, TypeOK
<1>5. CASE UNCHANGED vars
  BY <1>5 DEF vars, TypeOK
<1> QED BY <1>1, <1>2, <1>3, <1>4, <1>5 DEF Next

\* Every variable keeps its type, for every geometry and timing.
THEOREM TypeCorrect == Spec => []TypeOK
  BY TypeInit, TypeStep, PTL DEF Spec

\* All banks start precharged on both sides.
LEMMA InitConservative == Init => ShadowConservative
<1> SUFFICES ASSUME Init PROVE ShadowConservative
  OBVIOUS
<1>1. Shadows(InitBank, InitBank)
  BY DEF Shadows, Agree, Lags, InitBank
<1>2. ~Checked(NoCmd)
  BY DEF Checked
<1>3. \A i \in Ranks, j \in Banks : Shadows(mc[i][j], AfterCommand(rk[i][j], NoCmd, i, j))
  BY <1>1, <1>2 DEF Init, AfterCommand
<1> QED BY <1>2, <1>3 DEF Init, ShadowConservative, ShadowFits

\* The command arrives: the rank accepts it and the shadow fits what it records.
LEMMA DeliverConservative ==
  ASSUME TypeOK, ShadowConservative, Deliver
  PROVE  NeverExits' /\ ShadowConservative'
<1>1. ShadowFits(mc, rk, bus) /\ ~Checked(NoCmd)
  BY DEF Deliver, ShadowConservative, Checked
<1>2. /\ exited' = FALSE
      /\ rk' = [i \in Ranks |-> [j \in Banks |-> AfterCommand(rk[i][j], bus, i, j)]]
      /\ mc' = [i \in Ranks |-> [j \in Banks |-> SettleBank(mc[i][j])]]
      /\ bus' = NoCmd /\ pc' = "issue"
  BY <1>1 DEF Deliver, ShadowFits
<1>3. ASSUME NEW i \in Ranks, NEW j \in Banks
      PROVE  Shadows(mc'[i][j], AfterCommand(rk'[i][j], NoCmd, i, j))
  <2>1. /\ mc'[i][j] = SettleBank(mc[i][j])
        /\ rk'[i][j] = AfterCommand(rk[i][j], bus, i, j)
    BY <1>2
  <2>2. mc[i][j] \in BankStateType /\ AfterCommand(rk[i][j], bus, i, j) \in BankStateType
    BY RankBankType DEF TypeOK, AfterCommand, Checked
  <2>3. Shadows(mc'[i][j], rk'[i][j])
    BY <1>1, <2>1, <2>2, SettleKeepsShadow DEF ShadowFits
  <2> QED BY <1>1, <2>3 DEF AfterCommand
<1> QED BY <1>1, <1>2, <1>3 DEF NeverExits, ShadowConservative, ShadowFits

\* A command leaves: it fits the shadow it was judged by.
LEMMA IssueConservative ==
  ASSUME TypeOK, ShadowConservative, NEW c \in Commands, Issue(c)
  PROVE  ShadowConservative'
<1>1. /\ \A i \in Ranks, j \in Banks : Shadows(mc[i][j], rk[i][j])
      /\ MayIssue(c) /\ c.rank \in Ranks /\ c.bank \in Banks /\ c.op \in Ops
  BY DEF Issue, ShadowConservative, ShadowFits, AfterCommand, Checked, Commands
<1>2. /\ mc' = [i \in Ranks |-> [j \in Banks |-> McBank(mc[i][j], c, i, j)]]
      /\ bus' = c /\ pc' = "step" /\ rk' = rk
  BY DEF Issue
<1>3. ASSUME NEW i \in Ranks, NEW j \in Banks PROVE Aimed(mc[i][j], c, i, j)
  BY <1>1 DEF Aimed, MayIssue, Issuable
<1>4. ASSUME NEW i \in Ranks, NEW j \in Banks
      PROVE  Shadows(Aged(mc)'[i][j], AfterCommand(Aged(rk)'[i][j], c, i, j))
  <2>1. mc[i][j] \in BankStateType /\ rk[i][j] \in BankStateType
    BY DEF TypeOK
  <2>2. /\ Aged(mc)'[i][j] = AgeBank(McBank(mc[i][j], c, i, j))
        /\ Aged(rk)'[i][j] = AgeBank(rk[i][j])
    BY <1>2 DEF Aged
  <2> QED BY <1>1, <1>3, <2>1, <2>2, CommandKeepsShadow
<1>5. ASSUME Checked(c) PROVE RankAccepts("SB", Aged(rk)'[c.rank], c)
  <2>1. \A j \in Banks : Aged(rk)'[c.rank][j] = AgeBank(rk[c.rank][j])
    BY <1>1, <1>2 DEF Aged
  <2>2. \A j \in Banks : mc[c.rank][j] \in BankStateType /\ rk[c.rank][j] \in BankStateType
    BY <1>1 DEF TypeOK
  <2>3. CASE c.op = "REF"
    <3>1. \A j \in Banks : Aged(rk)'[c.rank][j].st = "Idle"
      BY <1>1, <2>1, <2>2, <2>3, AgedFields DEF MayIssue, Shadows, Agree
    <3> QED BY <2>3, <3>1 DEF RankAccepts
  <2>4. CASE c.op # "REF"
    <3>1. BankAccepts(AgeBank(rk[c.rank][c.bank]), c)
      BY <1>1, <1>5, <2>2, <2>4, IssuableAccepted DEF MayIssue, Checked
    <3> QED BY <1>1, <2>1, <2>4, <3>1 DEF RankAccepts
  <2> QED BY <2>3, <2>4
<1> QED BY <1>2, <1>4, <1>5 DEF ShadowConservative, ShadowFits

\* A cycle without a command keeps the shadow fitting.
LEMMA NoIssueConservative ==
  ASSUME TypeOK, ShadowConservative, NoIssue
  PROVE  ShadowConservative'
<1>1. /\ \A i \in Ranks, j \in Banks : Shadows(mc[i][j], rk[i][j])
      /\ bus = NoCmd /\ ~Checked(NoCmd)
      /\ pc' = "step" /\ UNCHANGED <<mc, rk, bus>>
  BY DEF NoIssue, ShadowConservative, ShadowFits, AfterCommand, Checked
<1>2. ASSUME NEW i \in Ranks, NEW j \in Banks
      PROVE  Shadows(Aged(mc)[i][j], Aged(rk)[i][j])
  <2>1. Aged(mc)[i][j] = AgeBank(mc[i][j]) /\ Aged(rk)[i][j] = AgeBank(rk[i][j])
    BY DEF Aged
  <2>2. mc[i][j] \in BankStateType /\ rk[i][j] \in BankStateType
    BY DEF TypeOK
  <2> QED BY <1>1, <2>1, <2>2, AgeKeepsShadow
<1> QED BY <1>1, <1>2 DEF ShadowConservative, ShadowFits, AfterCommand, Aged

\* For every geometry and timing, no schedule isIssuable allows makes a rank end
\* the program, and the shadow is never more than a cycle more optimistic.
THEOREM Conservative == Spec => [](NeverExits /\ ShadowConservative)
<1>1. Init => IInv
  <2>1. Init => TypeOK
    BY TypeInit
  <2> QED BY <2>1, InitConservative DEF IInv, Init, NeverExits
<1>2. IInv /\ [Next]_vars => IInv'
  <2> SUFFICES ASSUME IInv, [Next]_vars PROVE NeverExits' /\ ShadowConservative'
    BY TypeStep DEF IInv
  <2> USE DEF IInv
  <2>1. CASE Deliver
    BY <2>1, DeliverConservative
  <2>2. ASSUME NEW o \in Ops, NEW i \in Ranks, NEW j \in Banks, NEW w \in Rows \cup {0},
               Issue([op |-> o, rank |-> i, bank |-> j, row |-> w])
        PROVE  NeverExits' /\ ShadowConservative'
    <3>1. [op |-> o, rank |-> i, bank |-> j, row |-> w] \in Commands
      BY RowsAssumption DEF Commands
    <3>2. NeverExits'
      BY <2>2 DEF Issue, NeverExits
    <3> QED BY <2>2, <3>1, <3>2, IssueConservative
  <2>3. CASE NoIssue
    <3>1. NeverExits'
      BY <2>3 DEF NoIssue, NeverExits
    <3> QED BY <2>3, <3>1, NoIssueConservative
  <2>4. CASE Step
    BY <2>4 DEF Step, NeverExits, ShadowConservative, Aged
  <2>5. CASE UNCHANGED vars
    BY <2>5 DEF vars, NeverExits, ShadowConservative, ShadowFits, Aged
  <2> QED BY <2>1, <2>2, <2>3, <2>4, <2>5 DEF Next
<1>3. IInv => NeverExits /\ ShadowConservative
  BY DEF IInv
<1> QED BY <1>1, <1>2, <1>3, PTL DEF Spec

(* NoExit: the program never ends in Rank::check, under any schedule and timing. *)
THEOREM NoExit == Spec => []NeverExits
  BY Conservative, PTL
=============================================================================
