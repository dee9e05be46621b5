------------------------- MODULE Hbm2ChannelProofs -------------------------
(***************************************************************************)
(* One HBM2 channel, for every geometry, timing, queue depth and client: the   *)
(* types and bounds of its state, that its queues and policies implement the     *)
(* timing specification DramTiming, and so that no rank ever rejects a command.   *)
(***************************************************************************)
EXTENDS Hbm2Channel, QueueLemmas

\* The bank lemmas of DramTimingProofs, about the same timings.
TP == INSTANCE DramTimingProofs WITH
        Rows <- {l.row : l \in Locations},
        bus <- CommandOf(bus),
        exited <- (error = "rank")

-----------------------------------------------------------------------------
(* The inductive invariant behind TypeOK. *)

\* Packets a client may have made, and reads on their way back.
Sendable == {p \in Packets : LocationOf(p) \in Locations}
Finds == [loc : Locations, want : Values, got : Values]
Returns == [pkt : Finds, left : 1 .. RL]

BusOK ==
  bus = NoCmd \/ /\ CommandOf(bus) \in Commands
                 /\ bus.op \in {"READ", "WRITE"} => bus \in Sendable

ControlOK ==
  /\ cq \in [nextRank : Ranks, nextPRE : Slots, waiting : BOOLEAN, rank : Ranks]
  /\ pc \in {"deliver", "issue", "step"} /\ error \in {"none", "rank", "dataBus", "noMatch"}
  /\ modes \in [Ranks -> [now : {"SB", "HAB", "HAB_PIM"}, abmr : SUBSET Banks, sbmr : SUBSET {0, 1}]]

ClientOK ==
  /\ store \in [Locations -> Values] /\ golden \in [Locations -> Values]
  /\ adding \in BOOLEAN /\ added \in Nat /\ epoch \in Nat /\ issued \in [Ranks -> Nat]

QueuesOK ==
  /\ pending \in Seq(Sendable) /\ transQ \in Seq(Sendable) /\ Len(transQ) <= TransQueueDepth
  /\ cmdQ \in [Ranks -> Seq(Sendable)]
  /\ \A r \in Ranks : /\ Len(cmdQ[r]) <= CmdQueueDepth
                      /\ \A i \in 1 .. Len(cmdQ[r]) : cmdQ[r][i].rank = r

BanksOK ==
  /\ mc \in [Ranks -> [Banks -> BankStateType]]
  /\ rk \in [Ranks -> [Banks -> BankStateType]]

\* Countdowns on a queue are apart: only the head's can run out.
Apart(q) == \A i, j \in 1 .. Len(q) : i < j => q[i].left < q[j].left

ReturnsOK ==
  /\ rdRet \in [Ranks -> Seq(Returns)]
  /\ \A r \in Ranks : Apart(rdRet[r])
  /\ rdBus \in [Ranks -> {None} \cup [pkt : Finds, left : 1 .. Burst]]
  /\ retQ \in Seq(Finds) /\ pendRd \in Seq(Locations)

WritesOK ==
  /\ wrData \in Seq([left : 1 .. WL]) /\ wrBus \in [left : 0 .. Burst]
  /\ Apart(wrData)
  /\ pc = "issue" => \A i \in 1 .. Len(wrData) : wrData[i].left < WL

\* The rank whose turn it is to be refreshed has the least countdown, the others
\* follow in turn, and only that rank's can run out.
Turn(r) == IF r >= refresh.rank THEN r - refresh.rank ELSE r + NumRanks - refresh.rank
RefreshOK ==
  /\ refresh \in [rank : Ranks, count : [Ranks -> Nat]]
  /\ \A r, s \in Ranks : /\ Turn(r) < Turn(s) => refresh.count[r] < refresh.count[s]
                         /\ refresh.count[s] < refresh.count[r] + tREFI
  /\ pc # "deliver" => \A r \in Ranks : refresh.count[r] > 0

TypeInv ==
  /\ ControlOK /\ ClientOK /\ QueuesOK /\ BanksOK /\ BusOK
  /\ ReturnsOK /\ WritesOK /\ RefreshOK

-----------------------------------------------------------------------------
(* Data: banks, commands and countdowns. *)

\* The geometry's bounds, as the proofs use them.
LEMMA Geometry ==
  /\ NumRanks \in Nat \ {0} /\ NumBanks \in Nat \ {0} /\ Burst \in Nat \ {0}
  /\ RL \in Nat \ {0} /\ WL \in Nat \ {0} /\ tREFI \in Nat \ {0}
  /\ TransQueueDepth \in Nat \ {0} /\ CmdQueueDepth \in Nat \ {0}
  /\ NumValues \in Nat \ {0} /\ 0 \in Ranks /\ 0 \in Banks /\ 0 \in Values
  /\ \A l \in Locations : l.rank \in Ranks /\ l.bank \in Banks /\ l.row \in Nat /\ l.col \in Nat
  BY TimingAssumption, CommandQueueAssumption, ChannelAssumption
  DEF TimingAssumption, CommandQueueAssumption, ChannelAssumption, Burst, Ranks, Banks, Values

\* A packet's fields.
LEMMA SendableFields ==
  ASSUME NEW p \in Sendable
  PROVE  /\ p.op \in {"READ", "WRITE"} /\ p.rank \in Ranks /\ p.bank \in Banks /\ p.row \in Nat
         /\ p.val \in Values /\ p.epoch \in Nat /\ p.bar \in BOOLEAN
         /\ LocationOf(p) \in Locations /\ CommandOf(p) \in Commands /\ p # NoCmd
  BY DEF Sendable, Packets, CommandOf, Commands, Ops, NoCmd

\* The banks look at what a packet does, where, and at nothing else of it.
LEMMA McBankOfCommand ==
  ASSUME NEW x, NEW c, NEW i, NEW j
  PROVE  McBank(x, c, i, j) = McBank(x, CommandOf(c), i, j)
  BY DEF McBank, McRead, McWrite, McActivate, McPrecharge, McRefresh, CommandOf

\* What a rank records of a packet is what it records of its command alone.
LEMMA RankBankOfCommand ==
  ASSUME NEW mode, NEW x, NEW c, NEW j
  PROVE  RankBank(mode, x, c, j) = RankBank(mode, x, CommandOf(c), j)
  BY DEF RankBank, RankRead, RankWrite, RankActivate, RankPrecharge, CommandOf

\* This module's operators and those of the proofs it cites are the same.
LEMMA SettleBankSame == ASSUME NEW x PROVE TP!SettleBank(x) = SettleBank(x)
  BY DEF TP!SettleBank, SettleBank

\* DramTiming ages a bank as the channel does,
LEMMA AgeBankSame == ASSUME NEW x PROVE TP!AgeBank(x) = AgeBank(x)
  BY DEF TP!AgeBank, AgeBank, TP!Age, Age

\* records a command in its shadow alike,
LEMMA McBankSame ==
  ASSUME NEW x, NEW c, NEW i, NEW j PROVE TP!McBank(x, c, i, j) = McBank(x, c, i, j)
  BY DEF McBank, TP!McBank, McRead, TP!McRead, McWrite, TP!McWrite, McActivate, TP!McActivate,
      McPrecharge, TP!McPrecharge, McRefresh, TP!McRefresh, ColumnDelays, TP!ColumnDelays,
      Later, TP!Later, ColumnGap, TP!ColumnGap, ActivateGap, TP!ActivateGap, SameBankgroup,
      TP!SameBankgroup, Burst, TP!Burst, READ_TO_PRE_DELAY, TP!READ_TO_PRE_DELAY,
      WRITE_TO_PRE_DELAY, TP!WRITE_TO_PRE_DELAY, READ_TO_WRITE_DELAY,
      TP!READ_TO_WRITE_DELAY, WRITE_TO_READ_DELAY_B_LONG, TP!WRITE_TO_READ_DELAY_B_LONG,
      WRITE_TO_READ_DELAY_B_SHORT, TP!WRITE_TO_READ_DELAY_B_SHORT, WRITE_TO_READ_DELAY_R,
      TP!WRITE_TO_READ_DELAY_R

\* and in the bank of a rank alike.
LEMMA RankBankSame ==
  ASSUME NEW mode, NEW x, NEW c, NEW j PROVE TP!RankBank(mode, x, c, j) = RankBank(mode, x, c, j)
  BY DEF RankBank, TP!RankBank, RankRead, TP!RankRead, RankWrite, TP!RankWrite, RankActivate,
      TP!RankActivate, RankPrecharge, TP!RankPrecharge, ColumnDelays, TP!ColumnDelays,
      Later, TP!Later, ColumnGap, TP!ColumnGap, ActivateGap, TP!ActivateGap, SameBankgroup,
      TP!SameBankgroup, Burst, TP!Burst, READ_TO_PRE_DELAY, TP!READ_TO_PRE_DELAY,
      WRITE_TO_PRE_DELAY, TP!WRITE_TO_PRE_DELAY, READ_TO_WRITE_DELAY,
      TP!READ_TO_WRITE_DELAY, WRITE_TO_READ_DELAY_B_LONG, TP!WRITE_TO_READ_DELAY_B_LONG,
      WRITE_TO_READ_DELAY_B_SHORT, TP!WRITE_TO_READ_DELAY_B_SHORT, WRITE_TO_READ_DELAY_R,
      TP!WRITE_TO_READ_DELAY_R

\* Its types are the channel's.
LEMMA SetsSame ==
  /\ TP!Ranks = Ranks /\ TP!Banks = Banks /\ TP!Ops = Ops /\ TP!BankStateType = BankStateType
  /\ TP!Commands = Commands
  BY DEF TP!Ranks, Ranks, TP!Banks, Banks, TP!Ops, Ops, TP!BankStateType, BankStateType,
     TP!Commands, Commands

\* The rows of the locations are rows.
LEMMA RowsAreRows == {l.row : l \in Locations} \subseteq Nat
  BY Geometry

\* A bank stays a bank whatever reaches it.
LEMMA BankTypes ==
  ASSUME NEW x \in BankStateType
  PROVE  /\ AgeBank(x) \in BankStateType /\ SettleBank(x) \in BankStateType
         /\ \A c \in Commands, i \in Ranks, j \in Banks : McBank(x, c, i, j) \in BankStateType
         /\ \A mode : \A c \in Commands, j \in Banks : RankBank(mode, x, c, j) \in BankStateType
<1>1. /\ TP!AgeBank(x) \in TP!BankStateType /\ TP!SettleBank(x) \in TP!BankStateType
  BY TP!AgeBankType, TP!SettleBankType, SetsSame, TimingAssumption, RowsAreRows
<1>2. ASSUME NEW c \in Commands, NEW i \in Ranks, NEW j \in Banks
      PROVE  TP!McBank(x, c, i, j) \in TP!BankStateType
  BY TP!McBankType, SetsSame, TimingAssumption, RowsAreRows
<1>3. ASSUME NEW c \in Commands, NEW j \in Banks, NEW mode
      PROVE  TP!RankBank(mode, x, c, j) \in TP!BankStateType
  BY TP!RankBankType, SetsSame, TimingAssumption, RowsAreRows
<1> QED BY <1>1, <1>2, <1>3, SetsSame, AgeBankSame, SettleBankSame, McBankSame, RankBankSame

-----------------------------------------------------------------------------
(* What CommandQueue::pop finds. *)

\* A cursor and a step less than one round behind it meet within a round.
LEMMA ModSmall == ASSUME NEW n \in Nat, NEW a \in Nat, a < n PROVE a % n = a
  OBVIOUS

\* A remainder one turn further is the same.
LEMMA ModOnce == ASSUME NEW n \in Nat, NEW a \in Nat, a < n PROVE (a + n) % n = a
  OBVIOUS

\* A round-robin scan that can meet something meets it.
LEMMA FirstFromIn ==
  ASSUME NEW size \in Nat \ {0}, NEW n \in 0 .. size - 1, NEW P, P \subseteq 0 .. size - 1, P # {}
  PROVE  FirstFrom(n, size, P) \in P
<1> DEFINE K == {k \in 0 .. size - 1 : (n + k) % size \in P}
<1>1. PICK p \in P : TRUE
  OBVIOUS
<1> DEFINE k == IF p >= n THEN p - n ELSE p + size - n
<1>2. k \in 0 .. size - 1 /\ (n + k) % size = p
  <2>1. CASE p >= n
     BY <2>1, ModSmall
  <2>2. CASE p < n
     BY <2>2, ModOnce
  <2> QED BY <2>1, <2>2
<1>3. k \in K
  BY <1>2
<1>4. K \subseteq Nat
  OBVIOUS
<1> HIDE DEF k, K
<1>5. Min(K) \in K
  BY <1>3, <1>4, MinIn
<1>6. (n + Min(K)) % size \in P
  BY <1>5 DEF K
<1> QED BY <1>6 DEF FirstFrom, K

\* A slot is a bank of a rank, whichever way the scan goes.
LEMMA SlotTypes ==
  /\ NumRanks * NumBanks \in Nat \ {0}
  /\ \A s \in Slots : SlotRank(s) \in Ranks /\ SlotBank(s) \in Banks
<1>1. /\ NumRanks \in Nat \ {0} /\ NumBanks \in Nat \ {0}
  BY Geometry
<1>2. ASSUME NEW s \in 0 .. NumRanks * NumBanks - 1
      PROVE  /\ s % NumRanks \in 0 .. NumRanks - 1 /\ s \div NumBanks \in 0 .. NumRanks - 1
             /\ s % NumBanks \in 0 .. NumBanks - 1
  BY <1>1
<1>3. ASSUME NEW s \in 0 .. NumRanks * NumBanks - 1
      PROVE  s \div NumRanks \in 0 .. NumBanks - 1
  BY <1>1
<1>4. ASSUME NEW s \in Slots PROVE SlotRank(s) \in Ranks /\ SlotBank(s) \in Banks
  <2>1. s \in 0 .. NumRanks * NumBanks - 1
    BY DEF Slots
  <2>2. CASE RankThenBank
    BY <1>2, <1>3, <2>1, <2>2 DEF SlotRank, SlotBank, Ranks, Banks
  <2>3. CASE ~RankThenBank
    BY <1>2, <1>3, <2>1, <2>3 DEF SlotRank, SlotBank, Ranks, Banks
  <2> QED BY <2>2, <2>3
<1> QED BY <1>1, <1>4

CqType == [nextRank : Ranks, nextPRE : Slots, waiting : BOOLEAN, rank : Ranks]

\* A packet leaves the queue of rank r from position i.
Column(r, i) ==
  /\ Record(cmdQ[r][i])
  /\ cmdQ' = [cmdQ EXCEPT ![r] = RemoveAt(@, i)]
  /\ cq' = [cq EXCEPT !.nextRank = r]
  /\ wrData' = IF cmdQ[r][i].op = "WRITE" THEN Append(wrData, [left |-> WL]) ELSE wrData
  /\ issued' = [issued EXCEPT ![r] = Later(@, cmdQ[r][i].epoch)]

\* A command that moves no data leaves.
Bare(c) ==
  /\ c.op \in {"ACTIVATE", "PRECHARGE", "REF"} /\ CommandOf(c) \in Commands
  /\ Issuable(Mode(c.rank), mc[c.rank], c)
  /\ c.op = "ACTIVATE" => c.row \in {l.row : l \in Locations}
                          /\ \E l \in Locations : l.rank = c.rank /\ l.row = c.row /\ l.col = c.col
  /\ c.op = "PRECHARGE" => c.row = mc[c.rank][c.bank].row
  /\ c.op = "REF" => c.row = 0 /\ c.bank = 0 /\ \A b \in Banks : mc[c.rank][b].st # "RowActive"
  /\ Record(c)
  /\ cq' \in CqType
  /\ UNCHANGED <<cmdQ, wrData, issued>>

\* What the types say of a queue that packets are taken from.
LEMMA QueueOf ==
  ASSUME TypeInv, NEW r \in Ranks
  PROVE  /\ cmdQ[r] \in Seq(Sendable) /\ DOMAIN cmdQ[r] = 1 .. Len(cmdQ[r]) /\ Len(cmdQ[r]) \in Nat
         /\ \A i \in 1 .. Len(cmdQ[r]) : cmdQ[r][i] \in Sendable /\ cmdQ[r][i].rank = r
<1>1. cmdQ[r] \in Seq(Sendable)
  BY DEF TypeInv, QueuesOK
<1> QED BY <1>1, LenProperties, ElementOfSeq DEF TypeInv, QueuesOK

\* pop sends a packet that is ready,
LEMMA ColumnTaken ==
  ASSUME TypeInv, IssueColumn
  PROVE  \E r \in Ranks : \E i \in Ready(cmdQ[r], Mode(r), mc[r]) : Column(r, i)
<1> DEFINE r == FirstFrom(cq.nextRank, NumRanks, Serving)
           able == Ready(cmdQ[r], Mode(r), mc[r])
<1>1. r \in Serving
  <2>1. Serving \subseteq 0 .. NumRanks - 1 /\ Serving # {} /\ cq.nextRank \in 0 .. NumRanks - 1
    BY DEF IssueColumn, Serving, Ranks, TypeInv, ControlOK
  <2> QED BY <2>1, Geometry, FirstFromIn
<1>2. r \in Ranks
  BY <1>1 DEF Serving
<1>3. able # {} /\ Column(r, Min(able))
  BY DEF IssueColumn, Column
<1> HIDE DEF r
<1>4. able \subseteq Nat
  BY <1>2, QueueOf DEF Ready
<1>5. Min(able) \in able
  BY <1>3, <1>4, MinIn
<1> QED BY <1>2, <1>3, <1>5

\* or the activate that opens the row of one,
LEMMA ActivateTaken ==
  ASSUME TypeInv, IssueActivate
  PROVE  \E c : Bare(c)
<1> DEFINE r == FirstFrom(cq.nextRank, NumRanks, Serving)
           open == Openers(cmdQ[r], Mode(r), mc[r])
           k == Min(open)
           p == cmdQ[r][k]
           c == ActivateFor(p)
<1>1. r \in Serving
  <2>1. Serving \subseteq 0 .. NumRanks - 1 /\ Serving # {} /\ cq.nextRank \in 0 .. NumRanks - 1
    BY DEF IssueActivate, Serving, Ranks, TypeInv, ControlOK
  <2> QED BY <2>1, Geometry, FirstFromIn
<1>2. r \in Ranks /\ Servable(cmdQ[r], Mode(r), mc[r])
  BY <1>1 DEF Serving
<1>3. /\ Ready(cmdQ[r], Mode(r), mc[r]) = {} /\ Record(c)
      /\ cq' = [cq EXCEPT !.nextRank = r] /\ UNCHANGED <<cmdQ, wrData, issued>>
  BY DEF IssueActivate
<1> HIDE DEF r
<1>4. open \subseteq Nat /\ open # {}
  <2>1. open # {}
    BY <1>2, <1>3 DEF Servable
  <2>2. open \subseteq DOMAIN cmdQ[r]
    BY DEF Openers
  <2>3. DOMAIN cmdQ[r] \subseteq Nat
    BY <1>2, QueueOf
  <2> QED BY ONLY <2>1, <2>2, <2>3
<1>5. k \in open
  BY <1>4, MinIn
<1> HIDE DEF k
<1>6. p \in Sendable /\ p.rank = r /\ Issuable(Mode(r), mc[r], c)
  BY <1>2, <1>5, QueueOf DEF Openers
<1>7. c.op = "ACTIVATE" /\ c.rank = r /\ c.bank = p.bank /\ c.row = p.row /\ c.col = p.col
  BY <1>6 DEF ActivateFor
<1>8. CommandOf(c) \in Commands
  BY <1>6, <1>7, SendableFields DEF CommandOf, Commands, Ops
<1>9. LocationOf(p) \in Locations /\ LocationOf(p).rank = r
      /\ LocationOf(p).row = p.row /\ LocationOf(p).col = p.col
  BY <1>6, SendableFields DEF LocationOf
<1>10. cq' \in CqType
  BY <1>2, <1>3 DEF TypeInv, ControlOK, CqType
<1> HIDE DEF c, p
<1> QED BY <1>3, <1>6, <1>7, <1>8, <1>9, <1>10 DEF Bare

\* A precharge that isIssuable allows closes an open row of the shadow.
LEMMA PrechargeBare ==
  ASSUME TypeInv, NEW r \in Ranks, NEW b \in Banks,
         Issuable(Mode(r), mc[r], PrechargeOf(mc[r], r, b)), Record(PrechargeOf(mc[r], r, b)),
         cq' \in CqType, UNCHANGED <<cmdQ, wrData, issued>>
  PROVE  Bare(PrechargeOf(mc[r], r, b))
<1>1. mc[r][b].row \in Nat
  BY DEF TypeInv, BanksOK, BankStateType
<1> QED BY <1>1 DEF Bare, PrechargeOf, CommandOf, Commands, Ops

\* or a precharge of an open bank,
LEMMA PrechargeTaken ==
  ASSUME TypeInv, IssuePrecharge
  PROVE  \E c : Bare(c)
<1> DEFINE s == FirstFrom(cq.nextPRE, NumRanks * NumBanks, Closing)
<1>1. s \in Closing
  <2>1. Closing \subseteq 0 .. NumRanks * NumBanks - 1 /\ Closing # {}
        /\ cq.nextPRE \in 0 .. NumRanks * NumBanks - 1
    BY DEF IssuePrecharge, Closing, Slots, TypeInv, ControlOK
  <2> QED BY <2>1, SlotTypes, FirstFromIn
<1>2. /\ Record(PrechargeOf(mc[SlotRank(s)], SlotRank(s), SlotBank(s)))
      /\ cq' = [cq EXCEPT !.nextPRE = s] /\ UNCHANGED <<cmdQ, wrData, issued>>
  BY DEF IssuePrecharge
<1> HIDE DEF s
<1>3. s \in Slots /\ SlotRank(s) \in Ranks /\ SlotBank(s) \in Banks
  BY <1>1, SlotTypes DEF Closing
<1>4. cq' \in CqType
  BY <1>2, <1>3 DEF TypeInv, ControlOK, CqType
<1>5. Issuable(Mode(SlotRank(s)), mc[SlotRank(s)],
               PrechargeOf(mc[SlotRank(s)], SlotRank(s), SlotBank(s)))
  BY <1>1 DEF Closing, Closable
<1> QED BY <1>2, <1>3, <1>4, <1>5, PrechargeBare

\* or what the waiting refresh calls for.
LEMMA RefreshTaken ==
  ASSUME TypeInv, IssueForRefresh
  PROVE  \E c : Bare(c)
<1> DEFINE r == cq.rank
           closable == {b \in OpenBanks(mc[r]) : Issuable(Mode(r), mc[r], PrechargeOf(mc[r], r, b))}
<1>1. r \in Ranks
  BY DEF TypeInv, ControlOK
<1>2. PICK c \in Refreshing : /\ Record(c) /\ UNCHANGED <<cmdQ, wrData, issued>>
                              /\ cq' = IF c.op = "REF" THEN [cq EXCEPT !.waiting = FALSE] ELSE cq
  BY DEF IssueForRefresh
<1>3. cq' \in CqType
  BY <1>2 DEF TypeInv, ControlOK, CqType
<1>4. CASE OpenBanks(mc[r]) = {}
  <2>1. c = RefreshOf(r)
    BY <1>2, <1>4 DEF Refreshing, RefreshCommands
  <2>2. \A b \in Banks : mc[r][b].st # "RowActive"
    BY <1>4 DEF OpenBanks
  <2>3. c.op = "REF" /\ c.rank = r /\ c.row = 0 /\ c.bank = 0
    BY <2>1 DEF RefreshOf
  <2>4. CommandOf(c) \in Commands
    BY <1>1, <2>3, Geometry DEF CommandOf, Commands, Ops
  <2>5. Issuable(Mode(r), mc[r], c)
    BY <2>3 DEF Issuable
  <2> QED BY <1>2, <1>3, <2>2, <2>3, <2>4, <2>5 DEF Bare
<1>5. CASE OpenBanks(mc[r]) # {}
  <2>1. closable # {} /\ c = PrechargeOf(mc[r], r, Min(closable))
    BY <1>2, <1>5 DEF Refreshing, RefreshCommands
  <2>2. closable \subseteq Nat
    BY DEF OpenBanks, Banks
  <2>3. Min(closable) \in closable
    BY <2>1, <2>2, MinIn
  <2>4. Min(closable) \in Banks /\ Issuable(Mode(r), mc[r], PrechargeOf(mc[r], r, Min(closable)))
    BY <2>3 DEF OpenBanks
  <2> HIDE DEF closable
  <2> QED BY <1>1, <1>2, <1>3, <2>1, <2>4, PrechargeBare
<1> QED BY <1>4, <1>5

\* The steps, with the issue steps by what leaves.
LEMMA StepCases ==
  ASSUME TypeInv, [Next]_vars
  PROVE  \/ \E o \in {"READ", "WRITE"}, l \in Locations : AddTransaction(o, l)
         \/ AddBarrier
         \/ Deliver
         \/ \E r \in Ranks : \E i \in Ready(cmdQ[r], Mode(r), mc[r]) : Column(r, i)
         \/ \E c : Bare(c)
         \/ IssueNothing
         \/ Retire
         \/ UNCHANGED vars
  BY ColumnTaken, ActivateTaken, PrechargeTaken, RefreshTaken DEF Next, Clock

-----------------------------------------------------------------------------
(* Countdown queues. *)

OneLess(x) == [x EXCEPT !.left = @ - 1]

\* One update takes one off every countdown of a queue; the head, if it was due,
\* leaves it, and no other countdown has run out.
LEMMA RestProperties ==
  ASSUME NEW X, NEW q \in Seq(X), Apart(q),
         \A x \in X : /\ x.left \in Nat \ {0}
                      /\ x.left > 1 => OneLess(x) \in X /\ OneLess(x).left = x.left - 1
  PROVE  LET d == IF Due(q) THEN 1 ELSE 0 IN
         /\ Rest(q) \in Seq(X) /\ Len(Rest(q)) = Len(q) - d /\ d <= Len(q) /\ Len(q) \in Nat
         /\ \A k \in 1 .. Len(q) - d :
              /\ q[k + d] \in X /\ q[k + d].left > 1
              /\ Rest(q)[k] = OneLess(q[k + d])
              /\ Rest(q)[k].left = q[k + d].left - 1
<1> DEFINE Y == {OneLess(x) : x \in X}
           c == Counted(q)
           d == IF Due(q) THEN 1 ELSE 0
<1>1. Len(q) \in Nat /\ DOMAIN q = 1 .. Len(q) /\ \A i \in 1 .. Len(q) : q[i] \in X
  BY LenProperties, ElementOfSeq
<1>2. /\ c \in [1 .. Len(q) -> Y]
      /\ \A i \in 1 .. Len(q) : c[i] = OneLess(q[i])
  BY <1>1 DEF Counted, OneLess
<1>3. c \in Seq(Y) /\ Len(c) = Len(q)
  BY <1>1, <1>2, FunctionSeq
<1>4. q # <<>> => Len(q) >= 1 /\ Head(q) = q[1]
  BY <1>1, EmptySeq
<1>5. d \in {0, 1} /\ (d = 1 <=> Due(q))
  OBVIOUS
<1> HIDE DEF Y, c, d
<1>6. ASSUME NEW k \in 1 .. Len(q) - d
      PROVE  /\ k + d \in 1 .. Len(q) /\ q[k + d] \in X /\ q[k + d].left > 1
             /\ OneLess(q[k + d]) \in X /\ OneLess(q[k + d]).left = q[k + d].left - 1
  <2>1. k + d \in 1 .. Len(q)
    BY <1>1, <1>5
  <2>2. q[k + d] \in X /\ q[k + d].left \in Nat \ {0}
    BY <1>1, <2>1
  <2>3. q[k + d].left > 1
    <3>1. CASE k + d > 1
      <4>1. 1 \in 1 .. Len(q)
        BY <1>1, <2>1
      <4>2. q[1].left < q[k + d].left
        BY <2>1, <3>1, <4>1 DEF Apart
      <4>3. q[1].left \in Nat \ {0}
        BY <1>1, <4>1
      <4> QED BY <2>2, <4>2, <4>3
    <3>2. CASE k + d = 1
      <4>1. ~Due(q)
        BY <1>5, <3>2
      <4>2. q # <<>>
        BY <1>1, <2>1, EmptySeq
      <4>3. q[1].left # 1
        BY <1>4, <4>1, <4>2 DEF Due
      <4> QED BY <2>2, <3>2, <4>3
    <3> QED BY <1>5, <2>1, <3>1, <3>2
  <2> QED BY <2>1, <2>2, <2>3
<1>7. /\ Len(Rest(q)) = Len(q) - d /\ d <= Len(q) /\ Rest(q) \in Seq(Y)
      /\ \A k \in 1 .. Len(q) - d : Rest(q)[k] = c[k + d]
  <2>1. CASE Due(q)
    <3>1. q # <<>> /\ d = 1 /\ Len(q) >= 1
      BY <1>4, <1>5, <2>1 DEF Due
    <3>2. c # <<>>
      BY <1>3, <3>1, EmptySeq
    <3>3. /\ Tail(c) \in Seq(Y) /\ Len(Tail(c)) = Len(q) - 1
          /\ \A i \in 1 .. Len(Tail(c)) : Tail(c)[i] = c[i + 1]
      BY <1>3, <3>2, HeadTailProperties
    <3>4. Rest(q) = Tail(c)
      BY <2>1 DEF Rest, c
    <3> QED BY <3>1, <3>3, <3>4
  <2>2. CASE ~Due(q)
    <3>1. d = 0 /\ Rest(q) = c
      BY <1>5, <2>2 DEF Rest, c
    <3>2. \A k \in 1 .. Len(q) : k + 0 = k
      BY <1>1
    <3> QED BY <1>1, <1>3, <3>1, <3>2
  <2> QED BY <2>1, <2>2
<1>8. \A k \in 1 .. Len(q) - d : Rest(q)[k] = OneLess(q[k + d])
  BY <1>2, <1>6, <1>7
<1>9. Rest(q) \in Seq(X)
  BY <1>6, <1>7, <1>8, SeqRetype
<1> QED BY <1>1, <1>6, <1>7, <1>8, <1>9 DEF d

-----------------------------------------------------------------------------
(* Every step keeps every part of the invariant. *)

ModeType == [now : {"SB", "HAB", "HAB_PIM"}, abmr : SUBSET Banks, sbmr : SUBSET {0, 1}]

\* The mode registers leave a mode, and the banks they have seen.
LEMMA ModeTypes ==
  ASSUME NEW m \in ModeType, NEW c, c.bank \in Banks
  PROVE  ModeAfter(m, c) \in ModeType
<1>1. AfterActivate(m, c) \in ModeType
  <2> DEFINE seen == m.abmr \cup ({c.bank} \cap {0, 1, 8, 9})
  <2>1. seen \in SUBSET Banks
    BY DEF ModeType
  <2> HIDE DEF seen
  <2>2. [m EXCEPT !.abmr = seen] \in ModeType /\ [m EXCEPT !.now = "HAB", !.abmr = {}] \in ModeType
    BY <2>1 DEF ModeType
  <2> QED BY <2>2 DEF AfterActivate, seen
<1>2. AfterPrecharge(m, c) \in ModeType
  <2> DEFINE seen == m.sbmr \cup ({c.bank} \cap {0, 1})
  <2>1. seen \in SUBSET {0, 1}
    BY DEF ModeType
  <2> HIDE DEF seen
  <2>2. [m EXCEPT !.sbmr = seen] \in ModeType /\ [m EXCEPT !.now = "SB", !.sbmr = {}] \in ModeType
    BY <2>1 DEF ModeType
  <2> QED BY <2>2 DEF AfterPrecharge, seen
<1>3. AfterWrite(m, c) \in ModeType
  BY DEF AfterWrite, ModeType
<1> QED BY <1>1, <1>2, <1>3 DEF ModeAfter

\* No step takes the control state out of its type.
LEMMA ControlStep ==
  ASSUME TypeInv, [Next]_vars
  PROVE  ControlOK'
<1> USE DEF ControlOK
<1>1. CASE \E o \in {"READ", "WRITE"}, l \in Locations : AddTransaction(o, l)
  BY <1>1 DEF TypeInv, AddTransaction, queueVars, dataVars
<1>2. CASE AddBarrier
  BY <1>2 DEF TypeInv, AddBarrier, queueVars, dataVars
<1>3. CASE Deliver
  <2>1. cq' \in CqType
    <3>1. refresh.rank \in Ranks
      BY DEF TypeInv, RefreshOK
    <3> QED BY <1>3, <3>1 DEF TypeInv, Deliver, UpdateRefresh, CqType
  <2>2. modes' \in [Ranks -> [now : {"SB", "HAB", "HAB_PIM"}, abmr : SUBSET Banks, sbmr : SUBSET {0, 1}]]
    <3>1. CASE bus = NoCmd
      BY <1>3, <3>1 DEF TypeInv, Deliver, CommandArrives
    <3>2. CASE bus # NoCmd
      <4>1. bus.rank \in Ranks /\ bus.bank \in Banks
        BY <3>2 DEF TypeInv, BusOK, CommandOf, Commands
      <4>2. modes[bus.rank] \in [now : {"SB", "HAB", "HAB_PIM"}, abmr : SUBSET Banks, sbmr : SUBSET {0, 1}]
        BY <4>1 DEF TypeInv
      <4>3. ModeAfter(modes[bus.rank], bus)
              \in [now : {"SB", "HAB", "HAB_PIM"}, abmr : SUBSET Banks, sbmr : SUBSET {0, 1}]
        BY <4>1, <4>2, ModeTypes DEF ModeType
      <4>4. modes' = [modes EXCEPT ![bus.rank] = ModeAfter(@, bus)]
        BY <1>3, <3>2 DEF Deliver, CommandArrives
      <4> QED BY <4>3, <4>4 DEF TypeInv
    <3> QED BY <3>1, <3>2
  <2>3. pc' = "issue" /\ error' \in {"none", "rank", "dataBus", "noMatch"}
    BY <1>3 DEF Deliver
  <2> QED BY <2>1, <2>2, <2>3 DEF CqType
<1>4. ASSUME NEW r \in Ranks, NEW i, Column(r, i)
      PROVE  ControlOK'
  BY <1>4 DEF TypeInv, Column, Record
<1>5. ASSUME NEW c, Bare(c)
      PROVE  ControlOK'
  BY <1>5 DEF TypeInv, Bare, Record, CqType
<1>6. CASE IssueNothing
  BY <1>6 DEF TypeInv, IssueNothing, queueVars, dataVars
<1>7. CASE Retire
  BY <1>7 DEF TypeInv, Retire, ReturnRead
<1>8. CASE UNCHANGED vars
  BY <1>8 DEF TypeInv, vars, queueVars, dataVars
<1> QED BY StepCases, <1>1, <1>2, <1>3, <1>4, <1>5, <1>6, <1>7, <1>8

\* A request is a packet of the client's.
LEMMA RequestType ==
  ASSUME TypeInv, NEW o \in {"READ", "WRITE"}, NEW l \in Locations
  PROVE  /\ Request(o, l) \in Sendable /\ Request(o, l).rank = l.rank
         /\ LocationOf(Request(o, l)) = l /\ Request(o, l).op = o /\ Request(o, l).bar = FALSE
         /\ Request(o, l).epoch = epoch
<1>1. l \in [rank : Ranks, bank : Banks, row : Nat, col : Nat]
  BY ChannelAssumption DEF ChannelAssumption
<1>2. golden[l] \in Values /\ epoch \in Nat
  BY DEF TypeInv, ClientOK
<1>3. (golden[l] + 1) % NumValues \in Values
  <2>1. golden[l] + 1 \in Nat /\ NumValues \in Nat \ {0}
    BY <1>2, Geometry DEF Values
  <2>2. (golden[l] + 1) % NumValues \in 0 .. NumValues - 1
    BY <2>1
  <2> QED BY <2>2 DEF Values
<1>4. Request(o, l) \in Packets
  BY <1>1, <1>2, <1>3 DEF Request, Packets
<1>5. LocationOf(Request(o, l)) = l
  BY <1>1 DEF Request, LocationOf
<1> QED BY <1>4, <1>5 DEF Sendable, Request

\* Nor what the client has counted.
LEMMA ClientStep ==
  ASSUME TypeInv, [Next]_vars
  PROVE  ClientOK'
<1> USE DEF ClientOK
<1>1. ASSUME NEW o \in {"READ", "WRITE"}, NEW l \in Locations, AddTransaction(o, l)
      PROVE  ClientOK'
  <2>1. Request(o, l).val \in Values
    BY RequestType, SendableFields
  <2> QED BY <1>1, <2>1 DEF TypeInv, AddTransaction, queueVars, dataVars
<1>2. CASE AddBarrier
  BY <1>2 DEF TypeInv, AddBarrier, queueVars, dataVars
<1>3. CASE Deliver
  <2>1. store' \in [Locations -> Values]
    <3>1. CASE bus # NoCmd /\ bus.op = "WRITE"
      <4>1. bus \in Sendable
        BY <3>1 DEF TypeInv, BusOK
      <4>2. bus.val \in Values
        BY <4>1, SendableFields
      <4> QED BY <1>3, <4>2 DEF TypeInv, Deliver, CommandArrives
    <3>2. CASE ~(bus # NoCmd /\ bus.op = "WRITE")
      BY <1>3, <3>2 DEF TypeInv, Deliver, CommandArrives
    <3> QED BY <3>1, <3>2
  <2> QED BY <1>3, <2>1 DEF TypeInv, Deliver
<1>4. ASSUME NEW r \in Ranks, NEW i \in Ready(cmdQ[r], Mode(r), mc[r]), Column(r, i)
      PROVE  ClientOK'
  <2>1. cmdQ[r][i].epoch \in Nat
    BY QueueOf, SendableFields DEF Ready
  <2>2. issued' \in [Ranks -> Nat]
    BY <1>4, <2>1 DEF TypeInv, Column, Later
  <2> QED BY <1>4, <2>2 DEF TypeInv, Column, Record, clientVars
<1>5. ASSUME NEW c, Bare(c)
      PROVE  ClientOK'
  BY <1>5 DEF TypeInv, Bare, Record, clientVars
<1>6. CASE IssueNothing
  BY <1>6 DEF TypeInv, IssueNothing, clientVars, queueVars, dataVars
<1>7. CASE Retire
  BY <1>7 DEF TypeInv, Retire, clientVars
<1>8. CASE UNCHANGED vars
  BY <1>8 DEF TypeInv, vars, clientVars, queueVars, dataVars
<1> QED BY StepCases, <1>1, <1>2, <1>3, <1>4, <1>5, <1>6, <1>7, <1>8

\* Nor the banks, here and in the shadow.
LEMMA BanksStep ==
  ASSUME TypeInv, [Next]_vars
  PROVE  BanksOK'
<1> USE DEF BanksOK
<1>1. CASE \E o \in {"READ", "WRITE"}, l \in Locations : AddTransaction(o, l)
  BY <1>1 DEF TypeInv, AddTransaction
<1>2. CASE AddBarrier
  BY <1>2 DEF TypeInv, AddBarrier
<1>3. CASE Deliver
  <2>1. mc' \in [Ranks -> [Banks -> BankStateType]]
    <3>1. \A r \in Ranks, b \in Banks : SettleBank(mc[r][b]) \in BankStateType
      BY BankTypes DEF TypeInv
    <3> QED BY <1>3, <3>1 DEF Deliver, CommandArrives
  <2>2. rk' \in [Ranks -> [Banks -> BankStateType]]
    <3>1. ASSUME NEW r \in Ranks, NEW b \in Banks, Checked(bus)
          PROVE  RankBank(Mode(r), rk[r][b], bus, b) \in BankStateType
      <4>1. CommandOf(bus) \in Commands
        BY <3>1 DEF TypeInv, BusOK, Checked
      <4>2. rk[r][b] \in BankStateType
        BY DEF TypeInv
      <4>3. RankBank(Mode(r), rk[r][b], CommandOf(bus), b) \in BankStateType
        BY <4>1, <4>2, BankTypes
      <4> QED BY <4>3, RankBankOfCommand
    <3>2. \A r \in Ranks, b \in Banks : rk[r][b] \in BankStateType
      BY DEF TypeInv
    <3>3. rk' = [r \in Ranks |-> [b \in Banks |->
               IF Checked(bus) /\ bus.rank = r /\ ~Rejected
               THEN RankBank(Mode(r), rk[r][b], bus, b) ELSE rk[r][b]]]
      BY <1>3 DEF Deliver, CommandArrives
    <3> QED BY <3>1, <3>2, <3>3
  <2> QED BY <2>1, <2>2
<1>4. ASSUME NEW c, CommandOf(c) \in Commands, Record(c)
      PROVE  BanksOK'
  <2>1. ASSUME NEW r \in Ranks, NEW b \in Banks
        PROVE  McBank(mc[r][b], c, r, b) \in BankStateType
    <3>1. mc[r][b] \in BankStateType
      BY DEF TypeInv
    <3>2. McBank(mc[r][b], CommandOf(c), r, b) \in BankStateType
      BY <1>4, <3>1, BankTypes
    <3> QED BY <3>2, McBankOfCommand
  <2> QED BY <1>4, <2>1 DEF TypeInv, Record
<1>5. ASSUME NEW r \in Ranks, NEW i \in Ready(cmdQ[r], Mode(r), mc[r]), Column(r, i)
      PROVE  BanksOK'
  <2>1. CommandOf(cmdQ[r][i]) \in Commands
    BY QueueOf, SendableFields DEF Ready
  <2> QED BY <1>4, <1>5, <2>1 DEF Column
<1>6. CASE IssueNothing
  BY <1>6 DEF TypeInv, IssueNothing
<1>7. CASE Retire
  <2>1. \A r \in Ranks, b \in Banks : /\ AgeBank(mc[r][b]) \in BankStateType
                                      /\ AgeBank(rk[r][b]) \in BankStateType
    BY BankTypes DEF TypeInv
  <2> QED BY <1>7, <2>1 DEF Retire, Aged
<1>8. CASE UNCHANGED vars
  BY <1>8 DEF TypeInv, vars
<1>9. ASSUME NEW c, Bare(c)
      PROVE  BanksOK'
  BY <1>4, <1>9 DEF Bare
<1> QED BY StepCases, <1>1, <1>2, <1>3, <1>5, <1>6, <1>7, <1>8, <1>9

\* Nor the command bus.
LEMMA BusStep ==
  ASSUME TypeInv, [Next]_vars
  PROVE  BusOK'
<1> USE DEF BusOK
<1>1. CASE \E o \in {"READ", "WRITE"}, l \in Locations : AddTransaction(o, l)
  BY <1>1 DEF TypeInv, AddTransaction
<1>2. CASE AddBarrier
  BY <1>2 DEF TypeInv, AddBarrier
<1>3. CASE Deliver
  BY <1>3 DEF Deliver, CommandArrives
<1>4. ASSUME NEW r \in Ranks, NEW i \in Ready(cmdQ[r], Mode(r), mc[r]), Column(r, i)
      PROVE  BusOK'
  <2>1. CommandOf(cmdQ[r][i]) \in Commands /\ cmdQ[r][i] \in Sendable
    BY QueueOf, SendableFields DEF Ready
  <2>2. bus' = cmdQ[r][i]
    BY <1>4 DEF Column, Record
  <2> QED BY <2>1, <2>2
<1>5. ASSUME NEW c, Bare(c)
      PROVE  BusOK'
  BY <1>5 DEF Bare, Record
<1>6. CASE IssueNothing
  BY <1>6 DEF TypeInv, IssueNothing
<1>7. CASE Retire
  BY <1>7 DEF TypeInv, Retire
<1>8. CASE UNCHANGED vars
  BY <1>8 DEF TypeInv, vars
<1> QED BY StepCases, <1>1, <1>2, <1>3, <1>4, <1>5, <1>6, <1>7, <1>8

\* addBarrier changes the BAR of the last packet, and nothing else.
LEMMA TaggedProperties ==
  ASSUME NEW q \in Seq(Sendable), q # <<>>
  PROVE  /\ Tagged(q) \in Seq(Sendable) /\ Len(Tagged(q)) = Len(q) /\ Len(q) \in Nat \ {0}
         /\ \A i \in 1 .. Len(q) : /\ Tagged(q)[i] = IF i = Len(q) THEN [q[i] EXCEPT !.bar = TRUE] ELSE q[i]
                                   /\ LocationOf(Tagged(q)[i]) = LocationOf(q[i])
                                   /\ Tagged(q)[i].op = q[i].op /\ Tagged(q)[i].rank = q[i].rank
                                   /\ Tagged(q)[i].epoch = q[i].epoch /\ Tagged(q)[i].val = q[i].val
                                   /\ Tagged(q)[i].bar <=> i = Len(q) \/ q[i].bar
<1>1. /\ Len(q) \in Nat \ {0} /\ DOMAIN q = 1 .. Len(q) /\ q \in [1 .. Len(q) -> Sendable]
      /\ \A i \in 1 .. Len(q) : q[i] \in Sendable
  BY LenProperties, EmptySeq, ElementOfSeq
<1>2. ASSUME NEW p \in Sendable
      PROVE  /\ [p EXCEPT !.bar = TRUE] \in Sendable
             /\ LocationOf([p EXCEPT !.bar = TRUE]) = LocationOf(p)
             /\ [p EXCEPT !.bar = TRUE].op = p.op /\ [p EXCEPT !.bar = TRUE].rank = p.rank
             /\ [p EXCEPT !.bar = TRUE].epoch = p.epoch /\ [p EXCEPT !.bar = TRUE].val = p.val
             /\ [p EXCEPT !.bar = TRUE].bar
  BY DEF Sendable, Packets, LocationOf
<1>3. Tagged(q) = [i \in 1 .. Len(q) |-> IF i = Len(q) THEN [q[i] EXCEPT !.bar = TRUE] ELSE q[i]]
  BY <1>1 DEF Tagged
<1>4. Tagged(q) \in [1 .. Len(q) -> Sendable]
  BY <1>1, <1>2, <1>3
<1>5. Tagged(q) \in Seq(Sendable) /\ Len(Tagged(q)) = Len(q)
  BY <1>1, <1>4, FunctionSeq
<1> QED BY <1>1, <1>2, <1>3, <1>5

\* Which transaction updateTransactionQueue moves.
LEMMA MovedProperties ==
  ASSUME TypeInv, Movable # {}
  PROVE  /\ Min(Movable) \in 1 .. Len(transQ) /\ Len(transQ) \in Nat
         /\ transQ[Min(Movable)] \in Sendable /\ transQ[Min(Movable)].rank \in Ranks
         /\ HasRoom(cmdQ[transQ[Min(Movable)].rank])
<1>1. transQ \in Seq(Sendable)
  BY DEF TypeInv, QueuesOK
<1>2. DOMAIN transQ = 1 .. Len(transQ) /\ Len(transQ) \in Nat
  BY <1>1, LenProperties
<1>3. Min(Movable) \in Movable
  <2>1. Movable \subseteq Nat
    BY <1>2 DEF Movable
  <2> QED BY <2>1, MinIn
<1>4. Min(Movable) \in 1 .. Len(transQ) /\ HasRoom(cmdQ[transQ[Min(Movable)].rank])
  BY <1>2, <1>3 DEF Movable
<1>5. transQ[Min(Movable)] \in Sendable
  BY <1>1, <1>4, ElementOfSeq
<1> QED BY <1>2, <1>4, <1>5, SendableFields

\* Nor the queues, which stay within their depth.
LEMMA QueuesStep ==
  ASSUME TypeInv, [Next]_vars
  PROVE  QueuesOK'
<1> USE DEF QueuesOK
<1>0. /\ pending \in Seq(Sendable) /\ transQ \in Seq(Sendable)
      /\ Len(transQ) \in Nat /\ Len(pending) \in Nat /\ Len(transQ) <= TransQueueDepth
      /\ TransQueueDepth \in Nat /\ CmdQueueDepth \in Nat
  BY Geometry, LenProperties DEF TypeInv
<1>1. ASSUME NEW o \in {"READ", "WRITE"}, NEW l \in Locations, AddTransaction(o, l)
      PROVE  QueuesOK'
  <2>1. Request(o, l) \in Sendable /\ cmdQ' = cmdQ
    BY <1>1, RequestType DEF AddTransaction, queueVars
  <2>2. Enqueue(Request(o, l))
    BY <1>1 DEF AddTransaction
  <2>3. CASE WillAccept
    <3>1. /\ Append(transQ, Request(o, l)) \in Seq(Sendable)
          /\ Len(Append(transQ, Request(o, l))) = Len(transQ) + 1
      BY <1>0, <2>1, AppendProperties
    <3>2. transQ' = Append(transQ, Request(o, l)) /\ pending' = pending
      BY <2>2, <2>3 DEF Enqueue
    <3>3. Len(transQ) + 1 <= TransQueueDepth
      BY <1>0, <2>3 DEF WillAccept
    <3> QED BY <1>0, <2>1, <3>1, <3>2, <3>3 DEF TypeInv
  <2>4. CASE ~WillAccept
    <3>1. Append(pending, Request(o, l)) \in Seq(Sendable)
      BY <1>0, <2>1, AppendProperties
    <3>2. pending' = Append(pending, Request(o, l)) /\ transQ' = transQ
      BY <2>2, <2>4 DEF Enqueue
    <3> QED BY <1>0, <2>1, <3>1, <3>2 DEF TypeInv
  <2> QED BY <2>3, <2>4
<1>2. CASE AddBarrier
  <2>1. TagLast /\ cmdQ' = cmdQ
    BY <1>2 DEF AddBarrier, queueVars
  <2>2. transQ' \in Seq(Sendable) /\ Len(transQ') = Len(transQ)
    BY <1>0, <2>1, TaggedProperties DEF TagLast, Fences
  <2>3. pending' \in Seq(Sendable)
    BY <1>0, <2>1, TaggedProperties DEF TagLast, Fences
  <2> QED BY <1>0, <2>1, <2>2, <2>3 DEF TypeInv
<1>3. CASE Deliver
  <2>1. AcceptOne /\ cmdQ' = cmdQ
    BY <1>3 DEF Deliver
  <2>2. CASE Accepting
    <3>1. Head(pending) \in Sendable /\ Tail(pending) \in Seq(Sendable)
      BY <1>0, <2>2, HeadTailProperties DEF Accepting
    <3>2. transQ' = Append(transQ, Head(pending)) /\ pending' = Tail(pending)
      BY <2>1, <2>2 DEF AcceptOne
    <3>3. Append(transQ, Head(pending)) \in Seq(Sendable)
          /\ Len(Append(transQ, Head(pending))) = Len(transQ) + 1
      BY <1>0, <3>1, AppendProperties
    <3> QED BY <1>0, <2>1, <2>2, <3>1, <3>2, <3>3 DEF TypeInv, Accepting, WillAccept
  <2>3. CASE ~Accepting
    BY <2>1, <2>3 DEF TypeInv, AcceptOne
  <2> QED BY <2>2, <2>3
<1>4. ASSUME NEW r \in Ranks, NEW i \in Ready(cmdQ[r], Mode(r), mc[r]), Column(r, i)
      PROVE  QueuesOK'
  <2> DEFINE q == cmdQ[r]
  <2>1. q \in Seq(Sendable) /\ i \in 1 .. Len(q) /\ Len(q) \in Nat
        /\ \A k \in 1 .. Len(q) : q[k].rank = r
    BY QueueOf DEF Ready
  <2>2. /\ RemoveAt(q, i) \in Seq(Sendable) /\ Len(RemoveAt(q, i)) = Len(q) - 1
        /\ \A k \in 1 .. Len(q) - 1 : RemoveAt(q, i)[k] = IF k < i THEN q[k] ELSE q[k + 1]
    BY <2>1, RemoveAtProperties
  <2>3. \A k \in 1 .. Len(q) - 1 : RemoveAt(q, i)[k].rank = r
    BY <2>1, <2>2
  <2>4. cmdQ' = [cmdQ EXCEPT ![r] = RemoveAt(q, i)] /\ UNCHANGED <<pending, transQ>>
    BY <1>4 DEF Column, Record, frontVars
  <2>5. Len(q) <= CmdQueueDepth
    BY DEF TypeInv
  <2> HIDE DEF q
  <2> QED BY <1>0, <2>1, <2>2, <2>3, <2>4, <2>5 DEF TypeInv
<1>5. ASSUME NEW c, Bare(c)
      PROVE  QueuesOK'
  BY <1>5 DEF TypeInv, Bare, Record, frontVars
<1>6. CASE IssueNothing
  BY <1>6 DEF TypeInv, IssueNothing, frontVars, queueVars
<1>7. CASE Retire
  <2>1. UpdateTransactionQueue /\ pending' = pending
    BY <1>7 DEF Retire
  <2>2. CASE Movable = {}
    BY <2>1, <2>2 DEF TypeInv, UpdateTransactionQueue
  <2>3. CASE Movable # {}
    <3> DEFINE i == Min(Movable)
               p == transQ[i]
               q == cmdQ[p.rank]
    <3>1. i \in 1 .. Len(transQ) /\ p \in Sendable /\ p.rank \in Ranks /\ HasRoom(q)
      BY <2>3, MovedProperties
    <3>2. transQ' = RemoveAt(transQ, i) /\ cmdQ' = [cmdQ EXCEPT ![p.rank] = Append(q, p)]
      BY <2>1, <2>3 DEF UpdateTransactionQueue
    <3> HIDE DEF i, p
    <3>3. RemoveAt(transQ, i) \in Seq(Sendable) /\ Len(RemoveAt(transQ, i)) = Len(transQ) - 1
      BY <1>0, <3>1, RemoveAtProperties
    <3>4. q \in Seq(Sendable) /\ Len(q) \in Nat /\ \A k \in 1 .. Len(q) : q[k].rank = p.rank
      BY <3>1, QueueOf
    <3> HIDE DEF q
    <3>5. /\ Append(q, p) \in Seq(Sendable) /\ Len(Append(q, p)) = Len(q) + 1
          /\ \A k \in 1 .. Len(q) : Append(q, p)[k] = q[k]
          /\ Append(q, p)[Len(q) + 1] = p
      BY <3>1, <3>4, AppendProperties
    <3>6. /\ Len(Append(q, p)) <= CmdQueueDepth
          /\ \A k \in 1 .. Len(Append(q, p)) : Append(q, p)[k].rank = p.rank
      BY <1>0, <3>1, <3>4, <3>5 DEF HasRoom
    <3> QED BY <1>0, <2>1, <3>1, <3>2, <3>3, <3>5, <3>6 DEF TypeInv
  <2> QED BY <2>2, <2>3
<1>8. CASE UNCHANGED vars
  BY <1>8 DEF TypeInv, vars, frontVars, queueVars
<1> QED BY StepCases, <1>1, <1>2, <1>3, <1>4, <1>5, <1>6, <1>7, <1>8

\* The queues of countdowns, as RestProperties needs them.
LEMMA CountdownTypes ==
  ASSUME TypeInv, NEW r \in Ranks
  PROVE  /\ rdRet[r] \in Seq(Returns) /\ Apart(rdRet[r])
         /\ wrData \in Seq([left : 1 .. WL]) /\ Apart(wrData)
         /\ \A x \in Returns : /\ x.left \in Nat \ {0} /\ x.left <= RL /\ x.pkt \in Finds
                               /\ x.left > 1 => OneLess(x) \in Returns /\ OneLess(x).left = x.left - 1
                               /\ OneLess(x).pkt = x.pkt
         /\ \A x \in [left : 1 .. WL] :
              /\ x.left \in Nat \ {0} /\ x.left <= WL
              /\ x.left > 1 => OneLess(x) \in [left : 1 .. WL] /\ OneLess(x).left = x.left - 1
<1>1. RL \in Nat /\ WL \in Nat
  BY Geometry
<1>2. ASSUME NEW x \in Returns
      PROVE  /\ x.left \in Nat \ {0} /\ x.left <= RL /\ x.pkt \in Finds /\ OneLess(x).pkt = x.pkt
             /\ x.left > 1 => OneLess(x) \in Returns /\ OneLess(x).left = x.left - 1
  BY <1>1 DEF Returns, OneLess
<1>3. ASSUME NEW x \in [left : 1 .. WL]
      PROVE  /\ x.left \in Nat \ {0} /\ x.left <= WL
             /\ x.left > 1 => OneLess(x) \in [left : 1 .. WL] /\ OneLess(x).left = x.left - 1
  BY <1>1 DEF OneLess
<1> QED BY <1>2, <1>3 DEF TypeInv, ReturnsOK, WritesOK

\* One update of a rank's read returns.
LEMMA ReturnsRest ==
  ASSUME TypeInv, NEW r \in Ranks
  PROVE  LET q == rdRet[r]
             d == IF Due(q) THEN 1 ELSE 0 IN
         /\ Rest(q) \in Seq(Returns) /\ Len(Rest(q)) = Len(q) - d /\ d <= Len(q) /\ Len(q) \in Nat
         /\ \A k \in 1 .. Len(q) - d :
              /\ q[k + d] \in Returns /\ q[k + d].left > 1
              /\ Rest(q)[k].left = q[k + d].left - 1 /\ Rest(q)[k].pkt = q[k + d].pkt
         /\ Due(q) => q[1] \in Returns /\ Head(q) = q[1] /\ q[1].left = 1
<1> DEFINE q == rdRet[r]
           d == IF Due(q) THEN 1 ELSE 0
<1>1. /\ Rest(q) \in Seq(Returns) /\ Len(Rest(q)) = Len(q) - d /\ d <= Len(q) /\ Len(q) \in Nat
      /\ \A k \in 1 .. Len(q) - d : /\ q[k + d] \in Returns /\ q[k + d].left > 1
                                    /\ Rest(q)[k] = OneLess(q[k + d])
                                    /\ Rest(q)[k].left = q[k + d].left - 1
  <2>1. /\ q \in Seq(Returns) /\ Apart(q)
        /\ \A x \in Returns : /\ x.left \in Nat \ {0}
                              /\ x.left > 1 => OneLess(x) \in Returns /\ OneLess(x).left = x.left - 1
    BY CountdownTypes
  <2> HIDE DEF q
  <2> QED BY <2>1, RestProperties
<1>2. \A x \in Returns : OneLess(x).pkt = x.pkt
  BY CountdownTypes
<1>3. ASSUME Due(q) PROVE q[1] \in Returns /\ Head(q) = q[1] /\ q[1].left = 1
  <2>1. q \in Seq(Returns) /\ q # <<>> /\ Head(q).left = 1
    BY <1>3, CountdownTypes DEF Due
  <2>2. Head(q) = q[1] /\ Head(q) \in Returns
    BY <2>1, HeadTailProperties
  <2> QED BY <2>1, <2>2
<1> HIDE DEF d, q
<1>4. \A k \in 1 .. Len(q) - d : Rest(q)[k].pkt = q[k + d].pkt
  BY <1>1, <1>2
<1> QED BY <1>1, <1>3, <1>4 DEF d, q

\* A countdown longer than all others may be queued.
LEMMA ApartAppend ==
  ASSUME NEW X, NEW q \in Seq(X), NEW e \in X, Apart(q),
         \A i \in 1 .. Len(q) : q[i].left < e.left
  PROVE  Apart(Append(q, e))
<1>1. /\ Len(q) \in Nat /\ Len(Append(q, e)) = Len(q) + 1
      /\ \A i \in 1 .. Len(q) : Append(q, e)[i] = q[i]
      /\ Append(q, e)[Len(q) + 1] = e
  BY AppendProperties, LenProperties
<1>2. ASSUME NEW i \in 1 .. Len(q) + 1, NEW j \in 1 .. Len(q) + 1, i < j
      PROVE  Append(q, e)[i].left < Append(q, e)[j].left
  <2>1. i \in 1 .. Len(q) /\ Append(q, e)[i] = q[i]
    BY <1>1, <1>2
  <2>2. CASE j = Len(q) + 1
    BY <1>1, <2>1, <2>2
  <2>3. CASE j # Len(q) + 1
    <3>1. j \in 1 .. Len(q)
      BY <1>1, <2>3
    <3> QED BY <1>1, <1>2, <2>1, <3>1 DEF Apart
  <2> QED BY <2>2, <2>3
<1> QED BY <1>1, <1>2 DEF Apart

\* The queues of countdowns stay apart when one is taken off each.
LEMMA RestApart ==
  ASSUME NEW X, NEW q \in Seq(X), Apart(q),
         \A x \in X : /\ x.left \in Nat \ {0}
                      /\ x.left > 1 => OneLess(x) \in X /\ OneLess(x).left = x.left - 1
  PROVE  Apart(Rest(q))
<1> DEFINE d == IF Due(q) THEN 1 ELSE 0
<1>1. /\ Len(Rest(q)) = Len(q) - d /\ d <= Len(q) /\ Len(q) \in Nat /\ d \in {0, 1}
      /\ \A k \in 1 .. Len(q) - d : q[k + d] \in X /\ Rest(q)[k].left = q[k + d].left - 1
  <2>1. Len(q) \in Nat /\ Len(Rest(q)) = Len(q) - d /\ d <= Len(q)
    BY RestProperties
  <2>2. ASSUME NEW k \in 1 .. Len(q) - d
        PROVE  q[k + d] \in X /\ Rest(q)[k].left = q[k + d].left - 1
    <3>1. q[k + d] \in X /\ q[k + d].left > 1 /\ Rest(q)[k] = OneLess(q[k + d])
      BY RestProperties
    <3> QED BY <3>1
  <2>3. d \in {0, 1}
    OBVIOUS
  <2> QED BY <2>1, <2>2, <2>3
<1> HIDE DEF d
<1>2. ASSUME NEW i \in 1 .. Len(q) - d, NEW j \in 1 .. Len(q) - d, i < j
      PROVE  Rest(q)[i].left < Rest(q)[j].left
  <2>1. i + d \in 1 .. Len(q) /\ j + d \in 1 .. Len(q) /\ i + d < j + d
    BY <1>1, <1>2
  <2>2. q[i + d].left < q[j + d].left
    BY <2>1 DEF Apart
  <2>3. q[i + d].left \in Nat /\ q[j + d].left \in Nat
    BY <1>1
  <2> QED BY <1>1, <2>2, <2>3
<1> QED BY <1>1, <1>2 DEF Apart

\* What a rank's read returns are after an update: one less, and the read it has
\* just received, if the controller sent it one.
LEMMA ReturnsAfter ==
  ASSUME TypeInv, Deliver, NEW r \in Ranks
  PROVE  /\ rdRet'[r] \in Seq(Returns)
         /\ IF IsRead(bus) /\ bus.rank = r
            THEN /\ bus \in Sendable /\ Found(bus) \in Finds /\ Found(bus).loc = LocationOf(bus)
                 /\ [pkt |-> Found(bus), left |-> RL] \in Returns
                 /\ rdRet'[r] = Append(Rest(rdRet[r]), [pkt |-> Found(bus), left |-> RL])
            ELSE rdRet'[r] = Rest(rdRet[r])
<1>1. Rest(rdRet[r]) \in Seq(Returns)
  BY ReturnsRest
<1>2. rdRet'[r] = Rest(rdRet[r]) \o IF IsRead(bus) /\ bus.rank = r
                                    THEN <<[pkt |-> Found(bus), left |-> RL]>> ELSE <<>>
  BY DEF Deliver, CommandArrives
<1>3. CASE IsRead(bus) /\ bus.rank = r
  <2>1. bus \in Sendable
    BY <1>3 DEF TypeInv, BusOK, IsRead
  <2>2. bus.val \in Values /\ LocationOf(bus) \in Locations
    BY <2>1, SendableFields
  <2>3. Found(bus) \in Finds /\ Found(bus).loc = LocationOf(bus)
    BY <2>2 DEF Found, Finds, TypeInv, ClientOK
  <2>4. [pkt |-> Found(bus), left |-> RL] \in Returns
    BY <2>3, Geometry DEF Returns
  <2>5. rdRet'[r] = Append(Rest(rdRet[r]), [pkt |-> Found(bus), left |-> RL])
    BY <1>1, <1>2, <1>3, <2>4, AppendIsConcat
  <2> QED BY <1>1, <1>3, <2>1, <2>3, <2>4, <2>5, AppendProperties
<1>4. CASE ~(IsRead(bus) /\ bus.rank = r)
  <2>1. rdRet'[r] = Rest(rdRet[r])
    BY <1>1, <1>2, <1>4, ConcatEmptySeq
  <2> QED BY <1>1, <1>4, <2>1
<1> QED BY <1>3, <1>4

\* What the ranks' data buses give up in an update.
Landed == [k \in 1 .. NumRanks |-> IF rdBus[k - 1].left = 1 THEN <<rdBus[k - 1].pkt>> ELSE <<>>]

\* What leaves the data buses of the ranks are reads that found a value.
LEMMA LandedType ==
  ASSUME TypeInv
  PROVE  Landed \in [1 .. NumRanks -> Seq(Finds)] /\ FlattenSeq(Landed) \in Seq(Finds)
<1>1. NumRanks \in Nat
  BY Geometry
<1>2. ASSUME NEW k \in 1 .. NumRanks, rdBus[k - 1].left = 1
      PROVE  rdBus[k - 1].pkt \in Finds
  <2>1. k - 1 \in Ranks
    BY <1>1 DEF Ranks
  <2>2. rdBus[k - 1] \in {None} \cup [pkt : Finds, left : 1 .. Burst]
    BY <2>1 DEF TypeInv, ReturnsOK
  <2> QED BY <1>2, <2>2 DEF None
<1>3. Landed \in [1 .. NumRanks -> Seq(Finds)]
  BY <1>2 DEF Landed
<1> QED BY <1>1, <1>3, FlattenProperties

\* Which pending read a returned one is matched with.
LEMMA MatchProperties ==
  ASSUME TypeInv
  PROVE  /\ PendingNow \in Seq(Locations) /\ Len(PendingNow) \in Nat
         /\ Matching # {} => /\ Min(Matching) \in 1 .. Len(PendingNow)
                             /\ PendingNow[Min(Matching)] = Head(retQ).loc
<1>1. pendRd \in Seq(Locations)
  BY DEF TypeInv, ReturnsOK
<1>2. PendingNow \in Seq(Locations)
  <2>1. Movable # {} => LocationOf(transQ[Min(Movable)]) \in Locations
    BY MovedProperties, SendableFields
  <2> QED BY <1>1, <2>1, AppendProperties DEF PendingNow
<1>3. DOMAIN PendingNow = 1 .. Len(PendingNow) /\ Len(PendingNow) \in Nat
  BY <1>2, LenProperties
<1>4. Matching \subseteq Nat
  BY <1>3 DEF Matching
<1>5. Matching # {} => Min(Matching) \in Matching
  BY <1>4, MinIn
<1> QED BY <1>2, <1>3, <1>5 DEF Matching

\* Nor the reads on their way back: no two of a rank fall due at once.
LEMMA ReturnsStep ==
  ASSUME TypeInv, [Next]_vars
  PROVE  ReturnsOK'
<1> USE DEF ReturnsOK
<1>1. CASE \E o \in {"READ", "WRITE"}, l \in Locations : AddTransaction(o, l)
  BY <1>1 DEF TypeInv, AddTransaction, dataVars
<1>2. CASE AddBarrier
  BY <1>2 DEF TypeInv, AddBarrier, dataVars
<1>3. CASE Deliver
  <2>1. ASSUME NEW r \in Ranks
        PROVE  rdRet'[r] \in Seq(Returns) /\ Apart(rdRet'[r])
    <3>1. rdRet[r] \in Seq(Returns) /\ Apart(rdRet[r]) /\ Apart(Rest(rdRet[r]))
      BY CountdownTypes, RestApart
    <3>2. /\ Rest(rdRet[r]) \in Seq(Returns) /\ rdRet'[r] \in Seq(Returns)
          /\ \A i \in 1 .. Len(Rest(rdRet[r])) : Rest(rdRet[r])[i].left < RL
      <4> DEFINE q == rdRet[r]
                 d == IF Due(q) THEN 1 ELSE 0
      <4>1. /\ Rest(q) \in Seq(Returns) /\ Len(Rest(q)) = Len(q) - d
            /\ \A k \in 1 .. Len(q) - d : q[k + d] \in Returns /\ Rest(q)[k].left = q[k + d].left - 1
        BY ReturnsRest
      <4> HIDE DEF d, q
      <4>2. \A i \in 1 .. Len(Rest(q)) : Rest(q)[i].left < RL
        <5> TAKE i \in 1 .. Len(Rest(q))
        <5>1. q[i + d] \in Returns /\ Rest(q)[i].left = q[i + d].left - 1
          BY <4>1
        <5>2. q[i + d].left \in Nat /\ q[i + d].left <= RL /\ RL \in Nat
          BY <5>1, Geometry, CountdownTypes
        <5> QED BY ONLY <5>1, <5>2
      <4> QED BY <1>3, <4>1, <4>2, ReturnsAfter DEF q
    <3>3. CASE IsRead(bus) /\ bus.rank = r
      <4> DEFINE e == [pkt |-> Found(bus), left |-> RL]
      <4>1. e \in Returns /\ rdRet'[r] = Append(Rest(rdRet[r]), e) /\ e.left = RL
        BY <1>3, <3>3, ReturnsAfter
      <4> HIDE DEF e
      <4> QED BY <3>1, <3>2, <4>1, ApartAppend
    <3>4. CASE ~(IsRead(bus) /\ bus.rank = r)
      BY <1>3, <3>1, <3>2, <3>4, ReturnsAfter
    <3> QED BY <3>3, <3>4
  <2>2. rdRet' \in [Ranks -> Seq(Returns)]
    <3>1. DOMAIN rdRet' = Ranks /\ rdRet' = [r \in Ranks |-> rdRet'[r]]
      BY <1>3 DEF Deliver, CommandArrives
    <3> QED BY <2>1, <3>1
  <2>3. rdBus' \in [Ranks -> {None} \cup [pkt : Finds, left : 1 .. Burst]]
    <3>1. ASSUME NEW r \in Ranks
          PROVE  (IF Due(rdRet[r]) THEN [pkt |-> Head(rdRet[r]).pkt, left |-> Burst]
                                   ELSE BusAfter(rdBus[r]))
                   \in {None} \cup [pkt : Finds, left : 1 .. Burst]
      <4>1. Due(rdRet[r]) => Head(rdRet[r]).pkt \in Finds
        BY ReturnsRest, CountdownTypes
      <4>2. rdBus[r] \in {None} \cup [pkt : Finds, left : 1 .. Burst] /\ Burst \in Nat \ {0}
        BY Geometry DEF TypeInv
      <4>3. BusAfter(rdBus[r]) \in {None} \cup [pkt : Finds, left : 1 .. Burst]
        BY <4>2 DEF BusAfter, None
      <4> QED BY <4>1, <4>2, <4>3
    <3>2. rdBus' = [r \in Ranks |-> IF Due(rdRet[r])
                              THEN [pkt |-> Head(rdRet[r]).pkt, left |-> Burst]
                              ELSE BusAfter(rdBus[r])]
      BY <1>3 DEF Deliver, RanksUpdate
    <3> QED BY <3>1, <3>2
  <2>4. retQ' \in Seq(Finds)
    <3>1. retQ' = retQ \o FlattenSeq(Landed)
      BY <1>3 DEF Deliver, RanksUpdate, Landed
    <3> QED BY <3>1, LandedType, ConcatProperties DEF TypeInv
  <2>5. pendRd' = pendRd
    BY <1>3 DEF Deliver
  <2> QED BY <2>1, <2>2, <2>3, <2>4, <2>5 DEF TypeInv
<1>4. ASSUME NEW c, Record(c)
      PROVE  ReturnsOK'
  BY <1>4 DEF TypeInv, Record, frontVars
<1>5. CASE IssueNothing
  BY <1>5 DEF TypeInv, IssueNothing, frontVars, dataVars
<1>6. CASE Retire
  <2>1. ReturnRead /\ UNCHANGED <<rdRet, rdBus>>
    BY <1>6 DEF Retire
  <2>2. CASE retQ = <<>>
    BY <2>1, <2>2, MatchProperties DEF TypeInv, ReturnRead
  <2>3. CASE retQ # <<>> /\ Matching = {}
    BY <2>1, <2>3, MatchProperties DEF TypeInv, ReturnRead
  <2>4. CASE retQ # <<>> /\ Matching # {}
    <3>1. pendRd' = RemoveAt(PendingNow, Min(Matching)) /\ retQ' = Tail(retQ)
      BY <2>1, <2>4 DEF ReturnRead
    <3>2. pendRd' \in Seq(Locations)
      BY <2>4, <3>1, MatchProperties, RemoveAtProperties
    <3>3. retQ' \in Seq(Finds)
      BY <2>4, <3>1, HeadTailProperties DEF TypeInv
    <3> QED BY <2>1, <3>2, <3>3 DEF TypeInv
  <2> QED BY <2>2, <2>3, <2>4
<1>7. CASE UNCHANGED vars
  BY <1>7 DEF TypeInv, vars, frontVars, dataVars
<1> QED BY StepCases, <1>1, <1>2, <1>3, <1>4, <1>5, <1>6, <1>7 DEF Column, Bare

\* Nor the writes on their way out.
LEMMA WritesStep ==
  ASSUME TypeInv, [Next]_vars
  PROVE  WritesOK'
<1> USE DEF WritesOK
<1>1. CASE \E o \in {"READ", "WRITE"}, l \in Locations : AddTransaction(o, l)
  BY <1>1 DEF TypeInv, AddTransaction, dataVars
<1>2. CASE AddBarrier
  BY <1>2 DEF TypeInv, AddBarrier, dataVars
<1>3. CASE Deliver
  <2> DEFINE d == IF Due(wrData) THEN 1 ELSE 0
             X == [left : 1 .. WL]
  <2>1. wrData' = Rest(wrData) /\ wrBus' = (IF Due(wrData) THEN [left |-> Burst] ELSE BusAfter(wrBus))
    BY <1>3 DEF Deliver, WriteData
  <2>2. wrBus' \in [left : 0 .. Burst]
    BY <2>1, Geometry DEF TypeInv, BusAfter, None
  <2>3. /\ wrData \in Seq(X) /\ Apart(wrData)
        /\ \A x \in X : /\ x.left \in Nat \ {0} /\ x.left <= WL
                        /\ x.left > 1 => OneLess(x) \in X /\ OneLess(x).left = x.left - 1
    BY Geometry, CountdownTypes
  <2> HIDE DEF X
  <2>4. Apart(Rest(wrData)) /\ Rest(wrData) \in Seq(X)
    BY <2>3, RestApart, RestProperties
  <2>5. /\ Len(Rest(wrData)) = Len(wrData) - d
        /\ \A k \in 1 .. Len(wrData) - d :
             wrData[k + d] \in X /\ Rest(wrData)[k].left = wrData[k + d].left - 1
    BY <2>3, RestProperties
  <2> HIDE DEF d
  <2>6. ASSUME NEW k \in 1 .. Len(Rest(wrData))
        PROVE  Rest(wrData)[k].left < WL
    <3>1. wrData[k + d] \in X /\ Rest(wrData)[k].left = wrData[k + d].left - 1
      BY <2>5
    <3>2. wrData[k + d].left \in Nat /\ wrData[k + d].left <= WL /\ WL \in Nat
      BY <2>3, <3>1, Geometry
    <3> QED BY <3>1, <3>2
  <2> QED BY <2>1, <2>2, <2>4, <2>6 DEF X
<1>4. ASSUME NEW r \in Ranks, NEW i, Column(r, i)
      PROVE  WritesOK'
  <2>1. pc = "issue" /\ pc' = "step" /\ wrBus' = wrBus
    BY <1>4 DEF Column, Record
  <2>2. CASE cmdQ[r][i].op = "WRITE"
    <3> DEFINE e == [left |-> WL]
               X == [left : 1 .. WL]
    <3>1. e \in X /\ e.left = WL
      BY Geometry
    <3>2. wrData \in Seq(X) /\ Apart(wrData) /\ \A k \in 1 .. Len(wrData) : wrData[k].left < e.left
      BY <2>1 DEF TypeInv
    <3>3. wrData' = Append(wrData, e)
      BY <1>4, <2>2 DEF Column
    <3> HIDE DEF e, X
    <3>4. Apart(wrData') /\ wrData' \in Seq(X)
      BY <3>1, <3>2, <3>3, ApartAppend, AppendProperties
    <3> QED BY <2>1, <3>4 DEF TypeInv, X
  <2>3. CASE cmdQ[r][i].op # "WRITE"
    BY <1>4, <2>1, <2>3 DEF TypeInv, Column
  <2> QED BY <2>2, <2>3
<1>5. ASSUME NEW c, Bare(c)
      PROVE  WritesOK'
  BY <1>5 DEF TypeInv, Bare, Record
<1>6. CASE IssueNothing
  BY <1>6 DEF TypeInv, IssueNothing, dataVars
<1>7. CASE Retire
  BY <1>7 DEF TypeInv, Retire
<1>8. CASE UNCHANGED vars
  BY <1>8 DEF TypeInv, vars, dataVars
<1> QED BY StepCases, <1>1, <1>2, <1>3, <1>4, <1>5, <1>6, <1>7, <1>8

\* When the rank whose turn it is has been asked for a refresh it goes last.
LEMMA RefreshNext ==
  ASSUME RefreshOK, UpdateRefresh, pc = "deliver", pc' = "issue"
  PROVE  RefreshOK'
<1> DEFINE k == refresh.rank
           N == NumRanks
           count == refresh.count
<1>1. N \in Nat \ {0} /\ k \in 0 .. N - 1 /\ Ranks = 0 .. N - 1 /\ k \in Ranks
  BY Geometry DEF RefreshOK, Ranks
<1>2. tREFI \in Nat \ {0} /\ count \in [Ranks -> Nat] /\ \A r \in Ranks : count[r] \in Nat
  BY Geometry DEF RefreshOK
<1>3. \A r, s \in Ranks : /\ Turn(r) < Turn(s) => count[r] < count[s]
                          /\ count[s] < count[r] + tREFI
  BY DEF RefreshOK
<1>4. \A s \in Ranks : Turn(s) \in 0 .. N - 1 /\ (s # k => Turn(k) < Turn(s))
  BY <1>1 DEF Turn
<1>5. \A s \in Ranks : s # k => count[k] < count[s]
  BY <1>1, <1>3, <1>4
<1>6. CASE count[k] = 0
  <2> DEFINE next == IF k = N - 1 THEN 0 ELSE k + 1
             after == [count EXCEPT ![k] = tREFI]
  <2>1. (k + 1) % N = next
    <3>1. CASE k = N - 1
      <4>1. (k + 1) % N = 0
        BY <1>1, <3>1
      <4> QED BY <3>1, <4>1
    <3>2. CASE k # N - 1
      <4>1. k + 1 \in Nat /\ k + 1 < N /\ N \in Nat
        BY <1>1, <3>2
      <4>2. (k + 1) % N = k + 1
        BY ONLY <4>1, ModSmall
      <4> QED BY <3>2, <4>2
    <3> QED BY <3>1, <3>2
  <2>2. next \in Ranks
    BY <1>1
  <2> HIDE DEF next
  <2>3. refresh' = [rank |-> next, count |-> after]
    BY <1>6, <2>1 DEF UpdateRefresh
  <2>4. refresh'.rank = next /\ refresh'.count = after
    BY <2>3
  <2>5. \A s \in Ranks : Turn(s)' = IF s = k THEN N - 1 ELSE Turn(s) - 1
    <3>1. \A s \in Ranks : Turn(s)' = IF s >= next THEN s - next ELSE s + N - next
      BY <2>4 DEF Turn
    <3>2. \A s \in Ranks : Turn(s) = IF s >= k THEN s - k ELSE s + N - k
      BY DEF Turn
    <3>3. next = IF k = N - 1 THEN 0 ELSE k + 1
      BY DEF next
    <3> HIDE DEF k, N
    <3>4. ASSUME NEW s \in Ranks
          PROVE  Turn(s)' = IF s = k THEN N - 1 ELSE Turn(s) - 1
      <4>1. s \in 0 .. N - 1 /\ k \in 0 .. N - 1 /\ N \in Nat
        BY <1>1
      <4>2. /\ Turn(s)' = IF s >= next THEN s - next ELSE s + N - next
            /\ Turn(s) = IF s >= k THEN s - k ELSE s + N - k
        BY <3>1, <3>2
      <4>3. CASE k = N - 1
        <5>1. next = 0 /\ Turn(s)' = s
          BY <3>3, <4>1, <4>2, <4>3
        <5> QED BY <4>1, <4>2, <4>3, <5>1
      <4>4. CASE k # N - 1
        <5>1. next = k + 1
          BY <3>3, <4>4
        <5> QED BY <4>1, <4>2, <5>1
      <4> QED BY <4>3, <4>4
    <3> QED BY <3>4
  <2>6. \A s \in Ranks : after[s] = IF s = k THEN tREFI ELSE count[s]
    BY <1>1, <1>2
  <2>7. after \in [Ranks -> Nat]
    BY <1>1, <1>2
  <2> HIDE DEF k, N, count, after
  <2>8. \A s \in Ranks : s # k => count[s] > 0 /\ count[s] < tREFI
    BY <1>1, <1>2, <1>3, <1>5, <1>6
  <2>9. \A s \in Ranks : after[s] \in Nat /\ after[s] > 0
    BY <1>2, <2>6, <2>8
  <2>10. ASSUME NEW r \in Ranks, NEW s \in Ranks
         PROVE  (Turn(r)' < Turn(s)' => after[r] < after[s]) /\ after[s] < after[r] + tREFI
    <3>1. CASE r = k
      <4>1. Turn(r)' = N - 1 /\ after[r] = tREFI /\ N \in Nat
        BY <1>1, <2>5, <2>6, <3>1
      <4>2. after[s] <= tREFI
        BY <1>2, <2>6, <2>8
      <4>3. Turn(s)' \in Int /\ Turn(s)' <= N - 1
        <5>1. Turn(s) \in 0 .. N - 1 /\ Turn(s)' = IF s = k THEN N - 1 ELSE Turn(s) - 1
          BY <1>4, <2>5
        <5> QED BY <4>1, <5>1
      <4> QED BY <1>1, <1>2, <2>9, <4>1, <4>2, <4>3
    <3>2. CASE r # k /\ s = k
      <4>1. after[s] = tREFI /\ after[r] = count[r]
        BY <2>6, <3>2
      <4> QED BY <1>2, <2>8, <3>2, <4>1
    <3>3. CASE r # k /\ s # k
      <4>1. after[s] = count[s] /\ after[r] = count[r]
            /\ Turn(r)' = Turn(r) - 1 /\ Turn(s)' = Turn(s) - 1
        BY <2>5, <2>6, <3>3
      <4>2. Turn(r) \in Int /\ Turn(s) \in Int
        BY <1>4
      <4> QED BY <1>3, <4>1, <4>2
    <3> QED BY <3>1, <3>2, <3>3
  <2>11. refresh' \in [rank : Ranks, count : [Ranks -> Nat]]
    BY <2>2, <2>3, <2>7
  <2> QED BY <2>4, <2>9, <2>10, <2>11 DEF RefreshOK
<1>7. CASE count[k] # 0
  <2>1. refresh' = refresh
    BY <1>7 DEF UpdateRefresh
  <2>2. count[k] \in Nat /\ count[k] > 0
    BY <1>1, <1>2, <1>7
  <2> HIDE DEF count, k
  <2>3. \A s \in Ranks : count[s] > 0
    BY <1>2, <1>5, <2>2
  <2> QED BY <2>1, <2>3 DEF RefreshOK, Turn, count
<1> QED BY <1>6, <1>7

\* Nor the refresh counters: ranks fall due one after the other, never two at once.
LEMMA RefreshStep ==
  ASSUME TypeInv, [Next]_vars
  PROVE  RefreshOK'
<1>0. RefreshOK /\ tREFI \in Nat
  BY Geometry DEF TypeInv
<1>1. CASE refresh' = refresh /\ (pc' # "deliver" => pc # "deliver")
  BY <1>0, <1>1 DEF RefreshOK, Turn
<1>2. CASE Deliver
  BY <1>0, <1>2, RefreshNext DEF Deliver
<1>3. CASE Retire
  <2> DEFINE count == refresh.count
             after == refresh'.count
  <2>1. /\ refresh'.rank = refresh.rank /\ refresh'.rank \in Ranks
        /\ refresh' = [rank |-> refresh.rank, count |-> [r \in Ranks |-> count[r] - 1]]
        /\ pc' = "deliver" /\ pc = "step"
    BY <1>0, <1>3 DEF RefreshOK, Retire
  <2>2. \A r \in Ranks : after[r] = count[r] - 1 /\ count[r] \in Nat /\ count[r] > 0
    BY <1>0, <2>1 DEF RefreshOK
  <2>3. refresh' \in [rank : Ranks, count : [Ranks -> Nat]]
    <3>1. \A r \in Ranks : count[r] - 1 \in Nat
      BY <2>2
    <3> QED BY <2>1, <3>1
  <2>4. \A r \in Ranks : Turn(r)' = Turn(r)
    BY <2>1 DEF Turn
  <2>5. \A r, s \in Ranks : /\ Turn(r) < Turn(s) => count[r] < count[s]
                            /\ count[s] < count[r] + tREFI
    BY <1>0 DEF RefreshOK
  <2>6. ASSUME NEW r \in Ranks, NEW s \in Ranks
        PROVE  /\ Turn(r)' < Turn(s)' => after[r] < after[s]
               /\ after[s] < after[r] + tREFI
    <3> HIDE DEF count, after
    <3> QED BY <1>0, <2>2, <2>4, <2>5
  <2> QED BY <2>1, <2>3, <2>6 DEF RefreshOK
<1>4. CASE \E o \in {"READ", "WRITE"}, l \in Locations : AddTransaction(o, l)
  BY <1>1, <1>4 DEF AddTransaction, queueVars
<1>5. CASE AddBarrier
  BY <1>1, <1>5 DEF AddBarrier, queueVars
<1>6. ASSUME NEW c, Record(c)
      PROVE  RefreshOK'
  BY <1>1, <1>6 DEF Record
<1>7. CASE IssueNothing
  BY <1>1, <1>7 DEF IssueNothing, queueVars
<1>8. CASE UNCHANGED vars
  BY <1>1, <1>8 DEF vars, queueVars
<1> QED BY StepCases, <1>2, <1>3, <1>4, <1>5, <1>6, <1>7, <1>8 DEF Column, Bare

-----------------------------------------------------------------------------
(* The types, at last. *)

\* The interval a rank's refreshes are staggered by.
LEMMA Stagger ==
  ASSUME NEW t \in Nat, NEW n \in Nat \ {0}, t >= n
  PROVE  t \div n \in Nat \ {0} /\ (t \div n) * n <= t
<1> DEFINE each == t \div n
<1>1. each \in Int /\ each * n <= t /\ t < (each + 1) * n
  OBVIOUS
<1> HIDE DEF each
<1>2. each > 0
  <2> SUFFICES ASSUME each + 1 <= 1 PROVE FALSE
    BY <1>1
  <2>1. (each + 1) * n <= 1 * n
    BY <1>1
  <2> QED BY <1>1, <2>1
<1> QED BY <1>1, <1>2 DEF each

\* More turns, a longer wait.
LEMMA Monotone ==
  ASSUME NEW e \in Nat \ {0}, NEW a \in Nat, NEW b \in Nat, a < b
  PROVE  e * a < e * b /\ e * a \in Nat /\ e * b \in Nat
  OBVIOUS

\* The counters start apart.
LEMMA InitRefresh == Init => RefreshOK
<1> SUFFICES ASSUME Init PROVE RefreshOK
  OBVIOUS
<1> DEFINE each == tREFI \div NumRanks
           after == [r \in Ranks |-> each * (r + 1)]
<1>1. refresh = [rank |-> 0, count |-> after] /\ pc = "deliver"
  BY DEF Init
<1>2. tREFI \in Nat /\ NumRanks \in Nat \ {0} /\ tREFI >= NumRanks
  BY Geometry, ChannelAssumption DEF ChannelAssumption
<1>3. each \in Nat \ {0} /\ each * NumRanks <= tREFI
  BY <1>2, Stagger
<1> HIDE DEF each
<1>4. \A r \in Ranks : Turn(r) = r /\ r \in Nat /\ r + 1 \in Nat /\ r + 1 <= NumRanks
  BY <1>1, <1>2 DEF Turn, Ranks
<1>5. \A r \in Ranks : after[r] = each * (r + 1)
  OBVIOUS
<1>6. ASSUME NEW r \in Ranks
      PROVE  after[r] \in Nat /\ after[r] > 0 /\ after[r] <= tREFI
  <2>1. after[r] \in Nat /\ each * 0 < after[r]
    BY <1>3, <1>4, <1>5, Monotone
  <2>2. each * (r + 1) <= each * NumRanks
    <3>1. CASE r + 1 = NumRanks
      <4>1. each * (r + 1) = each * NumRanks /\ each * NumRanks \in Nat
        BY <1>2, <1>3, <3>1
      <4> QED BY <4>1
    <3>2. CASE r + 1 < NumRanks
      BY <1>2, <1>3, <1>4, <3>2, Monotone
    <3> QED BY <1>2, <1>4, <3>1, <3>2
  <2>3. each * NumRanks \in Nat /\ each * 0 = 0
    BY <1>2, <1>3
  <2> QED BY <1>2, <1>3, <1>5, <2>1, <2>2, <2>3
<1>7. ASSUME NEW r \in Ranks, NEW s \in Ranks
      PROVE  (Turn(r) < Turn(s) => after[r] < after[s]) /\ after[s] < after[r] + tREFI
  <2>1. ASSUME r < s PROVE after[r] < after[s]
    <3>1. r + 1 \in Nat /\ s + 1 \in Nat /\ r + 1 < s + 1
      BY <1>4, <2>1
    <3> QED BY <1>3, <1>5, <3>1, Monotone
  <2> HIDE DEF after
  <2> QED BY <1>2, <1>4, <1>6, <2>1
<1>8. after \in [Ranks -> Nat]
  BY <1>6
<1> HIDE DEF after
<1>9. refresh \in [rank : Ranks, count : [Ranks -> Nat]] /\ refresh.count = after
  BY <1>1, <1>8, Geometry
<1> QED BY <1>1, <1>7, <1>9 DEF RefreshOK

\* The initial state is well typed.
LEMMA InitTypes == Init => TypeInv
<1> SUFFICES ASSUME Init PROVE TypeInv
  OBVIOUS
<1>1. ControlOK
  <2>1. 0 \in Slots /\ 0 \in Ranks
    BY SlotTypes, Geometry DEF Slots
  <2>2. [now |-> "SB", abmr |-> {}, sbmr |-> {}]
          \in [now : {"SB", "HAB", "HAB_PIM"}, abmr : SUBSET Banks, sbmr : SUBSET {0, 1}]
    OBVIOUS
  <2> QED BY <2>1, <2>2 DEF Init, ControlOK
<1>2. ClientOK
  BY Geometry DEF Init, ClientOK
<1>3. QueuesOK
  BY Geometry, EmptySeq DEF Init, QueuesOK
<1>4. BanksOK
  <2>1. InitBank \in BankStateType
    BY DEF InitBank, BankStateType, Ops
  <2> QED BY <2>1 DEF Init, BanksOK
<1>5. BusOK /\ WritesOK
  BY Geometry, EmptySeq DEF Init, BusOK, WritesOK, Apart, None
<1>6. ReturnsOK
  BY Geometry, EmptySeq DEF Init, ReturnsOK, Apart
<1> QED BY <1>1, <1>2, <1>3, <1>4, <1>5, <1>6, InitRefresh DEF TypeInv

\* Every step keeps the types.
LEMMA TypeStep == TypeInv /\ [Next]_vars => TypeInv'
  BY ControlStep, ClientStep, QueuesStep, BanksStep, BusStep, ReturnsStep, WritesStep, RefreshStep
  DEF TypeInv

\* With the count of what is in flight, it is the type invariant the runs check.
LEMMA TypesSuffice == TypeInv /\ onFly \in Nat => TypeOK
<1> SUFFICES ASSUME TypeInv, onFly \in Nat PROVE TypeOK
  OBVIOUS
<1>1. ASSUME NEW q \in Seq(Sendable) PROVE q \in Seq(Packets)
  <2>1. \A i \in 1 .. Len(q) : q[i] \in Packets
    BY ElementOfSeq DEF Sendable
  <2> QED BY <2>1, SeqRetype
<1>2. /\ pending \in Seq(Packets) /\ transQ \in Seq(Packets) /\ Len(transQ) <= TransQueueDepth
      /\ \A r \in Ranks : cmdQ[r] \in Seq(Packets) /\ Len(cmdQ[r]) <= CmdQueueDepth
  BY <1>1 DEF TypeInv, QueuesOK
<1>3. /\ cq \in [nextRank : Ranks, nextPRE : Slots, waiting : BOOLEAN, rank : Ranks]
      /\ pc \in {"deliver", "issue", "step"} /\ error \in {"none", "rank", "dataBus", "noMatch"}
      /\ modes \in [Ranks -> [now : {"SB", "HAB", "HAB_PIM"}, abmr : SUBSET Banks, sbmr : SUBSET {0, 1}]]
  BY DEF TypeInv, ControlOK
<1>4. /\ refresh \in [rank : Ranks, count : [Ranks -> Nat]]
      /\ mc \in [Ranks -> [Banks -> BankStateType]] /\ rk \in [Ranks -> [Banks -> BankStateType]]
  BY DEF TypeInv, RefreshOK, BanksOK
<1>5. bus = NoCmd \/ bus \in Packets \/ CommandOf(bus) \in Commands
  BY DEF TypeInv, BusOK
<1>6. wrData \in Seq([left : 1 .. WL]) /\ wrBus \in [left : 0 .. Burst] /\ pendRd \in Seq(Locations)
  BY DEF TypeInv, WritesOK, ReturnsOK
<1>7. ASSUME NEW r \in Ranks
      PROVE  rdBus[r].left \in 0 .. Burst /\ \A i \in DOMAIN rdRet[r] : rdRet[r][i].left \in 1 .. RL
  <2>1. rdBus[r] \in {None} \cup [pkt : Finds, left : 1 .. Burst] /\ rdRet[r] \in Seq(Returns)
    BY DEF TypeInv, ReturnsOK
  <2>2. \A i \in DOMAIN rdRet[r] : rdRet[r][i] \in Returns
    BY <2>1, LenProperties, ElementOfSeq
  <2> QED BY <2>1, <2>2, Geometry DEF None, Returns
<1> QED BY <1>2, <1>3, <1>4, <1>5, <1>6, <1>7 DEF TypeOK, TypeInv, ClientOK

-----------------------------------------------------------------------------
(* Refinement: a channel whose client stays out of the mode registers makes    *)
(* only the steps DramTiming allows.                                            *)

\* PIM_ABMR_RA, column 31: opening it is what starts the way out of SB mode.
NoModeSwitch == \A l \in Locations : ~(l.row = 10239 /\ l.col = 31)

Rows == {l.row : l \in Locations}

StaysSB ==
  /\ \A r \in Ranks : Mode(r) = "SB"
  /\ bus # NoCmd /\ bus.op = "ACTIVATE" => ~(bus.row = 10239 /\ bus.col = 31)

RowsKnown == \A r \in Ranks, b \in Banks : mc[r][b].row \in Rows \cup {0}

SBInv == TypeInv /\ StaysSB /\ RowsKnown

\* Where no location is in a register row, no step moves a rank out of SB mode.
LEMMA StaysSBStep ==
  ASSUME NoModeSwitch, TypeInv, StaysSB, [Next]_vars
  PROVE  StaysSB'
<1> USE DEF StaysSB, Mode
<1>1. CASE UNCHANGED <<modes, bus>>
  BY <1>1
<1>2. CASE \E o \in {"READ", "WRITE"}, l \in Locations : AddTransaction(o, l)
  BY <1>1, <1>2 DEF AddTransaction, dataVars
<1>3. CASE AddBarrier
  BY <1>1, <1>3 DEF AddBarrier, dataVars
<1>4. CASE Deliver
  <2>1. bus' = NoCmd
    BY <1>4 DEF Deliver, CommandArrives
  <2>2. ASSUME NEW r \in Ranks PROVE modes'[r].now = "SB"
    <3>1. CASE bus = NoCmd
      BY <1>4, <3>1 DEF Deliver, CommandArrives
    <3>2. CASE bus # NoCmd
      <4>1. bus.rank \in Ranks /\ modes' = [modes EXCEPT ![bus.rank] = ModeAfter(@, bus)]
        BY <1>4, <3>2 DEF Deliver, CommandArrives, TypeInv, BusOK, CommandOf, Commands
      <4>2. modes[bus.rank].now = "SB"
        BY <4>1
      <4>3. ModeAfter(modes[bus.rank], bus) = modes[bus.rank]
        BY <3>2, <4>2 DEF ModeAfter, AfterActivate, AfterPrecharge, AfterWrite
      <4> QED BY <4>1, <4>2, <4>3 DEF TypeInv, ControlOK
    <3> QED BY <3>1, <3>2
  <2> QED BY <2>1, <2>2
<1>5. ASSUME NEW r \in Ranks, NEW i \in Ready(cmdQ[r], Mode(r), mc[r]), Column(r, i)
      PROVE  StaysSB'
  <2>1. cmdQ[r][i].op \in {"READ", "WRITE"}
    BY QueueOf, SendableFields DEF Ready
  <2> QED BY <1>5, <2>1 DEF Column, Record
<1>6. ASSUME NEW c, Bare(c)
      PROVE  StaysSB'
  <2>1. c.op = "ACTIVATE" => ~(c.row = 10239 /\ c.col = 31)
    BY <1>6 DEF Bare, NoModeSwitch
  <2> QED BY <1>6, <2>1 DEF Bare, Record
<1>7. CASE IssueNothing
  BY <1>1, <1>7 DEF IssueNothing, dataVars
<1>8. CASE Retire
  BY <1>1, <1>8 DEF Retire
<1>9. CASE UNCHANGED vars
  BY <1>1, <1>9 DEF vars, dataVars
<1> QED BY StepCases, <1>2, <1>3, <1>4, <1>5, <1>6, <1>7, <1>8, <1>9

\* Only an activate changes the row a bank is recorded with.
LEMMA RowsKept ==
  ASSUME NEW x \in BankStateType, NEW c, NEW i, NEW j
  PROVE  /\ AgeBank(x).row = x.row /\ SettleBank(x).row = x.row
         /\ McBank(x, c, i, j).row = IF c.op = "ACTIVATE" /\ i = c.rank /\ j = c.bank
                                     THEN c.row ELSE x.row
  BY DEF AgeBank, SettleBank, McBank, McRead, McWrite, McActivate, McPrecharge, McRefresh,
         ColumnDelays, BankStateType

\* No step opens a row that no location has.
LEMMA RowsKnownStep ==
  ASSUME TypeInv, RowsKnown, [Next]_vars
  PROVE  RowsKnown'
<1> USE DEF RowsKnown
<1>0. \A r \in Ranks, b \in Banks : mc[r][b] \in BankStateType
  BY DEF TypeInv, BanksOK
<1>1. CASE UNCHANGED mc
  BY <1>1
<1>2. CASE \E o \in {"READ", "WRITE"}, l \in Locations : AddTransaction(o, l)
  BY <1>1, <1>2 DEF AddTransaction
<1>3. CASE AddBarrier
  BY <1>1, <1>3 DEF AddBarrier
<1>4. CASE Deliver
  <2>1. \A r \in Ranks, b \in Banks : mc'[r][b] = SettleBank(mc[r][b])
    BY <1>4 DEF Deliver, CommandArrives
  <2> QED BY <1>0, <2>1, RowsKept
<1>5. ASSUME NEW c, Record(c), c.op = "ACTIVATE" => c.row \in Rows
      PROVE  RowsKnown'
  <2>1. \A r \in Ranks, b \in Banks : mc'[r][b] = McBank(mc[r][b], c, r, b)
    BY <1>5 DEF Record
  <2> QED BY <1>0, <1>5, <2>1, RowsKept
<1>6. ASSUME NEW r \in Ranks, NEW i \in Ready(cmdQ[r], Mode(r), mc[r]), Column(r, i)
      PROVE  RowsKnown'
  <2>1. cmdQ[r][i].op \in {"READ", "WRITE"}
    BY QueueOf, SendableFields DEF Ready
  <2> QED BY <1>5, <1>6, <2>1 DEF Column
<1>7. ASSUME NEW c, Bare(c)
      PROVE  RowsKnown'
  BY <1>5, <1>7 DEF Bare, Rows
<1>8. CASE IssueNothing
  BY <1>1, <1>8 DEF IssueNothing
<1>9. CASE Retire
  <2>1. \A r \in Ranks, b \in Banks : mc'[r][b] = AgeBank(mc[r][b])
    BY <1>9 DEF Retire, Aged
  <2> QED BY <1>0, <2>1, RowsKept
<1>10. CASE UNCHANGED vars
  BY <1>1, <1>10 DEF vars
<1> QED BY StepCases, <1>2, <1>3, <1>4, <1>6, <1>7, <1>8, <1>9, <1>10

\* The initial state is in SB mode, with no row open.
LEMMA InitSB == Init => SBInv
<1> SUFFICES ASSUME Init PROVE SBInv
  OBVIOUS
<1>1. StaysSB
  BY DEF Init, StaysSB, Mode
<1>2. RowsKnown
  BY DEF Init, RowsKnown, InitBank
<1> QED BY <1>1, <1>2, InitTypes DEF SBInv

\* The two sides of the timing, as this module and DramTiming name them.
LEMMA RulesSame ==
  /\ TP!NoCmd = NoCmd /\ TP!InitBank = InitBank
  /\ \A row : TP!IsReservedRA(row) = IsReservedRA(row)
  /\ \A mode, m, c : TP!Issuable(mode, m, c) = Issuable(mode, m, c)
                     /\ Issuable(mode, m, c) = Issuable(mode, m, CommandOf(c))
  /\ \A bs, c : TP!RankAccepts("SB", bs, c) = RankAccepts("SB", bs, c)
                /\ RankAccepts("SB", bs, c) = RankAccepts("SB", bs, CommandOf(c))
<1>1. TP!NoCmd = NoCmd /\ TP!InitBank = InitBank /\ \A row : TP!IsReservedRA(row) = IsReservedRA(row)
  BY DEF TP!NoCmd, NoCmd, TP!InitBank, InitBank, TP!IsReservedRA, IsReservedRA
<1>2. ASSUME NEW c
      PROVE  /\ CommandOf(c).op = c.op /\ CommandOf(c).rank = c.rank
             /\ CommandOf(c).bank = c.bank /\ CommandOf(c).row = c.row
  BY DEF CommandOf
<1>3. ASSUME NEW mode, NEW m, NEW c
      PROVE  /\ TP!Issuable(mode, m, c) = Issuable(mode, m, c)
             /\ Issuable(mode, m, c) = Issuable(mode, m, CommandOf(c))
  BY <1>2 DEF TP!Issuable, Issuable
<1>4. ASSUME NEW x, NEW c
      PROVE  /\ TP!BankAccepts(x, c) = BankAccepts(x, c)
             /\ BankAccepts(x, c) = BankAccepts(x, CommandOf(c))
  BY <1>2 DEF TP!BankAccepts, BankAccepts
<1>5. ASSUME NEW bs, NEW c
      PROVE  /\ TP!RankAccepts("SB", bs, c) = RankAccepts("SB", bs, c)
             /\ RankAccepts("SB", bs, c) = RankAccepts("SB", bs, CommandOf(c))
  <2> DEFINE idle == \A b \in Banks : bs[b].st = "Idle"
  <2>1. RankAccepts("SB", bs, c) = IF c.op = "REF" THEN idle ELSE BankAccepts(bs[c.bank], c)
    BY DEF RankAccepts
  <2>2. RankAccepts("SB", bs, CommandOf(c))
          = IF c.op = "REF" THEN idle ELSE BankAccepts(bs[c.bank], CommandOf(c))
    BY <1>2 DEF RankAccepts
  <2>3. TP!RankAccepts("SB", bs, c) = IF c.op = "REF" THEN idle ELSE TP!BankAccepts(bs[c.bank], c)
    BY SetsSame DEF TP!RankAccepts
  <2> HIDE DEF idle
  <2> QED BY <1>4, <2>1, <2>2, <2>3
<1> QED BY <1>1, <1>3, <1>4, <1>5

\* Whether there is a packet on the bus, and whether its rank looks at it.
LEMMA BusSame ==
  ASSUME BusOK
  PROVE  /\ CommandOf(bus) = NoCmd <=> bus = NoCmd
         /\ TP!Checked(CommandOf(bus)) = Checked(bus)
         /\ CommandOf(bus).rank = bus.rank
<1>1. CommandOf(NoCmd) = NoCmd
  BY DEF CommandOf, NoCmd
<1>2. bus # NoCmd => CommandOf(bus).op # "NONE"
  BY DEF BusOK, Commands, Ops
<1>3. CommandOf(bus) = NoCmd <=> bus = NoCmd
  BY <1>1, <1>2 DEF NoCmd
<1>4. CommandOf(bus).row = bus.row /\ CommandOf(bus).rank = bus.rank
  BY DEF CommandOf
<1> QED BY <1>3, <1>4, RulesSame DEF TP!Checked, Checked

\* Deliver is the delivery of DramTiming, and its rank accepts the command.
LEMMA DeliverRefines ==
  ASSUME SBInv, Deliver
  PROVE  TP!Deliver
<1>1. TypeInv /\ BusOK /\ \A r \in Ranks : Mode(r) = "SB"
  BY DEF SBInv, TypeInv, StaysSB
<1>2. pc = "deliver" /\ error = "none" /\ pc' = "issue" /\ bus' = NoCmd
  BY DEF Deliver, Running, CommandArrives
<1>3. mc' = [i \in TP!Ranks |-> [j \in TP!Banks |-> TP!SettleBank(mc[i][j])]]
  BY SettleBankSame, SetsSame DEF Deliver, CommandArrives
<1>4. Rejected <=> TP!Checked(CommandOf(bus))
                   /\ ~TP!RankAccepts("SB", rk[CommandOf(bus).rank], CommandOf(bus))
  <2>1. CASE bus = NoCmd
    BY <1>1, <2>1, BusSame DEF Rejected, Checked
  <2>2. CASE bus # NoCmd
    <3>1. bus.rank \in Ranks
      BY <1>1, <2>2 DEF BusOK, CommandOf, Commands
    <3> QED BY <1>1, <3>1, BusSame, RulesSame DEF Rejected
  <2> QED BY <2>1, <2>2
<1>5. rk' = [r \in Ranks |-> [b \in Banks |->
                IF Checked(bus) /\ bus.rank = r /\ ~Rejected
                THEN RankBank(Mode(r), rk[r][b], bus, b) ELSE rk[r][b]]]
  BY DEF Deliver, CommandArrives
<1>6. error' = IF Rejected THEN "rank"
               ELSE IF Due(wrData) /\ WriteBusBusy THEN "dataBus" ELSE "none"
  BY DEF Deliver
<1>7. CommandOf(bus)' = TP!NoCmd
  BY <1>2, RulesSame DEF CommandOf, NoCmd
<1>8. CASE Rejected
  <2>1. rk' = rk
    <3>1. rk' = [r \in Ranks |-> [b \in Banks |-> rk[r][b]]]
      BY <1>5, <1>8
    <3> QED BY <1>1, <3>1 DEF TypeInv, BanksOK
  <2>2. (error' = "rank") = TRUE
    BY <1>6, <1>8
  <2> QED BY <1>2, <1>3, <1>4, <1>7, <1>8, <2>1, <2>2 DEF TP!Deliver
<1>9. CASE ~Rejected
  <2>1. ASSUME NEW r \in Ranks, NEW b \in Banks
        PROVE  (IF Checked(bus) /\ bus.rank = r /\ ~Rejected
                THEN RankBank(Mode(r), rk[r][b], bus, b) ELSE rk[r][b])
               = TP!AfterCommand(rk[r][b], CommandOf(bus), r, b)
    <3>1. RankBank(Mode(r), rk[r][b], bus, b) = TP!RankBank("SB", rk[r][b], CommandOf(bus), b)
      BY <1>1, RankBankOfCommand, RankBankSame
    <3> QED BY <1>1, <1>9, <3>1, BusSame DEF TP!AfterCommand
  <2>2. rk' = [i \in TP!Ranks |-> [j \in TP!Banks |->
                  TP!AfterCommand(rk[i][j], CommandOf(bus), i, j)]]
    BY <1>5, <2>1, SetsSame
  <2>3. (error' = "rank") = FALSE
    BY <1>6, <1>9
  <2> QED BY <1>2, <1>3, <1>4, <1>7, <1>9, <2>2, <2>3 DEF TP!Deliver
<1> QED BY <1>8, <1>9

\* A command is one DramTiming may issue when its form, its row and the shadow allow it.
LEMMA IssueRefines ==
  ASSUME SBInv, NEW c, Record(c), CommandOf(c) \in Commands, c.row \in Rows \cup {0},
         Issuable("SB", mc[c.rank], c),
         c.op = "PRECHARGE" => c.row = mc[c.rank][c.bank].row,
         c.op = "REF" => c.row = 0 /\ c.bank = 0 /\ \A b \in Banks : mc[c.rank][b].st # "RowActive"
  PROVE  TP!Next
<1> DEFINE d == CommandOf(c)
<1>1. d.op = c.op /\ d.rank = c.rank /\ d.bank = c.bank /\ d.row = c.row
  BY DEF CommandOf
<1>2. TP!MayIssue(d)
  BY <1>1, RulesSame, SetsSame DEF TP!MayIssue
<1>3. mc' = [i \in TP!Ranks |-> [j \in TP!Banks |-> TP!McBank(mc[i][j], d, i, j)]]
  <2>1. mc' = [r \in Ranks |-> [b \in Banks |-> McBank(mc[r][b], c, r, b)]]
    BY DEF Record
  <2>2. \A r, b : McBank(mc[r][b], c, r, b) = TP!McBank(mc[r][b], d, r, b)
    BY McBankOfCommand, McBankSame
  <2> HIDE DEF d
  <2> QED BY <2>1, <2>2, SetsSame
<1>4. /\ pc = "issue" /\ error = "none" /\ pc' = "step" /\ CommandOf(bus)' = d
      /\ UNCHANGED <<rk, error>>
  BY DEF Record, CommandOf
<1>5. UNCHANGED <<rk, error = "rank">> /\ ~(error = "rank")
  BY <1>4
<1>6. TP!Issue(d)
  BY <1>2, <1>3, <1>4, <1>5 DEF TP!Issue
<1>7. d = [op |-> d.op, rank |-> d.rank, bank |-> d.bank, row |-> d.row]
      /\ d.op \in TP!Ops /\ d.rank \in TP!Ranks /\ d.bank \in TP!Banks /\ d.row \in Rows \cup {0}
  BY <1>1, SetsSame DEF CommandOf, Commands
<1> HIDE DEF d
<1> QED BY <1>6, <1>7 DEF TP!Next, Rows

\* Every step of the channel is one of DramTiming or leaves its variables alone.
LEMMA RefineStep ==
  ASSUME SBInv, [Next]_vars
  PROVE  [TP!Next]_(TP!vars)
<1>0. TypeInv /\ \A r \in Ranks : Mode(r) = "SB"
  BY DEF SBInv, StaysSB
<1>1. CASE UNCHANGED <<mc, rk, bus, pc, error>>
  <2>1. UNCHANGED <<mc, rk, CommandOf(bus), pc, error = "rank">>
    BY <1>1 DEF CommandOf
  <2> QED BY <2>1 DEF TP!vars
<1>2. CASE \E o \in {"READ", "WRITE"}, l \in Locations : AddTransaction(o, l)
  BY <1>1, <1>2 DEF AddTransaction
<1>3. CASE AddBarrier
  BY <1>1, <1>3 DEF AddBarrier
<1>4. CASE Deliver
  BY <1>4, DeliverRefines DEF TP!Next
<1>5. ASSUME NEW r \in Ranks, NEW i \in Ready(cmdQ[r], Mode(r), mc[r]), Column(r, i)
      PROVE  TP!Next
  <2> DEFINE p == cmdQ[r][i]
  <2>1. p \in Sendable /\ p.rank = r /\ Issuable("SB", mc[r], p) /\ Record(p)
    BY <1>0, <1>5, QueueOf DEF Ready, Column
  <2> HIDE DEF p
  <2>2. CommandOf(p) \in Commands /\ p.op \in {"READ", "WRITE"} /\ p.row \in Rows
    <3>1. LocationOf(p) \in Locations /\ LocationOf(p).row = p.row
      BY <2>1, SendableFields DEF LocationOf
    <3> QED BY <2>1, <3>1, SendableFields DEF Rows
  <2> QED BY <2>1, <2>2, IssueRefines
<1>6. ASSUME NEW c, Bare(c)
      PROVE  TP!Next
  <2>1. CommandOf(c) \in Commands /\ Record(c)
    BY <1>6 DEF Bare
  <2>2. c.rank \in Ranks /\ c.bank \in Banks
    BY <2>1 DEF CommandOf, Commands
  <2>3. Issuable("SB", mc[c.rank], c)
    BY <1>0, <1>6, <2>2 DEF Bare
  <2>4. c.row \in Rows \cup {0}
    BY <1>6, <2>2 DEF Bare, SBInv, RowsKnown, Rows
  <2>5. /\ c.op = "PRECHARGE" => c.row = mc[c.rank][c.bank].row
        /\ c.op = "REF" => c.row = 0 /\ c.bank = 0 /\ \A b \in Banks : mc[c.rank][b].st # "RowActive"
    BY <1>6 DEF Bare
  <2> QED BY <2>1, <2>3, <2>4, <2>5, IssueRefines
<1>7. CASE IssueNothing
  <2>1. /\ pc = "issue" /\ error = "none" /\ pc' = "step"
        /\ UNCHANGED <<mc, rk, bus, error>>
    BY <1>7 DEF IssueNothing
  <2>2. UNCHANGED <<mc, rk, CommandOf(bus), error = "rank">> /\ ~(error = "rank")
    BY <2>1 DEF CommandOf
  <2>3. TP!NoIssue
    BY <2>1, <2>2 DEF TP!NoIssue
  <2> QED BY <2>3 DEF TP!Next
<1>8. CASE Retire
  <2>1. /\ pc = "step" /\ error = "none" /\ pc' = "deliver" /\ bus' = bus
        /\ mc' = Aged(mc) /\ rk' = Aged(rk) /\ error' \in {"none", "noMatch"}
    BY <1>8 DEF Retire, ReturnRead
  <2>2. /\ mc' = [i \in TP!Ranks |-> [j \in TP!Banks |-> TP!AgeBank(mc[i][j])]]
        /\ rk' = [i \in TP!Ranks |-> [j \in TP!Banks |-> TP!AgeBank(rk[i][j])]]
    BY <2>1, AgeBankSame, SetsSame DEF Aged
  <2>3. UNCHANGED <<CommandOf(bus), error = "rank">> /\ ~(error = "rank")
    BY <2>1 DEF CommandOf
  <2>4. TP!Step
    BY <2>1, <2>2, <2>3 DEF TP!Step
  <2> QED BY <2>4 DEF TP!Next
<1>9. CASE UNCHANGED vars
  BY <1>1, <1>9 DEF vars
<1> QED BY <1>0, StepCases, <1>2, <1>3, <1>4, <1>5, <1>6, <1>7, <1>8, <1>9

\* The channel starts where DramTiming does.
LEMMA RefineInit == Init => TP!Init
  BY RulesSame, SetsSame DEF Init, TP!Init, CommandOf, NoCmd

\* DramTiming, as the channel's property and its proofs instantiate it, is one specification.
LEMMA TimingBanksSame ==
  /\ Timing!Ranks = TP!Ranks /\ Timing!Banks = TP!Banks /\ Timing!Ops = TP!Ops
  /\ Timing!NoCmd = TP!NoCmd /\ Timing!InitBank = TP!InitBank
  /\ \A x : Timing!SettleBank(x) = TP!SettleBank(x) /\ Timing!AgeBank(x) = TP!AgeBank(x)
  /\ \A x, c, i, j : Timing!McBank(x, c, i, j) = TP!McBank(x, c, i, j)
  /\ \A x, c, j : Timing!RankBank("SB", x, c, j) = TP!RankBank("SB", x, c, j)
  /\ \A m, c : Timing!Issuable("SB", m, c) = TP!Issuable("SB", m, c)
  /\ \A bs, c : Timing!RankAccepts("SB", bs, c) = TP!RankAccepts("SB", bs, c)
  /\ \A c : Timing!Checked(c) = TP!Checked(c)
<1>1. /\ Timing!Ranks = TP!Ranks /\ Timing!Banks = TP!Banks /\ Timing!Ops = TP!Ops
      /\ Timing!NoCmd = TP!NoCmd /\ Timing!InitBank = TP!InitBank
  BY DEF Timing!Ranks, TP!Ranks, Timing!Banks, TP!Banks, Timing!Ops, TP!Ops,
     Timing!NoCmd, TP!NoCmd, Timing!InitBank, TP!InitBank
<1>2. \A x : Timing!SettleBank(x) = TP!SettleBank(x) /\ Timing!AgeBank(x) = TP!AgeBank(x)
  BY DEF Timing!SettleBank, TP!SettleBank, Timing!AgeBank, TP!AgeBank, Timing!Age, TP!Age
<1>3. ASSUME NEW x, NEW c, NEW i, NEW j
      PROVE  Timing!McBank(x, c, i, j) = TP!McBank(x, c, i, j)
  BY DEF Timing!McBank, TP!McBank, Timing!McRead, TP!McRead, Timing!McWrite, TP!McWrite,
      Timing!McActivate, TP!McActivate, Timing!McPrecharge, TP!McPrecharge,
      Timing!McRefresh, TP!McRefresh, Timing!ColumnDelays, TP!ColumnDelays, Timing!Later,
      TP!Later, Timing!ColumnGap, TP!ColumnGap, Timing!ActivateGap, TP!ActivateGap,
      Timing!SameBankgroup, TP!SameBankgroup, Timing!Burst, TP!Burst,
      Timing!READ_TO_PRE_DELAY, TP!READ_TO_PRE_DELAY, Timing!WRITE_TO_PRE_DELAY,
      TP!WRITE_TO_PRE_DELAY, Timing!READ_TO_WRITE_DELAY, TP!READ_TO_WRITE_DELAY,
      Timing!WRITE_TO_READ_DELAY_B_LONG, TP!WRITE_TO_READ_DELAY_B_LONG,
      Timing!WRITE_TO_READ_DELAY_B_SHORT, TP!WRITE_TO_READ_DELAY_B_SHORT,
      Timing!WRITE_TO_READ_DELAY_R, TP!WRITE_TO_READ_DELAY_R
<1>4. ASSUME NEW x, NEW c, NEW j
      PROVE  Timing!RankBank("SB", x, c, j) = TP!RankBank("SB", x, c, j)
  BY DEF Timing!RankBank, TP!RankBank, Timing!RankRead, TP!RankRead, Timing!RankWrite,
      TP!RankWrite, Timing!RankActivate, TP!RankActivate, Timing!RankPrecharge,
      TP!RankPrecharge, Timing!ColumnDelays, TP!ColumnDelays, Timing!Later, TP!Later,
      Timing!ColumnGap, TP!ColumnGap, Timing!ActivateGap, TP!ActivateGap,
      Timing!SameBankgroup, TP!SameBankgroup, Timing!Burst, TP!Burst,
      Timing!READ_TO_PRE_DELAY, TP!READ_TO_PRE_DELAY, Timing!WRITE_TO_PRE_DELAY,
      TP!WRITE_TO_PRE_DELAY, Timing!READ_TO_WRITE_DELAY, TP!READ_TO_WRITE_DELAY,
      Timing!WRITE_TO_READ_DELAY_B_LONG, TP!WRITE_TO_READ_DELAY_B_LONG,
      Timing!WRITE_TO_READ_DELAY_B_SHORT, TP!WRITE_TO_READ_DELAY_B_SHORT,
      Timing!WRITE_TO_READ_DELAY_R, TP!WRITE_TO_READ_DELAY_R
<1>5. ASSUME NEW m, NEW c
      PROVE  Timing!Issuable("SB", m, c) = TP!Issuable("SB", m, c)
  BY DEF Timing!Issuable, TP!Issuable
<1>6. ASSUME NEW bs, NEW c
      PROVE  Timing!RankAccepts("SB", bs, c) = TP!RankAccepts("SB", bs, c)
  <2>1. Timing!BankAccepts(bs[c.bank], c) = TP!BankAccepts(bs[c.bank], c)
    BY DEF Timing!BankAccepts, TP!BankAccepts
  <2> DEFINE idle == \A b \in TP!Banks : bs[b].st = "Idle"
  <2>2. TP!RankAccepts("SB", bs, c) = IF c.op = "REF" THEN idle ELSE TP!BankAccepts(bs[c.bank], c)
    BY DEF TP!RankAccepts
  <2>3. Timing!RankAccepts("SB", bs, c)
          = IF c.op = "REF" THEN idle ELSE Timing!BankAccepts(bs[c.bank], c)
    BY <1>1 DEF Timing!RankAccepts
  <2> HIDE DEF idle
  <2> QED BY <2>1, <2>2, <2>3
<1>7. \A c : Timing!Checked(c) = TP!Checked(c)
  BY <1>1 DEF Timing!Checked, TP!Checked, Timing!IsReservedRA, TP!IsReservedRA
<1> QED BY <1>1, <1>2, <1>3, <1>4, <1>5, <1>6, <1>7

\* What the channel's INSTANCE calls Spec is what its proof module calls so.
LEMMA TimingSame ==
  /\ Timing!Init <=> TP!Init
  /\ [Timing!Next]_(Timing!vars) <=> [TP!Next]_(TP!vars)
<1>1. Timing!Init <=> TP!Init
  BY TimingBanksSame DEF Timing!Init, TP!Init
<1>2. Timing!vars = TP!vars /\ Timing!vars' = TP!vars'
  BY DEF Timing!vars, TP!vars
<1>3. \A x, c, i, j : Timing!AfterCommand(x, c, i, j) = TP!AfterCommand(x, c, i, j)
  BY TimingBanksSame DEF Timing!AfterCommand, TP!AfterCommand
<1>4. Timing!Deliver <=> TP!Deliver
  BY <1>3, TimingBanksSame DEF Timing!Deliver, TP!Deliver
<1>5. ASSUME NEW c PROVE Timing!Issue(c) <=> TP!Issue(c)
  <2>1. Timing!MayIssue(c) <=> TP!MayIssue(c)
    BY TimingBanksSame DEF Timing!MayIssue, TP!MayIssue
  <2> QED BY <2>1, TimingBanksSame DEF Timing!Issue, TP!Issue
<1>6. (Timing!NoIssue <=> TP!NoIssue) /\ (Timing!Step <=> TP!Step)
  BY TimingBanksSame DEF Timing!NoIssue, TP!NoIssue, Timing!Step, TP!Step
<1>7. Timing!Next <=> TP!Next
  BY <1>4, <1>5, <1>6, TimingBanksSame DEF Timing!Next, TP!Next
<1> QED BY <1>1, <1>2, <1>7

(* TypesHold: every queue stays within its depth, every countdown within its      *)
(* latency, a rank's queue holds that rank's packets only, and no refresh countdown  *)
(* is taken below 0.                                                                  *)
THEOREM TypesHold == Spec => []TypeInv
<1>1. Init => TypeInv
  BY InitTypes
<1>2. TypeInv /\ [Next]_vars => TypeInv'
  BY TypeStep
<1> QED BY <1>1, <1>2, PTL DEF Spec

\* The invariant of SB mode, along every behaviour.
LEMMA SBHolds == ASSUME NoModeSwitch PROVE Spec => []SBInv
<1>1. Init => SBInv
  BY InitSB
<1>2. SBInv /\ [Next]_vars => SBInv'
  BY TypeStep, StaysSBStep, RowsKnownStep DEF SBInv
<1> QED BY <1>1, <1>2, PTL DEF Spec

(* Implements: whatever the queues, cursors and refreshes of a channel choose, its   *)
(* commands are a schedule of DramTiming, for any number of ranks, banks and any       *)
(* timing, as long as no location is one that switches modes.                           *)
THEOREM Implements == ASSUME NoModeSwitch PROVE Spec => ImplementsTiming
<1>1. Init => Timing!Init
  BY RefineInit, TimingSame
<1>2. SBInv /\ [Next]_vars => [Timing!Next]_(Timing!vars)
  BY RefineStep, TimingSame
<1> QED BY <1>1, <1>2, SBHolds, PTL DEF Spec, ImplementsTiming, Timing!Spec

(* NoRankRejects: so no rank finds that a command comes too early (Rank::check), by  *)
(* what DramTimingProofs shows of every schedule.                                      *)
THEOREM NoRankRejects == ASSUME NoModeSwitch PROVE Spec => [](error # "rank")
<1>1. Init => TP!Init
  BY RefineInit
<1>2. SBInv /\ [Next]_vars => [TP!Next]_(TP!vars)
  BY RefineStep
<1>3. TP!Spec => [](TP!NeverExits /\ TP!ShadowConservative)
  BY TP!Conservative, TimingAssumption, RowsAreRows
<1>4. TP!NeverExits <=> error # "rank"
  BY DEF TP!NeverExits
<1> QED BY <1>1, <1>2, <1>3, <1>4, SBHolds, PTL DEF Spec, TP!Spec
=============================================================================
