----------------------------- MODULE BankTiming -----------------------------
(***************************************************************************)
(* The timing rules of one HBM2 channel, as the simulator keeps them twice: *)
(* the memory controller's shadow of every bank (MemoryController::         *)
(* bankStates, what CommandQueue::isIssuable reads) and the rank's own       *)
(* record of the same banks (Rank::bankStates, what Rank::check reads).      *)
(*                                                                         *)
(* The code stores absolute cycles (nextRead, nextWrite, ...) and compares   *)
(* them with currentClockCycle.  The model stores what is left of them:      *)
(* nRd = max(0, nextRead - currentClockCycle), so "the cycle is reached" is   *)
(* nRd = 0, max(next, now + d) is Later(n, d), and a clock step ages every     *)
(* count by one.  The controller, its command queue and the ranks all step    *)
(* once per MemorySystem::update, so they share this clock.                   *)
(***************************************************************************)
EXTENDS Naturals

CONSTANTS
  NumRanks,            \* ranks of the channel (NUM_RANKS)
  NumBanks,            \* banks of a rank (NUM_BANKS)
  BanksPerGroup,       \* NUM_BANKS / NUM_BANK_GROUPS
  BL, AL, RL, WL,      \* burst length, additive, read and write latency
  tCCDS, tCCDL,        \* column to column, other / same bank group
  tRCDRD, tRCDWR,      \* activate to read / write
  tRAS, tRC, tRP,      \* activate to precharge, to activate; precharge time
  tRRDS, tRRDL,        \* activate to activate of another bank
  tRTPL, tRTRS,        \* read to precharge; rank to rank
  tWR, tWTRS, tWTRL,   \* write recovery; write to read, other / same group
  tRFC                 \* refresh time

\* Every timing is an unsigned of the ini file.  The last three conjuncts are
\* what the unsigned subtractions of Configuration.h need not to wrap, and what
\* makes the controller's single write-to-read delay the longer of the rank's two.
ASSUME TimingAssumption ==
  /\ NumRanks \in Nat \ {0} /\ NumBanks \in Nat \ {0} /\ BanksPerGroup \in Nat \ {0}
  /\ BL \in Nat /\ AL \in Nat /\ RL \in Nat /\ WL \in Nat
  /\ tCCDS \in Nat /\ tCCDL \in Nat /\ tRCDRD \in Nat /\ tRCDWR \in Nat
  /\ tRAS \in Nat /\ tRC \in Nat /\ tRP \in Nat /\ tRRDS \in Nat /\ tRRDL \in Nat
  /\ tRTPL \in Nat /\ tRTRS \in Nat /\ tWR \in Nat /\ tWTRS \in Nat /\ tWTRL \in Nat
  /\ tRFC \in Nat
  /\ AL <= tRCDRD /\ AL <= tRCDWR
  /\ WL <= RL
  /\ tWTRS <= tWTRL

Ranks == 0 .. NumRanks - 1
Banks == 0 .. NumBanks - 1

Later(m, n) == IF m >= n THEN m ELSE n
Age(n) == IF n = 0 THEN 0 ELSE n - 1

SameBankgroup(a, b) == a \div BanksPerGroup = b \div BanksPerGroup

\* Row bit 13 marks the rows the PIM protocol uses as registers.
IsReservedRA(row) == (row \div 8192) % 2 = 1

-----------------------------------------------------------------------------
(* The delays Configuration derives from the ini file. *)

Burst == BL \div 2
READ_TO_PRE_DELAY == AL + Burst + (Later(tRTPL, tCCDL) - tCCDL)
WRITE_TO_PRE_DELAY == WL + Burst + tWR
READ_TO_WRITE_DELAY == (RL - WL) + Burst + tRTRS
WRITE_TO_READ_DELAY_B_LONG == WL + Burst + tWTRL
WRITE_TO_READ_DELAY_B_SHORT == WL + Burst + tWTRS
WRITE_TO_READ_DELAY_R == IF WL + Burst + tRTRS >= RL THEN WL + Burst + tRTRS - RL ELSE 0
\* A slip: bank groups forgotten.
ColumnGapFlat(i, j) == Later(tCCDS, Burst)
ColumnGap(i, j) == Later(IF SameBankgroup(i, j) THEN tCCDL ELSE tCCDS, Burst)
ActivateGap(i, j) == IF SameBankgroup(i, j) THEN tRRDL ELSE tRRDS

-----------------------------------------------------------------------------
(* Commands and banks.  A bank's record is the same class on both sides;      *)
(* the rank never uses last and cd (lastCommand, stateChangeCountdown).        *)

NoCmd == [op |-> "NONE", rank |-> 0, bank |-> 0, row |-> 0]
Ops == {"READ", "WRITE", "ACTIVATE", "PRECHARGE", "REF"}
Commands == [op : Ops, rank : Ranks, bank : Banks, row : Nat]

BankStateType ==
  [st : {"Idle", "RowActive", "Precharging", "Refreshing"}, row : Nat,
   nRd : Nat, nWr : Nat, nAct : Nat, nPre : Nat, last : Ops, cd : Nat]

\* "All banks start precharged".
InitBank ==
  [st |-> "Idle", row |-> 0, nRd |-> 0, nWr |-> 0, nAct |-> 0, nPre |-> 0,
   last |-> "READ", cd |-> 0]

AgeBank(x) == [x EXCEPT !.nRd = Age(@), !.nWr = Age(@), !.nAct = Age(@), !.nPre = Age(@)]

-----------------------------------------------------------------------------
(* The controller's side: MemoryController::updateCommandQueue records a      *)
(* command it has just popped.  x is the shadow of bank j of rank i.           *)

ColumnDelays(x, rd, wr) == [x EXCEPT !.nRd = Later(@, rd), !.nWr = Later(@, wr)]

McRead(x, c, i, j) ==
  IF i # c.rank
  THEN IF x.st = "RowActive" THEN ColumnDelays(x, Burst + tRTRS, READ_TO_WRITE_DELAY) ELSE x
  ELSE LET y == ColumnDelays(x, ColumnGap(j, c.bank), READ_TO_WRITE_DELAY)
       IN  IF j = c.bank
           THEN [y EXCEPT !.nPre = Later(@, READ_TO_PRE_DELAY), !.last = "READ"]
           ELSE y

McWrite(x, c, i, j) ==
  IF i # c.rank
  THEN IF x.st = "RowActive" THEN ColumnDelays(x, WRITE_TO_READ_DELAY_R, Burst + tRTRS) ELSE x
  ELSE LET y == ColumnDelays(x, WRITE_TO_READ_DELAY_B_LONG, ColumnGap(j, c.bank))
       IN  IF j = c.bank
           THEN [y EXCEPT !.nPre = Later(@, WRITE_TO_PRE_DELAY), !.last = "WRITE"]
           ELSE y

McActivate(x, c, i, j) ==
  IF i # c.rank THEN x
  ELSE IF j = c.bank
       THEN [ColumnDelays(x, tRCDRD - AL, tRCDWR - AL) EXCEPT
               !.st = "RowActive", !.row = c.row, !.last = "ACTIVATE",
               !.nAct = Later(@, tRC), !.nPre = Later(@, tRAS)]
       ELSE [x EXCEPT !.nAct = Later(@, ActivateGap(j, c.bank))]

\* A slip: the precharge time left out of nextActivate.
PrechargeEarly(x, c, i, j) ==
  IF i = c.rank /\ j = c.bank
  THEN [x EXCEPT !.st = "Precharging", !.last = "PRECHARGE",
                 !.cd = IF tRP = 0 THEN @ ELSE tRP]
  ELSE x

\* setBankStates leaves the countdown alone when it is given 0.
McPrecharge(x, c, i, j) ==
  IF i = c.rank /\ j = c.bank
  THEN [x EXCEPT !.st = "Precharging", !.last = "PRECHARGE",
                 !.cd = IF tRP = 0 THEN @ ELSE tRP, !.nAct = Later(@, tRP)]
  ELSE x

\* A refresh overwrites nextActivate, without a maximum.
McRefresh(x, c, i) ==
  IF i = c.rank
  THEN [x EXCEPT !.st = "Refreshing", !.last = "REF",
                 !.cd = IF tRFC = 0 THEN @ ELSE tRFC, !.nAct = tRFC]
  ELSE x

McBank(x, c, i, j) ==
  CASE c.op = "READ"      -> McRead(x, c, i, j)
    [] c.op = "WRITE"     -> McWrite(x, c, i, j)
    [] c.op = "ACTIVATE"  -> McActivate(x, c, i, j)
    [] c.op = "PRECHARGE" -> McPrecharge(x, c, i, j)
    [] OTHER              -> McRefresh(x, c, i)

\* A slip: the countdown taken down without looking whether it is over.
SettleUnguarded(x) ==
  [x EXCEPT !.cd = @ - 1,
            !.st = IF x.cd = 1 /\ x.last \in {"REF", "PRECHARGE"} THEN "Idle" ELSE @]

\* MemoryController::updateBankState: the countdown of a precharge or a refresh
\* ends in Idle; any other last command leaves the state as it is.
SettleBank(x) ==
  IF x.cd = 0 THEN x
  ELSE [x EXCEPT !.cd = @ - 1,
                 !.st = IF x.cd = 1 /\ x.last \in {"REF", "PRECHARGE"} THEN "Idle" ELSE @]

\* CommandQueue::isIssuable, on the shadow m of the command's rank.  The two
\* conjuncts on tXAWCountdown and rowAccessCounters are always true: nothing in
\* the source ever adds to either.
Issuable(mode, m, c) ==
  LET x == m[c.bank] IN
  CASE c.op = "REF"       -> TRUE
    [] c.op = "ACTIVATE"  -> /\ mode = "SB" \/ c.bank < 2
                             /\ x.st \in {"Idle", "Refreshing"} /\ x.nAct = 0
    [] c.op = "WRITE"     -> x.st = "RowActive" /\ x.nWr = 0 /\ x.row = c.row
    [] c.op = "READ"      -> x.st = "RowActive" /\ x.nRd = 0 /\ x.row = c.row
    [] c.op = "PRECHARGE" -> x.st = "RowActive" /\ x.nPre = 0

-----------------------------------------------------------------------------
(* The rank's side: Rank::check, checkBank, updateState and updateBank.        *)
(* In HAB mode a command is for every bank of its bank's parity.               *)

BankAccepts(x, c) ==
  CASE c.op = "READ"      -> x.st = "RowActive" /\ x.nRd = 0 /\ x.row = c.row
    [] c.op = "WRITE"     -> x.st = "RowActive" /\ x.nWr = 0 /\ x.row = c.row
    [] c.op = "ACTIVATE"  -> x.st = "Idle" /\ x.nAct = 0
    [] c.op = "PRECHARGE" -> x.st = "RowActive" /\ x.nPre = 0

RankAccepts(mode, bs, c) ==
  IF c.op = "REF" THEN \A b \in Banks : bs[b].st = "Idle"
  ELSE IF mode = "SB" THEN BankAccepts(bs[c.bank], c)
  ELSE \A b \in Banks : b % 2 = c.bank % 2 => BankAccepts(bs[b], c)

\* target is targetBank, group is targetBankgroup of Rank::updateBank.
RankRead(x, target, group) ==
  [x EXCEPT !.nPre = IF target THEN Later(@, READ_TO_PRE_DELAY) ELSE @,
            !.nRd = Later(@, Later(IF group THEN tCCDL ELSE tCCDS, Burst)),
            !.nWr = Later(@, READ_TO_WRITE_DELAY)]

RankWrite(x, target, group) ==
  [x EXCEPT !.nPre = IF target THEN Later(@, WRITE_TO_PRE_DELAY) ELSE @,
            !.nRd = Later(@, IF group THEN WRITE_TO_READ_DELAY_B_LONG
                                      ELSE WRITE_TO_READ_DELAY_B_SHORT),
            !.nWr = Later(@, Later(IF group THEN tCCDL ELSE tCCDS, Burst))]

\* The activated bank's counts are overwritten, not maximised.
RankActivate(x, c, target, group) ==
  IF target
  THEN [x EXCEPT !.st = "RowActive", !.row = c.row, !.nAct = tRC, !.nPre = tRAS,
                 !.nWr = tRCDWR - AL, !.nRd = tRCDRD - AL]
  ELSE [x EXCEPT !.nAct = Later(@, IF group THEN tRRDL ELSE tRRDS)]

RankPrecharge(x, target) ==
  IF target THEN [x EXCEPT !.st = "Idle", !.nAct = Later(@, tRP)] ELSE x

RankBank(mode, x, c, j) ==
  LET target == IF mode = "SB" THEN j = c.bank ELSE j % 2 = c.bank
      group  == mode # "SB" \/ SameBankgroup(j, c.bank)
  IN CASE c.op = "READ"      -> RankRead(x, target, group)
       [] c.op = "WRITE"     -> RankWrite(x, target, group)
       [] c.op = "ACTIVATE"  -> RankActivate(x, c, target, group)
       [] c.op = "PRECHARGE" -> RankPrecharge(x, target)
       [] OTHER              -> [x EXCEPT !.nAct = tRFC]
=============================================================================
