----------------------------- MODULE DramTiming -----------------------------
(***************************************************************************)
(* What the controller and the ranks of a channel promise each other about   *)
(* timing, whatever the scheduler decides.  Each cycle the command issued in  *)
(* the cycle before reaches its rank (tCMD = 1), then the controller may       *)
(* issue any one command its shadow allows, then the clock steps.  Queues,     *)
(* priorities and transactions are left out: Hbm2Channel adds them and is       *)
(* shown to implement this specification.  The channel is in SB mode here.      *)
(***************************************************************************)
EXTENDS BankTiming

CONSTANT Rows          \* the row addresses transactions use
ASSUME RowsAssumption == Rows \subseteq Nat

VARIABLES
  mc,       \* MemoryController::bankStates, the shadow
  rk,       \* Rank::bankStates of every rank
  bus,      \* MemoryController::outgoingCmdPacket
  pc,       \* where MemorySystem::update is: "deliver", "issue" or "step"
  exited    \* Rank::check has ended the program

vars == <<mc, rk, bus, pc, exited>>

TypeOK ==
  /\ mc \in [Ranks -> [Banks -> BankStateType]]
  /\ rk \in [Ranks -> [Banks -> BankStateType]]
  /\ bus \in Commands \cup {NoCmd}
  /\ pc \in {"deliver", "issue", "step"}
  /\ exited \in BOOLEAN

Init ==
  /\ mc = [r \in Ranks |-> [b \in Banks |-> InitBank]]
  /\ rk = [r \in Ranks |-> [b \in Banks |-> InitBank]]
  /\ bus = NoCmd /\ pc = "deliver" /\ exited = FALSE

\* A packet the rank looks at: one for a reserved row is neither checked nor
\* recorded.
Checked(c) == c # NoCmd /\ ~IsReservedRA(c.row)

AfterCommand(x, c, i, j) ==
  IF Checked(c) /\ c.rank = i THEN RankBank("SB", x, c, j) ELSE x

-----------------------------------------------------------------------------
(* updateBankState, then the command's arrival at its rank. *)
Deliver ==
  /\ pc = "deliver" /\ ~exited
  /\ mc' = [i \in Ranks |-> [j \in Banks |-> SettleBank(mc[i][j])]]
  /\ IF Checked(bus) /\ ~RankAccepts("SB", rk[bus.rank], bus)
     THEN exited' = TRUE /\ rk' = rk
     ELSE /\ exited' = FALSE
          /\ rk' = [i \in Ranks |-> [j \in Banks |-> AfterCommand(rk[i][j], bus, i, j)]]
  /\ bus' = NoCmd /\ pc' = "issue"

\* The commands the controller forms: a precharge carries the open row, a
\* refresh row 0, and only a rank with no open row is refreshed.
MayIssue(c) ==
  /\ Issuable("SB", mc[c.rank], c)
  /\ c.op = "PRECHARGE" => c.row = mc[c.rank][c.bank].row
  /\ c.op = "REF" => /\ c.row = 0 /\ c.bank = 0
                     /\ \A b \in Banks : mc[c.rank][b].st # "RowActive"

Issue(c) ==
  /\ pc = "issue" /\ ~exited
  /\ MayIssue(c)
  /\ mc' = [i \in Ranks |-> [j \in Banks |-> McBank(mc[i][j], c, i, j)]]
  /\ bus' = c /\ pc' = "step"
  /\ UNCHANGED <<rk, exited>>

NoIssue ==
  /\ pc = "issue" /\ ~exited
  /\ pc' = "step"
  /\ UNCHANGED <<mc, rk, bus, exited>>

Step ==
  /\ pc = "step" /\ ~exited
  /\ mc' = [i \in Ranks |-> [j \in Banks |-> AgeBank(mc[i][j])]]
  /\ rk' = [i \in Ranks |-> [j \in Banks |-> AgeBank(rk[i][j])]]
  /\ pc' = "deliver"
  /\ UNCHANGED <<bus, exited>>

Next ==
  \/ Deliver
  \/ \E o \in Ops, i \in Ranks, j \in Banks, w \in Rows \cup {0} :
       Issue([op |-> o, rank |-> i, bank |-> j, row |-> w])
  \/ NoIssue
  \/ Step

Spec == Init /\ [][Next]_vars

-----------------------------------------------------------------------------
(* The rank's own record of a bank against the controller's shadow of it:     *)
(* the same row is open (a reserved row only in the shadow), and no count of   *)
(* the rank exceeds the shadow's by more than the cycle the command travels.   *)
Agree(m, x) ==
  /\ x.st \in {"Idle", "RowActive"}
  /\ x.st = "RowActive" <=> m.st = "RowActive" /\ ~IsReservedRA(m.row)
  /\ x.st = "RowActive" => x.row = m.row
  /\ m.st = "RowActive" => m.last \notin {"REF", "PRECHARGE"}

Lags(m, x) ==
  /\ x.nRd <= m.nRd + 1 /\ x.nWr <= m.nWr + 1
  /\ x.nAct <= m.nAct + 1 /\ x.nPre <= m.nPre + 1

Shadows(m, x) == Agree(m, x) /\ Lags(m, x)

\* The shadow fits the rank once the command on the bus has been recorded.
ShadowFits(m, x, c) ==
  /\ \A i \in Ranks, j \in Banks : Shadows(m[i][j], AfterCommand(x[i][j], c, i, j))
  /\ Checked(c) => RankAccepts("SB", x[c.rank], c)

Aged(m) == [i \in Ranks |-> [j \in Banks |-> AgeBank(m[i][j])]]

(* NeverExits: Rank::check ends the program on a command that breaks a timing  *)
(* or state rule; no schedule that isIssuable allows ever gets there, although  *)
(* the controller decides on a shadow that it updates one cycle earlier and by   *)
(* different formulas.                                                           *)
NeverExits == ~exited

(* ShadowConservative: at each point of the cycle the controller's shadow of    *)
(* every bank agrees with the rank's record about the open row and is at most    *)
(* one cycle more optimistic about each count, the cycle a command travels.       *)
ShadowConservative ==
  /\ pc = "deliver" => ShadowFits(mc, rk, bus)
  /\ pc = "issue" => bus = NoCmd /\ ShadowFits(mc, rk, NoCmd)
  /\ pc = "step" => ShadowFits(Aged(mc), Aged(rk), bus)

IInv == TypeOK /\ NeverExits /\ ShadowConservative
=============================================================================
