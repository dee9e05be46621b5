---------------------------- MODULE CommandQueue ----------------------------
(***************************************************************************)
(* The per-rank command queues of a channel and what CommandQueue::pop may    *)
(* take from them: a refresh that is due, else the first packet that can go    *)
(* out of order, else an activate for it, else a precharge nobody objects to.   *)
(* These are functions of the queues and of the controller's bank shadow m;     *)
(* the module that owns the variables says when each is used.                   *)
(***************************************************************************)
EXTENDS BankTiming, FiniteSetsExt, SequencesExt

CONSTANTS
  CmdQueueDepth,       \* CMD_QUEUE_DEPTH
  RankThenBank         \* SCHEDULING_POLICY is rank_then_bank_round_robin

ASSUME CommandQueueAssumption ==
  CmdQueueDepth \in Nat \ {0} /\ RankThenBank \in BOOLEAN

-----------------------------------------------------------------------------
(* process_refresh: at most one command, for the rank whose refresh waits.      *)

OpenBanks(m) == {b \in Banks : m[b].st = "RowActive"}

PrechargeOf(m, r, b) == [op |-> "PRECHARGE", rank |-> r, bank |-> b, row |-> m[b].row]
RefreshOf(r) == [op |-> "REF", rank |-> r, bank |-> 0, row |-> 0]

\* A slip: the refresh is sent without closing the rank's rows first.
RefreshAtOnce(waiting, r, mode, m) == IF waiting THEN {RefreshOf(r)} ELSE {}

RefreshCommands(waiting, r, mode, m) ==
  LET closable == {b \in OpenBanks(m) : Issuable(mode, m, PrechargeOf(m, r, b))}
  IN  IF ~waiting THEN {}
      ELSE IF OpenBanks(m) = {} THEN {RefreshOf(r)}
      ELSE IF closable # {} THEN {PrechargeOf(m, r, Min(closable))}
      ELSE {}

-----------------------------------------------------------------------------
(* process_command.  A packet tagged BAR leaves only from the head, and no      *)
(* packet leaves past one, nor past an earlier access to its own column.         *)

SameColumn(p, q) == p.bank = q.bank /\ p.row = q.row /\ p.col = q.col

\* Two slips: an access overtakes an earlier one to its column, or a barrier.
ReadyAnyColumn(q, mode, m) ==
  {i \in DOMAIN q : /\ Issuable(mode, m, q[i])
                    /\ \A k \in 1 .. i - 1 : ~q[k].bar}
ReadyPastBarrier(q, mode, m) ==
  {i \in DOMAIN q : /\ Issuable(mode, m, q[i])
                    /\ \A k \in 1 .. i - 1 : ~SameColumn(q[k], q[i])}

Ready(q, mode, m) ==
  {i \in DOMAIN q :
     /\ Issuable(mode, m, q[i])
     /\ i = 1 \/ ~q[i].bar
     /\ \A k \in 1 .. i - 1 : ~q[k].bar /\ ~SameColumn(q[k], q[i])}

ActivateFor(p) ==
  [op |-> "ACTIVATE", rank |-> p.rank, bank |-> p.bank, row |-> p.row, col |-> p.col]

\* Packets whose idle bank may be opened for them; a barrier at the head does
\* not keep the rows of later packets from being opened.
Openers(q, mode, m) ==
  {i \in DOMAIN q :
     /\ \A k \in 2 .. i : ~q[k].bar
     /\ m[q[i].bank].st = "Idle"
     /\ Issuable(mode, m, ActivateFor(q[i]))}

Servable(q, mode, m) == Ready(q, mode, m) # {} \/ Openers(q, mode, m) # {}

\* The first of the positions P met by counting up from n, modulo size.
FirstFrom(n, size, P) ==
  (n + Min({k \in 0 .. size - 1 : (n + k) % size \in P})) % size

-----------------------------------------------------------------------------
(* process_precharge walks every (rank, bank) from nextRankPRE, nextBankPRE;     *)
(* a slot numbers the pairs in the order nextRankAndBank visits them.            *)

Slots == 0 .. NumRanks * NumBanks - 1
SlotRank(s) == IF RankThenBank THEN s % NumRanks ELSE s \div NumBanks
SlotBank(s) == IF RankThenBank THEN s \div NumRanks ELSE s % NumBanks

\* A queued packet, no later than the first barrier, still hits bank b's open row.
StillWanted(q, m, b) ==
  \E i \in DOMAIN q :
     /\ \A k \in 1 .. i - 1 : ~q[k].bar
     /\ q[i].bank = b /\ m[b].st = "RowActive" /\ q[i].row = m[b].row

Closable(q, mode, m, r, b) ==
  ~StillWanted(q, m, b) /\ Issuable(mode, m, PrechargeOf(m, r, b))

\* A slip: room for one packet too many.
HasRoomAtLimit(q) == Len(q) <= CmdQueueDepth

HasRoom(q) == Len(q) < CmdQueueDepth
=============================================================================
