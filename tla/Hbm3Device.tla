---------------------------- MODULE Hbm3Device ----------------------------
(***************************************************************************)
(* The HBM3-PIM device as one controller sees it: a channel, a tree of nodes  *)
(* (pseudochannel, rank, bank group, bank), each with the cycle from which    *)
(* every command may be issued again, and the rows recorded open in each      *)
(* bank.  Clocks are kept as cycles left, so that a command no entry of busy  *)
(* names is free.                                                            *)
(***************************************************************************)
EXTENDS Integers, Sequences, FiniteSets

CONSTANTS
  PseudoChannels, Ranks, BankGroups, Banks, \* how many of each
  T                                         \* m_timing_vals, by name

TimingNames ==
  {"nBL", "nCL", "nRCDRD", "nRCDWR", "nRP", "nRAS", "nRC", "nWR", "nRTPS", "nRTPL", "nCWL",
   "nCCDS", "nCCDL", "nCCDAB", "nCCDSB", "nRRDS", "nRRDL", "nWTRS", "nWTRL", "nFAW", "nRFC",
   "nREFI"}
ASSUME DeviceAssumption ==
  /\ PseudoChannels \in Nat \ {0} /\ Ranks \in Nat \ {0}
  /\ BankGroups \in Nat \ {0} /\ Banks \in Nat \ {0}
  /\ T \in [TimingNames -> Nat]

VARIABLES
  rows,  \* m_row_state of every bank; a bank with none is "Closed"
  busy,  \* m_cmd_ready_clk - m_clk, for the <<node, command>> pairs not yet free
  acts   \* m_cmd_history of ACT at each rank, as ages, the youngest first

deviceVars == <<rows, busy, acts>>

-----------------------------------------------------------------------------
(* The tree.  A node is the part of an address that leads to it; the address *)
(* of a refresh stops after the pseudochannel (its other levels are -1).      *)
RankNodes == (0 .. PseudoChannels - 1) \X (0 .. Ranks - 1)
BankNodes == (0 .. PseudoChannels - 1) \X (0 .. Ranks - 1)
               \X (0 .. BankGroups - 1) \X (0 .. Banks - 1)
Levels == {"channel", "pseudochannel", "rank", "bankgroup", "bank"}
Depth == [channel |-> 0, pseudochannel |-> 1, rank |-> 2, bankgroup |-> 3,
          bank |-> 4, row |-> 5, column |-> 6]
Lesser(i, j) == IF i <= j THEN i ELSE j
NodeAt(addr, d) == SubSeq(addr, 1, d)
BankOf(addr) == NodeAt(addr, 4)
RowOf(addr) == addr[5]

Position(b) == ((b[1] * Ranks + b[2]) * BankGroups + b[3]) * Banks + b[4]
FirstBank(S) == CHOOSE b \in S : \A c \in S : Position(b) <= Position(c)

-----------------------------------------------------------------------------
(* Commands. *)
Scope(cmd) ==
  CASE cmd \in {"PREA", "REFab", "SFM", "SETH", "BARRIER"} -> "channel"
    [] cmd \in {"PRE", "PRESB", "PREPB", "WRGB", "MVSB", "MVGB", "SETM"} -> "bank"
    [] cmd \in {"ACT", "ACTAB", "ACTSB", "ACTPB"} -> "row"
    [] OTHER -> "column"
Opening(cmd) == cmd \in {"ACT", "ACTAB", "ACTSB", "ACTPB"}
Closing(cmd) == cmd \in {"PRE", "PREA", "PRESB", "PREPB"}
\* One request, one final command (m_request_translations).
FinalCommand(type) ==
  [Read |-> "RD", Write |-> "WR", PIM_MAC_AB |-> "MACAB", PIM_MAC_SB |-> "MACSB",
   PIM_MAC_PB |-> "MACPB", PIM_WR_GB |-> "WRGB", PIM_MV_SB |-> "MVSB",
   PIM_MV_GB |-> "MVGB", PIM_SFM |-> "SFM", PIM_SET_MODEL |-> "SETM",
   PIM_SET_HEAD |-> "SETH", PIM_BARRIER |-> "BARRIER", PIM_VADD |-> "VADD",
   PIM_WR_BK |-> "WR", REFRESH |-> "REFab"][type]

-----------------------------------------------------------------------------
(* Timing constraints: the level whose node keeps the command back, what has  *)
(* been issued, what has to wait, and how long.  The window of four ACTs is    *)
(* in FourActivates.                                                         *)
Bus == {"WRGB", "MVSB", "MVGB", "SFM", "RD", "WR"}
PimTiming ==
  {<<"channel", {"ACTAB"}, {"ACTAB", "ACT", "PRE", "PREA", "REFab"}, 2>>,
   <<"channel", {"MACAB"}, {"MACAB"}, T.nCCDAB>>,
   <<"channel", {"ACTAB"}, {"ACTAB"}, T.nRC>>,
   <<"channel", {"ACTAB"}, {"MACAB"}, T.nRCDRD>>,
   <<"channel", {"ACTAB"}, {"PREA"}, T.nRAS>>,
   <<"channel", {"MACAB"}, {"PREA"}, T.nRTPL>>,
   <<"channel", {"PREA"}, {"ACTAB"}, T.nRP>>,
   <<"pseudochannel", {"ACTAB", "ACTSB", "ACTPB"}, {"REFab"}, T.nRC>>,
   <<"pseudochannel", {"PREA", "PRESB", "PREPB"}, {"REFab"}, T.nRP>>,
   <<"pseudochannel", {"REFab"}, {"ACTAB", "ACTSB", "ACTPB"}, T.nRFC>>,
   <<"channel", {"VADD"}, {"VADD"}, T.nCCDAB>>,
   <<"pseudochannel", {"VADD"}, {"VADD"}, T.nBL>>,
   <<"channel", {"ACTSB"}, {"ACTSB", "ACT", "PRE", "PREA", "PRESB", "REFab"}, 2>>,
   <<"channel", {"MACSB"}, {"MACSB"}, T.nCCDSB>>,
   <<"bank", {"ACTSB"}, {"ACTSB"}, T.nRC>>,
   <<"bank", {"ACTSB"}, {"MACSB"}, T.nRCDRD>>,
   <<"bank", {"ACTSB"}, {"PRESB"}, T.nRAS>>,
   <<"bank", {"MACSB"}, {"PRESB"}, T.nRTPL>>,
   <<"bank", {"PRESB"}, {"ACTSB"}, T.nRP>>,
   <<"channel", {"ACTPB"}, {"ACTPB", "ACT", "PRE", "PREA", "PREPB", "REFab"}, 2>>,
   <<"channel", {"MACPB"}, {"MACPB"}, T.nBL>>,
   <<"rank", {"MACPB"}, {"MACPB"}, T.nCCDS>>,
   <<"bankgroup", {"MACPB"}, {"MACPB"}, T.nCCDL>>,
   <<"bank", {"ACTPB"}, {"ACTPB"}, T.nRC>>,
   <<"bank", {"ACTPB"}, {"MACPB"}, T.nRCDRD>>,
   <<"bank", {"ACTPB"}, {"PREPB"}, T.nRAS>>,
   <<"bank", {"MACPB"}, {"PREPB"}, T.nRTPL>>,
   <<"bank", {"PREPB"}, {"ACTPB"}, T.nRP>>,
   <<"pseudochannel", Bus, Bus, T.nBL>>,
   <<"rank", Bus, Bus, T.nCCDS>>,
   <<"bankgroup", Bus, Bus, T.nCCDL>>}
DramTiming ==
  LET writeEnd == T.nCWL + T.nBL
  IN {<<"channel", {"ACT"}, {"ACT", "PRE", "PREA", "PRESB", "REFab"}, 2>>,
      <<"pseudochannel", {"RD"}, {"PREA"}, T.nRTPS>>,
      <<"pseudochannel", {"WR"}, {"PREA"}, writeEnd + T.nWR>>,
      <<"pseudochannel", {"ACT"}, {"PREA"}, T.nRAS>>,
      <<"pseudochannel", {"PREA"}, {"ACT"}, T.nRP>>,
      <<"pseudochannel", {"ACT"}, {"REFab"}, T.nRC>>,
      <<"pseudochannel", {"PRE", "PREA"}, {"REFab"}, T.nRP>>,
      <<"pseudochannel", {"REFab"}, {"ACT"}, T.nRFC>>,
      <<"rank", {"ACT"}, {"ACT"}, T.nRRDS>>,
      <<"rank", {"RD"}, {"WR"}, T.nCL + T.nBL + 2 - T.nCWL>>,
      <<"rank", {"WR"}, {"RD"}, writeEnd + T.nWTRS>>,
      <<"rank", {"ACT"}, {"PREA"}, T.nRAS>>,
      <<"rank", {"PREA"}, {"ACT"}, T.nRP>>,
      <<"bankgroup", {"WR"}, {"RD"}, writeEnd + T.nWTRL>>,
      <<"bankgroup", {"ACT"}, {"ACT"}, T.nRRDL>>,
      <<"bank", {"ACT"}, {"ACT"}, T.nRC>>,
      <<"bank", {"ACT"}, {"RD"}, T.nRCDRD>>,
      <<"bank", {"ACT"}, {"WR"}, T.nRCDWR>>,
      <<"bank", {"ACT"}, {"PRE"}, T.nRAS>>,
      <<"bank", {"PRE"}, {"ACT"}, T.nRP>>,
      <<"bank", {"RD"}, {"PRE"}, T.nRTPL>>,
      <<"bank", {"WR"}, {"PRE"}, writeEnd + T.nWR>>}
\* m_timing_cons: what a command of a level makes wait, and how long.
Commands == {"ACT", "PRE", "PREA", "PRESB", "PREPB", "RD", "WR", "REFab", "ACTAB",
             "ACTSB", "ACTPB", "MACAB", "MACSB", "MACPB", "WRGB", "MVSB", "MVGB",
             "SFM", "SETM", "SETH", "BARRIER", "VADD"}
TimingCons ==
  [level \in Levels |-> [cmd \in Commands |->
     UNION {{<<f, c[4]>> : f \in c[3]} :
              c \in {x \in PimTiming \cup DramTiming : x[1] = level /\ cmd \in x[2]}}]]

-----------------------------------------------------------------------------
(* What the controller asks: the command a request needs next, whether it is  *)
(* free at every node down to its scope, and whether its row is open.         *)
Closed(rs, b) == rs[b] = {}

RequireRowOpenOnly(rs, cmd, addr) ==
  IF RowOf(addr) \in rs[BankOf(addr)] THEN cmd ELSE "ACT"
RequireRowOpen(rs, cmd, addr) ==
  LET open == rs[BankOf(addr)]
  IN IF open = {} THEN "ACT" ELSE IF RowOf(addr) \in open THEN cmd ELSE "PRE"
\* The first bank that lacks the row decides for all of them.
RequireAllOpen(rs, cmd, addr, group, act, pre) ==
  LET lacking == {b \in group : RowOf(addr) \notin rs[b]}
  IN IF lacking = {} THEN cmd
     ELSE IF Closed(rs, FirstBank(lacking)) THEN act ELSE pre
SameBanks(addr) == {b \in BankNodes : b[4] = addr[4]}
PerBanks(addr) == {b \in BankNodes : \A i \in 2 .. 4 : b[i] = addr[i]}
RequireAllBanksClosed(rs, cmd) ==
  IF \A b \in BankNodes : Closed(rs, b) THEN cmd ELSE "PREA"

PreqCommand(rs, cmd, addr) ==
  CASE cmd = "REFab" -> RequireAllBanksClosed(rs, cmd)
    [] cmd \in {"RD", "WR"} -> RequireRowOpen(rs, cmd, addr)
    [] cmd = "MACAB" -> RequireAllOpen(rs, cmd, addr, BankNodes, "ACTAB", "PREA")
    [] cmd = "MACSB" -> RequireAllOpen(rs, cmd, addr, SameBanks(addr), "ACTSB", "PRESB")
    [] cmd = "MACPB" -> RequireAllOpen(rs, cmd, addr, PerBanks(addr), "ACTPB", "PREPB")
    [] OTHER -> cmd

\* Down to the scope of the command, the last level of the address or the bank.
ReadyDepth(cmd, addr) == Lesser(4, Lesser(Depth[Scope(cmd)], Len(addr)))
CheckReady(bz, cmd, addr) ==
  \A d \in 0 .. ReadyDepth(cmd, addr) : <<NodeAt(addr, d), cmd>> \notin DOMAIN bz

RowbufferHit(rs, cmd, addr) ==
  cmd \in {"RD", "WR", "MACAB", "MACSB", "MACPB"} /\ RowOf(addr) \in rs[BankOf(addr)]

-----------------------------------------------------------------------------
(* Issuing a command: update_timing on the nodes of the address, whatever the  *)
(* scope, then update_states.                                                *)
Later(bz, waits) ==  \* waits: <<<<node, command>>, cycles>> pairs
  LET keys == DOMAIN bz \cup {w[1] : w \in {x \in waits : x[2] > 0}}
      all(k) == {w[2] : w \in {x \in waits : x[1] = k}}
                  \cup (IF k \in DOMAIN bz THEN {bz[k]} ELSE {})
  IN [k \in keys |-> CHOOSE n \in all(k) : \A m \in all(k) : m <= n]

Waits(cmd, node, level) == {<<<<node, c[1]>>, c[2]>> : c \in TimingCons[level][cmd]}
\* MACSB and MACPB are timed at the bank in every other bank group or
\* pseudochannel too (PIMSameBankActions, PIMPerBankActions).
AlsoTimed(cmd, addr) ==
  IF cmd = "MACSB" THEN SameBanks(addr)
  ELSE IF cmd = "MACPB" THEN PerBanks(addr) ELSE {}
\* The fourth last activate of the rank keeps the next one back for nFAW.
FourActivates(as, cmd, addr) ==
  IF cmd = "ACT" /\ Len(as[NodeAt(addr, 2)]) >= 3
  THEN {<<<<NodeAt(addr, 2), "ACT">>, T.nFAW - as[NodeAt(addr, 2)][3]>>} ELSE {}

UpdateTiming(bz, as, cmd, addr) ==
  Later(bz, (UNION {Waits(cmd, NodeAt(addr, Depth[l]), l) :
                      l \in {x \in Levels : Depth[x] <= Len(addr)}})
            \cup (UNION {Waits(cmd, b, "bank") : b \in AlsoTimed(cmd, addr)})
            \cup FourActivates(as, cmd, addr))
History(as, cmd, addr) ==
  IF cmd # "ACT" THEN as
  ELSE [as EXCEPT ![NodeAt(addr, 2)] = <<0>> \o SubSeq(@, 1, Lesser(Len(@), 2))]

\* Which banks a command opens or closes.  PRESB has the body of PREPB.
Opened(cmd, addr) ==
  CASE cmd = "ACT" -> {BankOf(addr)}
    [] cmd = "ACTAB" -> BankNodes
    [] cmd = "ACTSB" -> SameBanks(addr)
    [] cmd = "ACTPB" -> PerBanks(addr)
    [] OTHER -> {}
ClosedByPseudo(cmd, addr) ==
  CASE cmd = "PRE" -> {BankOf(addr)}
    [] cmd = "PREA" -> {b \in BankNodes : b[1] = addr[1]}
    [] cmd \in {"PRESB", "PREPB"} -> PerBanks(addr)
    [] OTHER -> {}
ClosedBy(cmd, addr) ==
  CASE cmd = "PRE" -> {BankOf(addr)}
    [] cmd = "PREA" -> BankNodes
    [] cmd \in {"PRESB", "PREPB"} -> PerBanks(addr)
    [] OTHER -> {}
UpdateStates(rs, cmd, addr) ==
  [b \in BankNodes |-> IF b \in ClosedBy(cmd, addr) THEN {}
                       ELSE IF b \in Opened(cmd, addr) THEN rs[b] \cup {RowOf(addr)}
                       ELSE rs[b]]

AgedLate(bz) == [k \in {x \in DOMAIN bz : bz[x] > 0} |-> bz[k] - 1]
\* One cycle of m_clk: every wait is a cycle shorter.
Aged(bz) == [k \in {x \in DOMAIN bz : bz[x] > 1} |-> bz[k] - 1]
\* The youngest come first: what is left of a history is its beginning.
AgedActs(as) ==
  [r \in RankNodes |-> [i \in {k \in DOMAIN as[r] : as[r][k] + 1 < T.nFAW} |-> as[r][i] + 1]]

DeviceInit ==
  /\ rows = [b \in BankNodes |-> {}]
  /\ busy = <<>>
  /\ acts = [r \in RankNodes |-> <<>>]
=============================================================================
