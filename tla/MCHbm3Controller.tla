------------------------- MODULE MCHbm3Controller -------------------------
(* Small programs and shrunk timings for Hbm3Controller. *)
EXTENDS Hbm3Controller

At(p, b, row) == <<p, 0, 0, b, row, 0>>
FarGroup(row) == <<0, 0, 1, 0, row, 0>>
Req(type, addr) == [type |-> type, addr |-> addr]
AnyProgram(n, kinds) == [1 .. n -> kinds]

\* The preset's cycles divided by six, in the same order among each other and
\* to the two cycles an activate holds the row bus; a refresh every 24 cycles.
SmallTimings ==
  [nBL |-> 1, nCL |-> 3, nRCDRD |-> 3, nRCDWR |-> 3, nRP |-> 3, nRAS |-> 9, nRC |-> 12,
   nWR |-> 3, nRTPS |-> 1, nRTPL |-> 1, nCWL |-> 1, nCCDS |-> 1, nCCDL |-> 1,
   nCCDAB |-> 1, nCCDSB |-> 1, nRRDS |-> 1, nRRDL |-> 1, nWTRS |-> 1, nWTRL |-> 2,
   nFAW |-> 7, nRFC |-> 10, nREFI |-> 24]
AllTypes == {"row", "col", "none"}
NoTypes == {}

\* Reads and writes of two rows: at one bank of two pseudochannels, sent at any
\* time; at two banks of one rank, sent at once.
ReadsAndWrites(P, B) ==
  {Req(t, At(p, b, r)) : t \in {"Read", "Write"}, p \in P, b \in B, r \in 0 .. 1}
DramPrograms ==
  {p \in AnyProgram(3, ReadsAndWrites({0, 1}, {0})) :
     p[1].addr = At(0, 0, 0) /\ p[2].addr # p[3].addr}
BurstPrograms == AnyProgram(4, ReadsAndWrites({0}, {0, 1}))

\* All-bank MACs, results written back to a bank, barriers; then MACs of every
\* kind in one bank group; then same-bank MACs addressed to the other.
Barrier == Req("PIM_BARRIER", At(0, 0, 0))
PimKinds == {Req("PIM_MAC_AB", At(0, 0, r)) : r \in 0 .. 1}
              \cup {Barrier, Req("PIM_WR_BK", At(0, 0, 0)), Req("PIM_WR_BK", At(1, 0, 1))}
MacKinds == {Req(k, At(0, 0, r)) : k \in {"PIM_MAC_AB", "PIM_MAC_SB", "PIM_MAC_PB"},
                                   r \in 0 .. 1} \cup {Barrier, Req("PIM_WR_GB", At(0, 0, 0))}
FarKinds == {Req("PIM_MAC_SB", FarGroup(r)) : r \in 0 .. 1} \cup {Barrier}

\* The shape of a sparse matrix-vector trace (generate_csr_trace) over two rows of
\* the matrix: the column index read, x loaded, a per-bank MAC, a barrier, the sum
\* moved out and y written, a barrier.
CsrRow(p, index, y) ==
  <<Req(index, At(p, 0, 1)), Req("PIM_WR_GB", At(0, 0, 2)), Req("PIM_MAC_PB", At(p, 0, 0)),
    Barrier, Req("PIM_MV_SB", At(p, 0, 0)), Req(y, At(p, 0, 3)), Barrier>>
CsrPrograms(index, y) ==
  {CsrRow(p, index, y) \o CsrRow(q, index, y) : p \in 0 .. 1, q \in 0 .. 1}
PimPrograms ==
  AnyProgram(4, PimKinds) \cup AnyProgram(3, MacKinds)
    \cup AnyProgram(3, FarKinds) \cup CsrPrograms("PIM_WR_GB", "PIM_WR_BK")

EagerPrograms == BurstPrograms \cup PimPrograms
AllPrograms == DramPrograms \cup EagerPrograms
NoPrograms == {}
=============================================================================
