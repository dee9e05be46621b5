--------------------------- MODULE MCHbm2Channel ---------------------------
(* Instances of the channel for TLC.  Timings are shrunk to the smallest values  *)
(* that keep the order the ini file gives them.                                   *)
EXTENDS Hbm2Channel

At(r, b, w, c) == [rank |-> r, bank |-> b, row |-> w, col |-> c]

\* One rank: two columns of a row, another row of the bank, another bank, and the
\* row the PIM protocol parks a bank in.
OneRank == {At(0, 0, 0, 0), At(0, 0, 0, 1), At(0, 0, 1, 0), At(0, 1, 0, 0), At(0, 1, 8192, 0)}

\* Two ranks, two rows of the first.
TwoRanks == {At(0, 0, 0, 0), At(0, 0, 1, 0), At(1, 1, 0, 0)}

\* Two rows of one bank, for a client that never stops.
TwoRows == {At(0, 0, 0, 0), At(0, 0, 1, 0)}
=============================================================================
