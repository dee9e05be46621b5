----------------------------- MODULE MCPimMode -----------------------------
(* Host programs on one rank of sixteen banks, for TLC. *)
EXTENDS PimMode

\* Every place any host program touches.
HostLocations ==
  {[rank |-> 0, bank |-> p.bank, row |-> p.row, col |-> p.col] :
     p \in UNION {{q \in ToSet(Programs[k][n]) : q.op \in {"READ", "WRITE"}} :
                     k \in Kernels, n \in Preloads}}

FewPreloads == 0 .. 19
=============================================================================
