---------------------------- MODULE MCPimKernel ----------------------------
(***************************************************************************)
(* PimKernel with formal sums for values: a value is a set of products, a  *)
(* product a set of cells, zero the empty set.  A product added a second   *)
(* time leaves a mark, so that an operation done twice shows.              *)
(***************************************************************************)
EXTENDS PimKernel

Twice == {<<3, 0, 0>>}
Rectified == <<4, 0, 0>>

Sum(a, b) == a \cup b \cup (IF a \cap b = {} THEN {} ELSE {Twice})
Product(a, b) == {x \cup y : x \in a, y \in b}
SumOnto(d, a, b) == Sum(Product(a, b), d)
SumWith(a, b, c) == Sum(Product(a, b), c)
Rectify(a) == {x \cup {Rectified} : x \in a}
LaneOfBurst(a, i) == a
Formal(c) == {{c}}

Job(kernel, tiles, outs, batches) ==
  [kernel |-> kernel, tiles |-> tiles, outs |-> outs, batches |-> batches]

EltwiseJobs == {Job("ADD", 2, 1, 1), Job("MUL", 1, 1, 1), Job("RELU", 3, 1, 1)}
GemvJobs == {Job("GEMV", 2, 2, 1), Job("GEMV", 3, 1, 1), Job("GEMV", 2, 1, 2)}
TreeJobs == {Job("GEMVTREE", 2, 1, 1), Job("GEMVTREE", 3, 1, 1), Job("CONV1D", 10, 2, 1)}
KernelJobs == EltwiseJobs \cup GemvJobs \cup TreeJobs
KernelPackets == ScriptPackets

ReductionJob == {Job("REDUCTION", 1, 1, 1)}
=============================================================================
