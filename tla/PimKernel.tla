------------------------------ MODULE PimKernel ------------------------------
(***************************************************************************)
(* The kernels of PIMKernel and of two benchmarks, as the accesses they    *)
(* put on a channel, driving PimRank.  A script is a sequence of groups:   *)
(* accesses of a group come without a barrier between them and may arrive  *)
(* in any order, groups are separated by barriers.  Each access carries,   *)
(* for the properties only, the index of the CRF command it is sent to     *)
(* trigger (NoCommand if none), which the code has in its tags.            *)
(***************************************************************************)
EXTENDS PimRank, Sequences, FiniteSetsExt, SequencesExt

CONSTANT Jobs          \* kernel, tiles, outs, batches

VARIABLES
  job,                 \* the kernel the client runs
  at,                  \* the group being sent
  left                 \* its accesses still to come

vars == <<mode, crf, sq, ctl, blk, cells, now, error, job, at, left>>

NoCommand == -1
NumGrf == 8
NumCols == 32                            \* NUM_COLS / BL: bursts of a row

-----------------------------------------------------------------------------
(* Accesses.  A column past the end of a row is one of the next row.           *)

Access(op, bank, row, col, data, meant) ==
  [op |-> op, bank |-> bank, row |-> row + (col \div NumCols), col |-> col % NumCols,
   data |-> data, meant |-> meant]

\* addTransactionAll with a barrier after it.
All(op, bank, row, col, n, meant) ==
  <<{Access(op, bank, row, col + i, Zero, meant) : i \in 0 .. n - 1}>>

Register(bank, col, data) == Access("WRITE", bank, RegRow, col, data, NoCommand)

Control(op, zeroB, cond) == [op |-> op, zeroA |-> FALSE, zeroB |-> zeroB, cond |-> cond]
Switch(ctrl) == <<{Register(0, 0, ctrl)}>>

ToHab == <<{Access("HAB", 0, 10239, 31, Zero, NoCommand)}>>
ToSb == <<{Access("SB", 0, 12287, 31, Zero, NoCommand)}>>

\* Bursts of eight commands, filled up with NOPs.
ProgramCrf(cmds) ==
  LET Burst(i) == [k \in 0 .. 7 |-> IF 8 * i + k < Len(cmds) THEN Stored(cmds[8 * i + k + 1]) ELSE Nop]
  IN <<{Register(1, 4 + i, Burst(i)) : i \in {b \in 0 .. 3 : 8 * b < Len(cmds)}}>>

Session(cmds, body) == ToHab \o ProgramCrf(cmds) \o body \o ToSb

\* f(0) \o f(1) \o ... \o f(n - 1)
Each(f(_), n) == FlattenSeq([i \in 1 .. n |-> f(i - 1)])

-----------------------------------------------------------------------------
(* The programs. *)

\* A slip: no EXIT at the end.
Endless(cmds, jumps) == cmds \o (IF jumps # 0 THEN <<Loop(jumps, Len(cmds) + 1)>> ELSE <<>>)

Repeated(cmds, jumps) ==
  cmds \o (IF jumps # 0 THEN <<Loop(jumps, Len(cmds) + 1)>> ELSE <<>>) \o <<End>>

EltwiseCmds(type) ==
  <<Op("FILL", "GRF_A", "EVEN_BANK", "A_OUT", FALSE), Op(type, "GRF_A", "GRF_A", "EVEN_BANK", TRUE), Wait(7),
    Op("FILL", "GRF_B", "ODD_BANK", "A_OUT", FALSE), Op(type, "GRF_B", "GRF_B", "ODD_BANK", TRUE), Wait(7)>>

ReluCmds ==
  <<[Op("FILL", "GRF_A", "EVEN_BANK", "A_OUT", TRUE) EXCEPT !.relu = TRUE], Wait(7),
    [Op("FILL", "GRF_B", "ODD_BANK", "A_OUT", TRUE) EXCEPT !.relu = TRUE], Wait(7)>>

MacEven == Op("MAC", "GRF_B", "GRF_A", "EVEN_BANK", TRUE)
MacOdd == Op("MAC", "GRF_B", "GRF_A", "ODD_BANK", TRUE)
ClearB == Op("MUL", "GRF_B", "GRF_B", "EVEN_BANK", TRUE)

GemvCmds(even, odd) == <<MacEven, Loop(even, 2), MacOdd, Loop(odd, 2), Wait(7)>>
TreeCmds == <<MacEven, Loop(7, 2), Wait(7), ClearB, MacOdd, Loop(7, 2), Wait(7), ClearB>>

-----------------------------------------------------------------------------
(* Where the client keeps its data: rows of the operands, and GEMV's layout.   *)

Input0 == 0
Input1 == 128
Output == 256
ZeroRow == 1000

CellOf(side, row, col) == <<side, row + (col \div NumCols), col % NumCols>>

HalfUp(n) == (n + 1) \div 2

\* preloadGemv puts even input tiles in even banks, odd ones in odd banks, each
\* output tile's after those of the one before.
WeightCell(j, out, tile, g, a) ==
  LET before == out * (IF tile % 2 = 0 THEN HalfUp(j.tiles) ELSE j.tiles \div 2)
  IN CellOf(tile % 2, 0, 64 * (before + (tile \div 2)) + 8 * g + a)

\* An element of the input vector of a batch.
VectorOf(batch, tile, a) == Content(<<2, batch, 8 * tile + a>>)

-----------------------------------------------------------------------------
(* The scripts. *)

AddOrMulTile(i) ==
  Each(LAMBDA b : All("READ", b, Input0, 8 * i, NumGrf, 3 * b)
               \o All("READ", b, Input1, 8 * i, NumGrf, 3 * b + 1)
               \o All("WRITE", b, Output, 8 * i, NumGrf, 3 * b + 2), 2)

ReluTile(i) ==
  Each(LAMBDA b : All("READ", b, Input0, 8 * i, NumGrf, 2 * b)
               \o All("WRITE", b, Output, 8 * i, NumGrf, 2 * b + 1), 2)

\* A slip: a jump for every tile, where the first pass needs none.
EltwiseOnceMore(j) ==
  Session(Repeated(IF j.kernel = "RELU" THEN ReluCmds ELSE EltwiseCmds(j.kernel), j.tiles),
    Switch(Control(TRUE, FALSE, 0))
    \o Each(LAMBDA i : IF j.kernel = "RELU" THEN ReluTile(i) ELSE AddOrMulTile(i), j.tiles)
    \o Switch(Control(FALSE, FALSE, 0)))

ExecuteEltwise(j) ==
  Session(Repeated(IF j.kernel = "RELU" THEN ReluCmds ELSE EltwiseCmds(j.kernel), j.tiles - 1),
    Switch(Control(TRUE, FALSE, 0))
    \o Each(LAMBDA i : IF j.kernel = "RELU" THEN ReluTile(i) ELSE AddOrMulTile(i), j.tiles)
    \o Switch(Control(FALSE, FALSE, 0)))

ComputeGemv(j, tile, out, batch, meant) ==
  <<{Register(1, 8 + a, VectorOf(batch, tile, a)) : a \in 0 .. 7}>>
  \o Each(LAMBDA g : All("READ", tile % 2, 0,
                         64 * ((tile \div 2) + ((out * j.tiles) \div 2)) + 8 * g, NumGrf, meant), 8)

\* A slip: results from the first column on.
ResultColFirst(j, out, batch) == 8 * (out + batch)

ResultCol(j, out, batch) == 64 * ((j.outs * j.tiles) \div 2) + 8 * (out + batch)

GemvPass(j, out, batch) ==
  LET Side(odd) == Each(LAMBDA i : ComputeGemv(j, 2 * i + odd, out, batch, 2 * odd),
                        IF odd = 0 THEN HalfUp(j.tiles) ELSE j.tiles \div 2)
  IN Side(0) \o Side(1) \o All("WRITE", 1, 0, ResultCol(j, out, batch), NumGrf, 4)

TreePass(j, out, batch) ==
  Each(LAMBDA i : ComputeGemv(j, i, out, batch, 4 * (i % 2))
               \o All("WRITE", 1, 0, ResultCol(j, out, batch) + 8 * i, NumGrf, 4 * (i % 2) + 2)
               \o All("READ", 0, ZeroRow, 0, NumGrf, 4 * (i % 2) + 3), j.tiles)

\* GRF_B is zeroed on entering HAB_PIM, which also resets the sequencer.
ExecuteGemv(j) ==
  LET cmds == IF j.kernel = "GEMVTREE" THEN Repeated(TreeCmds, HalfUp(j.tiles) - 1)
              ELSE Repeated(GemvCmds(8 * HalfUp(j.tiles) - 1, 8 * (j.tiles \div 2) - 1), 0)
      Pass(out, batch) == IF j.kernel = "GEMVTREE" THEN TreePass(j, out, batch)
                          ELSE GemvPass(j, out, batch)
  IN (IF j.kernel = "GEMVTREE"
      THEN Each(LAMBDA b : All("WRITE", b, ZeroRow, 0, NumGrf, NoCommand), 2) ELSE <<>>)
     \o Session(cmds, Each(LAMBDA out : Each(LAMBDA batch :
          Switch(Control(TRUE, TRUE, 0)) \o Pass(out, batch) \o Switch(Control(FALSE, FALSE, 0)),
          j.batches), j.outs))

\* PIMConv1D: one tap at a time, GRF_B zeroed before the first and kept between.
ConvTap(slot, k) ==
  <<{Register(1, 8, Content(<<2, 0, k>>))}>>
  \o Switch(Control(TRUE, k = 0, 2))
  \o All("READ", 0, 4 * slot + 2 * (k \div 8), k % 8, 1, 0)
  \o Switch(Control(FALSE, FALSE, 2))

Conv1D(j) ==
  Session(<<Op("MAC", "GRF_B", "GRF_A", "EVEN_BANK", FALSE), End>>,
    Each(LAMBDA slot : Each(LAMBDA k : ConvTap(slot, k), j.tiles)
                    \o All("WRITE", 1, 4096 + slot, 0, 1, NoCommand), j.outs))

\* PIMReduction, one shot: fill and add the left and right bursts of the even bank,
\* then of the odd one, without barriers; in program order here.
Reduction ==
  Session(EltwiseCmds("ADD") \o <<Loop(65535, 7), End>>,
    Switch(Control(TRUE, FALSE, 0))
    \o Each(LAMBDA b : All("READ", b, 0, 0, NumGrf, 3 * b) \o All("READ", b, 0, 1, NumGrf, 3 * b + 1), 2)
    \o Switch(Control(FALSE, FALSE, 0)))

Script(j) ==
  CASE j.kernel \in {"ADD", "MUL", "RELU"} -> ExecuteEltwise(j)
    [] j.kernel \in {"GEMV", "GEMVTREE"} -> ExecuteGemv(j)
    [] j.kernel = "CONV1D" -> Conv1D(j)
    [] j.kernel = "REDUCTION" -> Reduction

Scripts == [j \in Jobs |-> Script(j)]

\* The accesses of all scripts.
ScriptPackets == UNION {UNION Range(Scripts[j]) : j \in Jobs}

\* The rows a kernel's data may take: 128 between the operands of an element-wise
\* one, all below the zero row for the tree, inputs below the results for Conv1D, and
\* below the register rows for all.
Fits(j) ==
  CASE j.kernel \in {"ADD", "MUL", "RELU"} -> 8 * j.tiles <= NumCols * Input1
    [] j.kernel \in {"GEMV", "GEMVTREE"} ->
         64 * (j.outs * HalfUp(j.tiles)) + 8 * (j.outs + j.batches + j.tiles)
           <= NumCols * (IF j.kernel = "GEMV" THEN 8192 ELSE ZeroRow)
    [] j.kernel = "CONV1D" -> 4 * (j.outs - 1) + 2 * ((j.tiles - 1) \div 8) < 4096
    [] OTHER -> TRUE

\* A group of accesses has one for each block, the CRF holds the longest program, and
\* shapes fit the banks.
ASSUME PimKernelAssumption ==
  /\ NumBlocks = NumGrf /\ CrfSize >= 10 /\ ScriptPackets \subseteq Packets
  /\ Jobs \subseteq [kernel : {"ADD", "MUL", "RELU", "GEMV", "GEMVTREE", "CONV1D", "REDUCTION"},
                    tiles : Nat \ {0}, outs : Nat \ {0}, batches : Nat \ {0}]
  /\ \A j \in Jobs : Fits(j)

-----------------------------------------------------------------------------
Init == RankInit /\ job \in Jobs /\ at = 1 /\ left = Scripts[job][1]

Over == at > Len(Scripts[job])

\* One access of the group reaches the rank; a group follows when none is left.
Deliver ==
  /\ ~Over
  /\ \E p \in left :
       /\ Arrive(p)
       /\ IF left # {p} THEN left' = left \ {p} /\ at' = at
          ELSE at' = at + 1 /\ left' = IF at < Len(Scripts[job]) THEN Scripts[job][at + 1] ELSE {}
  /\ UNCHANGED job

Respond == Handle /\ UNCHANGED <<job, at, left>>

Finished == Over /\ now = NoAccess

Next == Deliver \/ Respond \/ (Finished /\ UNCHANGED vars)

Spec == Init /\ [][Next]_vars

-----------------------------------------------------------------------------
(* What the kernels rely on. *)

\* The command an access finds first that is no JUMP (the programs have no two
\* JUMPs in a row).
Reached == IF crf[sq.pc].type = "JUMP" THEN AfterJump(crf[sq.pc]).pc ELSE sq.pc

\* Repeat counts, jump counts and the number of accesses in each loop of the kernel
\* match: every access sent to trigger a command finds the rank in HAB_PIM mode and
\* the sequencer at that command, and no other access triggers anything.
InStep ==
  Busy => IF now.meant = NoCommand THEN ~InPIM
          ELSE InPIM /\ Reached = now.meant

\* When a kernel switches HAB_PIM off, its program has run to its EXIT: the loops
\* were not set up for more data than was sent.  GEMVTREE's program fits two tiles
\* only: with one it stops half-way, and with more the one jump counter makes its
\* outer loop endless.
ProgramSpent ==
  Busy /\ mode = "HAB_PIM" /\ IsControl(now) /\ (job.kernel = "GEMVTREE" => job.tiles = 2)
    => sq.exit \/ crf[Reached].type = "EXIT"

SumOver(S, f(_)) == MapThenFoldSet(AddOf, Zero, f, LAMBDA T : CHOOSE x \in T : TRUE, S)

\* The product of a weight row and the input tiles of a set.
DotProduct(j, out, batch, g, tiles) ==
  SumOver(tiles \X (0 .. 7), LAMBDA x :
    MulOf(VectorOf(batch, x[1], x[2]), Content(WeightCell(j, out, x[1], g, x[2]))))

Eltwise(j, x, y) ==
  CASE j.kernel = "ADD" -> AddOf(x, y) [] j.kernel = "MUL" -> MulOf(x, y) [] j.kernel = "RELU" -> ReluOf(x)

\* <<cell, value>> for everything a job is to have computed.
Expected(j) ==
  CASE j.kernel \in {"ADD", "MUL", "RELU"} ->
         {<<CellOf(b, Output, n), Eltwise(j, Content(CellOf(b, Input0, n)), Content(CellOf(b, Input1, n)))>> :
            b \in 0 .. 1, n \in 0 .. 8 * j.tiles - 1}
    [] j.kernel = "GEMV" ->
         {<<CellOf(1, 0, ResultCol(j, o, b) + g), DotProduct(j, o, b, g, 0 .. j.tiles - 1)>> :
            o \in 0 .. j.outs - 1, b \in 0 .. j.batches - 1, g \in 0 .. 7}
    [] j.kernel = "GEMVTREE" ->
         {<<CellOf(1, 0, ResultCol(j, o, b) + 8 * i + g), DotProduct(j, o, b, g, {i})>> :
            o \in 0 .. j.outs - 1, b \in 0 .. j.batches - 1, i \in 0 .. j.tiles - 1, g \in 0 .. 7}
    [] j.kernel = "CONV1D" ->
         {<<CellOf(1, 4096 + s, 0),
            SumOver(0 .. j.tiles - 1, LAMBDA k :
              MulOf(Content(<<2, 0, k>>), Content(CellOf(0, 4 * s + 2 * (k \div 8), k % 8))))>> :
            s \in 0 .. j.outs - 1}
    [] OTHER -> {}

Results == [j \in Jobs |-> Expected(j)]

\* A finished kernel has left in its result cells what it is for: the sum, product or
\* rectified operand of the same position, or the product of the weights as
\* preloadGemv laid them out with the input vector, in whatever order the accesses
\* of a group arrived.
ResultCorrect == Finished => \A r \in Results[job] : Held(r[1]) = r[2]

\* The cells a job's operands are in.
OperandsOf(j) ==
  CASE j.kernel \in {"ADD", "MUL", "RELU"} ->
         {CellOf(b, row, n) : b \in 0 .. 1, row \in {Input0, Input1}, n \in 0 .. 8 * j.tiles - 1}
    [] j.kernel \in {"GEMV", "GEMVTREE"} ->
         {WeightCell(j, o, i, g, a) :
            o \in 0 .. j.outs - 1, i \in 0 .. j.tiles - 1, g \in 0 .. 7, a \in 0 .. 7}
    [] j.kernel = "CONV1D" ->
         {CellOf(0, 4 * s + 2 * (k \div 8), k % 8) : s \in 0 .. j.outs - 1, k \in 0 .. j.tiles - 1}
    [] OTHER -> {}

OperandCells == [j \in Jobs |-> OperandsOf(j)]

\* No kernel writes over its operands: they are laid out, and the results placed, by
\* different functions from the same shape.
OperandsKept == DOMAIN cells \cap OperandCells[job] = {}

\* The kernels keep to the protocol PimRank's theorems assume.
ImplementsRank == RankSpec
=============================================================================
