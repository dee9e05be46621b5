------------------------------- MODULE PimRank -------------------------------
(***************************************************************************)
(* A rank's processing in memory: the command register file (CRF), the     *)
(* sequencer that walks it, and the registers of one PIM block with its    *)
(* pair of banks.  All blocks do the same, each to its own banks, so one   *)
(* block stands for all.  `now` is the access the rank executes.  In       *)
(* HAB_PIM mode a toggling access is one pass of PIMRank::doPIM, whose     *)
(* loop over JUMP commands is one step per command.  What add, mul, mac,   *)
(* mad and relu compute is a parameter.                                    *)
(***************************************************************************)
EXTENDS Integers

CONSTANTS
  NumBlocks,           \* NUM_PIM_BLOCKS: also how often an auto command repeats
  CrfSize,             \* commands the CRF holds: 32
  Zero,                \* a burst of zeroes
  AddOf(_, _), MulOf(_, _), MacOf(_, _, _), MadOf(_, _, _),
  ReluOf(_), LaneOf(_, _),
  Content(_),          \* what a cell holds that no access has written
  Packets              \* the accesses a client may make

VARIABLES
  mode,                \* Rank::mode_
  crf,                 \* PIMRank::crf, decoded
  sq,                  \* pimPC_, the last jump and repeat, their counters, crfExit_
  ctl,                 \* pimOpMode_, toggleEvenBank_, toggleOddBank_, toggleRa13h_
  blk,                 \* PIMBlock: grfA, grfB, srf, aOut, mOut
  cells,               \* what has been written to the two banks
  now,                 \* the access being executed
  error                \* what ended the program, or a read outside the CRF

rankVars == <<mode, crf, sq, ctl, blk, cells, now, error>>

Slots == 0 .. CrfSize - 1
Registers == 0 .. 7
NoAccess == [op |-> "NONE"]
RegRow == 16383                          \* PIM_REG_RA
IsReservedRA(row) == (row \div 8192) % 2 = 1

Arithmetic == {"ADD", "MUL", "MAC", "MAD"}
Moves == {"FILL", "MOV"}
Operands == {"A_OUT", "M_OUT", "EVEN_BANK", "ODD_BANK", "GRF_A", "GRF_B", "SRF_M", "SRF_A"}

\* A decoded command.  count is 17 bits in a JUMP and 11 in a NOP.
CountLimit == 131072
ShortLimit == 2048
Commands ==
  [type : Arithmetic \cup Moves \cup {"NOP", "JUMP", "EXIT"},
   dst : Operands, src0 : Operands, src1 : Operands, src2 : Operands,
   auto : BOOLEAN, relu : BOOLEAN,
   dstIdx : 0 .. 15, src0Idx : 0 .. 15, src1Idx : 0 .. 15,
   count : 0 .. CountLimit - 1, offset : 0 .. ShortLimit - 1]

Nop == [type |-> "NOP", dst |-> "A_OUT", src0 |-> "A_OUT", src1 |-> "A_OUT", src2 |-> "A_OUT",
        auto |-> FALSE, relu |-> FALSE, dstIdx |-> 0, src0Idx |-> 0, src1Idx |-> 0,
        count |-> 0, offset |-> 0]

Op(type, dst, src0, src1, auto) ==
  [Nop EXCEPT !.type = type, !.dst = dst, !.src0 = src0, !.src1 = src1, !.auto = auto]
Wait(n) == [Nop EXCEPT !.count = n]
Loop(n, offset) == [Nop EXCEPT !.type = "JUMP", !.count = n, !.offset = offset]
End == [Nop EXCEPT !.type = "EXIT"]

\* A command after toInt and fromInt: each field cut to its bits, and the fields
\* that a type has no bits for at their defaults.
Stored(c) ==
  [c EXCEPT !.count = IF c.type = "JUMP" THEN @ % CountLimit ELSE @ % ShortLimit,
            !.offset = @ % ShortLimit,
            !.auto = @ /\ c.type \in Arithmetic,
            !.relu = @ /\ c.type \in Moves]

\* The register row's columns, and the accesses that reach each register.
ToRegisters(p) == p.op = "WRITE" /\ p.row = RegRow
IsControl(p) == ToRegisters(p) /\ p.col = 0
IsCrfWrite(p) == ToRegisters(p) /\ p.col \in 4 .. 7
IsGrfWrite(p) == ToRegisters(p) /\ p.col \in (8 .. 15) \cup (24 .. 31)
IsSrfWrite(p) == ToRegisters(p) /\ p.col = 1

\* What clients send: the two banks of the block, decoded commands in a CRF
\* write, the five control flags in a control write.  HAB and SB stand for the
\* accesses to the mode rows.
ASSUME PimRankAssumption ==
  /\ NumBlocks \in Nat \ {0} /\ CrfSize \in Nat \ {0}
  /\ \A p \in Packets :
       /\ p.op \in {"READ", "WRITE", "HAB", "SB"}
       /\ p.bank \in {0, 1} /\ p.row \in Nat /\ p.col \in Nat
       /\ IsCrfWrite(p) => p.data \in [0 .. 7 -> Commands]
       /\ IsControl(p) => p.data \in [op : BOOLEAN, zeroA : BOOLEAN, zeroB : BOOLEAN, cond : 0 .. 7]

RankInit ==
  /\ mode = "SB" /\ crf = [i \in Slots |-> Nop]
  /\ sq = [pc |-> 0, lastJump |-> -1, jumps |-> -1, lastRepeat |-> -1, repeats |-> -1,
           exit |-> FALSE]
  /\ ctl = [opMode |-> FALSE, even |-> FALSE, odd |-> FALSE, ra13 |-> FALSE]
  /\ blk = [A |-> [i \in Registers |-> Zero], B |-> [i \in Registers |-> Zero],
            srf |-> Zero, aOut |-> Zero, mOut |-> Zero]
  /\ cells = [c \in {} |-> Zero]
  /\ now = NoAccess /\ error = "none"

-----------------------------------------------------------------------------
(* Registers and cells. *)

Cell(p, side) == <<side, p.row % 8192, p.col>>
Held(c) == IF c \in DOMAIN cells THEN cells[c] ELSE Content(c)
Put(c, v) == [x \in DOMAIN cells \cup {c} |-> IF x = c THEN v ELSE cells[x]]

GrfIdx(n) == n % 8
GrfIdxHigh(p) == ((p.row % 2) * 4) + ((p.col \div 8) % 4)

\* A slip: a MAC accumulates in the register its operand came from.
GrfBLow(p, idx, auto, mac) == IF auto THEN GrfIdx(p.col) ELSE GrfIdx(idx)

\* Auto commands take the register from the access's column, but for the GRF_B of
\* a MAC: that comes from the high bits of column and row.
GrfA(p, idx, auto) == IF auto THEN GrfIdx(p.col) ELSE GrfIdx(idx)
GrfB(p, idx, auto, mac) ==
  IF ~auto THEN GrfIdx(idx) ELSE IF mac THEN GrfIdxHigh(p) ELSE GrfIdx(p.col)

ReadOpd(opd, idx, p, auto, mac) ==
  CASE opd = "A_OUT"     -> blk.aOut
    [] opd = "M_OUT"     -> blk.mOut
    [] opd = "EVEN_BANK" -> Held(Cell(p, 0))
    [] opd = "ODD_BANK"  -> Held(Cell(p, 1))
    [] opd = "GRF_A"     -> blk.A[GrfA(p, idx, auto)]
    [] opd = "GRF_B"     -> blk.B[GrfB(p, idx, auto, mac)]
    [] opd = "SRF_M"     -> LaneOf(blk.srf, GrfIdx(idx))
    [] opd = "SRF_A"     -> LaneOf(blk.srf, GrfIdx(idx) + 8)

\* Writing the odd bank by an access to an even one ends the program.
WrongBank(c, p) == c.dst = "ODD_BANK" /\ p.bank % 2 = 0

WriteOpd(c, v, p, auto, mac) ==
  /\ blk' = CASE c.dst = "A_OUT" -> [blk EXCEPT !.aOut = v]
              [] c.dst = "M_OUT" -> [blk EXCEPT !.mOut = v]
              [] c.dst = "GRF_A" -> [blk EXCEPT !.A[GrfA(p, c.dstIdx, auto)] = v]
              [] c.dst = "GRF_B" -> [blk EXCEPT !.B[GrfB(p, c.dstIdx, auto, mac)] = v]
              [] c.dst \in {"SRF_M", "SRF_A"} -> [blk EXCEPT !.srf = v]
              [] OTHER -> blk
  /\ cells' = CASE c.dst = "EVEN_BANK" -> Put(Cell(p, 0), v)
                [] c.dst = "ODD_BANK" /\ ~WrongBank(c, p) -> Put(Cell(p, 1), v)
                [] OTHER -> cells

\* GRF_A to the even bank, GRF_B to the odd one.
GrfToBank(p) ==
  cells' = Put(Cell(p, p.bank), IF p.bank = 0 THEN blk.A[GrfIdx(p.col)] ELSE blk.B[GrfIdx(p.col)])

Result(c, p, auto) ==
  LET Opd(opd, idx) == ReadOpd(opd, idx, p, auto, c.type = "MAC")
      x == Opd(c.src0, c.src0Idx)
      y == Opd(c.src1, c.src1Idx)
  IN CASE c.type \in Moves -> IF c.relu THEN ReluOf(x) ELSE x
       [] c.type = "ADD"   -> AddOf(x, y)
       [] c.type = "MUL"   -> MulOf(x, y)
       [] c.type = "MAC"   -> MacOf(Opd(c.dst, c.dstIdx), x, y)
       [] c.type = "MAD"   -> MadOf(x, y, Opd(c.src2, c.src1Idx))

DoPIMBlock(c, p) ==
  LET auto == c.type = "FILL" \/ (c.type # "MOV" /\ c.auto)
  IN \/ c.type \in Moves \cup Arithmetic /\ WriteOpd(c, Result(c, p, auto), p, auto, c.type = "MAC")
     \/ c.type = "NOP" /\ p.op = "WRITE" /\ GrfToBank(p) /\ UNCHANGED blk
     \/ c.type = "NOP" /\ p.op = "READ" /\ UNCHANGED <<blk, cells>>

-----------------------------------------------------------------------------
(* The sequencer. *)

Toggles(p) ==
  /\ ctl.opMode /\ ~sq.exit
  /\ ctl.ra13 \/ ~IsReservedRA(p.row)
  /\ IF p.bank % 2 = 0 THEN ctl.even ELSE ctl.odd

\* A slip: the loop's pimPC_++ forgotten.
AfterJumpShort(c) ==
  LET load == sq.lastJump # sq.pc /\ c.count > 0
      left == IF load THEN c.count ELSE sq.jumps
  IN [sq EXCEPT !.lastJump = IF load THEN sq.pc ELSE @,
                !.jumps = IF left > 0 THEN left - 1 ELSE left,
                !.pc = IF left > 0 THEN @ - c.offset ELSE @ + 1]

\* A JUMP that was not the last one taken loads the only jump counter; while that
\* is above 0 the jump is taken.  The loop's pimPC_++ is part of the target.
AfterJump(c) ==
  LET load == sq.lastJump # sq.pc /\ c.count > 0
      left == IF load THEN c.count ELSE sq.jumps
  IN [sq EXCEPT !.lastJump = IF load THEN sq.pc ELSE @,
                !.jumps = IF left > 0 THEN left - 1 ELSE left,
                !.pc = IF left > 0 THEN @ - c.offset + 1 ELSE @ + 1]

\* Auto commands and FILL stay for NumBlocks accesses, NOP for count + 1.
Repeating(c) == c.type \in {"FILL", "NOP"} \/ c.auto
Repeats(c) == IF c.type = "NOP" THEN c.count ELSE NumBlocks - 1

\* A slip: the repeat counter is not given back when it runs out.
AfterRepeatKept(c) ==
  LET left == IF sq.lastRepeat # sq.pc THEN Repeats(c) ELSE sq.repeats
  IN IF ~Repeating(c) THEN [sq EXCEPT !.pc = @ + 1]
     ELSE IF left > 0 THEN [sq EXCEPT !.lastRepeat = sq.pc, !.repeats = left - 1]
     ELSE [sq EXCEPT !.lastRepeat = sq.pc, !.repeats = left, !.pc = @ + 1]

AfterRepeat(c) ==
  LET left == IF sq.lastRepeat # sq.pc THEN Repeats(c) ELSE sq.repeats
  IN IF ~Repeating(c) THEN [sq EXCEPT !.pc = @ + 1]
     ELSE IF left > 0 THEN [sq EXCEPT !.lastRepeat = sq.pc, !.repeats = left - 1]
     ELSE [sq EXCEPT !.lastRepeat = -1, !.repeats = left, !.pc = @ + 1]

\* After every command the next one is looked at: EXIT stops the sequencer.
LookAhead(s) == [s EXCEPT !.exit = @ \/ (s.pc \in Slots /\ crf[s.pc].type = "EXIT")]

\* Reading data[pimPC_] past the CRF is undefined: the model stops there.
Outcome(s) == IF s.pc \in Slots THEN error ELSE "crf"

-----------------------------------------------------------------------------
(* What an access does. *)

Idle == now = NoAccess /\ error = "none"

Arrive(p) == Idle /\ now' = p /\ UNCHANGED <<mode, crf, sq, ctl, blk, cells, error>>

\* The rank is busy with an access and its client is not; what kind of access.
Busy == now # NoAccess /\ error = "none"
InPIM == Busy /\ now.op \in {"READ", "WRITE"} /\ mode = "HAB_PIM" /\ Toggles(now)
InHab == Busy /\ now.op \in {"READ", "WRITE"} /\ mode # "SB" /\ ~(mode = "HAB_PIM" /\ Toggles(now))

SwitchHab ==
  /\ Busy /\ now.op \in {"HAB", "SB"}
  /\ mode' = IF now.op = "HAB" THEN (IF mode = "SB" THEN "HAB" ELSE mode)
             ELSE (IF mode = "HAB" THEN "SB" ELSE mode)
  /\ now' = NoAccess
  /\ UNCHANGED <<crf, sq, ctl, blk, cells, error>>

AccessSb ==
  /\ Busy /\ now.op \in {"READ", "WRITE"} /\ mode = "SB"
  /\ cells' = IF now.op = "WRITE" /\ ~IsReservedRA(now.row)
              THEN Put(Cell(now, now.bank), now.data) ELSE cells
  /\ now' = NoAccess
  /\ UNCHANGED <<mode, crf, sq, ctl, blk, error>>

Restarted == [pc |-> 0, lastJump |-> -1, jumps |-> -1, lastRepeat |-> -1, repeats |-> -1,
              exit |-> FALSE]

ControlPIM ==
  /\ InHab /\ IsControl(now)
  /\ blk' = [blk EXCEPT !.A = IF now.data.zeroA THEN [i \in Registers |-> Zero] ELSE @,
                        !.B = IF now.data.zeroB THEN [i \in Registers |-> Zero] ELSE @]
  /\ ctl' = [opMode |-> now.data.op,
             even |-> now.data.cond % 2 = 0,
             odd |-> (now.data.cond \div 2) % 2 = 0,
             ra13 |-> now.data.cond >= 4]
  /\ mode' = IF now.data.op THEN "HAB_PIM" ELSE "HAB"
  /\ sq' = IF now.data.op THEN Restarted ELSE sq
  /\ now' = NoAccess
  /\ UNCHANGED <<crf, cells, error>>

WriteCrf ==
  /\ InHab /\ IsCrfWrite(now)
  /\ crf' = [i \in Slots |-> IF i \div 8 = now.col - 4 THEN now.data[i % 8] ELSE crf[i]]
  /\ now' = NoAccess
  /\ UNCHANGED <<mode, sq, ctl, blk, cells, error>>

WriteGrf ==
  /\ InHab /\ IsGrfWrite(now)
  /\ blk' = IF now.col < 16 THEN [blk EXCEPT !.A[now.col - 8] = now.data]
                            ELSE [blk EXCEPT !.B[now.col - 24] = now.data]
  /\ now' = NoAccess
  /\ UNCHANGED <<mode, crf, sq, ctl, cells, error>>

WriteSrf ==
  /\ InHab /\ IsSrfWrite(now)
  /\ blk' = [blk EXCEPT !.srf = now.data]
  /\ now' = NoAccess
  /\ UNCHANGED <<mode, crf, sq, ctl, cells, error>>

\* An access to an ordinary row that does not toggle: GRF to bank, or bank to GRF_B.
MoveToBank ==
  /\ InHab /\ now.op = "WRITE" /\ ~IsReservedRA(now.row)
  /\ GrfToBank(now)
  /\ now' = NoAccess
  /\ UNCHANGED <<mode, crf, sq, ctl, blk, error>>

MoveFromBank ==
  /\ InHab /\ now.op = "READ" /\ ~IsReservedRA(now.row)
  /\ blk' = [blk EXCEPT !.B[GrfIdx(now.col)] = Held(Cell(now, now.bank))]
  /\ now' = NoAccess
  /\ UNCHANGED <<mode, crf, sq, ctl, cells, error>>

IgnoreReserved ==
  /\ InHab /\ IsReservedRA(now.row)
  /\ ~(IsControl(now) \/ IsCrfWrite(now) \/ IsGrfWrite(now) \/ IsSrfWrite(now))
  /\ now' = NoAccess
  /\ UNCHANGED <<mode, crf, sq, ctl, blk, cells, error>>

\* The loop of doPIM goes on after a JUMP, unless that landed on EXIT.
Jump ==
  /\ InPIM /\ crf[sq.pc].type = "JUMP"
  /\ sq' = LookAhead(AfterJump(crf[sq.pc]))
  /\ error' = Outcome(sq')
  /\ now' = IF sq'.exit THEN NoAccess ELSE now
  /\ UNCHANGED <<mode, crf, ctl, blk, cells>>

Exit ==
  /\ InPIM /\ crf[sq.pc].type = "EXIT"
  /\ sq' = [sq EXCEPT !.exit = TRUE]
  /\ now' = NoAccess
  /\ UNCHANGED <<mode, crf, ctl, blk, cells, error>>

Execute ==
  /\ InPIM /\ crf[sq.pc].type \notin {"JUMP", "EXIT"}
  /\ DoPIMBlock(crf[sq.pc], now)
  /\ sq' = LookAhead(AfterRepeat(crf[sq.pc]))
  /\ error' = IF crf[sq.pc].type # "NOP" /\ WrongBank(crf[sq.pc], now) THEN "bank" ELSE Outcome(sq')
  /\ now' = NoAccess
  /\ UNCHANGED <<mode, crf, ctl>>

Handle ==
  \/ SwitchHab \/ AccessSb \/ ControlPIM \/ WriteCrf \/ WriteGrf \/ WriteSrf
  \/ MoveToBank \/ MoveFromBank \/ IgnoreReserved \/ Jump \/ Exit \/ Execute

-----------------------------------------------------------------------------
(* Clients that keep to the protocol: the CRF is not written while it runs,    *)
(* and what runs ends in EXIT and never jumps to before its beginning.         *)

WellFormed(prog) ==
  \E e \in Slots :
    /\ prog[e].type = "EXIT"
    /\ \A i \in 0 .. e - 1 : prog[i].type = "JUMP" => prog[i].offset <= i + 1

Disciplined(p) ==
  /\ IsCrfWrite(p) => mode # "HAB_PIM"
  /\ IsControl(p) /\ p.data.op => WellFormed(crf)

Receive == now' \in Packets /\ Arrive(now') /\ Disciplined(now')

RankNext == Receive \/ Handle

RankSpec == RankInit /\ [][RankNext]_rankVars

-----------------------------------------------------------------------------
TypeOK ==
  /\ mode \in {"SB", "HAB", "HAB_PIM"}
  /\ crf \in [Slots -> Commands]
  /\ sq \in [pc : Slots, lastJump : Slots \cup {-1}, jumps : Nat \cup {-1},
             lastRepeat : Slots \cup {-1}, repeats : Nat \cup {-1}, exit : BOOLEAN]
  /\ ctl \in [opMode : BOOLEAN, even : BOOLEAN, odd : BOOLEAN, ra13 : BOOLEAN]
  /\ now \in Packets \cup {NoAccess}
  /\ error \in {"none", "crf", "bank"}

\* A repeat counter that is in use belongs to the command pimPC_ is at: no command
\* is met with a count left behind by another pass over it.
RepeatBelongs == mode = "HAB_PIM" => sq.lastRepeat \in {-1, sq.pc}

\* While a program runs the sequencer stays on it: pimPC_ never passes the first EXIT
\* and no command is fetched from outside the CRF, whatever loops the program has
\* and whatever accesses come.
SequencerInside ==
  /\ error # "crf"
  /\ mode = "HAB_PIM" => \A i \in 0 .. sq.pc - 1 : crf[i].type # "EXIT"
=============================================================================
