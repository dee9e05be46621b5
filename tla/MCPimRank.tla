----------------------------- MODULE MCPimRank -----------------------------
(***************************************************************************)
(* PimRank's sequencer without data: a CRF of eight commands, four         *)
(* programs, and a client that sends any access at any time.               *)
(***************************************************************************)
EXTENDS PimRank

\* Every value is 0.
Both(a, b) == 0
AllThree(a, b, c) == 0
Only(a) == 0

Program(s) == [i \in 0 .. 7 |-> IF i + 1 \in DOMAIN s THEN s[i + 1] ELSE Nop]

Programs == {
  Program(<<[Op("FILL", "GRF_A", "EVEN_BANK", "A_OUT", FALSE) EXCEPT !.relu = TRUE],
            Op("ADD", "GRF_A", "GRF_A", "EVEN_BANK", TRUE), Wait(1), Loop(2, 4), End>>),
  \* two nested loops, whose one counter never lets the outer loop end
  Program(<<Op("MAC", "GRF_B", "GRF_A", "ODD_BANK", TRUE), Loop(1, 2), Wait(0), Loop(1, 4), End>>),
  Program(<<Op("MAD", "A_OUT", "SRF_M", "GRF_A", FALSE), Op("MUL", "M_OUT", "A_OUT", "SRF_A", FALSE),
            Op("MOV", "SRF_M", "M_OUT", "A_OUT", FALSE), Op("MOV", "EVEN_BANK", "A_OUT", "A_OUT", FALSE),
            Op("MOV", "ODD_BANK", "M_OUT", "A_OUT", FALSE), End>>),
  Program(<<End>>),
  \* no EXIT, a jump to before the beginning: may be loaded, may not be started
  Program(<<Wait(2)>>),
  Program(<<Wait(0), Loop(1, 4), End>>) }

Access(op, bank, row, col, data) ==
  [op |-> op, bank |-> bank, row |-> row, col |-> col, data |-> data]
Control(op, zero, cond) == [op |-> op, zeroA |-> zero, zeroB |-> zero, cond |-> cond]

ClientPackets ==
  {Access("HAB", 0, 10239, 31, 0), Access("SB", 0, 12287, 31, 0)}
  \cup {Access("WRITE", 0, RegRow, 0, Control(op, FALSE, 0)) : op \in BOOLEAN}
  \cup {Access("WRITE", 0, RegRow, 0, Control(TRUE, TRUE, cond)) : cond \in {1, 6}}
  \cup {Access("WRITE", 1, RegRow, 4, p) : p \in Programs}
  \cup {Access("WRITE", 0, RegRow, col, 0) : col \in {1, 8, 24}}
  \cup {Access(op, bank, 0, 0, 0) : op \in {"READ", "WRITE"}, bank \in {0, 1}}
  \cup {Access("READ", 1, 8192, 0, 0)}
=============================================================================
