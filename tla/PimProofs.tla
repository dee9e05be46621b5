------------------------------- MODULE PimProofs -------------------------------
(***************************************************************************)
(* Proofs about PimRank, for every CRF size, number of blocks, arithmetic  *)
(* and set of accesses, and about PimKernel, for every shape of the        *)
(* kernels' data that fits the banks.                                      *)
(*                                                                         *)
(* The rank's invariant adds to the checked properties that a repeat in    *)
(* use is of the command at pimPC_, that what runs is well formed, and     *)
(* that the access being executed kept to the protocol when it came; a     *)
(* JUMP leaves that access in place, so its promise must survive the steps *)
(* of a loop.  The kernels' invariant follows the stages of a script and   *)
(* how much of the program is in the CRF.                                  *)
(*                                                                         *)
(* Kernel and sequencer are compared along a schedule: a state of the rank *)
(* for each number of accesses handled, which exists for every script      *)
(* (Takes), and from which no order of arrival leads away.                 *)
(***************************************************************************)
EXTENDS PimKernel, QueueLemmas, TLAPS

RepeatInUse ==
  mode = "HAB_PIM" =>
    \/ sq.lastRepeat = -1
    \/ /\ sq.lastRepeat = sq.pc /\ Repeating(crf[sq.pc])
       /\ crf[sq.pc].type \notin {"JUMP", "EXIT"}

Sound == mode = "HAB_PIM" => WellFormed(crf)

Promised == now # NoAccess => Disciplined(now)

IInv == TypeOK /\ SequencerInside /\ RepeatInUse /\ Sound /\ Promised

-----------------------------------------------------------------------------
LEMMA Constants ==
  /\ NumBlocks \in Nat \ {0} /\ CrfSize \in Nat \ {0}
  /\ \A p \in Packets :
       /\ p.op \in {"READ", "WRITE", "HAB", "SB"}
       /\ p.bank \in {0, 1} /\ p.row \in Nat /\ p.col \in Nat
       /\ IsCrfWrite(p) => p.data \in [0 .. 7 -> Commands]
       /\ IsControl(p) => p.data \in [op : BOOLEAN, zeroA : BOOLEAN, zeroB : BOOLEAN, cond : 0 .. 7]
BY PimRankAssumption

LEMMA NopIsCommand == Nop \in Commands
<1>1. CountLimit \in Nat \ {0} /\ ShortLimit \in Nat \ {0}
  BY DEF CountLimit, ShortLimit
<1>2. QED
  BY <1>1 DEF Nop, Commands, Operands, Arithmetic, Moves

LEMMA Fields ==
  ASSUME NEW c \in Commands
  PROVE  c.count \in Nat /\ c.offset \in Nat
<1>1. CountLimit \in Nat /\ ShortLimit \in Nat
  BY DEF CountLimit, ShortLimit
<1>2. QED
  BY <1>1 DEF Commands

\* A packet is not NoAccess.
LEMMA BusyPacket == ASSUME TypeOK, Busy PROVE now \in Packets
BY DEF TypeOK, Busy

-----------------------------------------------------------------------------
(* One pass of doPIM's loop body. *)

SqType == [pc : Int, lastJump : Slots \cup {-1}, jumps : Nat \cup {-1},
           lastRepeat : Slots \cup {-1}, repeats : Nat \cup {-1}, exit : BOOLEAN]

\* A jump goes at most one command forward, and back by what its offset says.
LEMMA JumpStep ==
  ASSUME TypeOK, NEW c \in Commands
  PROVE  /\ AfterJump(c) \in SqType
         /\ AfterJump(c).pc \in {sq.pc + 1, sq.pc - c.offset + 1}
         /\ AfterJump(c).lastRepeat = sq.lastRepeat
<1> DEFINE load == sq.lastJump # sq.pc /\ c.count > 0
           again == IF load THEN c.count ELSE sq.jumps
           go == IF again > 0 THEN sq.pc - c.offset + 1 ELSE sq.pc + 1
<1>1. /\ sq \in [pc : Slots, lastJump : Slots \cup {-1}, jumps : Nat \cup {-1},
                 lastRepeat : Slots \cup {-1}, repeats : Nat \cup {-1}, exit : BOOLEAN]
      /\ c.count \in Nat /\ c.offset \in Nat /\ CrfSize \in Nat
  BY Fields, Constants DEF TypeOK
<1>2. AfterJump(c) = [sq EXCEPT !.lastJump = IF load THEN sq.pc ELSE sq.lastJump,
                                !.jumps = IF again > 0 THEN again - 1 ELSE again,
                                !.pc = go]
  BY <1>1 DEF AfterJump
<1>3. /\ again \in Nat \cup {-1} /\ (IF again > 0 THEN again - 1 ELSE again) \in Nat \cup {-1}
      /\ go \in Int /\ go \in {sq.pc + 1, sq.pc - c.offset + 1}
  BY <1>1 DEF Slots
<1> HIDE DEF again, load, go
<1>4. QED
  BY <1>1, <1>2, <1>3 DEF SqType

\* Any other command leaves pimPC_ or moves it on by one, and a repeat counter stays
\* in use only where pimPC_ stays.
LEMMA RepeatStep ==
  ASSUME TypeOK, NEW c \in Commands, sq.lastRepeat = -1 \/ (sq.lastRepeat = sq.pc /\ Repeating(c))
  PROVE  /\ AfterRepeat(c) \in SqType
         /\ AfterRepeat(c).pc \in {sq.pc, sq.pc + 1}
         /\ \/ AfterRepeat(c).lastRepeat = -1
            \/ AfterRepeat(c).lastRepeat = sq.pc /\ AfterRepeat(c).pc = sq.pc /\ Repeating(c)
<1> DEFINE again == IF sq.lastRepeat # sq.pc THEN Repeats(c) ELSE sq.repeats
<1>1. /\ sq \in [pc : Slots, lastJump : Slots \cup {-1}, jumps : Nat \cup {-1},
                 lastRepeat : Slots \cup {-1}, repeats : Nat \cup {-1}, exit : BOOLEAN]
      /\ c.count \in Nat /\ CrfSize \in Nat /\ NumBlocks - 1 \in Nat
  BY Fields, Constants DEF TypeOK
<1>2. again \in Nat \cup {-1}
  BY <1>1 DEF Repeats
<1>3. AfterRepeat(c) =
        IF ~Repeating(c) THEN [sq EXCEPT !.pc = sq.pc + 1]
        ELSE IF again > 0 THEN [sq EXCEPT !.lastRepeat = sq.pc, !.repeats = again - 1]
        ELSE [sq EXCEPT !.lastRepeat = -1, !.repeats = again, !.pc = sq.pc + 1]
  BY <1>1 DEF AfterRepeat
<1> HIDE DEF again
<1>4. CASE ~Repeating(c)
  <2>1. AfterRepeat(c) = [sq EXCEPT !.pc = sq.pc + 1] /\ sq.lastRepeat = -1
    BY <1>3, <1>4
  <2>2. QED
    BY <1>1, <2>1 DEF SqType, Slots
<1>5. CASE Repeating(c) /\ again > 0
  <2>1. AfterRepeat(c) = [sq EXCEPT !.lastRepeat = sq.pc, !.repeats = again - 1]
    BY <1>3, <1>5
  <2>2. again - 1 \in Nat
    BY <1>2, <1>5
  <2>3. AfterRepeat(c).pc = sq.pc /\ AfterRepeat(c).lastRepeat = sq.pc
    BY <1>1, <2>1
  <2>4. AfterRepeat(c) \in SqType
    <3>1. sq.pc \in Int /\ sq.pc \in Slots \cup {-1} /\ again - 1 \in Nat \cup {-1}
      BY <1>1, <2>2 DEF Slots
    <3>2. QED
      BY <1>1, <2>1, <3>1 DEF SqType
  <2>5. QED
    BY <1>5, <2>3, <2>4
<1>6. CASE Repeating(c) /\ ~(again > 0)
  <2>1. AfterRepeat(c) = [sq EXCEPT !.lastRepeat = -1, !.repeats = again, !.pc = sq.pc + 1]
    BY <1>3, <1>6
  <2>2. AfterRepeat(c).pc = sq.pc + 1 /\ AfterRepeat(c).lastRepeat = -1
    BY <1>1, <2>1
  <2>3. AfterRepeat(c) \in SqType
    <3>1. sq.pc + 1 \in Int /\ -1 \in Slots \cup {-1}
      BY <1>1 DEF Slots
    <3>2. QED
      BY <1>1, <1>2, <2>1, <3>1 DEF SqType
  <2>4. QED
    BY <2>2, <2>3
<1>7. QED
  BY <1>4, <1>5, <1>6

LEMMA LookAheadStep ==
  ASSUME NEW s \in SqType
  PROVE  /\ LookAhead(s) \in SqType
         /\ LookAhead(s).pc = s.pc /\ LookAhead(s).lastRepeat = s.lastRepeat
BY DEF LookAhead, SqType

\* While a command other than EXIT is at pimPC_ the first EXIT is still ahead, so
\* the next command is one of the CRF's, and a jump stays in it.
LEMMA Ahead ==
  ASSUME TypeOK, SequencerInside, Sound, mode = "HAB_PIM", crf[sq.pc].type # "EXIT"
  PROVE  /\ sq.pc + 1 \in Slots
         /\ \A i \in 0 .. sq.pc : crf[i].type # "EXIT"
         /\ crf[sq.pc].type = "JUMP" => crf[sq.pc].offset <= sq.pc + 1
<1>1. PICK e \in Slots :
        /\ crf[e].type = "EXIT"
        /\ \A i \in 0 .. e - 1 : crf[i].type = "JUMP" => crf[i].offset <= i + 1
  BY DEF Sound, WellFormed
<1>2. sq.pc \in Slots /\ CrfSize \in Nat
  BY Constants DEF TypeOK
<1>3. \A i \in 0 .. sq.pc - 1 : crf[i].type # "EXIT"
  BY DEF SequencerInside
<1>4. sq.pc < e
  <2>1. ~(e < sq.pc)
    BY <1>1, <1>2, <1>3 DEF Slots
  <2>2. e # sq.pc
    BY <1>1
  <2>3. QED
    BY <1>2, <2>1, <2>2 DEF Slots
<1>5. sq.pc + 1 \in Slots /\ sq.pc \in 0 .. e - 1
  BY <1>2, <1>4 DEF Slots
<1>6. \A i \in 0 .. sq.pc : crf[i].type # "EXIT"
  BY <1>2, <1>3 DEF Slots
<1>7. QED
  BY <1>1, <1>5, <1>6

-----------------------------------------------------------------------------
(* The invariant. *)

LEMMA InitIInv == RankInit => IInv
<1> SUFFICES ASSUME RankInit PROVE IInv
  OBVIOUS
<1>1. 0 \in Slots
  BY Constants DEF Slots
<1>2. TypeOK
  <2>1. crf \in [Slots -> Commands]
    BY NopIsCommand DEF RankInit
  <2>2. QED
    BY <1>1, <2>1 DEF RankInit, TypeOK
<1>3. QED
  BY <1>2 DEF IInv, RankInit, SequencerInside, RepeatInUse, Sound, Promised

\* An access that reaches neither CRF nor sequencer keeps the invariant.
LEMMA Aside ==
  ASSUME IInv, now' = NoAccess, UNCHANGED <<crf, sq, ctl, error>>,
         mode' \in {"SB", "HAB", "HAB_PIM"}, mode' = "HAB_PIM" => mode = "HAB_PIM"
  PROVE  IInv'
BY DEF IInv, TypeOK, SequencerInside, RepeatInUse, Sound, WellFormed, Promised

LEMMA ReceiveIInv == IInv /\ Receive => IInv'
<1> SUFFICES ASSUME IInv, Receive PROVE IInv'
  OBVIOUS
<1>1. /\ now' \in Packets /\ Disciplined(now')
      /\ UNCHANGED <<mode, crf, sq, ctl, error>>
  BY DEF Receive, Arrive
<1>2. (TypeOK /\ SequencerInside /\ RepeatInUse /\ Sound)'
  BY <1>1 DEF IInv, TypeOK, SequencerInside, RepeatInUse, Sound, WellFormed
<1>3. Promised'
  BY <1>1 DEF Promised, Disciplined, WellFormed
<1>4. QED
  BY <1>2, <1>3 DEF IInv

LEMMA ControlIInv == IInv /\ ControlPIM => IInv'
<1> SUFFICES ASSUME IInv, ControlPIM PROVE IInv'
  OBVIOUS
<1>1. now \in Packets /\ now # NoAccess /\ now.data.op \in BOOLEAN /\ now.data.cond \in 0 .. 7
  BY BusyPacket, Constants DEF IInv, ControlPIM, InHab, Busy
<1>2. ctl' \in [opMode : BOOLEAN, even : BOOLEAN, odd : BOOLEAN, ra13 : BOOLEAN]
  BY <1>1 DEF ControlPIM
<1>3. crf' = crf /\ error' = error /\ now' = NoAccess
  BY DEF ControlPIM
<1>4. CASE now.data.op
  <2>1. mode' = "HAB_PIM" /\ sq' = Restarted
    BY <1>4 DEF ControlPIM
  <2>2. WellFormed(crf)
    BY <1>1, <1>4 DEF IInv, Promised, Disciplined, ControlPIM
  <2>3. 0 \in Slots
    BY Constants DEF Slots
  <2>4. QED
    BY <1>2, <1>3, <2>1, <2>2, <2>3
    DEF IInv, TypeOK, SequencerInside, RepeatInUse, Sound, WellFormed, Promised, Restarted
<1>5. CASE ~now.data.op
  <2>1. mode' = "HAB" /\ sq' = sq
    BY <1>5 DEF ControlPIM
  <2>2. QED
    BY <1>2, <1>3, <2>1 DEF IInv, TypeOK, SequencerInside, RepeatInUse, Sound, Promised
<1>6. QED
  BY <1>1, <1>4, <1>5

\* The CRF changes only while nothing runs.
LEMMA CrfIInv == IInv /\ WriteCrf => IInv'
<1> SUFFICES ASSUME IInv, WriteCrf PROVE IInv'
  OBVIOUS
<1>1. now \in Packets /\ now # NoAccess /\ IsCrfWrite(now)
  BY BusyPacket DEF IInv, WriteCrf, InHab, Busy
<1>2. mode # "HAB_PIM"
  BY <1>1 DEF IInv, Promised, Disciplined
<1>3. crf' \in [Slots -> Commands]
  <2>1. now.data \in [0 .. 7 -> Commands] /\ crf \in [Slots -> Commands]
    BY <1>1, Constants DEF IInv, TypeOK
  <2>2. \A i \in Slots : i % 8 \in 0 .. 7
    BY Constants DEF Slots
  <2>3. QED
    BY <2>1, <2>2 DEF WriteCrf
<1>4. now' = NoAccess /\ UNCHANGED <<mode, sq, ctl, error>>
  BY DEF WriteCrf
<1>5. QED
  BY <1>2, <1>3, <1>4 DEF IInv, TypeOK, SequencerInside, RepeatInUse, Sound, Promised

\* What a step of the sequencer has to show of the state it leaves.
LEMMA SequencerMoved ==
  ASSUME IInv, mode = "HAB_PIM", UNCHANGED <<mode, crf, ctl>>, now' \in {now, NoAccess},
         sq' \in SqType, sq'.pc \in Slots, error' \in {"none", "bank"},
         \A i \in 0 .. sq'.pc - 1 : crf[i].type # "EXIT",
         \/ sq'.lastRepeat = -1
         \/ sq'.lastRepeat = sq'.pc /\ Repeating(crf[sq'.pc]) /\ crf[sq'.pc].type \notin {"JUMP", "EXIT"}
  PROVE  IInv'
<1>1. sq' \in [pc : Slots, lastJump : Slots \cup {-1}, jumps : Nat \cup {-1},
                lastRepeat : Slots \cup {-1}, repeats : Nat \cup {-1}, exit : BOOLEAN]
  BY DEF SqType
<1>2. TypeOK'
  BY <1>1 DEF IInv, TypeOK
<1>3. SequencerInside' /\ RepeatInUse'
  BY DEF SequencerInside, RepeatInUse, Repeating
<1>4. (Sound /\ Promised)'
  BY DEF IInv, Sound, Promised, Disciplined, WellFormed
<1>5. QED
  BY <1>2, <1>3, <1>4 DEF IInv

LEMMA JumpIInv == IInv /\ Jump => IInv'
<1> SUFFICES ASSUME IInv, Jump PROVE IInv'
  OBVIOUS
<1> DEFINE c == crf[sq.pc]
           s == AfterJump(c)
<1>1. /\ mode = "HAB_PIM" /\ error = "none" /\ c.type = "JUMP" /\ UNCHANGED <<mode, crf, ctl>>
      /\ now' \in {now, NoAccess} /\ sq' = LookAhead(s) /\ error' = Outcome(sq')
  BY DEF Jump, InPIM, Busy
<1>2. /\ TypeOK /\ SequencerInside /\ RepeatInUse /\ Sound
      /\ sq.pc \in Slots /\ c \in Commands /\ CrfSize \in Nat
  BY Constants DEF IInv, TypeOK
<1>3. /\ sq.pc + 1 \in Slots /\ c.offset \in Nat /\ c.offset <= sq.pc + 1
      /\ \A i \in 0 .. sq.pc : crf[i].type # "EXIT"
  BY <1>1, <1>2, Ahead, Fields
<1>4. s \in SqType /\ s.pc \in {sq.pc + 1, sq.pc - c.offset + 1} /\ s.lastRepeat = sq.lastRepeat
  BY <1>2, JumpStep
<1>5. sq' \in SqType /\ sq'.pc = s.pc /\ sq'.lastRepeat = s.lastRepeat
  BY <1>1, <1>4, LookAheadStep
<1> HIDE DEF c, s
<1>6. sq'.pc \in 0 .. sq.pc + 1 /\ sq'.pc \in Slots
  BY <1>2, <1>3, <1>4, <1>5 DEF Slots
<1>7. \A i \in 0 .. sq'.pc - 1 : crf[i].type # "EXIT"
  BY <1>2, <1>3, <1>6 DEF Slots
<1>8. error' = "none"
  BY <1>1, <1>6 DEF Outcome
<1>9. sq'.lastRepeat = -1
  BY <1>1, <1>2, <1>4, <1>5 DEF RepeatInUse, c
<1>10. QED
  BY <1>1, <1>5, <1>6, <1>7, <1>8, <1>9, SequencerMoved

LEMMA ExitIInv == IInv /\ Exit => IInv'
<1> SUFFICES ASSUME IInv, Exit PROVE IInv'
  OBVIOUS
<1>1. /\ mode = "HAB_PIM" /\ error' = "none" /\ UNCHANGED <<mode, crf, ctl>> /\ now' = NoAccess
      /\ sq' = [sq EXCEPT !.exit = TRUE]
  BY DEF Exit, InPIM, Busy
<1>2. sq \in [pc : Slots, lastJump : Slots \cup {-1}, jumps : Nat \cup {-1},
               lastRepeat : Slots \cup {-1}, repeats : Nat \cup {-1}, exit : BOOLEAN]
  BY DEF IInv, TypeOK
<1>3. sq'.pc = sq.pc /\ sq'.lastRepeat = sq.lastRepeat
  BY <1>1, <1>2
<1>4. sq' \in SqType
  <2>1. sq.pc \in Int
    BY <1>2, Constants DEF Slots
  <2>2. QED
    BY <1>1, <1>2, <2>1 DEF SqType
<1>5. \A i \in 0 .. sq'.pc - 1 : crf[i].type # "EXIT"
  BY <1>1, <1>3 DEF IInv, SequencerInside
<1>6. QED
  BY <1>1, <1>2, <1>3, <1>4, <1>5, SequencerMoved DEF IInv, RepeatInUse

LEMMA ExecuteIInv == IInv /\ Execute => IInv'
<1> SUFFICES ASSUME IInv, Execute PROVE IInv'
  OBVIOUS
<1> DEFINE c == crf[sq.pc]
           s == AfterRepeat(c)
<1>1. /\ mode = "HAB_PIM" /\ error = "none" /\ c.type \notin {"JUMP", "EXIT"}
      /\ UNCHANGED <<mode, crf, ctl>> /\ now' = NoAccess /\ sq' = LookAhead(s)
      /\ error' \in {"bank", Outcome(sq')}
  BY DEF Execute, InPIM, Busy
<1>2. /\ TypeOK /\ SequencerInside /\ RepeatInUse /\ Sound
      /\ sq.pc \in Slots /\ c \in Commands /\ CrfSize \in Nat
  BY Constants DEF IInv, TypeOK
<1>3. sq.pc + 1 \in Slots /\ \A i \in 0 .. sq.pc : crf[i].type # "EXIT"
  BY <1>1, <1>2, Ahead
<1>4. sq.lastRepeat = -1 \/ (sq.lastRepeat = sq.pc /\ Repeating(c))
  BY <1>1, <1>2 DEF RepeatInUse
<1>5. /\ s \in SqType /\ s.pc \in {sq.pc, sq.pc + 1}
      /\ s.lastRepeat = -1 \/ (s.lastRepeat = sq.pc /\ s.pc = sq.pc /\ Repeating(c))
  BY <1>2, <1>4, RepeatStep
<1>6. sq' \in SqType /\ sq'.pc = s.pc /\ sq'.lastRepeat = s.lastRepeat
  BY <1>1, <1>5, LookAheadStep
<1> HIDE DEF s
<1>7. sq'.pc \in 0 .. sq.pc + 1 /\ sq'.pc \in Slots
  BY <1>2, <1>3, <1>5, <1>6 DEF Slots
<1>8. \A i \in 0 .. sq'.pc - 1 : crf[i].type # "EXIT"
  BY <1>2, <1>3, <1>7 DEF Slots
<1>9. error' \in {"none", "bank"}
  BY <1>1, <1>7 DEF Outcome
<1>10. QED
  BY <1>1, <1>5, <1>6, <1>7, <1>8, <1>9, SequencerMoved

LEMMA StepIInv == IInv /\ [RankNext]_rankVars => IInv'
<1> SUFFICES ASSUME IInv, [RankNext]_rankVars PROVE IInv'
  OBVIOUS
<1>1. CASE Receive
  BY <1>1, ReceiveIInv
<1>2. CASE SwitchHab
  <2>1. mode' \in {"SB", "HAB", "HAB_PIM"} /\ (mode' = "HAB_PIM" => mode = "HAB_PIM")
    BY <1>2 DEF SwitchHab, IInv, TypeOK
  <2>2. QED
    BY <1>2, <2>1, Aside DEF SwitchHab
<1>3. CASE AccessSb
  BY <1>3, Aside DEF AccessSb, IInv, TypeOK
<1>4. CASE ControlPIM
  BY <1>4, ControlIInv
<1>5. CASE WriteCrf
  BY <1>5, CrfIInv
<1>6. CASE WriteGrf
  BY <1>6, Aside DEF WriteGrf, IInv, TypeOK
<1>7. CASE WriteSrf
  BY <1>7, Aside DEF WriteSrf, IInv, TypeOK
<1>8. CASE MoveToBank
  BY <1>8, Aside DEF MoveToBank, IInv, TypeOK
<1>9. CASE MoveFromBank
  BY <1>9, Aside DEF MoveFromBank, IInv, TypeOK
<1>10. CASE IgnoreReserved
  BY <1>10, Aside DEF IgnoreReserved, IInv, TypeOK
<1>11. CASE Jump
  BY <1>11, JumpIInv
<1>12. CASE Exit
  BY <1>12, ExitIInv
<1>13. CASE Execute
  BY <1>13, ExecuteIInv
<1>14. CASE UNCHANGED rankVars
  BY <1>14 DEF rankVars, IInv, TypeOK, SequencerInside, RepeatInUse, Sound, Promised,
               Disciplined, WellFormed
<1>15. QED
  BY <1>1, <1>2, <1>3, <1>4, <1>5, <1>6, <1>7, <1>8, <1>9, <1>10, <1>11, <1>12, <1>13, <1>14
  DEF RankNext, Handle

LEMMA Invariant == RankSpec => []IInv
BY InitIInv, StepIInv, PTL DEF RankSpec

-----------------------------------------------------------------------------
\* Mode, registers of the sequencer, CRF and error keep their types.
THEOREM RankTypes == RankSpec => []TypeOK
<1>1. IInv => TypeOK
  BY DEF IInv
<1>2. QED
  BY <1>1, Invariant, PTL

\* For every CRF size and every set of accesses of clients that keep to the protocol
\* the sequencer stays on its program: it never passes the first EXIT and doPIM never
\* reads a command from outside the CRF.
THEOREM StaysInside == RankSpec => []SequencerInside
<1>1. IInv => SequencerInside
  BY DEF IInv
<1>2. QED
  BY <1>1, Invariant, PTL

\* doPIM never meets a command with a repeat count left over from another one.
THEOREM NoStaleRepeat == RankSpec => []RepeatBelongs
<1>1. IInv => RepeatBelongs
  BY DEF IInv, RepeatInUse, RepeatBelongs
<1>2. QED
  BY <1>1, Invariant, PTL

-----------------------------------------------------------------------------
(* The kernels: what their accesses are made of. *)

\* What the accesses of a kernel carry.
Bursts == {Zero} \cup {Content(c) : c \in {2} \X Nat \X Nat}
Controls == [op : BOOLEAN, zeroA : BOOLEAN, zeroB : BOOLEAN, cond : {0, 2}]
Accesses == [op : {"READ", "WRITE"}, bank : {0, 1}, row : Nat, col : 0 .. 31,
             data : Bursts \cup Controls, meant : Int]

\* An access of job j that is none to the CRF, sets the control register to one of its
\* values only, and writes data below the register rows and not over an operand.
Harmless(j, p) ==
  /\ ~IsCrfWrite(p)
  /\ IsControl(p) => p.data \in Controls
  /\ p.op = "WRITE" /\ ~ToRegisters(p)
       => p.row < 8192 /\ <<p.bank, p.row, p.col>> \notin OperandsOf(j)

Work(j) == {p \in Accesses : Harmless(j, p)}
Plain(j) == {p \in Work(j) : ~ToRegisters(p)}

-----------------------------------------------------------------------------
(* Cells. *)

LEMMA Carry ==
  ASSUME NEW n \in Nat
  PROVE  /\ n \div NumCols \in Nat /\ n % NumCols \in 0 .. 31
         /\ n = NumCols * (n \div NumCols) + (n % NumCols)
  BY DEF NumCols

\* Where a cell lies among the bursts of its bank.
LEMMA CellPosition ==
  ASSUME NEW s \in {0, 1}, NEW r \in Nat, NEW c \in Nat,
         NEW t \in {0, 1}, NEW q \in Nat, NEW d \in Nat, CellOf(s, r, c) = CellOf(t, q, d)
  PROVE  s = t /\ NumCols * r + c = NumCols * q + d
<1>1. s = t /\ r + (c \div NumCols) = q + (d \div NumCols) /\ c % NumCols = d % NumCols
  BY DEF CellOf
<1>2. /\ c \div NumCols \in Nat /\ c % NumCols \in Nat /\ c = NumCols * (c \div NumCols) + (c % NumCols)
      /\ d \div NumCols \in Nat /\ d % NumCols \in Nat /\ d = NumCols * (d \div NumCols) + (d % NumCols)
  BY Carry
<1> QED BY ONLY <1>1, <1>2, r \in Nat, q \in Nat, SMT DEF NumCols

\* An access to ordinary rows: a write keeps off the operands.
LEMMA AccessIn ==
  ASSUME NEW j, NEW op \in {"READ", "WRITE"}, NEW bank \in {0, 1}, NEW row \in Nat, NEW col \in Nat,
         NEW data \in Bursts, NEW meant \in Int,
         op = "WRITE" => row + (col \div NumCols) < 8192 /\ CellOf(bank, row, col) \notin OperandsOf(j)
  PROVE  Access(op, bank, row, col, data, meant) \in Plain(j)
<1> DEFINE p == Access(op, bank, row, col, data, meant)
<1>1. /\ p.op = op /\ p.bank = bank /\ p.row = row + (col \div NumCols) /\ p.col = col % NumCols
      /\ p.data = data /\ p.meant = meant
  BY DEF Access
<1>2. p \in Accesses
  BY Carry DEF Access, Accesses
<1>3. ~ToRegisters(p)
  BY <1>1, Carry DEF ToRegisters, RegRow
<1>4. op = "WRITE" => p.row < 8192 /\ <<p.bank, p.row, p.col>> \notin OperandsOf(j)
  BY <1>1 DEF CellOf
<1> HIDE DEF p
<1>5. Harmless(j, p)
  BY <1>1, <1>3, <1>4 DEF Harmless, IsCrfWrite, IsControl
<1> QED BY <1>2, <1>3, <1>5 DEF Plain, Work, p

\* A write to a register that is not the CRF.
LEMMA RegisterIn ==
  ASSUME NEW j, NEW bank \in {0, 1}, NEW col \in 0 .. 31, NEW data \in Bursts \cup Controls,
         col \notin 4 .. 7, col = 0 => data \in Controls
  PROVE  Register(bank, col, data) \in Work(j)
<1> DEFINE p == Register(bank, col, data)
<1>1. col \div NumCols = 0 /\ col % NumCols = col
  BY DEF NumCols
<1>2. /\ p.op = "WRITE" /\ p.bank = bank /\ p.row = RegRow /\ p.col = col /\ p.data = data /\ p.meant = -1
      /\ p = [op |-> "WRITE", bank |-> bank, row |-> RegRow, col |-> col, data |-> data, meant |-> -1]
  BY <1>1 DEF Register, Access, NoCommand, RegRow
<1>3. p \in Accesses
  BY <1>2 DEF Accesses, RegRow
<1> HIDE DEF p
<1>4. Harmless(j, p)
  BY <1>2 DEF Harmless, IsCrfWrite, IsControl, ToRegisters
<1> QED BY <1>3, <1>4 DEF Work, p

\* Where n writes from a column on may go.
Clear(j, bank, row, col, n) ==
  \A i \in 0 .. n - 1 :
    row + ((col + i) \div NumCols) < 8192 /\ CellOf(bank, row, col + i) \notin OperandsOf(j)

\* addTransactionAll: one group.
LEMMA AllIn ==
  ASSUME NEW j, NEW op \in {"READ", "WRITE"}, NEW bank \in {0, 1}, NEW row \in Nat, NEW col \in Nat,
         NEW n \in Nat, NEW meant \in Int,
         op = "WRITE" => Clear(j, bank, row, col, n)
  PROVE  /\ All(op, bank, row, col, n, meant) \in Seq(SUBSET Plain(j))
         /\ Len(All(op, bank, row, col, n, meant)) = 1
<1>1. Zero \in Bursts
  BY DEF Bursts
<1>2. ASSUME NEW i \in 0 .. n - 1
      PROVE  Access(op, bank, row, col + i, Zero, meant) \in Plain(j)
  <2>1. col + i \in Nat
    OBVIOUS
  <2>2. op = "WRITE" => row + ((col + i) \div NumCols) < 8192 /\ CellOf(bank, row, col + i) \notin OperandsOf(j)
    BY DEF Clear
  <2> QED BY ONLY <1>1, <2>1, <2>2, op \in {"READ", "WRITE"}, bank \in {0, 1}, row \in Nat, meant \in Int, AccessIn
<1> DEFINE group == {Access(op, bank, row, col + i, Zero, meant) : i \in 0 .. n - 1}
<1>3. group \in SUBSET Plain(j)
  BY <1>2
<1>4. All(op, bank, row, col, n, meant) = <<group>>
  BY DEF All
<1> HIDE DEF group
<1> QED BY <1>3, <1>4

LEMMA SwitchIn ==
  ASSUME NEW j, NEW op \in BOOLEAN, NEW zeroB \in BOOLEAN, NEW cond \in {0, 2}
  PROVE  /\ Switch(Control(op, zeroB, cond)) \in Seq(SUBSET Work(j))
         /\ Len(Switch(Control(op, zeroB, cond))) = 1
<1>1. Control(op, zeroB, cond) \in Controls
  BY DEF Control, Controls
<1>2. Register(0, 0, Control(op, zeroB, cond)) \in Work(j)
  BY <1>1, RegisterIn
<1> QED BY <1>2 DEF Switch

LEMMA ContentIn == \A b, n \in Nat : Content(<<2, b, n>>) \in Bursts
<1> SUFFICES ASSUME NEW b \in Nat, NEW n \in Nat PROVE Content(<<2, b, n>>) \in Bursts
  OBVIOUS
<1>1. <<2, b, n>> \in {2} \X Nat \X Nat
  OBVIOUS
<1> QED BY <1>1 DEF Bursts

LEMMA PlainIsWork == ASSUME NEW j PROVE \A s \in Seq(SUBSET Plain(j)) : s \in Seq(SUBSET Work(j))
  BY DEF Plain

-----------------------------------------------------------------------------
(* Programs. *)

\* A command before toInt cuts its fields.
Written ==
  [type : Arithmetic \cup Moves \cup {"NOP", "JUMP", "EXIT"},
   dst : Operands, src0 : Operands, src1 : Operands, src2 : Operands,
   auto : BOOLEAN, relu : BOOLEAN, dstIdx : 0 .. 15, src0Idx : 0 .. 15, src1Idx : 0 .. 15,
   count : Int, offset : Nat]

\* A command that may stand at index i - 1 of a program before its EXIT.
Sober(c, i) ==
  /\ c \in Written /\ c.type # "EXIT" /\ c.dst \notin {"EVEN_BANK", "ODD_BANK"}
  /\ c.type = "JUMP" => c.offset <= i

Begun(cmds) == cmds \in Seq(Written) /\ \A i \in 1 .. Len(cmds) : Sober(cmds[i], i)

\* At most ten commands, an EXIT at the end, no jump to before the beginning and none
\* that writes to a bank.
GoodProgram(cmds) ==
  /\ cmds \in Seq(Written) /\ Len(cmds) \in 1 .. 10
  /\ cmds[Len(cmds)] = End
  /\ \A i \in 1 .. Len(cmds) - 1 : Sober(cmds[i], i)

LEMMA NopWritten ==
  /\ Nop \in Written /\ Nop.type = "NOP" /\ Nop.dst = "A_OUT"
  /\ {"NOP", "JUMP", "EXIT"} \subseteq Arithmetic \cup Moves \cup {"NOP", "JUMP", "EXIT"}
<1>1. Nop \in Written
  BY DEF Nop, Written, Arithmetic, Moves, Operands
<1>2. Nop.type = "NOP" /\ Nop.dst = "A_OUT"
  BY DEF Nop
<1> QED BY <1>1, <1>2

LEMMA WaitSober ==
  ASSUME NEW n \in Int, NEW i \in Nat PROVE Sober(Wait(n), i) /\ Wait(n).type = "NOP"
<1>1. Wait(n) = [Nop EXCEPT !.count = n]
  BY DEF Wait
<1> QED BY <1>1, NopWritten DEF Sober, Written

LEMMA LoopSober ==
  ASSUME NEW n \in Int, NEW o \in Nat, NEW i \in Nat, o <= i
  PROVE  Sober(Loop(n, o), i) /\ Loop(n, o).type = "JUMP"
<1>1. Loop(n, o) = [Nop EXCEPT !.type = "JUMP", !.count = n, !.offset = o]
  BY DEF Loop
<1> QED BY <1>1, NopWritten DEF Sober, Written

LEMMA EndWritten == End \in Written /\ End.type = "EXIT" /\ End.dst = "A_OUT"
<1>1. End = [Nop EXCEPT !.type = "EXIT"]
  BY DEF End
<1> QED BY <1>1, NopWritten DEF Written

LEMMA OpSober ==
  ASSUME NEW t \in {"ADD", "MUL", "MAC", "FILL"}, NEW d \in {"GRF_A", "GRF_B"},
         NEW x \in {"GRF_A", "GRF_B", "EVEN_BANK", "ODD_BANK"},
         NEW y \in {"GRF_A", "GRF_B", "EVEN_BANK", "ODD_BANK", "A_OUT"},
         NEW a \in BOOLEAN, NEW i \in Nat
  PROVE  Sober(Op(t, d, x, y, a), i)
<1> DEFINE c == Op(t, d, x, y, a)
<1>1. c = [Nop EXCEPT !.type = t, !.dst = d, !.src0 = x, !.src1 = y, !.auto = a]
  BY DEF Op
<1>2. /\ t \in Arithmetic \cup Moves \cup {"NOP", "JUMP", "EXIT"} /\ t # "EXIT" /\ t # "JUMP"
      /\ d \in Operands /\ x \in Operands /\ y \in Operands /\ d # "EVEN_BANK" /\ d # "ODD_BANK"
  BY DEF Arithmetic, Moves, Operands
<1>3. c \in Written /\ c.type = t /\ c.dst = d
  BY <1>1, <1>2, NopWritten DEF Written
<1> HIDE DEF c
<1> QED BY <1>2, <1>3 DEF Sober, c

LEMMA ReluSober ==
  ASSUME NEW c, NEW i \in Nat, Sober(c, i)
  PROVE  Sober([c EXCEPT !.relu = TRUE], i)
  BY DEF Sober, Written

LEMMA Longer ==
  ASSUME NEW cmds, Begun(cmds), NEW c, Sober(c, Len(cmds) + 1)
  PROVE  Begun(Append(cmds, c)) /\ Len(Append(cmds, c)) = Len(cmds) + 1
  BY DEF Begun, Sober

LEMMA Ended ==
  ASSUME NEW cmds, Begun(cmds), Len(cmds) <= 9
  PROVE  GoodProgram(cmds \o <<End>>)
<1>1. cmds \in Seq(Written) /\ End \in Written /\ Len(cmds) \in Nat
  BY EndWritten DEF Begun
<1>2. cmds \o <<End>> = Append(cmds, End)
  BY <1>1, AppendIsConcat
<1> QED BY <1>1, <1>2 DEF GoodProgram, Begun

LEMMA RepeatedGood ==
  ASSUME NEW cmds, Begun(cmds), Len(cmds) <= 8, NEW jumps \in Int
  PROVE  GoodProgram(Repeated(cmds, jumps))
<1>1. cmds \in Seq(Written) /\ Len(cmds) \in Nat
  BY DEF Begun
<1>2. CASE jumps = 0
  <2>1. cmds \o <<>> = cmds
    BY <1>1, ConcatEmptySeq
  <2> QED BY <1>1, <1>2, <2>1, Ended DEF Repeated
<1>3. CASE jumps # 0
  <2>1. Sober(Loop(jumps, Len(cmds) + 1), Len(cmds) + 1)
    BY <1>1, LoopSober
  <2>2. cmds \o <<Loop(jumps, Len(cmds) + 1)>> = Append(cmds, Loop(jumps, Len(cmds) + 1))
    BY <1>1, <2>1, AppendIsConcat DEF Sober
  <2>3. /\ Begun(Append(cmds, Loop(jumps, Len(cmds) + 1)))
        /\ Len(Append(cmds, Loop(jumps, Len(cmds) + 1))) = Len(cmds) + 1
    BY <2>1, Longer
  <2>4. Len(cmds) + 1 <= 9
    BY <1>1
  <2>5. GoodProgram(Append(cmds, Loop(jumps, Len(cmds) + 1)) \o <<End>>)
    BY <2>3, <2>4, Ended
  <2> QED BY <1>3, <2>2, <2>5 DEF Repeated
<1> QED BY <1>2, <1>3

LEMMA EltwiseBegun ==
  ASSUME NEW type \in {"ADD", "MUL"} PROVE Begun(EltwiseCmds(type)) /\ Len(EltwiseCmds(type)) = 6
<1> DEFINE a == Op("FILL", "GRF_A", "EVEN_BANK", "A_OUT", FALSE)
           b == Op(type, "GRF_A", "GRF_A", "EVEN_BANK", TRUE)
           c == Op("FILL", "GRF_B", "ODD_BANK", "A_OUT", FALSE)
           d == Op(type, "GRF_B", "GRF_B", "ODD_BANK", TRUE)
<1>1. EltwiseCmds(type) = <<a, b, Wait(7), c, d, Wait(7)>>
  BY DEF EltwiseCmds
<1>2. ASSUME NEW i \in Nat
      PROVE  Sober(a, i) /\ Sober(b, i) /\ Sober(c, i) /\ Sober(d, i) /\ Sober(Wait(7), i)
  <2>1. Sober(a, i)
    BY OpSober
  <2>2. Sober(b, i)
    BY OpSober
  <2>3. Sober(c, i)
    BY OpSober
  <2>4. Sober(d, i)
    BY OpSober
  <2>5. Sober(Wait(7), i)
    BY WaitSober
  <2> QED BY <2>1, <2>2, <2>3, <2>4, <2>5
<1> HIDE DEF a, b, c, d
<1> QED BY <1>1, <1>2 DEF Begun, Sober

LEMMA ReluBegun == Begun(ReluCmds) /\ Len(ReluCmds) = 4
<1> DEFINE f == Op("FILL", "GRF_A", "EVEN_BANK", "A_OUT", TRUE)
           g == Op("FILL", "GRF_B", "ODD_BANK", "A_OUT", TRUE)
           a == [f EXCEPT !.relu = TRUE]
           b == [g EXCEPT !.relu = TRUE]
<1>1. ReluCmds = <<a, Wait(7), b, Wait(7)>>
  BY DEF ReluCmds
<1>2. ASSUME NEW i \in Nat
      PROVE  Sober(a, i) /\ Sober(b, i) /\ Sober(Wait(7), i)
  <2>1. Sober(f, i) /\ Sober(g, i)
    <3>1. Sober(f, i)
      BY OpSober
    <3>2. Sober(g, i)
      BY OpSober
    <3> QED BY <3>1, <3>2
  <2> HIDE DEF f, g
  <2>2. Sober(a, i) /\ Sober(b, i)
    BY <2>1, ReluSober
  <2> QED BY <2>2, WaitSober
<1> HIDE DEF a, b
<1> QED BY <1>1, <1>2 DEF Begun, Sober

LEMMA GemvBegun ==
  ASSUME NEW even \in Int, NEW odd \in Int
  PROVE  Begun(GemvCmds(even, odd)) /\ Len(GemvCmds(even, odd)) = 5
<1> DEFINE a == Loop(even, 2)
           b == Loop(odd, 2)
<1>1. GemvCmds(even, odd) = <<MacEven, a, MacOdd, b, Wait(7)>>
  BY DEF GemvCmds
<1>2. ASSUME NEW i \in Nat
      PROVE  Sober(MacEven, i) /\ Sober(MacOdd, i) /\ Sober(Wait(7), i)
  <2>1. Sober(MacEven, i)
    BY OpSober DEF MacEven
  <2>2. Sober(MacOdd, i)
    BY OpSober DEF MacOdd
  <2>3. Sober(Wait(7), i)
    BY WaitSober
  <2> QED BY <2>1, <2>2, <2>3
<1>3. Sober(a, 2) /\ Sober(b, 4)
  BY LoopSober
<1> HIDE DEF a, b
<1> QED BY <1>1, <1>2, <1>3 DEF Begun, Sober

LEMMA TreeBegun == Begun(TreeCmds) /\ Len(TreeCmds) = 8
<1> DEFINE a == Loop(7, 2)
<1>1. TreeCmds = <<MacEven, a, Wait(7), ClearB, MacOdd, a, Wait(7), ClearB>>
  BY DEF TreeCmds
<1>2. ASSUME NEW i \in Nat
      PROVE  Sober(MacEven, i) /\ Sober(MacOdd, i) /\ Sober(Wait(7), i) /\ Sober(ClearB, i)
  <2>1. Sober(MacEven, i)
    BY OpSober DEF MacEven
  <2>2. Sober(MacOdd, i)
    BY OpSober DEF MacOdd
  <2>3. Sober(Wait(7), i)
    BY WaitSober
  <2>4. Sober(ClearB, i)
    BY OpSober DEF ClearB
  <2> QED BY <2>1, <2>2, <2>3, <2>4
<1>3. Sober(a, 2) /\ Sober(a, 6)
  BY LoopSober
<1> HIDE DEF a
<1> QED BY <1>1, <1>2, <1>3 DEF Begun, Sober

ConvCmds == <<Op("MAC", "GRF_B", "GRF_A", "EVEN_BANK", FALSE), End>>

LEMMA ConvGood == GoodProgram(ConvCmds)
<1> DEFINE a == Op("MAC", "GRF_B", "GRF_A", "EVEN_BANK", FALSE)
<1>1. Sober(a, 1)
  BY OpSober
<1> HIDE DEF a
<1>2. a \in Written /\ End \in Written
  BY <1>1, EndWritten DEF Sober
<1>3. <<a, End>> \in Seq(Written) /\ Len(<<a, End>>) = 2
  BY <1>2
<1>4. \A i \in 1 .. 2 - 1 : Sober(<<a, End>>[i], i)
  BY <1>1
<1>5. <<a, End>>[2] = End
  OBVIOUS
<1>6. GoodProgram(<<a, End>>)
  <2>1. \A c : c = <<a, End>> => c \in Seq(Written) /\ Len(c) = 2 /\ c[2] = End /\ \A i \in 1 .. 2 - 1 : Sober(c[i], i)
    BY <1>3, <1>4, <1>5
  <2>2. \A c : c \in Seq(Written) /\ Len(c) = 2 /\ c[2] = End /\ (\A i \in 1 .. 2 - 1 : Sober(c[i], i)) => GoodProgram(c)
    BY DEF GoodProgram
  <2> QED BY <2>1, <2>2
<1> QED BY <1>6 DEF a, ConvCmds

\* The programs the scripts load.
ProgramOf(j) ==
  CASE j.kernel \in {"ADD", "MUL"} -> Repeated(EltwiseCmds(j.kernel), j.tiles - 1)
    [] j.kernel = "RELU" -> Repeated(ReluCmds, j.tiles - 1)
    [] j.kernel = "GEMV" -> Repeated(GemvCmds(8 * HalfUp(j.tiles) - 1, 8 * (j.tiles \div 2) - 1), 0)
    [] j.kernel = "GEMVTREE" -> Repeated(TreeCmds, HalfUp(j.tiles) - 1)
    [] j.kernel = "CONV1D" -> ConvCmds
    [] j.kernel = "REDUCTION" -> EltwiseCmds("ADD") \o <<Loop(65535, 7), End>>

LEMMA ProgramsGood == ASSUME NEW j \in Jobs PROVE GoodProgram(ProgramOf(j))
<1>1. /\ j.kernel \in {"ADD", "MUL", "RELU", "GEMV", "GEMVTREE", "CONV1D", "REDUCTION"}
      /\ j.tiles \in Nat
  BY PimKernelAssumption
<1>2. /\ HalfUp(j.tiles) \in Nat /\ j.tiles \div 2 \in Nat
  BY <1>1 DEF HalfUp
<1>3. CASE j.kernel \in {"ADD", "MUL"}
  <2>1. ProgramOf(j) = Repeated(EltwiseCmds(j.kernel), j.tiles - 1)
    BY <1>3 DEF ProgramOf
  <2>2. Begun(EltwiseCmds(j.kernel)) /\ Len(EltwiseCmds(j.kernel)) <= 8
    <3>1. Begun(EltwiseCmds(j.kernel)) /\ Len(EltwiseCmds(j.kernel)) = 6
      BY <1>3, EltwiseBegun, Zenon
    <3> QED BY <3>1
  <2>3. j.tiles - 1 \in Int
    BY <1>1
  <2> QED BY <2>1, <2>2, <2>3, RepeatedGood
<1>4. CASE j.kernel = "RELU"
  <2>1. ProgramOf(j) = Repeated(ReluCmds, j.tiles - 1)
    BY <1>4 DEF ProgramOf
  <2>2. Begun(ReluCmds) /\ Len(ReluCmds) <= 8
    BY ReluBegun
  <2>3. j.tiles - 1 \in Int
    BY <1>1
  <2> QED BY <2>1, <2>2, <2>3, RepeatedGood
<1>5. CASE j.kernel = "GEMV"
  <2> DEFINE even == 8 * HalfUp(j.tiles) - 1
             odd == 8 * (j.tiles \div 2) - 1
  <2>1. ProgramOf(j) = Repeated(GemvCmds(even, odd), 0)
    BY <1>5 DEF ProgramOf
  <2>2. even \in Int /\ odd \in Int /\ 0 \in Int
    BY <1>2
  <2> HIDE DEF even, odd
  <2>3. Begun(GemvCmds(even, odd)) /\ Len(GemvCmds(even, odd)) <= 8
    <3>1. Begun(GemvCmds(even, odd)) /\ Len(GemvCmds(even, odd)) = 5
      BY <2>2, GemvBegun, Zenon
    <3> QED BY <3>1
  <2> QED BY <2>1, <2>2, <2>3, RepeatedGood
<1>6. CASE j.kernel = "GEMVTREE"
  <2>1. ProgramOf(j) = Repeated(TreeCmds, HalfUp(j.tiles) - 1)
    BY <1>6 DEF ProgramOf
  <2>2. Begun(TreeCmds) /\ Len(TreeCmds) <= 8
    BY TreeBegun
  <2>3. HalfUp(j.tiles) - 1 \in Int
    BY <1>2
  <2> QED BY <2>1, <2>2, <2>3, RepeatedGood
<1>7. CASE j.kernel = "CONV1D"
  BY <1>7, ConvGood DEF ProgramOf
<1>8. CASE j.kernel = "REDUCTION"
  <2> DEFINE cmds == EltwiseCmds("ADD")
             jump == Loop(65535, 7)
  <2>1. Begun(cmds) /\ Len(cmds) = 6 /\ Sober(jump, Len(cmds) + 1)
    <3>1. Begun(cmds) /\ Len(cmds) = 6
      BY EltwiseBegun
    <3>2. Sober(jump, 7)
      BY LoopSober
    <3> HIDE DEF cmds, jump
    <3>3. Len(cmds) + 1 = 7
      BY <3>1
    <3> QED BY <3>1, <3>2, <3>3, Zenon
  <2>2. ProgramOf(j) = cmds \o <<jump, End>>
    BY <1>8 DEF ProgramOf
  <2> HIDE DEF cmds, jump
  <2>3. Begun(Append(cmds, jump)) /\ Len(Append(cmds, jump)) = Len(cmds) + 1
    BY <2>1, Longer, Zenon
  <2>4. GoodProgram(Append(cmds, jump) \o <<End>>)
    <3>1. Len(Append(cmds, jump)) <= 9
      BY <2>1, <2>3
    <3> QED BY <2>3, <3>1, Ended, Zenon
  <2>5. cmds \o <<jump, End>> = Append(cmds, jump) \o <<End>>
    <3>1. cmds \in Seq(Written) /\ jump \in Written /\ End \in Written
      BY <2>1, EndWritten DEF Begun, Sober
    <3> QED BY <3>1
  <2> QED BY <2>2, <2>4, <2>5
<1> QED BY <1>1, <1>3, <1>4, <1>5, <1>6, <1>7, <1>8

-----------------------------------------------------------------------------
(* Layouts: what is written lies apart from the operands. *)

LEMMA JobFields ==
  ASSUME NEW j \in Jobs
  PROVE  /\ j.kernel \in {"ADD", "MUL", "RELU", "GEMV", "GEMVTREE", "CONV1D", "REDUCTION"}
         /\ j.tiles \in Nat \ {0} /\ j.outs \in Nat \ {0} /\ j.batches \in Nat \ {0} /\ Fits(j)
  BY PimKernelAssumption

LEMMA Halves ==
  ASSUME NEW n \in Nat
  PROVE  /\ HalfUp(n) \in Nat /\ n \div 2 \in Nat
         /\ 2 * (n \div 2) <= n /\ n <= 2 * HalfUp(n) /\ n \div 2 <= HalfUp(n)
         /\ \A i \in 0 .. n - 1 : IF i % 2 = 0 THEN i \div 2 <= HalfUp(n) - 1 ELSE i \div 2 <= (n \div 2) - 1
  BY DEF HalfUp

LEMMA Monotone ==
  ASSUME NEW a \in Nat, NEW b \in Nat, NEW c \in Nat, a <= b
  PROVE  c * a \in Nat /\ c * a <= c * b
<1>1. PICK d \in Nat : b = a + d
  <2>1. b - a \in Nat /\ b = a + (b - a)
    OBVIOUS
  <2> QED BY <2>1
<1>2. c * b = c * a + c * d /\ c * d \in Nat /\ c * a \in Nat
  BY <1>1
<1> QED BY ONLY <1>2

\* The results of an element-wise kernel.
LEMMA EltwiseApart ==
  ASSUME NEW j \in Jobs, j.kernel \in {"ADD", "MUL", "RELU"}, NEW b \in {0, 1},
         NEW n \in 0 .. 8 * j.tiles - 1
  PROVE  Output + (n \div NumCols) < 8192 /\ CellOf(b, Output, n) \notin OperandsOf(j)
<1>1. j.tiles \in Nat /\ 8 * j.tiles <= 4096
  BY JobFields DEF Fits, NumCols, Input1
<1>2. n \in 0 .. 4095
  BY <1>1
<1>3. ASSUME CellOf(b, Output, n) \in OperandsOf(j) PROVE FALSE
  <2>1. PICK t \in 0 .. 1, row \in {Input0, Input1}, m \in 0 .. 8 * j.tiles - 1 :
          CellOf(b, Output, n) = CellOf(t, row, m)
    BY <1>3 DEF OperandsOf
  <2>2. row \in Nat /\ row <= 128 /\ m \in 0 .. 4095 /\ t \in {0, 1} /\ Output \in Nat
    BY <1>1, <2>1 DEF Input0, Input1, Output
  <2>3. NumCols * Output + n = NumCols * row + m
    BY <1>2, <2>1, <2>2, CellPosition
  <2> QED BY <1>2, <2>2, <2>3 DEF NumCols, Output
<1> QED BY <1>2, <1>3 DEF Output, NumCols

\* Weights of odd tiles end where the results begin, those of even tiles before the
\* zero row.
LEMMA WeightsEnd ==
  ASSUME NEW j \in Jobs, j.kernel \in {"GEMV", "GEMVTREE"},
         NEW b \in {0, 1}, NEW row \in Nat, NEW col \in Nat, CellOf(b, row, col) \in OperandsOf(j)
  PROVE  /\ NumCols * row + col < 64 * (j.outs * HalfUp(j.tiles))
         /\ b = 1 => NumCols * row + col < 64 * ((j.outs * j.tiles) \div 2)
<1> DEFINE H == HalfUp(j.tiles)
           T == j.tiles \div 2
<1>1. /\ j.tiles \in Nat /\ j.outs \in Nat /\ j.outs # 0
      /\ H \in Nat /\ T \in Nat /\ 2 * T <= j.tiles /\ T <= H
  BY JobFields, Halves
<1>2. PICK o \in 0 .. j.outs - 1, i \in 0 .. j.tiles - 1, g \in 0 .. 7, a \in 0 .. 7 :
        CellOf(b, row, col) = WeightCell(j, o, i, g, a)
  BY DEF OperandsOf
<1> DEFINE N == IF i % 2 = 0 THEN H ELSE T
           at0 == o * N + (i \div 2)
<1>3. N \in Nat /\ i % 2 \in {0, 1} /\ i \div 2 \in Nat /\ i \div 2 <= N - 1
  <2>1. i \in Nat /\ i % 2 \in {0, 1} /\ i \div 2 \in Nat
    BY <1>1
  <2>2. IF i % 2 = 0 THEN i \div 2 <= H - 1 ELSE i \div 2 <= T - 1
    BY <1>1, Halves
  <2>3. H \in Nat /\ T \in Nat
    BY <1>1
  <2> HIDE DEF H, T
  <2> QED BY ONLY <2>1, <2>2, <2>3
<1>4. o * N \in Nat /\ o * N <= (j.outs - 1) * N /\ (j.outs - 1) * N = j.outs * N - N
  <2>1. o \in Nat /\ j.outs - 1 \in Nat /\ o <= j.outs - 1
    BY <1>1
  <2>2. N * o \in Nat /\ N * o <= N * (j.outs - 1)
    BY <1>3, <2>1, Monotone
  <2>3. N * o = o * N /\ N * (j.outs - 1) = (j.outs - 1) * N /\ (j.outs - 1) * N = j.outs * N - N
    <3>1. \A x, y, z \in Nat : x * y = y * x /\ x * (z - 1) = (z - 1) * x /\ (z - 1) * x = z * x - x
      OBVIOUS
    <3> QED BY <1>1, <1>3, <2>1, <3>1, Zenon
  <2> QED BY <2>2, <2>3
<1>5. WeightCell(j, o, i, g, a) = CellOf(i % 2, 0, 64 * at0 + 8 * g + a)
  BY DEF WeightCell
<1> HIDE DEF H, T, N
<1>6. at0 \in Nat /\ at0 <= j.outs * N - 1 /\ j.outs * N \in Nat
  BY <1>1, <1>3, <1>4
<1> HIDE DEF at0
<1>7. b = i % 2 /\ NumCols * row + col = 64 * at0 + 8 * g + a
  <2>1. 64 * at0 + 8 * g + a \in Nat
    BY <1>6
  <2>2. b = i % 2 /\ NumCols * row + col = NumCols * 0 + (64 * at0 + 8 * g + a)
    BY <1>2, <1>3, <1>5, <2>1, CellPosition
  <2> QED BY <2>1, <2>2 DEF NumCols
<1>8. NumCols * row + col < 64 * (j.outs * N)
  BY <1>6, <1>7
<1>9. j.outs * N <= j.outs * H /\ j.outs * H \in Nat
  BY <1>1, Monotone DEF N
<1>10. j.outs * T <= (j.outs * j.tiles) \div 2 /\ (j.outs * j.tiles) \div 2 \in Nat
  <2>1. j.outs * (2 * T) <= j.outs * j.tiles /\ j.outs * j.tiles \in Nat
    BY <1>1, Monotone
  <2>2. j.outs * (2 * T) = 2 * (j.outs * T) /\ j.outs * T \in Nat
    BY <1>1
  <2> QED BY <2>1, <2>2
<1>11. NumCols * row + col \in Nat
  BY DEF NumCols
<1> QED BY <1>6, <1>7, <1>8, <1>9, <1>10, <1>11 DEF N, H

\* The results of the products.
LEMMA GemvApart ==
  ASSUME NEW j \in Jobs, j.kernel \in {"GEMV", "GEMVTREE"}, NEW o \in 0 .. j.outs - 1,
         NEW b \in 0 .. j.batches - 1, NEW n \in 0 .. 8 * (j.tiles - 1) + 7
  PROVE  /\ ResultCol(j, o, b) \in Nat
         /\ (ResultCol(j, o, b) + n) \div NumCols < 8192
         /\ CellOf(1, 0, ResultCol(j, o, b) + n) \notin OperandsOf(j)
<1> DEFINE H == HalfUp(j.tiles)
           half == (j.outs * j.tiles) \div 2
<1>1. /\ j.tiles \in Nat /\ j.tiles # 0 /\ j.outs \in Nat /\ j.batches \in Nat
      /\ H \in Nat /\ j.tiles <= 2 * H
  BY JobFields, Halves
<1>2. 64 * (j.outs * H) + 8 * (j.outs + j.batches + j.tiles) <= 32 * 8192
  <2>1. 64 * (j.outs * H) + 8 * (j.outs + j.batches + j.tiles)
          <= NumCols * (IF j.kernel = "GEMV" THEN 8192 ELSE ZeroRow)
    BY JobFields DEF Fits
  <2>2. NumCols * (IF j.kernel = "GEMV" THEN 8192 ELSE ZeroRow) <= 32 * 8192
    BY DEF NumCols, ZeroRow
  <2>3. /\ 64 * (j.outs * H) + 8 * (j.outs + j.batches + j.tiles) \in Int
        /\ NumCols * (IF j.kernel = "GEMV" THEN 8192 ELSE ZeroRow) \in Int
    BY <1>1 DEF NumCols, ZeroRow
  <2> QED BY ONLY <2>1, <2>2, <2>3
<1>3. half \in Nat /\ half <= j.outs * H /\ j.outs * H \in Nat
  <2>1. j.outs * j.tiles <= j.outs * (2 * H) /\ j.outs * j.tiles \in Nat
    BY <1>1, Monotone
  <2>2. j.outs * (2 * H) = 2 * (j.outs * H) /\ j.outs * H \in Nat
    BY <1>1
  <2> QED BY <2>1, <2>2
<1>4. ResultCol(j, o, b) = 64 * half + 8 * (o + b)
  BY DEF ResultCol
<1> HIDE DEF H, half
<1>5. o \in Nat /\ b \in Nat /\ n \in Nat /\ o <= j.outs - 1 /\ b <= j.batches - 1 /\ n <= 8 * j.tiles - 1
  BY <1>1
<1>6. /\ ResultCol(j, o, b) \in Nat /\ ResultCol(j, o, b) >= 64 * half
      /\ ResultCol(j, o, b) + n < 32 * 8192 /\ ResultCol(j, o, b) + n \in Nat
  BY <1>1, <1>2, <1>3, <1>4, <1>5
<1>7. ASSUME CellOf(1, 0, ResultCol(j, o, b) + n) \in OperandsOf(j) PROVE FALSE
  <2>1. NumCols * 0 + (ResultCol(j, o, b) + n) < 64 * half
    BY <1>6, <1>7, WeightsEnd DEF half
  <2> QED BY <1>3, <1>5, <1>6, <2>1 DEF NumCols
<1> QED BY <1>6, <1>7 DEF NumCols

\* The zero row of the tree.
LEMMA ZeroApart ==
  ASSUME NEW j \in Jobs, j.kernel = "GEMVTREE", NEW b \in {0, 1}, NEW n \in 0 .. 7
  PROVE  ZeroRow + (n \div NumCols) < 8192 /\ CellOf(b, ZeroRow, n) \notin OperandsOf(j)
<1>1. j.outs * HalfUp(j.tiles) \in Nat /\ 64 * (j.outs * HalfUp(j.tiles)) <= NumCols * ZeroRow
  <2>1. j.tiles \in Nat /\ j.outs \in Nat /\ j.batches \in Nat /\ HalfUp(j.tiles) \in Nat
    BY JobFields, Halves
  <2>2. 64 * (j.outs * HalfUp(j.tiles)) + 8 * (j.outs + j.batches + j.tiles) <= NumCols * ZeroRow
    BY JobFields DEF Fits
  <2>3. j.outs * HalfUp(j.tiles) \in Nat
    BY <2>1
  <2> QED BY <2>1, <2>2, <2>3 DEF NumCols, ZeroRow
<1>2. ASSUME CellOf(b, ZeroRow, n) \in OperandsOf(j) PROVE FALSE
  <2>1. NumCols * ZeroRow + n < 64 * (j.outs * HalfUp(j.tiles))
    BY <1>2, WeightsEnd DEF ZeroRow
  <2> QED BY <1>1, <2>1 DEF NumCols, ZeroRow
<1> QED BY <1>2 DEF NumCols, ZeroRow

LEMMA ConvApart ==
  ASSUME NEW j \in Jobs, j.kernel = "CONV1D", NEW slot \in 0 .. j.outs - 1
  PROVE  4096 + slot + (0 \div NumCols) < 8192 /\ CellOf(1, 4096 + slot, 0) \notin OperandsOf(j)
<1>1. j.outs \in Nat /\ 4096 + j.outs <= 8192
  <2>1. j.outs \in Nat /\ j.tiles \in Nat \ {0} /\ 4 * (j.outs - 1) + 2 * ((j.tiles - 1) \div 8) < 4096
    BY JobFields DEF Fits
  <2> QED BY <2>1
<1>2. \A c \in OperandsOf(j) : c[1] = 0
  BY DEF OperandsOf, CellOf
<1>3. CellOf(1, 4096 + slot, 0)[1] = 1
  BY DEF CellOf
<1> QED BY <1>1, <1>2, <1>3 DEF NumCols

-----------------------------------------------------------------------------
(* The bodies of the scripts. *)

\* Accesses of job j that a script's body is made of.
Groups(j) == Seq(SUBSET Work(j))

LEMMA Joined ==
  ASSUME NEW j, NEW a \in Groups(j), NEW b \in Groups(j)
  PROVE  a \o b \in Groups(j)
  BY ConcatProperties DEF Groups

\* Each, of a body whose pieces are s[1], s[2] and so on.
LEMMA EachIn ==
  ASSUME NEW j, NEW n \in Nat, NEW s \in [1 .. n -> Groups(j)]
  PROVE  FlattenSeq(s) \in Groups(j)
  BY FlattenProperties DEF Groups

LEMMA ReadsIn ==
  ASSUME NEW j, NEW bank \in {0, 1}, NEW row \in Nat, NEW col \in Nat, NEW n \in Nat, NEW meant \in Int
  PROVE  All("READ", bank, row, col, n, meant) \in Groups(j)
<1>1. All("READ", bank, row, col, n, meant) \in Seq(SUBSET Plain(j))
  BY AllIn
<1> QED BY <1>1, PlainIsWork DEF Groups

LEMMA WritesIn ==
  ASSUME NEW j, NEW bank \in {0, 1}, NEW row \in Nat, NEW col \in Nat, NEW n \in Nat, NEW meant \in Int,
         Clear(j, bank, row, col, n)
  PROVE  All("WRITE", bank, row, col, n, meant) \in Groups(j)
<1>1. All("WRITE", bank, row, col, n, meant) \in Seq(SUBSET Plain(j))
  BY AllIn
<1> QED BY <1>1, PlainIsWork DEF Groups

LEMMA ResultsIn ==
  ASSUME NEW j \in Jobs, j.kernel \in {"ADD", "MUL", "RELU"}, NEW b \in {0, 1},
         NEW i \in 0 .. j.tiles - 1, NEW meant \in Int
  PROVE  All("WRITE", b, Output, 8 * i, NumGrf, meant) \in Groups(j)
<1>1. j.tiles \in Nat
  BY JobFields
<1>2. 8 * i \in Nat /\ NumGrf \in Nat /\ Output \in Nat
  BY DEF NumGrf, Output
<1>3. ASSUME NEW x \in 0 .. NumGrf - 1
      PROVE  Output + ((8 * i + x) \div NumCols) < 8192 /\ CellOf(b, Output, 8 * i + x) \notin OperandsOf(j)
  <2>1. 8 * i + x \in 0 .. 8 * j.tiles - 1
    BY <1>1 DEF NumGrf
  <2> QED BY <2>1, EltwiseApart
<1>4. Clear(j, b, Output, 8 * i, NumGrf)
  BY <1>3 DEF Clear
<1> QED BY <1>2, <1>4, WritesIn

LEMMA AddOrMulTileIn ==
  ASSUME NEW j \in Jobs, j.kernel \in {"ADD", "MUL", "RELU"}, NEW i \in 0 .. j.tiles - 1
  PROVE  AddOrMulTile(i) \in Groups(j)
<1> DEFINE f(b) == All("READ", b, Input0, 8 * i, NumGrf, 3 * b)
               \o All("READ", b, Input1, 8 * i, NumGrf, 3 * b + 1)
               \o All("WRITE", b, Output, 8 * i, NumGrf, 3 * b + 2)
           s == [x \in 1 .. 2 |-> f(x - 1)]
<1>1. AddOrMulTile(i) = FlattenSeq(s)
  BY DEF AddOrMulTile, Each
<1>2. ASSUME NEW b \in {0, 1} PROVE f(b) \in Groups(j)
  <2>1. 8 * i \in Nat /\ NumGrf \in Nat /\ Input0 \in Nat /\ Input1 \in Nat
    BY DEF NumGrf, Input0, Input1
  <2>2. 3 * b \in Int /\ 3 * b + 1 \in Int /\ 3 * b + 2 \in Int
    OBVIOUS
  <2>3. All("READ", b, Input0, 8 * i, NumGrf, 3 * b) \in Groups(j)
    BY <2>1, <2>2, ReadsIn
  <2>4. All("READ", b, Input1, 8 * i, NumGrf, 3 * b + 1) \in Groups(j)
    BY <2>1, <2>2, ReadsIn
  <2>5. All("WRITE", b, Output, 8 * i, NumGrf, 3 * b + 2) \in Groups(j)
    BY <2>2, ResultsIn
  <2> QED BY <2>3, <2>4, <2>5, Joined
<1> HIDE DEF f
<1>3. s \in [1 .. 2 -> Groups(j)]
  BY <1>2
<1> QED BY <1>1, <1>3, EachIn

LEMMA ReluTileIn ==
  ASSUME NEW j \in Jobs, j.kernel \in {"ADD", "MUL", "RELU"}, NEW i \in 0 .. j.tiles - 1
  PROVE  ReluTile(i) \in Groups(j)
<1> DEFINE f(b) == All("READ", b, Input0, 8 * i, NumGrf, 2 * b)
               \o All("WRITE", b, Output, 8 * i, NumGrf, 2 * b + 1)
           s == [x \in 1 .. 2 |-> f(x - 1)]
<1>1. ReluTile(i) = FlattenSeq(s)
  BY DEF ReluTile, Each
<1>2. ASSUME NEW b \in {0, 1} PROVE f(b) \in Groups(j)
  <2>1. 8 * i \in Nat /\ NumGrf \in Nat /\ Input0 \in Nat
    BY DEF NumGrf, Input0
  <2>2. 2 * b \in Int /\ 2 * b + 1 \in Int
    OBVIOUS
  <2>3. All("READ", b, Input0, 8 * i, NumGrf, 2 * b) \in Groups(j)
    BY <2>1, <2>2, ReadsIn
  <2>4. All("WRITE", b, Output, 8 * i, NumGrf, 2 * b + 1) \in Groups(j)
    BY <2>2, ResultsIn
  <2> QED BY <2>3, <2>4, Joined
<1> HIDE DEF f
<1>3. s \in [1 .. 2 -> Groups(j)]
  BY <1>2
<1> QED BY <1>1, <1>3, EachIn

LEMMA SwitchGroups ==
  ASSUME NEW j, NEW op \in BOOLEAN, NEW zeroB \in BOOLEAN, NEW cond \in {0, 2}
  PROVE  Switch(Control(op, zeroB, cond)) \in Groups(j)
  BY SwitchIn DEF Groups

EltwiseBody(j) ==
  Switch(Control(TRUE, FALSE, 0))
    \o Each(LAMBDA i : IF j.kernel = "RELU" THEN ReluTile(i) ELSE AddOrMulTile(i), j.tiles)
    \o Switch(Control(FALSE, FALSE, 0))

LEMMA EltwiseBodyIn ==
  ASSUME NEW j \in Jobs, j.kernel \in {"ADD", "MUL", "RELU"}
  PROVE  EltwiseBody(j) \in Groups(j)
<1> DEFINE s == [x \in 1 .. j.tiles |-> IF j.kernel = "RELU" THEN ReluTile(x - 1) ELSE AddOrMulTile(x - 1)]
<1>1. j.tiles \in Nat
  BY JobFields
<1>2. EltwiseBody(j) = Switch(Control(TRUE, FALSE, 0)) \o FlattenSeq(s) \o Switch(Control(FALSE, FALSE, 0))
  BY DEF EltwiseBody, Each
<1>3. s \in [1 .. j.tiles -> Groups(j)]
  <2>1. ASSUME NEW x \in 1 .. j.tiles PROVE s[x] \in Groups(j)
    <3>1. x - 1 \in 0 .. j.tiles - 1
      BY <1>1
    <3> QED BY <3>1, ReluTileIn, AddOrMulTileIn
  <2> QED BY <2>1
<1>4. FlattenSeq(s) \in Groups(j)
  BY <1>1, <1>3, EachIn
<1> HIDE DEF s
<1>5. /\ Switch(Control(TRUE, FALSE, 0)) \in Groups(j)
      /\ Switch(Control(FALSE, FALSE, 0)) \in Groups(j)
  BY SwitchGroups
<1> QED BY <1>2, <1>4, <1>5, Joined

-----------------------------------------------------------------------------
\* The registers of the input vector, then the passes over a tile of weights.
LEMMA ComputeIn ==
  ASSUME NEW j \in Jobs, NEW tile \in Nat, NEW out \in Nat, NEW batch \in Nat, NEW meant \in Int
  PROVE  ComputeGemv(j, tile, out, batch, meant) \in Groups(j)
<1> DEFINE f(g) == All("READ", tile % 2, 0,
                         64 * ((tile \div 2) + ((out * j.tiles) \div 2)) + 8 * g, NumGrf, meant)
           s == [x \in 1 .. 8 |-> f(x - 1)]
           registers == {Register(1, 8 + a, VectorOf(batch, tile, a)) : a \in 0 .. 7}
<1>1. j.tiles \in Nat
  BY JobFields
<1>2. ComputeGemv(j, tile, out, batch, meant) = <<registers>> \o FlattenSeq(s)
  BY DEF ComputeGemv, Each
<1>3. <<registers>> \in Groups(j)
  <2>1. ASSUME NEW a \in 0 .. 7 PROVE Register(1, 8 + a, VectorOf(batch, tile, a)) \in Work(j)
    <3>1. 8 * tile + a \in Nat
      OBVIOUS
    <3>2. VectorOf(batch, tile, a) \in Bursts \cup Controls
      BY <3>1, ContentIn DEF VectorOf
    <3>3. 8 + a \in 0 .. 31 /\ 8 + a \notin 4 .. 7 /\ 8 + a # 0
      OBVIOUS
    <3> QED BY <3>2, <3>3, RegisterIn
  <2>2. registers \in SUBSET Work(j)
    BY <2>1
  <2> HIDE DEF registers
  <2> QED BY <2>2 DEF Groups
<1>4. s \in [1 .. 8 -> Groups(j)]
  <2>1. ASSUME NEW g \in 0 .. 7 PROVE f(g) \in Groups(j)
    <3>1. out * j.tiles \in Nat
      BY <1>1
    <3>2. (out * j.tiles) \div 2 \in Nat /\ tile \div 2 \in Nat /\ tile % 2 \in {0, 1}
      BY <3>1
    <3>3. 64 * ((tile \div 2) + ((out * j.tiles) \div 2)) + 8 * g \in Nat /\ NumGrf \in Nat
      BY <3>2 DEF NumGrf
    <3> QED BY <3>2, <3>3, ReadsIn
  <2> HIDE DEF f
  <2> QED BY <2>1
<1> HIDE DEF s, registers
<1>5. FlattenSeq(s) \in Groups(j)
  BY <1>4, EachIn
<1> QED BY <1>2, <1>3, <1>5, Joined

LEMMA ProductsIn ==
  ASSUME NEW j \in Jobs, j.kernel \in {"GEMV", "GEMVTREE"}, NEW o \in 0 .. j.outs - 1,
         NEW b \in 0 .. j.batches - 1, NEW i \in 0 .. j.tiles - 1, NEW meant \in Int
  PROVE  /\ All("WRITE", 1, 0, ResultCol(j, o, b) + 8 * i, NumGrf, meant) \in Groups(j)
         /\ All("WRITE", 1, 0, ResultCol(j, o, b), NumGrf, meant) \in Groups(j)
<1>1. j.tiles \in Nat
  BY JobFields
<1>2. ASSUME NEW k \in 0 .. j.tiles - 1
      PROVE  All("WRITE", 1, 0, ResultCol(j, o, b) + 8 * k, NumGrf, meant) \in Groups(j)
  <2>1. ResultCol(j, o, b) \in Nat
    <3>1. 0 \in 0 .. 8 * (j.tiles - 1) + 7
      BY <1>1
    <3> QED BY <3>1, GemvApart
  <2>2. ASSUME NEW x \in 0 .. NumGrf - 1
        PROVE  /\ 0 + ((ResultCol(j, o, b) + 8 * k + x) \div NumCols) < 8192
               /\ CellOf(1, 0, ResultCol(j, o, b) + 8 * k + x) \notin OperandsOf(j)
    <3>1. 8 * k + x \in 0 .. 8 * (j.tiles - 1) + 7
      BY <1>1 DEF NumGrf
    <3>2. /\ (ResultCol(j, o, b) + (8 * k + x)) \div NumCols < 8192
          /\ CellOf(1, 0, ResultCol(j, o, b) + (8 * k + x)) \notin OperandsOf(j)
      BY <3>1, GemvApart
    <3>3. ResultCol(j, o, b) + (8 * k + x) = ResultCol(j, o, b) + 8 * k + x
      BY <2>1, <3>1 DEF NumGrf
    <3>4. (ResultCol(j, o, b) + (8 * k + x)) \div NumCols \in Int
      BY <2>1, <3>1 DEF NumCols
    <3> QED BY <3>2, <3>3, <3>4
  <2>3. ResultCol(j, o, b) + 8 * k \in Nat /\ NumGrf \in Nat
    BY <1>1, <2>1 DEF NumGrf
  <2>4. Clear(j, 1, 0, ResultCol(j, o, b) + 8 * k, NumGrf)
    BY <2>2 DEF Clear
  <2> QED BY <2>3, <2>4, WritesIn
<1>3. 0 \in 0 .. j.tiles - 1 /\ ResultCol(j, o, b) + 8 * 0 = ResultCol(j, o, b)
  <2>1. ResultCol(j, o, b) \in Nat /\ 0 \in 0 .. j.tiles - 1
    <3>1. 0 \in 0 .. 8 * (j.tiles - 1) + 7 /\ 0 \in 0 .. j.tiles - 1
      BY <1>1
    <3> QED BY <3>1, GemvApart
  <2> QED BY <2>1
<1> QED BY <1>2, <1>3

LEMMA GemvPassIn ==
  ASSUME NEW j \in Jobs, j.kernel = "GEMV", NEW o \in 0 .. j.outs - 1, NEW b \in 0 .. j.batches - 1
  PROVE  GemvPass(j, o, b) \in Groups(j)
<1> DEFINE n(odd) == IF odd = 0 THEN HalfUp(j.tiles) ELSE j.tiles \div 2
           s(odd) == [x \in 1 .. n(odd) |-> ComputeGemv(j, 2 * (x - 1) + odd, o, b, 2 * odd)]
           results == All("WRITE", 1, 0, ResultCol(j, o, b), NumGrf, 4)
<1>1. GemvPass(j, o, b) = FlattenSeq(s(0)) \o FlattenSeq(s(1)) \o results
  BY DEF GemvPass, Each
<1>2. /\ j.tiles \in Nat /\ 0 \in 0 .. j.tiles - 1 /\ o \in Nat /\ b \in Nat
      /\ HalfUp(j.tiles) \in Nat /\ j.tiles \div 2 \in Nat
  BY JobFields, Halves
<1>3. ASSUME NEW odd \in {0, 1} PROVE FlattenSeq(s(odd)) \in Groups(j)
  <2>1. n(odd) \in Nat
    BY <1>2
  <2> HIDE DEF n
  <2>2. ASSUME NEW x \in 1 .. n(odd) PROVE ComputeGemv(j, 2 * (x - 1) + odd, o, b, 2 * odd) \in Groups(j)
    <3>1. 2 * (x - 1) + odd \in Nat /\ 2 * odd \in Int
      BY <2>1
    <3> QED BY <1>2, <3>1, ComputeIn
  <2>3. s(odd) \in [1 .. n(odd) -> Groups(j)]
    BY <2>2
  <2> HIDE DEF s
  <2> QED BY <2>1, <2>3, EachIn
<1>4. results \in Groups(j)
  BY <1>2, ProductsIn
<1> HIDE DEF s, results
<1> QED BY <1>1, <1>3, <1>4, Joined

LEMMA TreePassIn ==
  ASSUME NEW j \in Jobs, j.kernel = "GEMVTREE", NEW o \in 0 .. j.outs - 1, NEW b \in 0 .. j.batches - 1
  PROVE  TreePass(j, o, b) \in Groups(j)
<1> DEFINE f(i) == ComputeGemv(j, i, o, b, 4 * (i % 2))
               \o All("WRITE", 1, 0, ResultCol(j, o, b) + 8 * i, NumGrf, 4 * (i % 2) + 2)
               \o All("READ", 0, ZeroRow, 0, NumGrf, 4 * (i % 2) + 3)
           s == [x \in 1 .. j.tiles |-> f(x - 1)]
<1>1. TreePass(j, o, b) = FlattenSeq(s)
  BY DEF TreePass, Each
<1>2. j.tiles \in Nat /\ o \in Nat /\ b \in Nat
  BY JobFields
<1>3. ASSUME NEW i \in 0 .. j.tiles - 1 PROVE f(i) \in Groups(j)
  <2>1. i \in Nat /\ 4 * (i % 2) \in Int /\ 4 * (i % 2) + 2 \in Int /\ 4 * (i % 2) + 3 \in Int
    OBVIOUS
  <2>2. ComputeGemv(j, i, o, b, 4 * (i % 2)) \in Groups(j)
    BY <1>2, <2>1, ComputeIn
  <2>3. All("WRITE", 1, 0, ResultCol(j, o, b) + 8 * i, NumGrf, 4 * (i % 2) + 2) \in Groups(j)
    BY <2>1, ProductsIn
  <2>4. ZeroRow \in Nat /\ NumGrf \in Nat
    BY DEF ZeroRow, NumGrf
  <2>5. All("READ", 0, ZeroRow, 0, NumGrf, 4 * (i % 2) + 3) \in Groups(j)
    BY <2>1, <2>4, ReadsIn
  <2> QED BY <2>2, <2>3, <2>5, Joined
<1> HIDE DEF f
<1>4. s \in [1 .. j.tiles -> Groups(j)]
  <2>1. ASSUME NEW x \in 1 .. j.tiles PROVE f(x - 1) \in Groups(j)
    <3>1. x - 1 \in 0 .. j.tiles - 1
      BY <1>2
    <3> QED BY <1>3, <3>1
  <2> QED BY <2>1
<1> HIDE DEF s
<1> QED BY <1>1, <1>2, <1>4, EachIn

-----------------------------------------------------------------------------
(* The scripts. *)

\* What comes before the session: the zero row of the tree.
Lead(j) ==
  IF j.kernel = "GEMVTREE" THEN Each(LAMBDA b : All("WRITE", b, ZeroRow, 0, NumGrf, NoCommand), 2) ELSE <<>>

\* A pass of the matrix kernels over one output tile and one batch.
Pass(j, o, b) == IF j.kernel = "GEMVTREE" THEN TreePass(j, o, b) ELSE GemvPass(j, o, b)

GemvBody(j) ==
  Each(LAMBDA out : Each(LAMBDA batch :
    Switch(Control(TRUE, TRUE, 0)) \o Pass(j, out, batch) \o Switch(Control(FALSE, FALSE, 0)),
    j.batches), j.outs)

ConvBody(j) ==
  Each(LAMBDA slot : Each(LAMBDA k : ConvTap(slot, k), j.tiles)
                  \o All("WRITE", 1, 4096 + slot, 0, 1, NoCommand), j.outs)

ReductionBody ==
  Switch(Control(TRUE, FALSE, 0))
    \o Each(LAMBDA b : All("READ", b, 0, 0, NumGrf, 3 * b) \o All("READ", b, 0, 1, NumGrf, 3 * b + 1), 2)
    \o Switch(Control(FALSE, FALSE, 0))

Body(j) ==
  CASE j.kernel \in {"ADD", "MUL", "RELU"} -> EltwiseBody(j)
    [] j.kernel \in {"GEMV", "GEMVTREE"} -> GemvBody(j)
    [] j.kernel = "CONV1D" -> ConvBody(j)
    [] j.kernel = "REDUCTION" -> ReductionBody

LEMMA GemvBodyIn ==
  ASSUME NEW j \in Jobs, j.kernel \in {"GEMV", "GEMVTREE"}
  PROVE  GemvBody(j) \in Groups(j)
<1> DEFINE f(o, b) == Switch(Control(TRUE, TRUE, 0)) \o Pass(j, o, b) \o Switch(Control(FALSE, FALSE, 0))
           s(o) == [y \in 1 .. j.batches |-> f(o, y - 1)]
           t == [x \in 1 .. j.outs |-> FlattenSeq(s(x - 1))]
<1>1. GemvBody(j) = FlattenSeq(t)
  BY DEF GemvBody, Each
<1>2. j.outs \in Nat /\ j.batches \in Nat
  BY JobFields
<1>3. ASSUME NEW o \in 0 .. j.outs - 1, NEW b \in 0 .. j.batches - 1
      PROVE  f(o, b) \in Groups(j)
  <2>1. Pass(j, o, b) \in Groups(j)
    BY GemvPassIn, TreePassIn DEF Pass
  <2>2. /\ Switch(Control(TRUE, TRUE, 0)) \in Groups(j)
        /\ Switch(Control(FALSE, FALSE, 0)) \in Groups(j)
    BY SwitchGroups
  <2> QED BY <2>1, <2>2, Joined
<1> HIDE DEF f
<1>4. ASSUME NEW o \in 0 .. j.outs - 1 PROVE FlattenSeq(s(o)) \in Groups(j)
  <2>1. ASSUME NEW y \in 1 .. j.batches PROVE f(o, y - 1) \in Groups(j)
    <3>1. y - 1 \in 0 .. j.batches - 1
      BY <1>2
    <3> QED BY <1>3, <3>1
  <2>2. s(o) \in [1 .. j.batches -> Groups(j)]
    BY <2>1
  <2> HIDE DEF s
  <2> QED BY <1>2, <2>2, EachIn
<1> HIDE DEF s
<1>5. ASSUME NEW x \in 1 .. j.outs PROVE FlattenSeq(s(x - 1)) \in Groups(j)
  <2>1. x - 1 \in 0 .. j.outs - 1
    BY <1>2
  <2> QED BY <1>4, <2>1
<1>6. t \in [1 .. j.outs -> Groups(j)]
  BY <1>5
<1> HIDE DEF t
<1> QED BY <1>1, <1>2, <1>6, EachIn

LEMMA ConvTapIn ==
  ASSUME NEW j, NEW slot \in Nat, NEW k \in Nat
  PROVE  ConvTap(slot, k) \in Groups(j)
<1> DEFINE r == Register(1, 8, Content(<<2, 0, k>>))
           row == 4 * slot + 2 * (k \div 8)
<1>1. r \in Work(j)
  <2>1. Content(<<2, 0, k>>) \in Bursts \cup Controls
    BY ContentIn
  <2>2. 8 \in 0 .. 31 /\ 8 \notin 4 .. 7 /\ 1 \in {0, 1}
    OBVIOUS
  <2> QED BY <2>1, <2>2, RegisterIn
<1>2. row \in Nat /\ k % 8 \in Nat
  OBVIOUS
<1>3. ConvTap(slot, k) = <<{r}>> \o Switch(Control(TRUE, k = 0, 2)) \o All("READ", 0, row, k % 8, 1, 0)
                           \o Switch(Control(FALSE, FALSE, 2))
  BY DEF ConvTap
<1> HIDE DEF r, row
<1>4. <<{r}>> \in Groups(j)
  BY <1>1 DEF Groups
<1>5. Switch(Control(TRUE, k = 0, 2)) \in Groups(j) /\ Switch(Control(FALSE, FALSE, 2)) \in Groups(j)
  BY SwitchGroups
<1>6. All("READ", 0, row, k % 8, 1, 0) \in Groups(j)
  BY <1>2, ReadsIn
<1>7. <<{r}>> \o Switch(Control(TRUE, k = 0, 2)) \in Groups(j)
  BY <1>4, <1>5, Joined
<1>8. <<{r}>> \o Switch(Control(TRUE, k = 0, 2)) \o All("READ", 0, row, k % 8, 1, 0) \in Groups(j)
  BY <1>6, <1>7, Joined
<1> QED BY <1>3, <1>5, <1>8, Joined

LEMMA ConvBodyIn ==
  ASSUME NEW j \in Jobs, j.kernel = "CONV1D"
  PROVE  ConvBody(j) \in Groups(j)
<1> DEFINE s(slot) == [y \in 1 .. j.tiles |-> ConvTap(slot, y - 1)]
           f(slot) == FlattenSeq(s(slot)) \o All("WRITE", 1, 4096 + slot, 0, 1, NoCommand)
           t == [x \in 1 .. j.outs |-> f(x - 1)]
<1>1. ConvBody(j) = FlattenSeq(t)
  BY DEF ConvBody, Each
<1>2. j.outs \in Nat /\ j.tiles \in Nat
  BY JobFields
<1>3. ASSUME NEW slot \in 0 .. j.outs - 1 PROVE f(slot) \in Groups(j)
  <2>1. \A y \in 1 .. j.tiles : ConvTap(slot, y - 1) \in Groups(j)
    BY <1>2, ConvTapIn
  <2>2. s(slot) \in [1 .. j.tiles -> Groups(j)]
    BY <2>1
  <2> HIDE DEF s
  <2>3. FlattenSeq(s(slot)) \in Groups(j)
    BY <1>2, <2>2, EachIn
  <2>4. Clear(j, 1, 4096 + slot, 0, 1)
    <3>1. 4096 + slot + (0 \div NumCols) < 8192 /\ CellOf(1, 4096 + slot, 0) \notin OperandsOf(j)
      BY ConvApart
    <3> QED BY <3>1 DEF Clear
  <2>5. 4096 + slot \in Nat /\ NoCommand \in Int
    BY <1>2 DEF NoCommand
  <2>6. All("WRITE", 1, 4096 + slot, 0, 1, NoCommand) \in Groups(j)
    BY <2>4, <2>5, WritesIn
  <2> QED BY <2>3, <2>6, Joined
<1> HIDE DEF f
<1>4. ASSUME NEW x \in 1 .. j.outs PROVE f(x - 1) \in Groups(j)
  <2>1. x - 1 \in 0 .. j.outs - 1
    BY <1>2
  <2> QED BY <1>3, <2>1
<1>5. t \in [1 .. j.outs -> Groups(j)]
  BY <1>4
<1> HIDE DEF t
<1> QED BY <1>1, <1>2, <1>5, EachIn

LEMMA ReductionBodyIn == ASSUME NEW j PROVE ReductionBody \in Groups(j)
<1> DEFINE f(b) == All("READ", b, 0, 0, NumGrf, 3 * b) \o All("READ", b, 0, 1, NumGrf, 3 * b + 1)
           s == [x \in 1 .. 2 |-> f(x - 1)]
<1>1. ReductionBody = Switch(Control(TRUE, FALSE, 0)) \o FlattenSeq(s) \o Switch(Control(FALSE, FALSE, 0))
  BY DEF ReductionBody, Each
<1>2. ASSUME NEW b \in {0, 1} PROVE f(b) \in Groups(j)
  <2>1. NumGrf \in Nat /\ 3 * b \in Int /\ 3 * b + 1 \in Int
    BY DEF NumGrf
  <2>2. All("READ", b, 0, 0, NumGrf, 3 * b) \in Groups(j)
    BY <2>1, ReadsIn
  <2>3. All("READ", b, 0, 1, NumGrf, 3 * b + 1) \in Groups(j)
    BY <2>1, ReadsIn
  <2> QED BY <2>2, <2>3, Joined
<1> HIDE DEF f
<1>3. s \in [1 .. 2 -> Groups(j)]
  BY <1>2
<1> HIDE DEF s
<1>4. FlattenSeq(s) \in Groups(j)
  BY <1>3, EachIn
<1>5. /\ Switch(Control(TRUE, FALSE, 0)) \in Groups(j)
      /\ Switch(Control(FALSE, FALSE, 0)) \in Groups(j)
  BY SwitchGroups
<1> QED BY <1>1, <1>4, <1>5, Joined

LEMMA BodyIn == ASSUME NEW j \in Jobs PROVE Body(j) \in Groups(j)
<1>1. CASE j.kernel \in {"ADD", "MUL", "RELU"}
  BY <1>1, EltwiseBodyIn DEF Body
<1>2. CASE j.kernel \in {"GEMV", "GEMVTREE"}
  BY <1>2, GemvBodyIn DEF Body
<1>3. CASE j.kernel = "CONV1D"
  BY <1>3, ConvBodyIn DEF Body
<1>4. CASE j.kernel = "REDUCTION"
  BY <1>4, ReductionBodyIn DEF Body
<1> QED BY <1>1, <1>2, <1>3, <1>4, JobFields

\* The burst that carries commands 8 * i + 1 to 8 * i + 8.
BurstAt(cmds, i) ==
  Register(1, 4 + i, [k \in 0 .. 7 |-> IF 8 * i + k < Len(cmds) THEN Stored(cmds[8 * i + k + 1]) ELSE Nop])

CrfGroup(cmds) == {BurstAt(cmds, i) : i \in {b \in 0 .. 3 : 8 * b < Len(cmds)}}

LEMMA CrfShape == \A cmds : ProgramCrf(cmds) = <<CrfGroup(cmds)>>
  BY DEF ProgramCrf, CrfGroup, BurstAt

HabPacket == Access("HAB", 0, 10239, 31, Zero, NoCommand)
SbPacket == Access("SB", 0, 12287, 31, Zero, NoCommand)

\* All a script's groups are made of.
Sent(j) == Work(j) \cup {HabPacket, SbPacket} \cup CrfGroup(ProgramOf(j))

LEMMA SessionSeq ==
  ASSUME NEW j \in Jobs
  PROVE  /\ Session(ProgramOf(j), Body(j)) \in Seq(SUBSET Sent(j))
         /\ Len(Session(ProgramOf(j), Body(j))) = 3 + Len(Body(j))
         /\ Session(ProgramOf(j), Body(j))[1] = {HabPacket}
         /\ Session(ProgramOf(j), Body(j))[2] = CrfGroup(ProgramOf(j))
         /\ \A i \in 1 .. Len(Body(j)) : Session(ProgramOf(j), Body(j))[2 + i] = Body(j)[i]
         /\ Session(ProgramOf(j), Body(j))[3 + Len(Body(j))] = {SbPacket}
<1> DEFINE crfs == CrfGroup(ProgramOf(j))
           body == Body(j)
           groups == SUBSET Sent(j)
<1>1. Session(ProgramOf(j), Body(j)) = <<{HabPacket}>> \o <<crfs>> \o body \o <<{SbPacket}>>
  <2>1. ProgramCrf(ProgramOf(j)) = <<crfs>>
    BY CrfShape
  <2>2. ToHab = <<{HabPacket}>> /\ ToSb = <<{SbPacket}>>
    BY DEF ToHab, ToSb, HabPacket, SbPacket
  <2> HIDE DEF crfs
  <2> QED BY <2>1, <2>2 DEF Session
<1>2. body \in Seq(groups) /\ crfs \in groups /\ {HabPacket} \in groups /\ {SbPacket} \in groups
  <2>1. body \in Seq(SUBSET Work(j))
    BY BodyIn DEF Groups
  <2>2. SUBSET Work(j) \subseteq groups
    BY DEF Sent
  <2> HIDE DEF body
  <2>3. body \in Seq(groups)
    BY <2>1, <2>2
  <2> QED BY <2>3 DEF Sent
<1> HIDE DEF crfs, body, groups
<1>3. /\ <<{HabPacket}>> \o <<crfs>> \o body \o <<{SbPacket}>> \in Seq(groups)
      /\ Len(<<{HabPacket}>> \o <<crfs>> \o body \o <<{SbPacket}>>) = 3 + Len(body)
      /\ (<<{HabPacket}>> \o <<crfs>> \o body \o <<{SbPacket}>>)[1] = {HabPacket}
      /\ (<<{HabPacket}>> \o <<crfs>> \o body \o <<{SbPacket}>>)[2] = crfs
      /\ \A i \in 1 .. Len(body) : (<<{HabPacket}>> \o <<crfs>> \o body \o <<{SbPacket}>>)[2 + i] = body[i]
      /\ (<<{HabPacket}>> \o <<crfs>> \o body \o <<{SbPacket}>>)[3 + Len(body)] = {SbPacket}
  <2>1. <<{HabPacket}>> \in Seq(groups) /\ <<crfs>> \in Seq(groups) /\ <<{SbPacket}>> \in Seq(groups)
    BY <1>2
  <2> QED BY <1>2, <2>1
<1> QED BY <1>1, <1>3 DEF crfs, body, groups

LEMMA SessionAlone ==
  ASSUME NEW j \in Jobs, j.kernel # "GEMVTREE"
  PROVE  Lead(j) \o Session(ProgramOf(j), Body(j)) = Session(ProgramOf(j), Body(j))
<1> DEFINE s == Session(ProgramOf(j), Body(j))
<1>1. s \in Seq(SUBSET Sent(j))
  BY SessionSeq
<1> HIDE DEF s
<1>2. <<>> \o s = s
  BY <1>1, ConcatEmptySeq
<1> QED BY <1>2 DEF Lead, s

LEMMA ScriptShape ==
  ASSUME NEW j \in Jobs
  PROVE  Script(j) = Lead(j) \o Session(ProgramOf(j), Body(j))
<1> DEFINE session == Session(ProgramOf(j), Body(j))
<1>1. CASE j.kernel \in {"ADD", "MUL", "RELU"}
  <2>1. Script(j) = ExecuteEltwise(j)
    BY <1>1 DEF Script
  <2> DEFINE cmds == Repeated(IF j.kernel = "RELU" THEN ReluCmds ELSE EltwiseCmds(j.kernel), j.tiles - 1)
  <2>2. cmds = ProgramOf(j) /\ EltwiseBody(j) = Body(j)
    BY <1>1 DEF ProgramOf, Body
  <2>3. ExecuteEltwise(j) = Session(cmds, EltwiseBody(j))
    BY DEF ExecuteEltwise, EltwiseBody, Each
  <2> QED BY <1>1, <2>1, <2>2, <2>3, SessionAlone
<1>2. CASE j.kernel = "GEMV"
  <2>1. Script(j) = ExecuteGemv(j)
    BY <1>2 DEF Script
  <2>2. GemvBody(j) = Body(j)
    BY <1>2 DEF Body
  <2>3. ExecuteGemv(j) = <<>> \o Session(ProgramOf(j), GemvBody(j))
    BY <1>2 DEF ExecuteGemv, GemvBody, Each, Pass, ProgramOf
  <2> QED BY <1>2, <2>1, <2>2, <2>3 DEF Lead
<1>3. CASE j.kernel = "GEMVTREE"
  <2>1. Script(j) = ExecuteGemv(j)
    BY <1>3 DEF Script
  <2>2. GemvBody(j) = Body(j)
    BY <1>3 DEF Body
  <2> DEFINE cmds == Repeated(TreeCmds, HalfUp(j.tiles) - 1)
  <2>3. ExecuteGemv(j) = Lead(j) \o Session(cmds, GemvBody(j))
    BY <1>3 DEF ExecuteGemv, GemvBody, Each, Pass, Lead
  <2>4. ProgramOf(j) = cmds
    BY <1>3 DEF ProgramOf
  <2> HIDE DEF cmds
  <2> QED BY <1>3, <2>1, <2>2, <2>3, <2>4
<1>4. CASE j.kernel = "CONV1D"
  <2>1. Script(j) = Conv1D(j)
    BY <1>4 DEF Script
  <2>2. ConvBody(j) = Body(j)
    BY <1>4 DEF Body
  <2>3. Conv1D(j) = Session(ConvCmds, ConvBody(j))
    BY DEF Conv1D, ConvBody, Each, ConvCmds
  <2>4. ProgramOf(j) = ConvCmds
    BY <1>4 DEF ProgramOf
  <2> QED BY <1>4, <2>1, <2>2, <2>3, <2>4, SessionAlone
<1>5. CASE j.kernel = "REDUCTION"
  <2>1. Script(j) = Reduction
    BY <1>5 DEF Script
  <2> DEFINE cmds == EltwiseCmds("ADD") \o <<Loop(65535, 7), End>>
  <2>2. ReductionBody = Body(j)
    BY <1>5 DEF Body
  <2>3. Reduction = Session(cmds, ReductionBody)
    BY DEF Reduction, ReductionBody, Each
  <2>4. ProgramOf(j) = cmds
    BY <1>5 DEF ProgramOf
  <2> HIDE DEF cmds
  <2> QED BY <1>5, <2>1, <2>2, <2>3, <2>4, SessionAlone
<1> QED BY <1>1, <1>2, <1>3, <1>4, <1>5, JobFields

\* The group that loads the program.
CrfAt(j) == Len(Lead(j)) + 2

LEMMA LeadIn == ASSUME NEW j \in Jobs PROVE Lead(j) \in Seq(SUBSET Plain(j))
<1>1. CASE j.kernel = "GEMVTREE"
  <2> DEFINE s == [x \in 1 .. 2 |-> All("WRITE", x - 1, ZeroRow, 0, NumGrf, NoCommand)]
  <2>1. Lead(j) = FlattenSeq(s)
    BY <1>1 DEF Lead, Each
  <2>2. ASSUME NEW b \in {0, 1} PROVE All("WRITE", b, ZeroRow, 0, NumGrf, NoCommand) \in Seq(SUBSET Plain(j))
    <3>1. ZeroRow \in Nat /\ NumGrf \in Nat /\ NoCommand \in Int /\ 0 \in Nat
      BY DEF ZeroRow, NumGrf, NoCommand
    <3>2. Clear(j, b, ZeroRow, 0, NumGrf)
      <4>1. \A n \in 0 .. 7 : ZeroRow + (n \div NumCols) < 8192 /\ CellOf(b, ZeroRow, n) \notin OperandsOf(j)
        BY <1>1, ZeroApart
      <4>2. \A n \in 0 .. 7 : 0 + n = n
        OBVIOUS
      <4> QED BY <4>1, <4>2 DEF Clear, NumGrf
    <3> QED BY <3>1, <3>2, AllIn
  <2>3. s \in [1 .. 2 -> Seq(SUBSET Plain(j))]
    BY <2>2
  <2> HIDE DEF s
  <2>4. FlattenSeq(s) \in Seq(SUBSET Plain(j))
    BY ONLY <2>3, FlattenProperties
  <2> QED BY <2>1, <2>4
<1>2. CASE j.kernel # "GEMVTREE"
  BY <1>2 DEF Lead
<1> QED BY <1>1, <1>2

\* The groups of a script: before the session, its start, the program, and all that
\* follows.
LEMMA ScriptGroups ==
  ASSUME NEW j \in Jobs
  PROVE  /\ Scripts[j] \in Seq(SUBSET Sent(j))
         /\ CrfAt(j) \in 2 .. Len(Scripts[j]) - 1
         /\ \A i \in 1 .. CrfAt(j) - 2 : Scripts[j][i] \subseteq Plain(j)
         /\ Scripts[j][CrfAt(j) - 1] = {HabPacket}
         /\ Scripts[j][CrfAt(j)] = CrfGroup(ProgramOf(j))
         /\ \A i \in CrfAt(j) + 1 .. Len(Scripts[j]) : Scripts[j][i] \subseteq Work(j) \cup {SbPacket}
<1> DEFINE s == Session(ProgramOf(j), Body(j))
           lead == Lead(j)
           b == Body(j)
           S == SUBSET Sent(j)
<1>1. Scripts[j] = lead \o s
  BY ScriptShape DEF Scripts
<1>2. /\ s \in Seq(S) /\ Len(s) = 3 + Len(b) /\ s[1] = {HabPacket} /\ s[2] = CrfGroup(ProgramOf(j))
      /\ (\A i \in 1 .. Len(b) : s[2 + i] = b[i]) /\ s[3 + Len(b)] = {SbPacket}
  BY SessionSeq
<1>3. b \in Seq(SUBSET Work(j)) /\ lead \in Seq(SUBSET Plain(j)) /\ lead \in Seq(S)
  <2>1. b \in Seq(SUBSET Work(j))
    BY BodyIn DEF Groups
  <2>2. lead \in Seq(SUBSET Plain(j))
    BY LeadIn
  <2>3. SUBSET Plain(j) \subseteq S
    BY DEF Sent, Plain
  <2> HIDE DEF lead, S, b
  <2> QED BY <2>1, <2>2, <2>3
<1> HIDE DEF s, lead, b, S
<1>4. /\ Len(lead) \in Nat /\ Len(b) \in Nat
      /\ lead \o s \in Seq(S) /\ Len(lead \o s) = Len(lead) + 3 + Len(b)
      /\ \A i \in 1 .. Len(lead) + Len(s) : (lead \o s)[i] = IF i <= Len(lead) THEN lead[i] ELSE s[i - Len(lead)]
  <2>1. lead \o s \in Seq(S) /\ Len(lead \o s) = Len(lead) + Len(s)
    BY <1>2, <1>3, ConcatProperties
  <2>2. \A i \in 1 .. Len(lead) + Len(s) : (lead \o s)[i] = IF i <= Len(lead) THEN lead[i] ELSE s[i - Len(lead)]
    BY <1>2, <1>3, ConcatProperties
  <2>3. Len(lead) \in Nat /\ Len(b) \in Nat
    BY <1>3, LenProperties
  <2> QED BY <1>2, <2>1, <2>2, <2>3
<1>5. \A i \in 1 .. Len(lead) : (lead \o s)[i] \subseteq Plain(j)
  BY <1>2, <1>3, <1>4
<1>6. (lead \o s)[Len(lead) + 1] = {HabPacket} /\ (lead \o s)[Len(lead) + 2] = CrfGroup(ProgramOf(j))
  BY <1>2, <1>4
<1>7. ASSUME NEW i \in Len(lead) + 3 .. Len(lead \o s)
      PROVE  (lead \o s)[i] \subseteq Work(j) \cup {SbPacket}
  <2>1. (lead \o s)[i] = s[i - Len(lead)]
    BY <1>2, <1>4
  <2>2. CASE i = Len(lead) + 3 + Len(b)
    BY <1>2, <1>4, <2>1, <2>2
  <2>3. CASE i # Len(lead) + 3 + Len(b)
    <3> DEFINE k == i - Len(lead) - 2
    <3>1. k \in 1 .. Len(b) /\ i - Len(lead) = 2 + k
      <4>1. /\ Len(lead) \in Nat /\ Len(b) \in Nat
            /\ i \in Len(lead) + 3 .. Len(lead) + 3 + Len(b) /\ i # Len(lead) + 3 + Len(b)
        BY <1>4, <2>3
      <4> QED BY ONLY <4>1
    <3> HIDE DEF k
    <3>2. s[2 + k] = b[k] /\ b[k] \in SUBSET Work(j)
      BY <1>2, <1>3, <3>1
    <3> QED BY <2>1, <3>1, <3>2
  <2> QED BY <2>2, <2>3
<1>8. CrfAt(j) = Len(lead) + 2
  BY DEF CrfAt, lead
<1> HIDE DEF CrfAt
<1>9. /\ CrfAt(j) \in 2 .. Len(lead \o s) - 1 /\ CrfAt(j) - 2 = Len(lead) /\ CrfAt(j) - 1 = Len(lead) + 1
      /\ CrfAt(j) + 1 = Len(lead) + 3
  BY <1>4, <1>8
<1> QED BY <1>1, <1>4, <1>5, <1>6, <1>7, <1>8, <1>9 DEF S

-----------------------------------------------------------------------------
(* The invariant of the kernels. *)

\* A burst of commands is in the CRF.
Loaded(q) == \A i \in Slots : i \div 8 = q.col - 4 => crf[i] = q.data[i % 8]

Program == CrfGroup(ProgramOf(job))

\* Where the client is in its script.
Place ==
  /\ job \in Jobs /\ at \in 1 .. Len(Scripts[job]) + 1
  /\ left \subseteq IF at \in 1 .. Len(Scripts[job]) THEN Scripts[job][at] ELSE {}

\* Before the session the rank is in SB mode.
Before == mode = "SB" /\ now \in {NoAccess} \cup Plain(job)

\* HAB is entered first.
Entering == at = CrfAt(job) /\ mode = "SB" /\ now = HabPacket /\ left = Program

\* The program is loaded while the rank is in HAB mode; afterwards all of it is in the
\* CRF.
Loading ==
  /\ at = CrfAt(job) => now \in {NoAccess} \cup Program
  /\ at = CrfAt(job) \/ now \in Program => mode = "HAB"
  /\ now \in {NoAccess, SbPacket} \cup Work(job) \cup Program
  /\ \A q \in Program : (at = CrfAt(job) /\ q \in left) \/ q = now \/ Loaded(q)

Stage == IF at < CrfAt(job) THEN Before ELSE Entering \/ Loading

\* No command writes to a bank, and no access to the reserved rows toggles.
NoBankWrites == ~ctl.ra13 /\ \A i \in Slots : crf[i].dst \notin {"EVEN_BANK", "ODD_BANK"}

KInv == Place /\ Stage /\ NoBankWrites /\ OperandsKept

-----------------------------------------------------------------------------
(* What the packets are. *)

LEMMA Switches ==
  /\ HabPacket.op = "HAB" /\ SbPacket.op = "SB" /\ HabPacket # NoAccess /\ SbPacket # NoAccess
  /\ ~IsCrfWrite(HabPacket) /\ ~IsControl(HabPacket) /\ ~IsCrfWrite(SbPacket) /\ ~IsControl(SbPacket)
<1>1. HabPacket.op = "HAB" /\ SbPacket.op = "SB" /\ NoAccess.op = "NONE"
  BY DEF HabPacket, SbPacket, Access, NoAccess
<1> QED BY <1>1 DEF IsCrfWrite, IsControl, ToRegisters

LEMMA WorkFields ==
  ASSUME NEW j, NEW p \in Work(j)
  PROVE  /\ p # NoAccess /\ p.op \in {"READ", "WRITE"} /\ p.bank \in {0, 1} /\ p.row \in Nat
         /\ ~IsCrfWrite(p) /\ (IsControl(p) => p.data.cond \in {0, 2})
         /\ p.op = "WRITE" /\ ~IsReservedRA(p.row) => Cell(p, p.bank) \notin OperandsOf(j)
<1>1. p.op \in {"READ", "WRITE"} /\ p.bank \in {0, 1} /\ p.row \in Nat
  BY DEF Work, Accesses
<1>2. p # NoAccess
  <2>1. NoAccess.op = "NONE"
    BY DEF NoAccess
  <2> QED BY <1>1, <2>1
<1>3. Harmless(j, p)
  BY DEF Work
<1>4. IsControl(p) => p.data.cond \in {0, 2}
  BY <1>3 DEF Harmless, Controls
<1>5. p.op = "WRITE" /\ ~IsReservedRA(p.row) => Cell(p, p.bank) \notin OperandsOf(j)
  <2>1. IsReservedRA(RegRow)
    BY DEF IsReservedRA, RegRow
  <2>2. p.row < 8192 => p.row % 8192 = p.row
    BY <1>1
  <2> QED BY <1>3, <2>1, <2>2 DEF Harmless, ToRegisters, Cell
<1> QED BY <1>1, <1>2, <1>3, <1>4, <1>5 DEF Harmless

LEMMA StoredKeeps ==
  ASSUME NEW c \in Written
  PROVE  /\ Stored(c).type = c.type /\ Stored(c).dst = c.dst
         /\ Stored(c).offset \in Nat /\ Stored(c).offset <= c.offset
<1>1. /\ Stored(c).type = c.type /\ Stored(c).dst = c.dst /\ Stored(c).offset = c.offset % ShortLimit
      /\ c.offset \in Nat
  BY DEF Stored, Written
<1>2. c.offset % ShortLimit \in Nat /\ c.offset % ShortLimit <= c.offset
  BY <1>1 DEF ShortLimit
<1> QED BY <1>1, <1>2

\* The bursts a program is written by.
LEMMA BurstFields ==
  ASSUME NEW cmds, GoodProgram(cmds), NEW b \in 0 .. 3
  PROVE  /\ BurstAt(cmds, b).op = "WRITE" /\ BurstAt(cmds, b).row = RegRow /\ BurstAt(cmds, b).col = 4 + b
         /\ \A k \in 0 .. 7 :
              BurstAt(cmds, b).data[k] = IF 8 * b + k < Len(cmds) THEN Stored(cmds[8 * b + k + 1]) ELSE Nop
         /\ \A k \in 0 .. 7 : BurstAt(cmds, b).data[k].dst \notin {"EVEN_BANK", "ODD_BANK"}
<1> DEFINE q == BurstAt(cmds, b)
<1>1. (4 + b) \div NumCols = 0 /\ (4 + b) % NumCols = 4 + b
  BY DEF NumCols
<1>2. /\ q.op = "WRITE" /\ q.row = RegRow + ((4 + b) \div NumCols) /\ q.col = (4 + b) % NumCols
      /\ q.data = [k \in 0 .. 7 |-> IF 8 * b + k < Len(cmds) THEN Stored(cmds[8 * b + k + 1]) ELSE Nop]
  BY DEF BurstAt, Register, Access
<1> HIDE DEF q
<1>3. \A k \in 0 .. 7 : q.data[k] = IF 8 * b + k < Len(cmds) THEN Stored(cmds[8 * b + k + 1]) ELSE Nop
  BY <1>2
<1>4. ASSUME NEW k \in 0 .. 7 PROVE q.data[k].dst \notin {"EVEN_BANK", "ODD_BANK"}
  <2>1. CASE 8 * b + k < Len(cmds)
    <3> DEFINE i == 8 * b + k + 1
    <3>1. i \in 1 .. Len(cmds) /\ Len(cmds) \in 1 .. 10
      BY <2>1 DEF GoodProgram
    <3> HIDE DEF i
    <3>2. cmds[i] \in Written /\ cmds[i].dst \notin {"EVEN_BANK", "ODD_BANK"}
      <4>1. CASE i = Len(cmds)
        BY <4>1, EndWritten DEF GoodProgram
      <4>2. CASE i # Len(cmds)
        BY <3>1, <4>2 DEF GoodProgram, Sober
      <4> QED BY <4>1, <4>2
    <3>3. Stored(cmds[i]).dst = cmds[i].dst
      BY <3>2, StoredKeeps
    <3> QED BY <1>3, <2>1, <3>2, <3>3 DEF i
  <2>2. CASE ~(8 * b + k < Len(cmds))
    BY <1>3, <2>2, NopWritten
  <2> QED BY <2>1, <2>2
<1>5. RegRow + 0 = RegRow
  BY DEF RegRow
<1> QED BY <1>1, <1>2, <1>3, <1>4, <1>5 DEF q

LEMMA ProgramFields ==
  ASSUME NEW j \in Jobs, NEW q \in CrfGroup(ProgramOf(j))
  PROVE  /\ q # NoAccess /\ q.op = "WRITE" /\ q.row = RegRow /\ q.col \in 4 .. 7
         /\ IsCrfWrite(q) /\ ~IsControl(q) /\ IsReservedRA(q.row)
         /\ \A k \in 0 .. 7 : q.data[k].dst \notin {"EVEN_BANK", "ODD_BANK"}
         /\ \A r \in CrfGroup(ProgramOf(j)) : r.col = q.col => r = q
<1> DEFINE cmds == ProgramOf(j)
<1>1. GoodProgram(cmds)
  BY ProgramsGood
<1> HIDE DEF cmds
<1>2. \A r \in CrfGroup(cmds) : \E b \in 0 .. 3 : r = BurstAt(cmds, b) /\ r.col = 4 + b
  BY <1>1, BurstFields DEF CrfGroup
<1>3. PICK b \in 0 .. 3 : q = BurstAt(cmds, b) /\ q.col = 4 + b
  BY <1>2 DEF cmds
<1>4. /\ q.op = "WRITE" /\ q.row = RegRow
      /\ \A k \in 0 .. 7 : q.data[k].dst \notin {"EVEN_BANK", "ODD_BANK"}
  BY <1>1, <1>3, BurstFields
<1>5. \A r \in CrfGroup(cmds) : r.col = q.col => r = q
  BY <1>2, <1>3
<1>6. q # NoAccess
  <2>1. NoAccess.op = "NONE"
    BY DEF NoAccess
  <2> QED BY <1>4, <2>1
<1>7. q.col \in 4 .. 7 /\ q.col # 0 /\ IsReservedRA(q.row)
  BY <1>3, <1>4 DEF IsReservedRA, RegRow
<1> QED BY <1>4, <1>5, <1>6, <1>7 DEF IsCrfWrite, IsControl, ToRegisters, cmds

\* A program that is in the CRF runs to its EXIT.
\* A command of a program that has been loaded.
LEMMA LoadedAt ==
  ASSUME NEW j \in Jobs, \A q \in CrfGroup(ProgramOf(j)) : Loaded(q), NEW i \in 0 .. Len(ProgramOf(j)) - 1
  PROVE  i \in Slots /\ crf[i] = Stored(ProgramOf(j)[i + 1]) /\ ProgramOf(j)[i + 1] \in Written
<1> DEFINE cmds == ProgramOf(j)
           b == i \div 8
           k == i % 8
<1>1. GoodProgram(cmds) /\ CrfSize \in Nat /\ CrfSize >= 10 /\ i \in 0 .. Len(cmds) - 1
  BY ProgramsGood, Constants, PimKernelAssumption
<1> HIDE DEF cmds
<1>2. Len(cmds) \in 1 .. 10 /\ cmds \in Seq(Written)
  BY <1>1 DEF GoodProgram
<1>3. /\ i \in Slots /\ b \in 0 .. 3 /\ k \in 0 .. 7 /\ i = 8 * b + k /\ 8 * b < Len(cmds)
      /\ i < Len(cmds) /\ i + 1 \in 1 .. Len(cmds)
  <2> DEFINE n == Len(cmds)
  <2>1. n \in 1 .. 10 /\ i \in 0 .. n - 1 /\ CrfSize \in Nat /\ CrfSize >= 10
    BY <1>1, <1>2
  <2> HIDE DEF n
  <2>2. /\ i \in Slots /\ b \in 0 .. 3 /\ k \in 0 .. 7 /\ i = 8 * b + k /\ 8 * b < n
        /\ i < n /\ i + 1 \in 1 .. n
    BY ONLY <2>1 DEF Slots
  <2> QED BY <2>2 DEF n
<1> HIDE DEF b, k
<1>4. BurstAt(cmds, b) \in CrfGroup(cmds)
  BY <1>3 DEF CrfGroup
<1>5. Loaded(BurstAt(cmds, b))
  BY <1>4 DEF cmds
<1>6. BurstAt(cmds, b).col = 4 + b /\ BurstAt(cmds, b).data[k] = Stored(cmds[8 * b + k + 1])
  BY <1>1, <1>3, BurstFields
<1>7. i \div 8 = BurstAt(cmds, b).col - 4
  BY <1>3, <1>6 DEF b
<1>8. crf[i] = BurstAt(cmds, b).data[i % 8]
  BY <1>3, <1>5, <1>7 DEF Loaded
<1>9. crf[i] = Stored(cmds[i + 1])
  BY <1>3, <1>6, <1>8 DEF k
<1> QED BY <1>2, <1>3, <1>9 DEF cmds

LEMMA WellLoaded ==
  ASSUME NEW j \in Jobs, \A q \in CrfGroup(ProgramOf(j)) : Loaded(q)
  PROVE  WellFormed(crf)
<1> DEFINE cmds == ProgramOf(j)
<1>1. GoodProgram(cmds) /\ CrfSize \in Nat /\ CrfSize >= 10
  BY ProgramsGood, Constants, PimKernelAssumption
<1> HIDE DEF cmds
<1>2. /\ Len(cmds) \in 1 .. 10 /\ cmds[Len(cmds)] = End /\ cmds \in Seq(Written)
      /\ \A i \in 1 .. Len(cmds) - 1 : Sober(cmds[i], i)
  BY <1>1 DEF GoodProgram
<1>3. \A i \in 0 .. Len(cmds) - 1 : i \in Slots /\ crf[i] = Stored(cmds[i + 1]) /\ cmds[i + 1] \in Written
  BY LoadedAt DEF cmds
<1> DEFINE e == Len(cmds) - 1
<1>4. e \in Slots /\ crf[e].type = "EXIT"
  <2>1. e \in 0 .. Len(cmds) - 1 /\ e + 1 = Len(cmds)
    <3>1. Len(cmds) \in 1 .. 10
      BY <1>2
    <3>2. \A n \in 1 .. 10 : n - 1 \in 0 .. n - 1 /\ (n - 1) + 1 = n
      OBVIOUS
    <3> QED BY ONLY <3>1, <3>2, Zenon DEF e
  <2> HIDE DEF e
  <2>2. e \in Slots /\ crf[e] = Stored(End)
    BY <1>2, <1>3, <2>1
  <2> QED BY <2>2, StoredKeeps, EndWritten
<1>5. ASSUME NEW i \in 0 .. e - 1, crf[i].type = "JUMP"
      PROVE  crf[i].offset <= i + 1
  <2>1. i \in 0 .. Len(cmds) - 1 /\ i + 1 \in 1 .. Len(cmds) - 1 /\ i + 1 \in Nat
    BY <1>2
  <2>2. crf[i] = Stored(cmds[i + 1]) /\ Sober(cmds[i + 1], i + 1) /\ cmds[i + 1] \in Written
    BY <1>2, <1>3, <2>1
  <2>3. /\ crf[i].type = cmds[i + 1].type /\ crf[i].offset \in Nat /\ crf[i].offset <= cmds[i + 1].offset
        /\ cmds[i + 1].offset \in Nat
    BY <2>2, StoredKeeps DEF Written
  <2>4. cmds[i + 1].offset <= i + 1
    BY <1>5, <2>2, <2>3 DEF Sober
  <2> QED BY <2>1, <2>3, <2>4
<1> QED BY <1>4, <1>5 DEF WellFormed

-----------------------------------------------------------------------------
(* What handling an access does. *)

\* The cells an access may change: the one it writes.
LEMMA CellsWritten ==
  ASSUME IInv, NoBankWrites, Handle
  PROVE  DOMAIN cells' \subseteq DOMAIN cells \cup
           {c \in {Cell(now, now.bank)} : now.op = "WRITE" /\ ~IsReservedRA(now.row)}
<1> DEFINE cell == Cell(now, now.bank)
           more == {c \in {cell} : now.op = "WRITE" /\ ~IsReservedRA(now.row)}
<1>1. \A c, v : DOMAIN Put(c, v) = DOMAIN cells \cup {c}
  BY DEF Put
<1>2. CASE AccessSb
  BY <1>1, <1>2 DEF AccessSb
<1>3. CASE MoveToBank
  BY <1>1, <1>3 DEF MoveToBank, GrfToBank
<1>4. CASE Execute
  <2> DEFINE c == crf[sq.pc]
  <2>1. sq.pc \in Slots /\ c.dst \notin {"EVEN_BANK", "ODD_BANK"} /\ ~IsReservedRA(now.row)
    BY <1>4 DEF IInv, TypeOK, NoBankWrites, Execute, InPIM, Toggles
  <2>2. DoPIMBlock(c, now)
    BY <1>4 DEF Execute
  <2> HIDE DEF c
  <2>3. \/ cells' = cells
        \/ now.op = "WRITE" /\ GrfToBank(now)
    BY <2>1, <2>2 DEF DoPIMBlock, WriteOpd
  <2>4. GrfToBank(now) => DOMAIN cells' = DOMAIN cells \cup {cell}
    BY <1>1 DEF GrfToBank
  <2>5. now.op = "WRITE" => cell \in more
    BY <2>1
  <2> HIDE DEF cell, more
  <2>6. DOMAIN cells' \subseteq DOMAIN cells \cup more
    BY <2>3, <2>4, <2>5
  <2> QED BY <2>6 DEF cell, more
<1>5. CASE cells' = cells
  BY <1>5
<1> QED
  BY <1>2, <1>3, <1>4, <1>5
  DEF Handle, SwitchHab, ControlPIM, WriteCrf, WriteGrf, WriteSrf, MoveFromBank, IgnoreReserved, Jump, Exit

\* The rest of what the invariant speaks of.
LEMMA HandleEffects ==
  ASSUME Handle
  PROVE  /\ now # NoAccess /\ now' \in {now, NoAccess}
         /\ ~IsCrfWrite(now) => crf' = crf
         /\ IsCrfWrite(now) /\ mode = "HAB" => WriteCrf
         /\ IsControl(now) \/ ctl' = ctl
         /\ mode = "SB" => ctl' = ctl /\ crf' = crf
         /\ now.op \in {"READ", "WRITE"} /\ mode = "SB" => mode' = mode /\ now' = NoAccess
         /\ now.op = "HAB" => SwitchHab
         /\ ctl'.ra13 = ctl.ra13 \/ (IsControl(now) /\ ctl'.ra13 = (now.data.cond >= 4))
<1>1. now # NoAccess
  BY DEF Handle, SwitchHab, AccessSb, ControlPIM, WriteCrf, WriteGrf, WriteSrf, MoveToBank,
         MoveFromBank, IgnoreReserved, Jump, Exit, Execute, InHab, InPIM, Busy
<1>2. now' \in {now, NoAccess}
  BY DEF Handle, SwitchHab, AccessSb, ControlPIM, WriteCrf, WriteGrf, WriteSrf, MoveToBank,
         MoveFromBank, IgnoreReserved, Jump, Exit, Execute
<1>3. ~IsCrfWrite(now) => crf' = crf
  BY DEF Handle, SwitchHab, AccessSb, ControlPIM, WriteCrf, WriteGrf, WriteSrf, MoveToBank,
         MoveFromBank, IgnoreReserved, Jump, Exit, Execute
<1>4. ASSUME IsCrfWrite(now), mode = "HAB" PROVE WriteCrf
  <2>1. now.op = "WRITE" /\ now.row = RegRow /\ now.col \in 4 .. 7 /\ IsReservedRA(now.row)
    BY <1>4 DEF IsCrfWrite, ToRegisters, IsReservedRA, RegRow
  <2>2. ~IsControl(now) /\ ~IsGrfWrite(now) /\ ~IsSrfWrite(now)
    BY <2>1 DEF IsControl, IsGrfWrite, IsSrfWrite
  <2> QED
    BY <1>4, <2>1, <2>2
    DEF Handle, SwitchHab, AccessSb, ControlPIM, WriteGrf, WriteSrf, MoveToBank, MoveFromBank,
        IgnoreReserved, Jump, Exit, Execute, InPIM
<1>5. IsControl(now) \/ ctl' = ctl
  BY DEF Handle, SwitchHab, AccessSb, ControlPIM, WriteCrf, WriteGrf, WriteSrf, MoveToBank,
         MoveFromBank, IgnoreReserved, Jump, Exit, Execute
<1>6. mode = "SB" => ctl' = ctl /\ crf' = crf
  BY DEF Handle, SwitchHab, AccessSb, ControlPIM, WriteCrf, WriteGrf, WriteSrf, MoveToBank,
         MoveFromBank, IgnoreReserved, Jump, Exit, Execute, InHab, InPIM
<1>7. now.op \in {"READ", "WRITE"} /\ mode = "SB" => mode' = mode /\ now' = NoAccess
  BY DEF Handle, SwitchHab, AccessSb, ControlPIM, WriteCrf, WriteGrf, WriteSrf, MoveToBank,
         MoveFromBank, IgnoreReserved, Jump, Exit, Execute, InHab, InPIM
<1>8. now.op = "HAB" => SwitchHab
  BY DEF Handle, AccessSb, ControlPIM, WriteCrf, WriteGrf, WriteSrf, MoveToBank,
         MoveFromBank, IgnoreReserved, Jump, Exit, Execute, InHab, InPIM
<1>9. ctl'.ra13 = ctl.ra13 \/ (IsControl(now) /\ ctl'.ra13 = (now.data.cond >= 4))
  BY DEF Handle, SwitchHab, AccessSb, ControlPIM, WriteCrf, WriteGrf, WriteSrf, MoveToBank,
         MoveFromBank, IgnoreReserved, Jump, Exit, Execute
<1> QED BY <1>1, <1>2, <1>3, <1>4, <1>5, <1>6, <1>7, <1>8, <1>9

-----------------------------------------------------------------------------
(* The invariant holds. *)

LEMMA PlaceFacts ==
  ASSUME Place
  PROVE  /\ job \in Jobs /\ Scripts[job] \in Seq(SUBSET Sent(job))
         /\ Len(Scripts[job]) \in Nat /\ at \in Nat /\ CrfAt(job) \in 2 .. Len(Scripts[job]) - 1
         /\ Scripts[job][CrfAt(job)] = Program
         /\ OperandCells[job] = OperandsOf(job)
<1>1. job \in Jobs /\ at \in 1 .. Len(Scripts[job]) + 1
  BY DEF Place
<1>2. Scripts[job] \in Seq(SUBSET Sent(job)) /\ CrfAt(job) \in 2 .. Len(Scripts[job]) - 1
  BY <1>1, ScriptGroups
<1>3. Len(Scripts[job]) \in Nat
  BY <1>2
<1>4. Scripts[job][CrfAt(job)] = Program
  BY <1>1, ScriptGroups DEF Program
<1>5. OperandCells[job] = OperandsOf(job)
  BY <1>1 DEF OperandCells
<1> QED BY <1>1, <1>2, <1>3, <1>4, <1>5

LEMMA InitKInv == Init => KInv
<1> SUFFICES ASSUME Init PROVE KInv
  OBVIOUS
<1>1. job \in Jobs /\ at = 1 /\ left = Scripts[job][1] /\ mode = "SB" /\ now = NoAccess
  BY DEF Init, RankInit
<1>2. Len(Scripts[job]) \in Nat /\ CrfAt(job) \in 2 .. Len(Scripts[job]) - 1
  <2>1. Scripts[job] \in Seq(SUBSET Sent(job)) /\ CrfAt(job) \in 2 .. Len(Scripts[job]) - 1
    BY <1>1, ScriptGroups
  <2> QED BY <2>1
<1>3. Place
  BY <1>1, <1>2 DEF Place
<1>4. Stage
  BY <1>1, <1>2 DEF Stage, Before
<1>5. NoBankWrites
  BY NopWritten DEF NoBankWrites, Init, RankInit
<1>6. OperandsKept
  BY DEF OperandsKept, Init, RankInit
<1> QED BY <1>3, <1>4, <1>5, <1>6 DEF KInv

\* What of an access in flight.
LEMMA InFlight ==
  ASSUME KInv, now # NoAccess
  PROVE  \/ now \in Work(job) /\ ~(now \in Program)
         \/ now = HabPacket \/ now = SbPacket
         \/ now \in Program /\ mode = "HAB" /\ at >= CrfAt(job) /\ Loading
<1>1. job \in Jobs /\ at \in Nat /\ CrfAt(job) \in Nat
  BY PlaceFacts DEF KInv
<1>2. \A p \in Work(job) : p \notin Program
  BY <1>1, WorkFields, ProgramFields DEF Program
<1> QED BY <1>1, <1>2 DEF KInv, Stage, Before, Entering, Loading, Plain

LEMMA RespondKInv == ASSUME IInv, KInv, Handle, UNCHANGED <<job, at, left>> PROVE KInv'
<1>1. /\ Place /\ Stage /\ NoBankWrites /\ OperandsKept
      /\ job \in Jobs /\ at \in Nat /\ CrfAt(job) \in Nat
  BY PlaceFacts DEF KInv
<1>2. now # NoAccess /\ now' \in {now, NoAccess}
  BY HandleEffects
<1>3. Place'
  BY <1>1 DEF Place
<1>4. Program' = Program /\ job' = job /\ at' = at /\ left' = left
  BY DEF Program
<1>5. NoBankWrites'
  <2>1. ~ctl'.ra13
    <3>1. CASE ctl'.ra13 = ctl.ra13
      BY <1>1, <3>1 DEF NoBankWrites
    <3>2. CASE IsControl(now) /\ ctl'.ra13 = (now.data.cond >= 4)
      <4>1. now \in Work(job)
        BY <1>1, <1>2, <3>2, InFlight, Switches, ProgramFields DEF Program
      <4>2. now.data.cond \in {0, 2}
        BY <3>2, <4>1, WorkFields
      <4>3. ~(now.data.cond >= 4)
        BY <4>2
      <4> QED BY <3>2, <4>3, Zenon
    <3> QED BY <3>1, <3>2, HandleEffects
  <2>2. ASSUME NEW i \in Slots PROVE crf'[i].dst \notin {"EVEN_BANK", "ODD_BANK"}
    <3>1. CASE IsCrfWrite(now)
      <4>1. now \in Program /\ mode = "HAB"
        BY <1>2, <3>1, InFlight, Switches, WorkFields
      <4>2. crf' = [k \in Slots |-> IF k \div 8 = now.col - 4 THEN now.data[k % 8] ELSE crf[k]]
        BY <3>1, <4>1, HandleEffects DEF WriteCrf
      <4>3. \A k \in 0 .. 7 : now.data[k].dst \notin {"EVEN_BANK", "ODD_BANK"}
        BY <1>1, <4>1, ProgramFields DEF Program
      <4>4. i % 8 \in 0 .. 7
        BY Constants DEF Slots
      <4>5. crf[i].dst \notin {"EVEN_BANK", "ODD_BANK"}
        BY <1>1 DEF NoBankWrites
      <4> QED BY <4>2, <4>3, <4>4, <4>5
    <3>2. CASE ~IsCrfWrite(now)
      BY <1>1, <3>2, HandleEffects DEF NoBankWrites
    <3> QED BY <3>1, <3>2
  <2> QED BY <2>1, <2>2 DEF NoBankWrites
<1>6. OperandsKept'
  <2>1. OperandCells[job] = OperandsOf(job)
    BY <1>1, PlaceFacts
  <2>2. now.op = "WRITE" /\ ~IsReservedRA(now.row) => Cell(now, now.bank) \notin OperandsOf(job)
    <3>1. CASE now \in Work(job)
      BY <3>1, WorkFields
    <3>2. CASE now \in Program
      BY <1>1, <3>2, ProgramFields DEF Program
    <3>3. CASE now = HabPacket \/ now = SbPacket
      BY <3>3, Switches
    <3> QED BY <1>2, <3>1, <3>2, <3>3, InFlight
  <2>3. DOMAIN cells' \subseteq DOMAIN cells \cup
           {c \in {Cell(now, now.bank)} : now.op = "WRITE" /\ ~IsReservedRA(now.row)}
    BY <1>1, CellsWritten
  <2> QED BY <1>1, <1>4, <2>1, <2>2, <2>3 DEF OperandsKept
<1>7. Stage'
  <2>1. CASE at < CrfAt(job)
    <3>1. mode = "SB" /\ now \in Plain(job)
      BY <1>1, <1>2, <2>1 DEF Stage, Before
    <3>2. now.op \in {"READ", "WRITE"}
      BY <3>1, WorkFields DEF Plain
    <3>3. mode' = "SB" /\ now' = NoAccess
      BY <3>1, <3>2, HandleEffects
    <3> QED BY <1>4, <2>1, <3>3 DEF Stage, Before
  <2>2. CASE at >= CrfAt(job) /\ Entering
    <3>1. at = CrfAt(job) /\ mode = "SB" /\ now = HabPacket /\ left = Program
      BY <2>2 DEF Entering
    <3>2. SwitchHab /\ now.op = "HAB"
      BY <3>1, HandleEffects, Switches
    <3>3. mode' = "HAB" /\ now' = NoAccess
      BY <3>1, <3>2 DEF SwitchHab
    <3>4. Loading'
      BY <1>4, <3>1, <3>3 DEF Loading
    <3> QED BY <1>1, <1>4, <2>2, <3>4 DEF Stage
  <2>3. CASE at >= CrfAt(job) /\ Loading /\ now \in Program
    <3>1. mode = "HAB" /\ IsCrfWrite(now) /\ now.col \in 4 .. 7
      BY <1>1, <2>3, ProgramFields DEF Loading, Program
    <3>2. WriteCrf
      BY <3>1, HandleEffects
    <3>3. /\ mode' = "HAB" /\ now' = NoAccess
          /\ crf' = [i \in Slots |-> IF i \div 8 = now.col - 4 THEN now.data[i % 8] ELSE crf[i]]
      BY <3>1, <3>2 DEF WriteCrf
    <3>4. ASSUME NEW q \in Program
          PROVE  (at' = CrfAt(job') /\ q \in left') \/ Loaded(q)'
      <4>1. CASE at = CrfAt(job) /\ q \in left
        BY <1>4, <4>1
      <4>2. CASE q = now
        BY <3>3, <4>2 DEF Loaded
      <4>3. CASE Loaded(q) /\ q # now
        <5>1. q.col \in 4 .. 7 /\ q.col # now.col
          BY <1>1, <2>3, <4>3, ProgramFields DEF Program
        <5>2. \A i \in Slots : i \div 8 = q.col - 4 => i \div 8 # now.col - 4
          BY <3>1, <5>1
        <5> QED BY <3>3, <4>3, <5>2 DEF Loaded
      <4> QED BY <2>3, <4>1, <4>2, <4>3 DEF Loading
    <3>5. Loading'
      BY <1>4, <3>3, <3>4 DEF Loading
    <3> QED BY <1>1, <1>4, <2>3, <3>5 DEF Stage
  <2>4. CASE at >= CrfAt(job) /\ Loading /\ now \notin Program
    <3>1. at # CrfAt(job) /\ ~IsCrfWrite(now) /\ NoAccess \notin Program
      BY <1>1, <1>2, <2>4, WorkFields, Switches, ProgramFields DEF Loading, Program
    <3>2. crf' = crf
      BY <3>1, HandleEffects
    <3>3. \A q \in Program : Loaded(q)'
      BY <2>4, <3>1, <3>2 DEF Loading, Loaded
    <3>4. now' \notin Program /\ now' \in {NoAccess, SbPacket} \cup Work(job)
      BY <1>2, <2>4, <3>1 DEF Loading
    <3>5. Loading'
      BY <1>4, <3>1, <3>3, <3>4 DEF Loading
    <3> QED BY <1>1, <1>4, <2>4, <3>5 DEF Stage
  <2> QED BY <1>1, <2>1, <2>2, <2>3, <2>4 DEF Stage
<1> QED BY <1>3, <1>5, <1>6, <1>7 DEF KInv

\* An access is sent: it keeps to the protocol.
LEMMA DeliverKInv == ASSUME KInv, Deliver PROVE Receive /\ KInv'
<1>1. /\ Place /\ Stage /\ NoBankWrites /\ OperandsKept
      /\ job \in Jobs /\ at \in Nat /\ CrfAt(job) \in 2 .. Len(Scripts[job]) - 1 /\ Len(Scripts[job]) \in Nat
      /\ Scripts[job] \in Seq(SUBSET Sent(job)) /\ Scripts[job][CrfAt(job)] = Program
  BY PlaceFacts DEF KInv
<1>2. PICK p \in left :
        /\ Arrive(p)
        /\ IF left # {p} THEN left' = left \ {p} /\ at' = at
           ELSE at' = at + 1 /\ left' = IF at < Len(Scripts[job]) THEN Scripts[job][at + 1] ELSE {}
  BY DEF Deliver
<1>3. /\ at \in 1 .. Len(Scripts[job]) /\ left \subseteq Scripts[job][at] /\ p \in Scripts[job][at]
      /\ job' = job
  <2>1. ~(at > Len(Scripts[job])) /\ job' = job
    BY DEF Deliver, Over
  <2> QED BY <1>1, <1>2, <2>1 DEF Place
<1>4. now = NoAccess /\ now' = p /\ UNCHANGED <<mode, crf, sq, ctl, blk, cells, error>>
  BY <1>2 DEF Arrive, Idle
<1>5. p \in Packets
  <2>1. p \in ScriptPackets
    BY <1>1, <1>3 DEF ScriptPackets, Range
  <2> QED BY <2>1, PimKernelAssumption
<1>6. Program' = Program /\ \A q : Loaded(q)' <=> Loaded(q)
  BY <1>3, <1>4 DEF Program, Loaded
<1>7. NoBankWrites' /\ OperandsKept'
  BY <1>1, <1>3, <1>4 DEF NoBankWrites, OperandsKept
<1>8. Place' /\ at' \in {at, at + 1} /\ (at' = at => left' \subseteq left /\ left \subseteq left' \cup {p})
  <2>1. CASE left # {p}
    <3>1. left' = left \ {p} /\ at' = at
      BY <1>2, <2>1
    <3> QED BY <1>1, <1>3, <3>1 DEF Place
  <2>2. CASE left = {p}
    <3>1. at' = at + 1 /\ left' = IF at < Len(Scripts[job]) THEN Scripts[job][at + 1] ELSE {}
      BY <1>2, <2>2
    <3>2. at' \in 1 .. Len(Scripts[job]) + 1 /\ (at' \in 1 .. Len(Scripts[job]) <=> at < Len(Scripts[job]))
      BY <1>1, <1>3, <3>1
    <3>3. at' # at
      BY <1>1, <3>1
    <3> QED BY <1>1, <1>3, <3>1, <3>2, <3>3 DEF Place
  <2> QED BY <2>1, <2>2
<1>9. NoAccess \notin Program
  BY <1>1, ProgramFields DEF Program
<1>10. Disciplined(p) /\ Stage'
  <2>1. CASE at < CrfAt(job) - 1
    <3>1. p \in Plain(job)
      <4>1. at \in 1 .. CrfAt(job) - 2
        BY <1>1, <1>3, <2>1
      <4> QED BY <1>1, <1>3, <4>1, ScriptGroups
    <3>2. p \in Work(job) /\ ~IsControl(p)
      BY <3>1 DEF Plain, IsControl
    <3>3. Disciplined(p)
      BY <3>2, WorkFields DEF Disciplined
    <3>4. at < CrfAt(job) /\ at' < CrfAt(job)
      BY <1>1, <1>8, <2>1
    <3>5. Before'
      BY <1>1, <1>3, <1>4, <3>1, <3>4 DEF Stage, Before
    <3> QED BY <1>3, <3>3, <3>4, <3>5 DEF Stage
  <2>2. CASE at = CrfAt(job) - 1
    <3>1. p = HabPacket /\ left = {p}
      <4>1. Scripts[job][at] = {HabPacket}
        BY <1>1, <2>2, ScriptGroups
      <4> QED BY <1>2, <1>3, <4>1
    <3>2. Disciplined(p)
      BY <3>1, Switches DEF Disciplined
    <3>3. at < CrfAt(job) /\ at' = CrfAt(job) /\ left' = Program
      BY <1>1, <1>2, <2>2, <3>1
    <3>4. mode = "SB"
      BY <1>1, <3>3 DEF Stage, Before
    <3>5. Entering'
      BY <1>3, <1>4, <1>6, <3>1, <3>3, <3>4 DEF Entering
    <3> QED BY <1>1, <1>3, <3>2, <3>3, <3>5 DEF Stage
  <2>3. CASE at >= CrfAt(job)
    <3>1. Loading
      BY <1>1, <1>4, <2>3, Switches DEF Stage, Entering
    <3>2. ~(at' < CrfAt(job'))
      BY <1>1, <1>3, <1>8, <2>3
    <3>3. CASE at = CrfAt(job)
      <4>1. p \in Program /\ mode = "HAB"
        BY <1>1, <1>3, <3>1, <3>3 DEF Loading
      <4>2. Disciplined(p)
        BY <1>1, <4>1, ProgramFields DEF Disciplined, Program
      <4>3. ASSUME NEW q \in Program
            PROVE  (at' = CrfAt(job) /\ q \in left') \/ q = p \/ Loaded(q)'
        <5>1. q \in left \/ Loaded(q)
          BY <1>4, <1>9, <3>1, <3>3 DEF Loading
        <5>2. CASE q \in left
          <6>1. left = {p} \/ (at' = at /\ left' = left \ {p})
            BY <1>2
          <6> QED BY <3>3, <5>2, <6>1
        <5> QED BY <1>6, <5>1, <5>2
      <4>4. Loading'
        BY <1>3, <1>4, <1>6, <4>1, <4>3 DEF Loading
      <4> QED BY <3>2, <4>2, <4>4 DEF Stage
    <3>4. CASE at # CrfAt(job)
      <4>1. p \in Work(job) \cup {SbPacket}
        <5>1. at \in CrfAt(job) + 1 .. Len(Scripts[job])
          BY <1>1, <1>3, <2>3, <3>4
        <5> QED BY <1>1, <1>3, <5>1, ScriptGroups
      <4>2. ~IsCrfWrite(p) /\ p \notin Program
        BY <1>1, <4>1, WorkFields, Switches, ProgramFields DEF Program
      <4>3. \A q \in Program : Loaded(q)
        BY <1>4, <1>9, <3>1, <3>4 DEF Loading
      <4>4. WellFormed(crf)
        BY <1>1, <4>3, WellLoaded DEF Program
      <4>5. at' # CrfAt(job)
        BY <1>1, <1>8, <2>3, <3>4
      <4>6. Loading'
        BY <1>3, <1>4, <1>6, <4>1, <4>2, <4>3, <4>5 DEF Loading
      <4>7. Disciplined(p)
        BY <4>2, <4>4 DEF Disciplined
      <4> QED BY <3>2, <4>6, <4>7 DEF Stage
    <3> QED BY <3>3, <3>4
  <2> QED BY <1>1, <2>1, <2>2, <2>3
<1>11. Receive
  BY <1>2, <1>4, <1>5, <1>10 DEF Receive
<1> QED BY <1>7, <1>8, <1>10, <1>11 DEF KInv

\* Every step of the kernels is one of PimRank, or none.
LEMMA KernelStep == ASSUME IInv, KInv, [Next]_vars PROVE [RankNext]_rankVars /\ IInv' /\ KInv'
<1>1. [RankNext]_rankVars /\ KInv'
  <2>1. CASE Deliver
    BY <2>1, DeliverKInv DEF RankNext
  <2>2. CASE Respond
    BY <2>2, RespondKInv DEF Respond, RankNext
  <2>3. CASE UNCHANGED vars
    <3>1. UNCHANGED <<mode, crf, sq, ctl, blk, cells, now, error, job, at, left>>
      BY <2>3 DEF vars
    <3>2. Program' = Program /\ \A q : Loaded(q)' <=> Loaded(q)
      BY <3>1 DEF Program, Loaded
    <3> QED BY <3>1, <3>2 DEF KInv, Place, Stage, Before, Entering, Loading, NoBankWrites, OperandsKept, rankVars
  <2> QED BY <2>1, <2>2, <2>3 DEF Next
<1> QED BY <1>1, StepIInv

LEMMA KernelInvariant == Spec => [](IInv /\ KInv)
<1>1. Init => IInv /\ KInv
  BY InitIInv, InitKInv DEF Init
<1>2. IInv /\ KInv /\ [Next]_vars => (IInv /\ KInv)'
  BY KernelStep
<1> QED BY <1>1, <1>2, PTL DEF Spec

\* The kernels keep to the protocol the sequencer relies on: each loads a program that
\* ends in EXIT before it switches HAB_PIM on, and none writes the CRF while it runs.
THEOREM KernelsImplementRank == Spec => ImplementsRank
<1>1. Init => RankInit
  BY DEF Init
<1>2. (IInv /\ KInv) /\ [Next]_vars => [RankNext]_rankVars
  BY KernelStep
<1> QED BY <1>1, <1>2, KernelInvariant, PTL DEF Spec, RankSpec, ImplementsRank

\* No kernel writes over the operands it was given.
THEOREM KernelsKeepOperands == Spec => []OperandsKept
<1>1. KInv => OperandsKept
  BY DEF KInv
<1> QED BY <1>1, KernelInvariant, PTL

\* So the sequencer stays on the program of every kernel.
THEOREM KernelsStayInside == Spec => []SequencerInside
  BY KernelsImplementRank, StaysInside, PTL DEF ImplementsRank

-----------------------------------------------------------------------------
(* Scripts, one group after another. *)

\* The queues of s laid end to end, up to each of them.
Flats(s) == CHOOSE all : all = [i \in 1 .. Len(s) |-> IF i = 1 THEN s[i] ELSE all[i - 1] \o s[i]]

\* How FlattenSeq lays queues end to end, one more at a time.
LEMMA FlattenSteps ==
  ASSUME NEW S, NEW n \in Nat, n # 0, NEW s \in [1 .. n -> Seq(S)]
  PROVE  /\ FlattenSeq(s) = Flats(s)[n] /\ Flats(s)[1] = s[1]
         /\ \A i \in 2 .. n : Flats(s)[i] = Flats(s)[i - 1] \o s[i]
<1>1. s \in Seq(Seq(S)) /\ Len(s) = n
  BY FunctionSeq
<1> DEFINE Laid(all) == all = [i \in 1 .. n |-> IF i = 1 THEN s[i] ELSE all[i - 1] \o s[i]]
           flat == Flats(s)
<1>2. Laid(flat)
  <2>1. \E all : Laid(all)
    BY FlattenExists
  <2> QED BY <1>1, <2>1 DEF Flats
<1>3. FlattenSeq(s) = flat[n]
  BY <1>1 DEF FlattenSeq, Flats
<1> HIDE DEF flat
<1>4. flat[1] = s[1] /\ \A i \in 2 .. n : flat[i] = flat[i - 1] \o s[i]
  <2>1. \A i \in 1 .. n : flat[i] = IF i = 1 THEN s[i] ELSE flat[i - 1] \o s[i]
    BY <1>2
  <2>2. 1 \in 1 .. n /\ \A i \in 2 .. n : i \in 1 .. n /\ i # 1
    OBVIOUS
  <2> QED BY <2>1, <2>2, Zenon
<1> QED BY <1>3, <1>4 DEF flat

LEMMA FlatsType ==
  ASSUME NEW S, NEW n \in Nat, n # 0, NEW s \in [1 .. n -> Seq(S)]
  PROVE  \A i \in 1 .. n : Flats(s)[i] \in Seq(S)
<1> DEFINE flat == Flats(s)
<1>1. flat[1] = s[1] /\ \A i \in 2 .. n : flat[i] = flat[i - 1] \o s[i]
  BY FlattenSteps
<1> HIDE DEF flat
<1> DEFINE Bad == {i \in 1 .. n : flat[i] \notin Seq(S)}
<1>2. Bad = {}
  <2> SUFFICES ASSUME Bad # {} PROVE FALSE
    OBVIOUS
  <2>1. Bad \subseteq Nat
    OBVIOUS
  <2>2. PICK m \in Bad : \A k \in Bad : m <= k
    BY <2>1, NatMin
  <2>3. m \in 1 .. n /\ s[m] \in Seq(S)
    BY <2>2
  <2>4. m # 1
    BY <1>1, <2>2, <2>3
  <2>5. m - 1 \in 1 .. n /\ m - 1 \notin Bad /\ m \in 2 .. n
    BY <2>2, <2>3, <2>4
  <2>6. flat[m - 1] \in Seq(S) /\ flat[m] = flat[m - 1] \o s[m]
    BY <1>1, <2>3, <2>4, <2>5
  <2>7. flat[m] \in Seq(S)
    BY <2>3, <2>6, ConcatProperties
  <2> QED BY <2>2, <2>7
<1> QED BY <1>2 DEF flat


\* What the rank has that decides whether an access triggers a command, and which.
Cmd(j, i) == Stored(ProgramOf(j)[i + 1])
InProgram(j) == 0 .. Len(ProgramOf(j)) - 1

\* The sequencer once a JUMP it is at has been followed, and after the command it is
\* then at.
Jumped(j, s) ==
  LET c == Cmd(j, s.pc)
      load == s.lastJump # s.pc /\ c.count > 0
      more == IF load THEN c.count ELSE s.jumps
  IN IF c.type = "JUMP"
     THEN [s EXCEPT !.lastJump = IF load THEN s.pc ELSE @,
                    !.jumps = IF more > 0 THEN more - 1 ELSE more,
                    !.pc = IF more > 0 THEN @ - c.offset + 1 ELSE @ + 1]
     ELSE s

Repeated1(j, s) ==
  LET c == Cmd(j, s.pc)
      more == IF s.lastRepeat # s.pc THEN Repeats(c) ELSE s.repeats
  IN IF ~Repeating(c) THEN [s EXCEPT !.pc = @ + 1]
     ELSE IF more > 0 THEN [s EXCEPT !.lastRepeat = s.pc, !.repeats = more - 1]
     ELSE [s EXCEPT !.lastRepeat = -1, !.repeats = more, !.pc = @ + 1]

Passed(j, s) == [Repeated1(j, s) EXCEPT !.exit = Cmd(j, Repeated1(j, s).pc).type = "EXIT"]

\* Whether an access triggers a command in a state of the rank, and what handling it
\* leaves.
Triggers(x, p) ==
  /\ p.op \in {"READ", "WRITE"} /\ x.mode = "HAB_PIM"
  /\ x.ctl.opMode /\ ~x.sq.exit
  /\ x.ctl.ra13 \/ ~IsReservedRA(p.row)
  /\ IF p.bank % 2 = 0 THEN x.ctl.even ELSE x.ctl.odd

After(j, x, p) ==
  IF Triggers(x, p) THEN [x EXCEPT !.sq = Passed(j, Jumped(j, x.sq))]
  ELSE IF p.op = "HAB" THEN [x EXCEPT !.mode = IF x.mode = "SB" THEN "HAB" ELSE x.mode]
  ELSE IF p.op = "SB" THEN [x EXCEPT !.mode = IF x.mode = "HAB" THEN "SB" ELSE x.mode]
  ELSE IF x.mode # "SB" /\ IsControl(p)
       THEN [mode |-> IF p.data.op THEN "HAB_PIM" ELSE "HAB",
             sq |-> IF p.data.op THEN Restarted ELSE x.sq,
             ctl |-> [opMode |-> p.data.op,
                      even |-> p.data.cond % 2 = 0,
                      odd |-> (p.data.cond \div 2) % 2 = 0,
                      ra13 |-> p.data.cond >= 4]]
  ELSE x

\* The access finds in that state what it was sent for.
Due(j, x, p) ==
  IF p.meant = NoCommand THEN ~Triggers(x, p)
  ELSE /\ Triggers(x, p) /\ x.sq.pc \in InProgram(j) /\ Jumped(j, x.sq).pc = p.meant
       /\ p.meant \in InProgram(j) /\ p.meant + 1 \in InProgram(j)
       /\ Cmd(j, p.meant).type \notin {"JUMP", "EXIT"}

\* A program that is switched off has run to its end.
Spent(j, x, p) ==
  x.mode = "HAB_PIM" /\ IsControl(p) /\ (j.kernel = "GEMVTREE" => j.tiles = 2)
    => \/ x.sq.exit
       \/ /\ x.sq.pc \in InProgram(j) /\ Jumped(j, x.sq).pc \in InProgram(j)
          /\ Cmd(j, Jumped(j, x.sq).pc).type = "EXIT"

\* The accesses of a group, in whatever order, take the rank from x to y.
Serves(j, g, x, y) ==
  \E f : /\ IsFiniteSet(g) /\ g # {} /\ f[0] = x /\ f[Cardinality(g)] = y
         /\ \A k \in 0 .. Cardinality(g) - 1 : \A p \in g :
              Due(j, f[k], p) /\ Spent(j, f[k], p) /\ f[k + 1] = After(j, f[k], p)

\* So do the groups of a script, one after the other.
Walks(j, s, x, y) ==
  \E e : /\ e[1] = x /\ e[Len(s) + 1] = y
         /\ \A i \in 1 .. Len(s) : Serves(j, s[i], e[i], e[i + 1])

\* And every state of A to one of B.
Leads(j, s, A, B) == \A x \in A : \E y \in B : Walks(j, s, x, y)

LEMMA WalksNowhere == \A j, x : Walks(j, <<>>, x, x)
<1> SUFFICES ASSUME NEW j, NEW x PROVE Walks(j, <<>>, x, x)
  OBVIOUS
<1> DEFINE e == [i \in {1} |-> x]
<1>1. e[1] = x /\ Len(<<>>) + 1 = 1 /\ 1 .. Len(<<>>) = {}
  BY EmptySeq
<1> HIDE DEF e
<1> QED BY ONLY <1>1 DEF Walks

LEMMA WalksOne ==
  ASSUME NEW j, NEW g, NEW x, NEW y, Serves(j, g, x, y)
  PROVE  Walks(j, <<g>>, x, y)
<1> DEFINE e == [i \in {1, 2} |-> IF i = 1 THEN x ELSE y]
<1>1. e[1] = x /\ e[2] = y
  OBVIOUS
<1> HIDE DEF e
<1>2. Len(<<g>>) = 1 /\ <<g>>[1] = g /\ 1 .. 1 = {1} /\ 1 + 1 = 2
  OBVIOUS
<1>3. \A i \in 1 .. Len(<<g>>) : Serves(j, <<g>>[i], e[i], e[i + 1])
  BY <1>1, <1>2
<1> QED BY <1>1, <1>2, <1>3 DEF Walks

LEMMA WalksOn ==
  ASSUME NEW j, NEW S, NEW s \in Seq(S), NEW t \in Seq(S), NEW x, NEW y, NEW z,
         Walks(j, s, x, y), Walks(j, t, y, z)
  PROVE  Walks(j, s \o t, x, z)
<1>1. PICK a : /\ a[1] = x /\ a[Len(s) + 1] = y
               /\ \A i \in 1 .. Len(s) : Serves(j, s[i], a[i], a[i + 1])
  BY DEF Walks
<1>2. PICK b : /\ b[1] = y /\ b[Len(t) + 1] = z
               /\ \A i \in 1 .. Len(t) : Serves(j, t[i], b[i], b[i + 1])
  BY DEF Walks
<1>3. /\ Len(s \o t) = Len(s) + Len(t) /\ Len(s) \in Nat /\ Len(t) \in Nat
      /\ \A i \in 1 .. Len(s) + Len(t) : (s \o t)[i] = IF i <= Len(s) THEN s[i] ELSE t[i - Len(s)]
  BY ConcatProperties
<1> DEFINE e == [i \in 1 .. Len(s) + Len(t) + 1 |-> IF i <= Len(s) THEN a[i] ELSE b[i - Len(s)]]
<1>4. \A i \in 1 .. Len(s) + Len(t) + 1 : e[i] = IF i <= Len(s) THEN a[i] ELSE b[i - Len(s)]
  OBVIOUS
<1> HIDE DEF e
<1>5. e[1] = x
  <2>1. CASE Len(s) = 0
    <3>1. 1 \in 1 .. Len(s) + Len(t) + 1 /\ ~(1 <= Len(s)) /\ 1 - Len(s) = 1 /\ Len(s) + 1 = 1
      BY <1>3, <2>1
    <3> QED BY <1>1, <1>2, <1>4, <3>1
  <2>2. CASE Len(s) # 0
    <3>1. 1 \in 1 .. Len(s) + Len(t) + 1 /\ 1 <= Len(s)
      BY <1>3, <2>2
    <3> QED BY <1>1, <1>4, <3>1
  <2> QED BY <2>1, <2>2
<1>6. e[Len(s) + Len(t) + 1] = z
  <2>1. /\ Len(s) + Len(t) + 1 \in 1 .. Len(s) + Len(t) + 1 /\ ~(Len(s) + Len(t) + 1 <= Len(s))
        /\ (Len(s) + Len(t) + 1) - Len(s) = Len(t) + 1
    BY <1>3
  <2> QED BY <1>2, <1>4, <2>1
<1>7. ASSUME NEW i \in 1 .. Len(s) + Len(t)
      PROVE  Serves(j, (s \o t)[i], e[i], e[i + 1])
  <2>1. i \in 1 .. Len(s) + Len(t) + 1 /\ i + 1 \in 1 .. Len(s) + Len(t) + 1
    BY <1>3
  <2>2. CASE i <= Len(s)
    <3>1. i \in 1 .. Len(s)
      BY <1>3, <2>2
    <3>2. (s \o t)[i] = s[i] /\ e[i] = a[i]
      BY <1>3, <1>4, <2>1, <2>2
    <3>3. e[i + 1] = a[i + 1]
      <4>1. CASE i + 1 <= Len(s)
        BY <1>4, <2>1, <4>1
      <4>2. CASE ~(i + 1 <= Len(s))
        <5>1. i + 1 = Len(s) + 1 /\ (i + 1) - Len(s) = 1
          BY <1>3, <2>2, <4>2
        <5> QED BY <1>1, <1>2, <1>4, <2>1, <4>2, <5>1
      <4> QED BY <4>1, <4>2
    <3>4. Serves(j, s[i], a[i], a[i + 1])
      BY <1>1, <3>1
    <3> QED BY ONLY <3>2, <3>3, <3>4
  <2>3. CASE ~(i <= Len(s))
    <3> DEFINE k == i - Len(s)
    <3>1. k \in 1 .. Len(t) /\ ~(i + 1 <= Len(s)) /\ (i + 1) - Len(s) = k + 1
      BY <1>3, <2>3
    <3>2. (s \o t)[i] = t[k] /\ e[i] = b[k]
      BY <1>3, <1>4, <2>1, <2>3
    <3>3. e[i + 1] = b[k + 1]
      BY <1>4, <2>1, <3>1
    <3> HIDE DEF k
    <3>4. Serves(j, t[k], b[k], b[k + 1])
      BY <1>2, <3>1
    <3> QED BY ONLY <3>2, <3>3, <3>4
  <2> QED BY <2>2, <2>3
<1> QED BY <1>3, <1>5, <1>6, <1>7 DEF Walks

LEMMA LeadsOn ==
  ASSUME NEW j, NEW S, NEW s \in Seq(S), NEW t \in Seq(S), NEW A, NEW B, NEW C,
         Leads(j, s, A, B), Leads(j, t, B, C)
  PROVE  Leads(j, s \o t, A, C)
<1> SUFFICES ASSUME NEW x \in A PROVE \E z \in C : Walks(j, s \o t, x, z)
  BY DEF Leads
<1>1. PICK y \in B : Walks(j, s, x, y)
  BY DEF Leads
<1>2. PICK z \in C : Walks(j, t, y, z)
  BY DEF Leads
<1> QED BY <1>1, <1>2, WalksOn

\* Loops: the states between the passes are given by E.
LEMMA LeadsEach ==
  ASSUME NEW j, NEW S, NEW n \in Nat, NEW s \in [1 .. n -> Seq(S)], NEW E,
         \A i \in 1 .. n : Leads(j, s[i], E[i - 1], E[i])
  PROVE  Leads(j, FlattenSeq(s), E[0], E[n]) /\ FlattenSeq(s) \in Seq(S)
<1>1. CASE n = 0
  <2>1. s \in Seq(Seq(S)) /\ Len(s) = 0
    BY <1>1, FunctionSeq
  <2>2. s = <<>> /\ FlattenSeq(s) = s
    BY <2>1, EmptySeq DEF FlattenSeq
  <2>3. <<>> \in Seq(S)
    BY EmptySeq
  <2> QED BY <1>1, <2>2, <2>3, WalksNowhere DEF Leads
<1>2. CASE n # 0
  <2> DEFINE flat == Flats(s)
  <2>1. FlattenSeq(s) = flat[n] /\ flat[1] = s[1] /\ \A i \in 2 .. n : flat[i] = flat[i - 1] \o s[i]
    BY <1>2, FlattenSteps
  <2>2. \A i \in 1 .. n : flat[i] \in Seq(S)
    BY <1>2, FlatsType
  <2> HIDE DEF flat
  <2> DEFINE G == {m \in 0 .. n - 1 : Leads(j, flat[m + 1], E[0], E[m + 1])}
  <2>3. 0 \in G
    <3>1. 1 \in 1 .. n /\ 0 \in 0 .. n - 1 /\ 0 + 1 = 1 /\ 1 - 1 = 0
      BY <1>2
    <3>2. Leads(j, s[1], E[0], E[1])
      BY <3>1
    <3> QED BY <2>1, <3>1, <3>2
  <2>4. ASSUME NEW m \in 0 .. (n - 1) - 1, m \in G
        PROVE  m + 1 \in G
    <3>1. /\ m + 1 \in 0 .. n - 1 /\ m + 1 \in 1 .. n /\ m + 2 \in 1 .. n /\ m + 2 \in 2 .. n
          /\ (m + 1) + 1 = m + 2 /\ (m + 2) - 1 = m + 1
      BY <1>2
    <3>2. Leads(j, flat[m + 1], E[0], E[m + 1])
      BY <2>4
    <3>3. Leads(j, s[m + 2], E[m + 1], E[m + 2])
      BY <3>1
    <3>4. flat[m + 2] = flat[m + 1] \o s[m + 2] /\ flat[m + 1] \in Seq(S) /\ s[m + 2] \in Seq(S)
      BY <2>1, <2>2, <3>1
    <3>5. Leads(j, flat[m + 2], E[0], E[m + 2])
      BY ONLY <3>2, <3>3, <3>4, LeadsOn
    <3> QED BY <3>1, <3>5
  <2>5. n - 1 \in Nat /\ n - 1 \in 0 .. n - 1 /\ (n - 1) + 1 = n /\ n \in 1 .. n
    BY <1>2
  <2>6. \A i \in 0 .. n - 1 : i \in G
    <3> HIDE DEF G
    <3> QED BY ONLY <2>3, <2>4, <2>5, Climb
  <2>7. Leads(j, flat[n], E[0], E[n])
    <3>1. n - 1 \in G
      BY <2>5, <2>6
    <3> QED BY <2>5, <3>1
  <2> QED BY <2>1, <2>2, <2>5, <2>7
<1> QED BY <1>1, <1>2

-----------------------------------------------------------------------------
(* Groups that take the rank from one state to another. *)

Sequencers == [pc : Int, lastJump : Int, jumps : Int, lastRepeat : Int, repeats : Int, exit : BOOLEAN]
Toggling == [opMode : BOOLEAN, even : BOOLEAN, odd : BOOLEAN, ra13 : BOOLEAN]

\* The rank while no program runs.
Single == [mode : {"SB"}, sq : Sequencers, ctl : Toggling]
Off == [mode : {"HAB"}, sq : Sequencers, ctl : Toggling]

\* The rank between two groups while a program runs, under a control word with this
\* condition: only its first command has found the repeat counter as Restarted left it.
Seqr(pc, lj, jm, lr, rp) ==
  [pc |-> pc, lastJump |-> lj, jumps |-> jm, lastRepeat |-> lr, repeats |-> rp, exit |-> FALSE]
AtEnd(pc, lj, jm, rp) ==
  [pc |-> pc, lastJump |-> lj, jumps |-> jm, lastRepeat |-> -1, repeats |-> rp, exit |-> TRUE]
Flags(cond) == [opMode |-> TRUE, even |-> TRUE, odd |-> cond = 0, ra13 |-> FALSE]
Running(s, cond) == [mode |-> "HAB_PIM", sq |-> s, ctl |-> Flags(cond)]
OnIt(cond, pc, lj, jm) == {Running(Seqr(pc, lj, jm, -1, r), cond) : r \in {-1, 0}}
Done(cond) == {Running(s, cond) : s \in {t \in Sequencers : t.exit = TRUE}}

\* The group of addTransactionAll.
GroupOf(op, bank, row, col, n, meant) == {Access(op, bank, row, col + i, Zero, meant) : i \in 0 .. n - 1}

LEMMA GroupSize ==
  ASSUME NEW op, NEW bank, NEW row \in Nat, NEW col \in Nat, NEW n \in Nat \ {0}, NEW meant
  PROVE  /\ IsFiniteSet(GroupOf(op, bank, row, col, n, meant))
         /\ Cardinality(GroupOf(op, bank, row, col, n, meant)) = n
         /\ GroupOf(op, bank, row, col, n, meant) # {}
<1> DEFINE T == GroupOf(op, bank, row, col, n, meant)
           f == [i \in 0 .. n - 1 |-> Access(op, bank, row, col + i, Zero, meant)]
<1>1. f \in Surjection(0 .. n - 1, T)
  BY DEF Surjection, GroupOf
<1>2. ASSUME NEW i \in 0 .. n - 1, NEW k \in 0 .. n - 1, f[i] = f[k]
      PROVE  i = k
  <2>1. Access(op, bank, row, col + i, Zero, meant) = Access(op, bank, row, col + k, Zero, meant)
    BY <1>2
  <2>2. /\ row + ((col + i) \div NumCols) = row + ((col + k) \div NumCols)
        /\ (col + i) % NumCols = (col + k) % NumCols
    <3> DEFINE p == Access(op, bank, row, col + i, Zero, meant)
               q == Access(op, bank, row, col + k, Zero, meant)
    <3>1. /\ p.row = row + ((col + i) \div NumCols) /\ p.col = (col + i) % NumCols
          /\ q.row = row + ((col + k) \div NumCols) /\ q.col = (col + k) % NumCols
      BY DEF Access
    <3> HIDE DEF p, q
    <3>2. p = q
      BY <2>1 DEF p, q
    <3> QED BY <3>1, <3>2
  <2>3. /\ (col + i) \div NumCols \in Nat /\ (col + i) % NumCols \in Nat
        /\ (col + k) \div NumCols \in Nat /\ (col + k) % NumCols \in Nat
        /\ col + i = NumCols * ((col + i) \div NumCols) + ((col + i) % NumCols)
        /\ col + k = NumCols * ((col + k) \div NumCols) + ((col + k) % NumCols)
    <3>1. col + i \in Nat /\ col + k \in Nat
      OBVIOUS
    <3> QED BY <3>1, Carry
  <2>4. col + i = col + k
    BY <2>2, <2>3
  <2> QED BY <2>4
<1>3. f \in Injection(0 .. n - 1, T)
  BY <1>1, <1>2 DEF Injection, IsInjective, Surjection
<1>4. IsFiniteSet(0 .. n - 1) /\ Cardinality(0 .. n - 1) = n
  <2>1. 0 \in Int /\ n - 1 \in Int /\ ~(0 > n - 1) /\ (n - 1) - 0 + 1 = n
    OBVIOUS
  <2> QED BY <2>1, FS_Interval
<1>5. IsFiniteSet(T) /\ Cardinality(T) = Cardinality(0 .. n - 1)
  <2> HIDE DEF f, T
  <2> QED BY <1>1, <1>3, <1>4, FS_Surjection
<1>6. T # {}
  BY DEF GroupOf
<1> QED BY <1>4, <1>5, <1>6

\* A group that changes nothing.
LEMMA QuietServes ==
  ASSUME NEW j, NEW x, NEW g, IsFiniteSet(g), g # {},
         \A p \in g : /\ p.meant = NoCommand /\ p.op \in {"READ", "WRITE"} /\ ~Triggers(x, p)
                      /\ ~IsControl(p)
  PROVE  Serves(j, g, x, x)
<1> DEFINE f == [k \in 0 .. Cardinality(g) |-> x]
<1>1. Cardinality(g) \in Nat
  BY FS_CardinalityType
<1>2. \A k \in 0 .. Cardinality(g) : f[k] = x
  OBVIOUS
<1> HIDE DEF f
<1>3. f[0] = x /\ f[Cardinality(g)] = x /\ \A k \in 0 .. Cardinality(g) - 1 : f[k] = x /\ f[k + 1] = x
  BY <1>1, <1>2
<1>4. \A p \in g : Due(j, x, p) /\ Spent(j, x, p) /\ After(j, x, p) = x
  BY DEF Due, Spent, After
<1> QED BY <1>3, <1>4 DEF Serves

\* A group of one access.
LEMMA OneServes ==
  ASSUME NEW j, NEW x, NEW p, Due(j, x, p), Spent(j, x, p)
  PROVE  Serves(j, {p}, x, After(j, x, p))
<1> DEFINE f == [k \in 0 .. 1 |-> IF k = 0 THEN x ELSE After(j, x, p)]
<1>1. f[0] = x /\ f[1] = After(j, x, p)
  OBVIOUS
<1>2. IsFiniteSet({p}) /\ Cardinality({p}) = 1
  BY FS_Singleton
<1> HIDE DEF f
<1>3. 0 .. 1 - 1 = {0} /\ 0 + 1 = 1
  OBVIOUS
<1> QED BY <1>1, <1>2, <1>3 DEF Serves

-----------------------------------------------------------------------------
(* Groups that trigger a command. *)

\* A command that stays for the n accesses sent for it.
Lasts(j, m, n) ==
  /\ m \in InProgram(j) /\ m + 1 \in InProgram(j) /\ Cmd(j, m).type \notin {"JUMP", "EXIT"}
  /\ IF Repeating(Cmd(j, m)) THEN Repeats(Cmd(j, m)) = n - 1 ELSE n = 1

IsEnd(j, m) == Cmd(j, m).type = "EXIT"

LEMMA JumpedStays ==
  ASSUME NEW j, NEW pc, NEW lj, NEW jm, NEW lr, NEW rp, Cmd(j, pc).type # "JUMP"
  PROVE  Jumped(j, Seqr(pc, lj, jm, lr, rp)) = Seqr(pc, lj, jm, lr, rp)
<1>1. Seqr(pc, lj, jm, lr, rp).pc = pc
  BY DEF Seqr
<1> QED BY <1>1 DEF Jumped

\* A jump that is taken, on loading the counter or with what is left in it.
LEMMA JumpedBack ==
  ASSUME NEW j, NEW pc \in Int, NEW lj \in Int, NEW jm \in Int, NEW lr, NEW rp,
         Cmd(j, pc).type = "JUMP", Cmd(j, pc).count \in Nat, Cmd(j, pc).count > 0,
         Cmd(j, pc).offset \in Nat, lj = pc => jm > 0
  PROVE  Jumped(j, Seqr(pc, lj, jm, lr, rp))
           = Seqr(pc - Cmd(j, pc).offset + 1, pc, (IF lj = pc THEN jm ELSE Cmd(j, pc).count) - 1, lr, rp)
<1> DEFINE s == Seqr(pc, lj, jm, lr, rp)
           c == Cmd(j, pc)
           more == IF lj = pc THEN jm ELSE c.count
<1>1. s.pc = pc /\ s.lastJump = lj /\ s.jumps = jm
  BY DEF Seqr
<1>2. (s.lastJump # s.pc /\ c.count > 0) <=> lj # pc
  BY <1>1
<1>3. more > 0
  OBVIOUS
<1>4. Jumped(j, s) = [s EXCEPT !.lastJump = IF lj # pc THEN pc ELSE @, !.jumps = more - 1,
                               !.pc = @ - c.offset + 1]
  <2>1. (IF s.lastJump # s.pc /\ c.count > 0 THEN c.count ELSE s.jumps) = more
    BY <1>1, <1>2
  <2> HIDE DEF s, more
  <2>2. c.type = "JUMP" /\ c = Cmd(j, s.pc)
    BY <1>1
  <2> HIDE DEF c
  <2> QED BY ONLY <1>1, <1>2, <1>3, <2>1, <2>2 DEF Jumped
<1> HIDE DEF more
<1>5. Jumped(j, s) = Seqr(pc - c.offset + 1, pc, more - 1, lr, rp)
  BY <1>4 DEF Seqr
<1> QED BY <1>5 DEF more

\* A jump that has run out.
LEMMA JumpedOn ==
  ASSUME NEW j, NEW pc \in Int, NEW lr, NEW rp, Cmd(j, pc).type = "JUMP"
  PROVE  Jumped(j, Seqr(pc, pc, 0, lr, rp)) = Seqr(pc + 1, pc, 0, lr, rp)
<1> DEFINE s == Seqr(pc, pc, 0, lr, rp)
           c == Cmd(j, pc)
<1>1. s.pc = pc /\ s.lastJump = pc /\ s.jumps = 0
  BY DEF Seqr
<1>2. Jumped(j, s) = [s EXCEPT !.lastJump = @, !.jumps = 0, !.pc = @ + 1]
  <2>1. (IF s.lastJump # s.pc /\ c.count > 0 THEN c.count ELSE s.jumps) = 0
    BY <1>1
  <2> HIDE DEF s
  <2>2. c.type = "JUMP" /\ c = Cmd(j, s.pc)
    BY <1>1
  <2> HIDE DEF c
  <2>3. ~(0 > 0)
    OBVIOUS
  <2> QED BY ONLY <1>1, <2>1, <2>2, <2>3 DEF Jumped
<1> QED BY <1>2 DEF Seqr

\* What an executed command leaves, once it is known where it leaves the sequencer.
LEMMA PassedTo ==
  ASSUME NEW j, NEW s, NEW pc, NEW lj, NEW jm, NEW lr, NEW rp,
         Repeated1(j, s) = Seqr(pc, lj, jm, lr, rp)
  PROVE  /\ ~IsEnd(j, pc) => Passed(j, s) = Seqr(pc, lj, jm, lr, rp)
         /\ IsEnd(j, pc) /\ lr = -1 => Passed(j, s) = AtEnd(pc, lj, jm, rp)
<1>1. Repeated1(j, s).pc = pc
  BY DEF Seqr
<1>2. Passed(j, s) = [Repeated1(j, s) EXCEPT !.exit = Cmd(j, pc).type = "EXIT"]
  BY <1>1 DEF Passed
<1>3. Passed(j, s) = [pc |-> pc, lastJump |-> lj, jumps |-> jm, lastRepeat |-> lr, repeats |-> rp,
                      exit |-> Cmd(j, pc).type = "EXIT"]
  BY <1>2 DEF Seqr
<1>4. CASE ~IsEnd(j, pc)
  BY <1>3, <1>4 DEF Seqr, IsEnd
<1>5. CASE IsEnd(j, pc)
  BY <1>3, <1>5 DEF AtEnd, IsEnd
<1> QED BY <1>4, <1>5

\* Accesses for command m: the k-th of n finds, and the last leaves.
Turn(m, n, k, lj, jm, r) == IF k = 0 THEN Seqr(m, lj, jm, -1, r) ELSE Seqr(m, lj, jm, m, n - 1 - k)
Leave(j, m, lj, jm, r) ==
  LET rp == IF Repeating(Cmd(j, m)) THEN 0 ELSE r
  IN IF IsEnd(j, m + 1) THEN AtEnd(m + 1, lj, jm, rp) ELSE Seqr(m + 1, lj, jm, -1, rp)

LEMMA PassedOne ==
  ASSUME NEW j, NEW m \in Nat, NEW n \in Nat \ {0}, Lasts(j, m, n), NEW k \in 0 .. n - 1, NEW lj, NEW jm,
         NEW r \in Int
  PROVE  /\ k = n - 1 => Passed(j, Turn(m, n, k, lj, jm, r)) = Leave(j, m, lj, jm, r)
         /\ k # n - 1 => Passed(j, Turn(m, n, k, lj, jm, r)) = Seqr(m, lj, jm, m, n - 1 - (k + 1))
<1> DEFINE s == Turn(m, n, k, lj, jm, r)
           c == Cmd(j, m)
           rp == IF Repeating(c) THEN 0 ELSE r
<1>1. s.pc = m
  BY DEF Turn, Seqr
<1>2. ASSUME Repeated1(j, s) = Seqr(m + 1, lj, jm, -1, rp)
      PROVE  Passed(j, s) = Leave(j, m, lj, jm, r)
  <2> HIDE DEF s
  <2>1. CASE IsEnd(j, m + 1)
    <3>1. Passed(j, s) = AtEnd(m + 1, lj, jm, rp)
      BY <1>2, <2>1, PassedTo
    <3> QED BY <2>1, <3>1 DEF Leave
  <2>2. CASE ~IsEnd(j, m + 1)
    <3>1. Passed(j, s) = Seqr(m + 1, lj, jm, -1, rp)
      BY <1>2, <2>2, PassedTo
    <3> QED BY <2>2, <3>1 DEF Leave
  <2> QED BY <2>1, <2>2
<1>3. CASE ~Repeating(c)
  <2>1. n = 1 /\ k = 0 /\ k = n - 1
    BY <1>3 DEF Lasts
  <2>2. Repeated1(j, s) = Seqr(m + 1, lj, jm, -1, r)
    <3>1. s = Seqr(m, lj, jm, -1, r)
      BY <2>1 DEF Turn
    <3>2. Repeated1(j, s) = [s EXCEPT !.pc = @ + 1]
      BY <1>1, <1>3 DEF Repeated1
    <3> HIDE DEF s
    <3> QED BY <3>1, <3>2 DEF Seqr
  <2>3. rp = r
    BY <1>3
  <2> HIDE DEF s, rp
  <2> QED BY <1>2, <2>1, <2>2, <2>3 DEF s
<1>4. CASE Repeating(c)
  <2>1. Repeats(c) = n - 1 /\ ~IsEnd(j, m)
    BY <1>4 DEF Lasts, IsEnd
  <2>2. s.lastRepeat = (IF k = 0 THEN -1 ELSE m) /\ (k # 0 => s.repeats = n - 1 - k)
    BY DEF Seqr, Turn
  <2>3. (IF s.lastRepeat # s.pc THEN Repeats(c) ELSE s.repeats) = n - 1 - k
    <3> HIDE DEF s
    <3> QED BY <1>1, <2>1, <2>2
  <2> DEFINE more == n - 1 - k
  <2>4. Repeated1(j, s) = IF more > 0 THEN [s EXCEPT !.lastRepeat = m, !.repeats = more - 1]
                          ELSE [s EXCEPT !.lastRepeat = -1, !.repeats = more, !.pc = @ + 1]
    <3> HIDE DEF s, more
    <3>1. (IF s.lastRepeat # s.pc THEN Repeats(c) ELSE s.repeats) = more
      BY <2>3 DEF more
    <3>2. c = Cmd(j, s.pc)
      BY <1>1
    <3> HIDE DEF c
    <3> QED BY ONLY <1>1, <1>4, <3>1, <3>2 DEF Repeated1
  <2>5. CASE k = n - 1
    <3>1. more = 0 /\ ~(more > 0)
      BY <2>5
    <3>2. Repeated1(j, s) = [s EXCEPT !.lastRepeat = -1, !.repeats = 0, !.pc = @ + 1]
      <4> HIDE DEF s, more
      <4> QED BY ONLY <2>4, <3>1
    <3>3. Repeated1(j, s) = Seqr(m + 1, lj, jm, -1, 0)
      BY <3>2 DEF Seqr, Turn
    <3>4. rp = 0
      BY <1>4
    <3> HIDE DEF s, rp
    <3> QED BY <1>2, <2>5, <3>3, <3>4 DEF s
  <2>6. CASE k # n - 1
    <3>1. more > 0 /\ more - 1 = n - 1 - (k + 1)
      BY <2>6
    <3>2. Repeated1(j, s) = [s EXCEPT !.lastRepeat = m, !.repeats = n - 1 - (k + 1)]
      <4> HIDE DEF s, more
      <4> QED BY ONLY <2>4, <3>1
    <3>3. Repeated1(j, s) = Seqr(m, lj, jm, m, n - 1 - (k + 1))
      BY <3>2 DEF Seqr, Turn
    <3> HIDE DEF s
    <3>4. Passed(j, s) = Seqr(m, lj, jm, m, n - 1 - (k + 1))
      BY <2>1, <3>3, PassedTo
    <3> QED BY <2>6, <3>4 DEF s
  <2> QED BY <2>5, <2>6
<1> QED BY <1>3, <1>4

LEMMA RunningFields ==
  ASSUME NEW s, NEW cond
  PROVE  /\ Running(s, cond).mode = "HAB_PIM" /\ Running(s, cond).sq = s
         /\ Running(s, cond).ctl = Flags(cond)
         /\ \A t : [Running(s, cond) EXCEPT !.sq = t] = Running(t, cond)
  BY DEF Running

\* The accesses of a group stay below the reserved rows.
Below(row, col, n) == \A i \in 0 .. n - 1 : row + ((col + i) \div NumCols) < 8192

\* What an access of a group looks like.
LEMMA GroupFields ==
  ASSUME NEW op, NEW bank, NEW row \in Nat, NEW col \in Nat,
         NEW n \in Nat \ {0}, NEW meant, Below(row, col, n),
         NEW p \in GroupOf(op, bank, row, col, n, meant)
  PROVE  /\ p.op = op /\ p.bank = bank /\ p.meant = meant
         /\ ~IsReservedRA(p.row) /\ ~IsControl(p)
<1>1. PICK i \in 0 .. n - 1 : p = Access(op, bank, row, col + i, Zero, meant)
  BY DEF GroupOf
<1>2. /\ p.op = op /\ p.bank = bank /\ p.meant = meant /\ p.row = row + ((col + i) \div NumCols)
  BY <1>1 DEF Access
<1>3. (col + i) \div NumCols \in Nat
  BY Carry
<1>4. row + ((col + i) \div NumCols) < 8192
  BY DEF Below
<1>5. p.row \in Nat /\ p.row < 8192
  BY ONLY <1>2, <1>3, <1>4, row \in Nat
<1>6. ~IsReservedRA(p.row) /\ p.row # RegRow
  BY ONLY <1>5 DEF IsReservedRA, RegRow
<1> QED BY <1>2, <1>6 DEF IsControl, ToRegisters

\* What the flags let trigger.
Heard(p, cond) ==
  /\ p.op \in {"READ", "WRITE"} /\ p.bank \in {0, 1} /\ (p.bank = 1 => cond = 0) /\ ~IsReservedRA(p.row)

LEMMA TriggersRunning ==
  ASSUME NEW s, s.exit = FALSE, NEW cond \in {0, 2}, NEW p, Heard(p, cond)
  PROVE  Triggers(Running(s, cond), p)
<1> DEFINE x == Running(s, cond)
<1>1. x.mode = "HAB_PIM" /\ x.sq = s /\ x.ctl = Flags(cond)
  BY RunningFields
<1> HIDE DEF x
<1>2. x.ctl.opMode = TRUE /\ x.ctl.even = TRUE /\ x.ctl.odd = (cond = 0)
  BY <1>1 DEF Flags
<1>3. IF p.bank % 2 = 0 THEN x.ctl.even ELSE x.ctl.odd
  <2>1. CASE p.bank = 0
    BY <1>2, <2>1
  <2>2. CASE p.bank = 1
    BY <1>2, <2>2 DEF Heard
  <2> QED BY <2>1, <2>2 DEF Heard
<1> QED BY <1>1, <1>2, <1>3 DEF Triggers, Heard, x

\* Where a group sent for command m leaves the sequencer.
Next1(j, cond, m, lj, jm) == IF IsEnd(j, m) THEN Done(cond) ELSE OnIt(cond, m, lj, jm)

\* A group sent for command m runs it to its end.
LEMMA Sending ==
  ASSUME NEW j, NEW cond \in {0, 2}, NEW op \in {"READ", "WRITE"}, NEW bank \in {0, 1}, bank = 1 => cond = 0,
         NEW row \in Nat, NEW col \in Nat, NEW n \in Nat \ {0}, NEW m \in Nat,
         Below(row, col, n), Lasts(j, m, n),
         NEW pc \in InProgram(j), NEW lj, NEW jm, NEW lj2 \in Int, NEW jm2 \in Int,
         \A r \in {-1, 0} : Jumped(j, Seqr(pc, lj, jm, -1, r)) = Seqr(m, lj2, jm2, -1, r)
  PROVE  Leads(j, All(op, bank, row, col, n, m), OnIt(cond, pc, lj, jm), Next1(j, cond, m + 1, lj2, jm2))
<1> SUFFICES ASSUME NEW r \in {-1, 0}
             PROVE  \E y \in Next1(j, cond, m + 1, lj2, jm2) :
                      Walks(j, All(op, bank, row, col, n, m), Running(Seqr(pc, lj, jm, -1, r), cond), y)
  BY DEF Leads, OnIt
<1> DEFINE g == GroupOf(op, bank, row, col, n, m)
           start == Seqr(pc, lj, jm, -1, r)
           last == Leave(j, m, lj2, jm2, r)
           mid(k) == IF k = 0 THEN start ELSE IF k = n THEN last ELSE Turn(m, n, k, lj2, jm2, r)
           f == [k \in 0 .. n |-> Running(mid(k), cond)]
<1>1. All(op, bank, row, col, n, m) = <<g>>
  BY DEF All, GroupOf
<1>2. IsFiniteSet(g) /\ Cardinality(g) = n /\ g # {}
  BY GroupSize
<1>3. \A p \in g : p.op = op /\ p.bank = bank /\ p.meant = m /\ ~IsReservedRA(p.row) /\ ~IsControl(p)
  BY GroupFields
<1>4. ASSUME NEW k \in 0 .. n - 1
      PROVE  /\ mid(k).exit = FALSE /\ mid(k).pc \in InProgram(j)
             /\ Jumped(j, mid(k)).pc = m /\ Passed(j, Jumped(j, mid(k))) = mid(k + 1)
  <2> DEFINE turn == Turn(m, n, k, lj2, jm2, r)
  <2>1. Jumped(j, mid(k)) = turn
    <3>1. CASE k = 0
      BY <3>1 DEF Turn
    <3>2. CASE k # 0
      <4>1. mid(k) = Seqr(m, lj2, jm2, m, n - 1 - k) /\ turn = Seqr(m, lj2, jm2, m, n - 1 - k)
        BY <3>2 DEF Turn
      <4>2. Cmd(j, m).type # "JUMP"
        BY DEF Lasts
      <4> HIDE DEF mid, turn
      <4> QED BY <4>1, <4>2, JumpedStays
    <3> QED BY <3>1, <3>2
  <2>2. /\ k = n - 1 => Passed(j, turn) = last
        /\ k # n - 1 => Passed(j, turn) = Seqr(m, lj2, jm2, m, n - 1 - (k + 1))
    <3>1. r \in Int
      OBVIOUS
    <3> QED BY <3>1, PassedOne
  <2>3. Passed(j, turn) = mid(k + 1)
    <3>1. CASE k = n - 1
      <4>1. k + 1 = n /\ k + 1 # 0
        BY <3>1
      <4>2. mid(k + 1) = last
        BY <4>1
      <4> HIDE DEF mid, turn, last
      <4> QED BY <2>2, <3>1, <4>2
    <3>2. CASE k # n - 1
      <4>1. k + 1 # n /\ k + 1 # 0
        BY <3>2
      <4>2. mid(k + 1) = Seqr(m, lj2, jm2, m, n - 1 - (k + 1))
        BY <4>1 DEF Turn
      <4> HIDE DEF mid, turn, last
      <4> QED BY <2>2, <3>2, <4>2
    <3> QED BY <3>1, <3>2
  <2>4. mid(k).exit = FALSE /\ mid(k).pc \in {pc, m} /\ turn.pc = m
    BY DEF Seqr, Turn
  <2> HIDE DEF mid, turn
  <2>5. m \in InProgram(j)
    BY DEF Lasts
  <2> QED BY <2>1, <2>3, <2>4, <2>5
<1>5. f[0] = Running(start, cond) /\ f[n] = Running(last, cond)
      /\ \A k \in 0 .. n - 1 : f[k] = Running(mid(k), cond) /\ f[k + 1] = Running(mid(k + 1), cond)
  <2>1. mid(0) = start /\ mid(n) = last
    OBVIOUS
  <2> HIDE DEF mid, start, last
  <2> QED BY <2>1
<1>6. Running(last, cond) \in Next1(j, cond, m + 1, lj2, jm2)
  <2>1. CASE IsEnd(j, m + 1)
    <3>1. last = AtEnd(m + 1, lj2, jm2, IF Repeating(Cmd(j, m)) THEN 0 ELSE r)
      BY <2>1 DEF Leave
    <3>2. last \in Sequencers /\ last.exit = TRUE
      BY <3>1 DEF AtEnd, Sequencers
    <3> QED BY <2>1, <3>2 DEF Next1, Done
  <2>2. CASE ~IsEnd(j, m + 1)
    BY <2>2 DEF Leave, Next1, OnIt
  <2> QED BY <2>1, <2>2
<1> HIDE DEF f, mid, g, last
<1>7. ASSUME NEW k \in 0 .. n - 1, NEW p \in g
      PROVE  Due(j, f[k], p) /\ Spent(j, f[k], p) /\ f[k + 1] = After(j, f[k], p)
  <2>0. /\ f[k] = Running(mid(k), cond) /\ f[k + 1] = Running(mid(k + 1), cond)
        /\ mid(k).exit = FALSE /\ Passed(j, Jumped(j, mid(k))) = mid(k + 1)
    BY <1>4, <1>5
  <2>1. Triggers(f[k], p)
    <3>1. Heard(p, cond)
      BY <1>3 DEF Heard
    <3>2. Triggers(Running(mid(k), cond), p)
      BY ONLY <2>0, <3>1, cond \in {0, 2}, TriggersRunning
    <3> QED BY <2>0, <3>2
  <2>2. f[k].sq = mid(k)
    BY <1>5, RunningFields
  <2>3. Due(j, f[k], p)
    <3>1. p.meant = m /\ m # NoCommand
      BY <1>3 DEF NoCommand
    <3> QED BY <1>4, <2>1, <2>2, <3>1 DEF Due, Lasts
  <2>4. Spent(j, f[k], p)
    BY <1>3 DEF Spent
  <2>5. After(j, f[k], p) = [f[k] EXCEPT !.sq = Passed(j, Jumped(j, mid(k)))]
    BY <2>1, <2>2 DEF After
  <2>6. After(j, f[k], p) = Running(mid(k + 1), cond)
    BY ONLY <2>0, <2>5, RunningFields
  <2> QED BY <1>5, <2>3, <2>4, <2>6
<1>8. Serves(j, g, Running(start, cond), Running(last, cond))
  BY <1>2, <1>5, <1>7 DEF Serves
<1> HIDE DEF start
<1>9. Walks(j, <<g>>, Running(start, cond), Running(last, cond))
  BY <1>8, WalksOne
<1> QED BY <1>1, <1>6, <1>9 DEF start

-----------------------------------------------------------------------------
(* Pieces of scripts put together. *)

\* A piece of a script that takes the rank from A to B.
Takes(j, s, A, B) == (\E U : s \in Seq(U)) /\ Leads(j, s, A, B)

LEMMA TakesOn ==
  ASSUME NEW j, NEW s, NEW t, NEW A, NEW B, NEW C, Takes(j, s, A, B), Takes(j, t, B, C)
  PROVE  Takes(j, s \o t, A, C)
<1>1. PICK U : s \in Seq(U)
  BY DEF Takes
<1>2. PICK V : t \in Seq(V)
  BY DEF Takes
<1>3. s \in Seq(U \cup V) /\ t \in Seq(U \cup V)
  BY <1>1, <1>2
<1>4. s \o t \in Seq(U \cup V)
  BY <1>3, ConcatProperties
<1>5. Leads(j, s \o t, A, C)
  BY <1>3, LeadsOn DEF Takes
<1> QED BY <1>4, <1>5 DEF Takes

LEMMA TakesEach ==
  ASSUME NEW j, NEW n \in Nat, NEW s, s = [i \in 1 .. n |-> s[i]], NEW E,
         \A i \in 1 .. n : Takes(j, s[i], E[i - 1], E[i])
  PROVE  Takes(j, FlattenSeq(s), E[0], E[n])
<1> DEFINE U == UNION {{s[i][k] : k \in 1 .. Len(s[i])} : i \in 1 .. n}
<1>1. ASSUME NEW i \in 1 .. n PROVE s[i] \in Seq(U)
  <2>1. PICK V : s[i] \in Seq(V)
    BY DEF Takes
  <2>2. \A k \in 1 .. Len(s[i]) : s[i][k] \in U
    OBVIOUS
  <2> HIDE DEF U
  <2> QED BY <2>1, <2>2, SeqRetype
<1> HIDE DEF U
<1>2. s \in [1 .. n -> Seq(U)]
  BY <1>1
<1>3. \A i \in 1 .. n : Leads(j, s[i], E[i - 1], E[i])
  BY DEF Takes
<1> QED BY <1>2, <1>3, LeadsEach DEF Takes

LEMMA TakesOne ==
  ASSUME NEW j, NEW g, NEW A, NEW B, \A x \in A : \E y \in B : Serves(j, g, x, y)
  PROVE  Takes(j, <<g>>, A, B)
<1>1. <<g>> \in Seq({g})
  OBVIOUS
<1>2. Leads(j, <<g>>, A, B)
  BY WalksOne DEF Leads
<1> QED BY <1>1, <1>2 DEF Takes

LEMMA TakesPart ==
  ASSUME NEW j, NEW s, NEW A, NEW B, Takes(j, s, A, B), NEW C, NEW D, C \subseteq A, B \subseteq D
  PROVE  Takes(j, s, C, D)
  BY DEF Takes, Leads

LEMMA TakesNothing ==
  ASSUME NEW j, NEW A
  PROVE  Takes(j, <<>>, A, A)
<1>1. <<>> \in Seq({})
  BY EmptySeq
<1> QED BY <1>1, WalksNowhere DEF Takes, Leads

-----------------------------------------------------------------------------
(* Groups that trigger nothing. *)

\* What neither is sent for a command nor switches anything.
Idles(p) == p.meant = NoCommand /\ p.op \in {"READ", "WRITE"} /\ ~IsControl(p)

LEMMA NotRunning ==
  ASSUME NEW x \in Single \cup Off, NEW p
  PROVE  ~Triggers(x, p)
<1>1. x.mode # "HAB_PIM"
  BY DEF Single, Off
<1> QED BY <1>1 DEF Triggers

LEMMA NotReserved ==
  ASSUME NEW s, NEW cond, NEW p, IsReservedRA(p.row)
  PROVE  ~Triggers(Running(s, cond), p)
<1>1. Running(s, cond).ctl = Flags(cond)
  BY RunningFields
<1>2. Flags(cond).ra13 = FALSE
  BY DEF Flags
<1>3. ~Running(s, cond).ctl.ra13
  BY <1>1, <1>2
<1> QED BY <1>3 DEF Triggers

\* Accesses to ordinary rows, or to registers, while no program runs.
LEMMA IdleTakes ==
  ASSUME NEW j, NEW g, IsFiniteSet(g), g # {}, \A p \in g : Idles(p), NEW A \in {Single, Off}
  PROVE  Takes(j, <<g>>, A, A)
<1>1. ASSUME NEW x \in A PROVE Serves(j, g, x, x)
  <2>1. x \in Single \cup Off
    OBVIOUS
  <2>2. \A p \in g : p.meant = NoCommand /\ p.op \in {"READ", "WRITE"} /\ ~Triggers(x, p) /\ ~IsControl(p)
    BY <2>1, NotRunning DEF Idles
  <2> QED BY <2>2, QuietServes
<1> QED BY <1>1, TakesOne

LEMMA AllIdle ==
  ASSUME NEW j, NEW op \in {"READ", "WRITE"}, NEW bank, NEW row \in Nat, NEW col \in Nat,
         NEW n \in Nat \ {0}, Below(row, col, n), NEW A \in {Single, Off}
  PROVE  Takes(j, All(op, bank, row, col, n, NoCommand), A, A)
<1> DEFINE g == GroupOf(op, bank, row, col, n, NoCommand)
<1>1. All(op, bank, row, col, n, NoCommand) = <<g>>
  BY DEF All, GroupOf
<1>2. IsFiniteSet(g) /\ g # {}
  BY GroupSize
<1>3. \A p \in g : Idles(p)
  BY GroupFields DEF Idles
<1> HIDE DEF g
<1> QED BY <1>1, <1>2, <1>3, IdleTakes

\* Registers are written while a program runs, too.
LEMMA RegistersIdle ==
  ASSUME NEW j, NEW g, IsFiniteSet(g), g # {}, \A p \in g : Idles(p) /\ IsReservedRA(p.row),
         NEW cond, NEW pc, NEW lj, NEW jm
  PROVE  Takes(j, <<g>>, OnIt(cond, pc, lj, jm), OnIt(cond, pc, lj, jm))
<1> DEFINE A == OnIt(cond, pc, lj, jm)
<1>1. ASSUME NEW x \in A PROVE Serves(j, g, x, x)
  <2>1. \E s : x = Running(s, cond)
    BY DEF OnIt
  <2>2. \A p \in g : ~Triggers(x, p)
    BY <2>1, NotReserved
  <2>3. \A p \in g : p.meant = NoCommand /\ p.op \in {"READ", "WRITE"} /\ ~Triggers(x, p) /\ ~IsControl(p)
    BY <2>2 DEF Idles
  <2> QED BY <2>3, QuietServes
<1> HIDE DEF A
<1> QED BY <1>1, TakesOne DEF A

-----------------------------------------------------------------------------
(* Switches. *)

LEMMA HabTakes ==
  ASSUME NEW j
  PROVE  Takes(j, ToHab, Single, Off) /\ Takes(j, ToSb, Off, Single)
<1>1. ToHab = <<{HabPacket}>> /\ ToSb = <<{SbPacket}>>
  BY DEF ToHab, ToSb, HabPacket, SbPacket
<1>2. /\ HabPacket.op = "HAB" /\ HabPacket.meant = NoCommand
      /\ SbPacket.op = "SB" /\ SbPacket.meant = NoCommand
  BY DEF HabPacket, SbPacket, Access
<1>3. ASSUME NEW x \in Single PROVE \E y \in Off : Serves(j, {HabPacket}, x, y)
  <2>1. Due(j, x, HabPacket) /\ Spent(j, x, HabPacket)
    BY <1>2, NotRunning, Switches DEF Due, Spent
  <2>2. After(j, x, HabPacket) = [x EXCEPT !.mode = IF x.mode = "SB" THEN "HAB" ELSE x.mode]
    BY <1>2, NotRunning DEF After
  <2>3. [x EXCEPT !.mode = IF x.mode = "SB" THEN "HAB" ELSE x.mode] \in Off
    BY DEF Single, Off
  <2> QED BY <2>1, <2>2, <2>3, OneServes
<1>4. ASSUME NEW x \in Off PROVE \E y \in Single : Serves(j, {SbPacket}, x, y)
  <2>1. Due(j, x, SbPacket) /\ Spent(j, x, SbPacket)
    BY <1>2, NotRunning, Switches DEF Due, Spent
  <2>2. After(j, x, SbPacket) = [x EXCEPT !.mode = IF x.mode = "HAB" THEN "SB" ELSE x.mode]
    BY <1>2, NotRunning DEF After
  <2>3. [x EXCEPT !.mode = IF x.mode = "HAB" THEN "SB" ELSE x.mode] \in Single
    BY DEF Single, Off
  <2> QED BY <2>1, <2>2, <2>3, OneServes
<1> QED BY <1>1, <1>3, <1>4, TakesOne

\* A control word that starts the program, and one that ends it.
IsSwitch(p) == p.op = "WRITE" /\ p.meant = NoCommand /\ IsControl(p) /\ IsReservedRA(p.row)
Starts(p, cond) == IsSwitch(p) /\ p.data.op = TRUE /\ p.data.cond = cond
Stops(p) == IsSwitch(p) /\ p.data.op = FALSE

\* The flags a control word sets.
FlagsOf(data) == [opMode |-> data.op, even |-> data.cond % 2 = 0, odd |-> (data.cond \div 2) % 2 = 0,
              ra13 |-> data.cond >= 4]

LEMMA FlagsOfType == ASSUME NEW data, data.op \in BOOLEAN PROVE FlagsOf(data) \in Toggling
<1>1. /\ (data.cond % 2 = 0) \in BOOLEAN /\ ((data.cond \div 2) % 2 = 0) \in BOOLEAN
      /\ (data.cond >= 4) \in BOOLEAN
  OBVIOUS
<1>2. ASSUME NEW a \in BOOLEAN, NEW b \in BOOLEAN, NEW c \in BOOLEAN, NEW d \in BOOLEAN
      PROVE  [opMode |-> a, even |-> b, odd |-> c, ra13 |-> d] \in Toggling
  BY DEF Toggling
<1> QED BY <1>1, <1>2 DEF FlagsOf

LEMMA FlagsOfOn ==
  ASSUME NEW cond \in {0, 2}, NEW data, data.op = TRUE, data.cond = cond
  PROVE  FlagsOf(data) = Flags(cond)
<1>1. CASE data.cond = 0
  <2>1. (data.cond % 2 = 0) = TRUE /\ ((data.cond \div 2) % 2 = 0) = TRUE /\ (data.cond >= 4) = FALSE
    BY ONLY <1>1
  <2>2. FlagsOf(data) = [opMode |-> data.op, even |-> TRUE, odd |-> TRUE, ra13 |-> FALSE]
    BY ONLY <2>1 DEF FlagsOf
  <2> QED BY <1>1, <2>2 DEF Flags
<1>2. CASE data.cond = 2
  <2>1. (data.cond % 2 = 0) = TRUE /\ ((data.cond \div 2) % 2 = 0) = FALSE /\ (data.cond >= 4) = FALSE
    BY ONLY <1>2
  <2>2. FlagsOf(data) = [opMode |-> data.op, even |-> TRUE, odd |-> FALSE, ra13 |-> FALSE]
    BY ONLY <2>1 DEF FlagsOf
  <2>3. (cond = 0) = FALSE
    BY <1>2
  <2>4. Flags(cond) = [opMode |-> TRUE, even |-> TRUE, odd |-> FALSE, ra13 |-> FALSE]
    BY ONLY <2>3 DEF Flags
  <2> QED BY <2>2, <2>4
<1>3. data.cond = 0 \/ data.cond = 2
  BY ONLY data.cond = cond, cond \in {0, 2}
<1> QED BY ONLY <1>1, <1>2, <1>3

LEMMA AfterSwitch ==
  ASSUME NEW j, NEW x, x.mode # "SB", NEW p, IsSwitch(p), ~Triggers(x, p)
  PROVE  /\ p.data.op = TRUE => After(j, x, p) = [mode |-> "HAB_PIM", sq |-> Restarted, ctl |-> FlagsOf(p.data)]
         /\ p.data.op = FALSE => After(j, x, p) = [mode |-> "HAB", sq |-> x.sq, ctl |-> FlagsOf(p.data)]
  BY DEF After, FlagsOf, IsSwitch

LEMMA StartTakes ==
  ASSUME NEW j, NEW cond \in {0, 2}, NEW p, Starts(p, cond)
  PROVE  Takes(j, <<{p}>>, Off, OnIt(cond, 0, -1, -1))
<1>1. ASSUME NEW x \in Off PROVE \E y \in OnIt(cond, 0, -1, -1) : Serves(j, {p}, x, y)
  <2>1. x.mode = "HAB" /\ ~Triggers(x, p)
    BY NotRunning DEF Off
  <2>2. Due(j, x, p) /\ Spent(j, x, p)
    BY <2>1 DEF Due, Spent, Starts, IsSwitch
  <2>3. After(j, x, p) = [mode |-> "HAB_PIM", sq |-> Restarted, ctl |-> FlagsOf(p.data)]
    BY <2>1, AfterSwitch DEF Starts
  <2>4. FlagsOf(p.data) = Flags(cond)
    BY FlagsOfOn DEF Starts
  <2>5. After(j, x, p) = Running(Seqr(0, -1, -1, -1, -1), cond)
    BY ONLY <2>3, <2>4 DEF Restarted, Seqr, Running
  <2>6. After(j, x, p) \in OnIt(cond, 0, -1, -1)
    BY <2>5 DEF OnIt
  <2> QED BY <2>2, <2>6, OneServes
<1> QED BY <1>1, TakesOne

\* Where the rank may be left.
Leavable(j, x) ==
  /\ x.mode = "HAB_PIM" /\ x.sq \in Sequencers /\ ~x.ctl.ra13
  /\ \A p : Stops(p) => Spent(j, x, p)

LEMMA StopTakes ==
  ASSUME NEW j, NEW A, \A x \in A : Leavable(j, x), NEW p, Stops(p)
  PROVE  Takes(j, <<{p}>>, A, Off)
<1>1. ASSUME NEW x \in A PROVE \E y \in Off : Serves(j, {p}, x, y)
  <2>0. x.mode = "HAB_PIM" /\ x.sq \in Sequencers /\ ~x.ctl.ra13 /\ Spent(j, x, p)
    BY DEF Leavable
  <2>1. ~Triggers(x, p)
    BY <2>0 DEF Triggers, Stops, IsSwitch
  <2>2. Due(j, x, p) /\ Spent(j, x, p)
    BY <2>0, <2>1 DEF Due, Stops, IsSwitch
  <2>3. After(j, x, p) = [mode |-> "HAB", sq |-> x.sq, ctl |-> FlagsOf(p.data)]
    BY <2>0, <2>1, AfterSwitch DEF Stops
  <2>4. FlagsOf(p.data) \in Toggling
    <3>1. p.data.op \in BOOLEAN
      BY DEF Stops
    <3> QED BY <3>1, FlagsOfType
  <2>5. After(j, x, p) \in Off
    BY <2>0, <2>3, <2>4 DEF Off
  <2> QED BY <2>2, <2>5, OneServes
<1> QED BY <1>1, TakesOne

LEMMA FlagsQuiet == \A cond : Flags(cond).ra13 = FALSE
  BY DEF Flags

\* It is spent at EXIT,
LEMMA DoneOff ==
  ASSUME NEW j, NEW c, NEW p, Stops(p)
  PROVE  Takes(j, <<{p}>>, Done(c), Off)
<1>1. ASSUME NEW x \in Done(c) PROVE Leavable(j, x)
  <2>1. PICK s \in Sequencers : x = Running(s, c) /\ s.exit = TRUE
    BY DEF Done
  <2>2. x.mode = "HAB_PIM" /\ x.sq = s /\ x.ctl = Flags(c)
    BY <2>1, RunningFields
  <2>3. x.sq.exit
    BY <2>1, <2>2
  <2>4. \A q : Spent(j, x, q)
    BY <2>3 DEF Spent
  <2> QED BY <2>2, <2>4, FlagsQuiet DEF Leavable
<1> QED BY <1>1, StopTakes

\* or at a JUMP to it that is not taken. A tree's need not be spent unless it has two
\* tiles.
LEMMA EarlyOff ==
  ASSUME NEW j, NEW c, NEW p, Stops(p),
         NEW pc \in Int, NEW lj \in Int, NEW jm \in Int,
         \/ j.kernel = "GEMVTREE" /\ j.tiles # 2
         \/ /\ pc \in InProgram(j) /\ pc + 1 \in InProgram(j) /\ IsEnd(j, pc + 1)
            /\ \A r \in {-1, 0} : Jumped(j, Seqr(pc, lj, jm, -1, r)).pc = pc + 1
  PROVE  Takes(j, <<{p}>>, OnIt(c, pc, lj, jm), Off)
<1>1. ASSUME NEW x \in OnIt(c, pc, lj, jm) PROVE Leavable(j, x)
  <2>1. PICK r \in {-1, 0} : x = Running(Seqr(pc, lj, jm, -1, r), c)
    BY DEF OnIt
  <2> DEFINE s == Seqr(pc, lj, jm, -1, r)
  <2>2. x.mode = "HAB_PIM" /\ x.sq = s /\ x.ctl = Flags(c)
    BY <2>1, RunningFields
  <2>3. s \in Sequencers /\ s.pc = pc
    BY DEF Seqr, Sequencers
  <2>4. \A q : Spent(j, x, q)
    <3>1. CASE j.kernel = "GEMVTREE" /\ j.tiles # 2
      BY <3>1 DEF Spent
    <3>2. CASE /\ pc \in InProgram(j) /\ pc + 1 \in InProgram(j) /\ IsEnd(j, pc + 1)
               /\ \A q \in {-1, 0} : Jumped(j, Seqr(pc, lj, jm, -1, q)).pc = pc + 1
      <4>1. Jumped(j, s).pc = pc + 1
        BY <3>2
      <4> HIDE DEF s
      <4> QED BY <2>2, <2>3, <3>2, <4>1 DEF Spent, IsEnd
    <3> QED BY <3>1, <3>2
  <2> HIDE DEF s
  <2> QED BY <2>2, <2>3, <2>4, FlagsQuiet DEF Leavable
<1> QED BY <1>1, StopTakes

\* The control words of the kernels.
LEMMA WordIsSwitch ==
  ASSUME NEW data
  PROVE  LET p == Register(0, 0, data) IN IsSwitch(p) /\ p.data = data
<1> DEFINE p == Register(0, 0, data)
<1>1. /\ p.op = "WRITE" /\ p.meant = NoCommand /\ p.row = RegRow + (0 \div NumCols) /\ p.col = 0 % NumCols
      /\ p.data = data
  BY DEF Register, Access
<1>2. p.row = RegRow /\ p.col = 0
  BY <1>1 DEF RegRow, NumCols
<1>3. IsReservedRA(RegRow)
  BY DEF IsReservedRA, RegRow
<1> HIDE DEF p
<1>4. IsSwitch(p)
  BY <1>1, <1>2, <1>3 DEF IsSwitch, IsControl, ToRegisters
<1> QED BY <1>1, <1>4 DEF p

LEMMA SwitchOn ==
  ASSUME NEW j, NEW cond \in {0, 2}, NEW data, data.op = TRUE, data.cond = cond
  PROVE  Takes(j, Switch(data), Off, OnIt(cond, 0, -1, -1))
<1> DEFINE p == Register(0, 0, data)
<1>1. IsSwitch(p) /\ p.data = data
  BY WordIsSwitch
<1>2. Switch(data) = <<{p}>>
  BY DEF Switch
<1> HIDE DEF p
<1>3. Starts(p, cond)
  BY <1>1 DEF Starts
<1> QED BY <1>2, <1>3, StartTakes

LEMMA SwitchOff ==
  ASSUME NEW data, data.op = FALSE
  PROVE  \E p : Stops(p) /\ Switch(data) = <<{p}>>
<1> DEFINE p == Register(0, 0, data)
<1>1. IsSwitch(p) /\ p.data = data
  BY WordIsSwitch
<1>2. Switch(data) = <<{p}>>
  BY DEF Switch
<1> HIDE DEF p
<1>3. Stops(p)
  BY <1>1 DEF Stops
<1> QED BY <1>2, <1>3

-----------------------------------------------------------------------------
(* Sessions. *)

LEMMA SomeBurst == ASSUME NEW cmds, Len(cmds) \in 1 .. 10 PROVE CrfGroup(cmds) # {}
<1>1. \A n \in 1 .. 10 : 8 * 0 < n /\ 0 \in 0 .. 3
  OBVIOUS
<1>2. 8 * 0 < Len(cmds) /\ 0 \in 0 .. 3
  BY ONLY <1>1, Len(cmds) \in 1 .. 10
<1> QED BY <1>2 DEF CrfGroup

LEMMA CrfGroupIdle ==
  ASSUME NEW j \in Jobs
  PROVE  /\ IsFiniteSet(CrfGroup(ProgramOf(j))) /\ CrfGroup(ProgramOf(j)) # {}
         /\ \A p \in CrfGroup(ProgramOf(j)) : Idles(p)
<1> DEFINE cmds == ProgramOf(j)
           I == {b \in 0 .. 3 : 8 * b < Len(cmds)}
           f == [i \in I |-> BurstAt(cmds, i)]
<1>1. IsFiniteSet(I)
  <2>1. IsFiniteSet(0 .. 3)
    <3>1. 0 \in Int /\ 3 \in Int
      OBVIOUS
    <3> QED BY ONLY <3>1, FS_Interval
  <2>2. I \subseteq 0 .. 3
    OBVIOUS
  <2> HIDE DEF I
  <2> QED BY <2>1, <2>2, FS_Subset
<1>2. f \in Surjection(I, CrfGroup(cmds))
  <2>1. CrfGroup(cmds) = {BurstAt(cmds, i) : i \in I}
    BY DEF CrfGroup
  <2> HIDE DEF I, cmds
  <2> QED BY <2>1 DEF Surjection
<1>3. IsFiniteSet(CrfGroup(cmds))
  <2> HIDE DEF I, f
  <2> QED BY <1>1, <1>2, FS_Surjection
<1>4. CrfGroup(cmds) # {}
  <2>1. Len(cmds) \in 1 .. 10
    BY ProgramsGood DEF GoodProgram
  <2> HIDE DEF cmds
  <2> QED BY <2>1, SomeBurst
<1>5. ASSUME NEW p \in CrfGroup(cmds) PROVE Idles(p)
  <2>1. p.op = "WRITE" /\ ~IsControl(p)
    BY <1>5, ProgramFields
  <2>2. p.meant = NoCommand
    <3>1. PICK i \in {b \in 0 .. 3 : 8 * b < Len(cmds)} : p = BurstAt(cmds, i)
      BY <1>5 DEF CrfGroup
    <3> HIDE DEF cmds
    <3> QED BY <3>1 DEF BurstAt, Register, Access
  <2> QED BY <2>1, <2>2 DEF Idles
<1> QED BY <1>3, <1>4, <1>5

LEMMA SessionTakes ==
  ASSUME NEW j \in Jobs, Takes(j, Body(j), Off, Off)
  PROVE  Takes(j, Session(ProgramOf(j), Body(j)), Single, Single)
<1>1. Takes(j, ToHab, Single, Off) /\ Takes(j, ToSb, Off, Single)
  BY HabTakes
<1>2. Takes(j, ProgramCrf(ProgramOf(j)), Off, Off)
  BY CrfGroupIdle, CrfShape, IdleTakes
<1>3. Takes(j, ToHab \o ProgramCrf(ProgramOf(j)), Single, Off)
  BY <1>1, <1>2, TakesOn
<1>4. Takes(j, ToHab \o ProgramCrf(ProgramOf(j)) \o Body(j), Single, Off)
  BY <1>3, TakesOn
<1>5. Takes(j, ToHab \o ProgramCrf(ProgramOf(j)) \o Body(j) \o ToSb, Single, Single)
  BY <1>1, <1>4, TakesOn
<1> QED BY <1>5 DEF Session

\* Two passes of a loop.
LEMMA TakesTwice ==
  ASSUME NEW j, NEW s, s = [i \in 1 .. 2 |-> s[i]], NEW A, NEW B, NEW C,
         Takes(j, s[1], A, B), Takes(j, s[2], B, C)
  PROVE  Takes(j, FlattenSeq(s), A, C)
<1> DEFINE E == [i \in 0 .. 2 |-> IF i = 0 THEN A ELSE IF i = 1 THEN B ELSE C]
<1>1. E[0] = A /\ E[1] = B /\ E[2] = C
  OBVIOUS
<1> HIDE DEF E
<1>2. \A i \in 1 .. 2 : (i = 1 /\ i - 1 = 0) \/ (i = 2 /\ i - 1 = 1)
  OBVIOUS
<1>3. \A i \in 1 .. 2 : Takes(j, s[i], E[i - 1], E[i])
  BY <1>1, <1>2
<1>4. Takes(j, FlattenSeq(s), E[0], E[2])
  BY <1>3, TakesEach
<1> QED BY <1>1, <1>4

LEMMA LeadTakes == ASSUME NEW j \in Jobs PROVE Takes(j, Lead(j), Single, Single)
<1>1. CASE j.kernel = "GEMVTREE"
  <2> DEFINE s == [x \in 1 .. 2 |-> All("WRITE", x - 1, ZeroRow, 0, NumGrf, NoCommand)]
  <2>1. Lead(j) = FlattenSeq(s)
    BY <1>1 DEF Lead, Each
  <2>2. Below(ZeroRow, 0, NumGrf)
    BY DEF Below, ZeroRow, NumGrf, NumCols
  <2>3. ZeroRow \in Nat /\ NumGrf \in Nat \ {0}
    BY DEF ZeroRow, NumGrf
  <2>4. \A b : Takes(j, All("WRITE", b, ZeroRow, 0, NumGrf, NoCommand), Single, Single)
    BY <2>2, <2>3, AllIdle
  <2>5. Takes(j, s[1], Single, Single) /\ Takes(j, s[2], Single, Single)
    BY <2>4
  <2>6. s = [i \in 1 .. 2 |-> s[i]]
    OBVIOUS
  <2> HIDE DEF s
  <2> QED BY <2>1, <2>5, <2>6, TakesTwice
<1>2. CASE j.kernel # "GEMVTREE"
  BY <1>2, TakesNothing DEF Lead
<1> QED BY <1>1, <1>2

LEMMA ScriptTakes ==
  ASSUME NEW j \in Jobs, Takes(j, Body(j), Off, Off)
  PROVE  Takes(j, Scripts[j], Single, Single)
<1>1. Takes(j, Lead(j) \o Session(ProgramOf(j), Body(j)), Single, Single)
  BY LeadTakes, SessionTakes, TakesOn
<1> QED BY <1>1, ScriptShape DEF Scripts

-----------------------------------------------------------------------------
(* The commands of the programs. *)

\* A command that stays for the accesses of a group, one for each block, and a JUMP.
Works(c) == c.type \notin {"JUMP", "EXIT"} /\ Repeating(c) /\ Repeats(c) = NumGrf - 1
Jumps(c, count, offset) == c.type = "JUMP" /\ c.count = count /\ c.offset = offset

LEMMA StoredFields ==
  ASSUME NEW c \in Written
  PROVE  /\ Stored(c).type = c.type /\ Stored(c).offset = c.offset % ShortLimit
         /\ Stored(c).count = (IF c.type = "JUMP" THEN c.count % CountLimit ELSE c.count % ShortLimit)
         /\ c.auto = TRUE /\ c.type \in Arithmetic => Stored(c).auto = TRUE
<1>1. /\ Stored(c).type = c.type /\ Stored(c).offset = c.offset % ShortLimit
      /\ Stored(c).count = (IF c.type = "JUMP" THEN c.count % CountLimit ELSE c.count % ShortLimit)
  BY DEF Stored, Written
<1>2. Stored(c).auto = (c.auto /\ c.type \in Arithmetic)
  BY DEF Stored, Written
<1> QED BY <1>1, <1>2

LEMMA OpWorks ==
  ASSUME NEW t \in {"ADD", "MUL", "MAC"}, NEW d \in {"GRF_A", "GRF_B"},
         NEW x \in {"GRF_A", "GRF_B", "EVEN_BANK", "ODD_BANK"},
         NEW y \in {"GRF_A", "GRF_B", "EVEN_BANK", "ODD_BANK", "A_OUT"}
  PROVE  Works(Stored(Op(t, d, x, y, TRUE)))
<1> DEFINE c == Op(t, d, x, y, TRUE)
<1>1. c \in Written
  <2>1. t \in {"ADD", "MUL", "MAC", "FILL"} /\ TRUE \in BOOLEAN /\ 0 \in Nat
    OBVIOUS
  <2>2. \A a \in BOOLEAN : Sober(Op(t, d, x, y, a), 0)
    BY <2>1, OpSober
  <2>3. Sober(Op(t, d, x, y, TRUE), 0)
    BY <2>2, Zenon
  <2> HIDE DEF c
  <2> QED BY <2>3 DEF Sober, c
<1>2. c.type = t /\ c.auto = TRUE
  <2>1. c = [Nop EXCEPT !.type = t, !.dst = d, !.src0 = x, !.src1 = y, !.auto = TRUE]
    BY DEF Op
  <2> HIDE DEF c
  <2> QED BY <2>1, NopWritten DEF Written
<1>3. t \in Arithmetic /\ t \notin {"NOP", "JUMP", "EXIT"}
  BY DEF Arithmetic
<1> HIDE DEF c
<1>4. Stored(c).type = t /\ Stored(c).auto = TRUE
  BY <1>1, <1>2, <1>3, StoredFields
<1>5. NumBlocks = NumGrf
  BY PimKernelAssumption
<1>6. Repeating(Stored(c)) /\ Repeats(Stored(c)) = NumGrf - 1
  BY <1>3, <1>4, <1>5 DEF Repeating, Repeats
<1> QED BY <1>3, <1>4, <1>6 DEF Works, c

LEMMA FillWorks ==
  ASSUME NEW c \in Written, c.type = "FILL"
  PROVE  Works(Stored(c))
<1>1. Stored(c).type = "FILL"
  BY StoredFields
<1>2. NumBlocks = NumGrf
  BY PimKernelAssumption
<1> QED BY <1>1, <1>2 DEF Works, Repeating, Repeats

LEMMA WaitWorks == Works(Stored(Wait(7)))
<1> DEFINE c == Wait(7)
<1>1. c \in Written /\ c.type = "NOP"
  BY WaitSober DEF Sober
<1>2. c.count = 7
  <2>1. c = [Nop EXCEPT !.count = 7]
    BY DEF Wait
  <2> HIDE DEF c
  <2> QED BY <2>1, NopWritten DEF Written
<1> HIDE DEF c
<1>3. Stored(c).type = "NOP" /\ Stored(c).count = 7
  <2>1. Stored(c).type = "NOP" /\ Stored(c).count = 7 % ShortLimit
    BY <1>1, <1>2, StoredFields
  <2> QED BY <2>1 DEF ShortLimit
<1> QED BY <1>3 DEF Works, Repeating, Repeats, NumGrf, c

LEMMA LoopJumps ==
  ASSUME NEW n \in Nat, n < CountLimit, NEW o \in 0 .. 9
  PROVE  Jumps(Stored(Loop(n, o)), n, o)
<1> DEFINE c == Loop(n, o)
<1>1. c \in Written /\ c.type = "JUMP"
  <2>1. n \in Int /\ o \in Nat /\ o <= o
    OBVIOUS
  <2> QED BY <2>1, LoopSober DEF Sober
<1>2. c.count = n /\ c.offset = o
  BY NopWritten DEF Loop, Written
<1> HIDE DEF c
<1>3. Stored(c).type = "JUMP" /\ Stored(c).count = n % CountLimit /\ Stored(c).offset = o % ShortLimit
  BY <1>1, <1>2, StoredFields
<1>4. n % CountLimit = n /\ o % ShortLimit = o
  BY DEF CountLimit, ShortLimit
<1> QED BY <1>3, <1>4 DEF Jumps, c

LEMMA EndEnds == Stored(End).type = "EXIT"
  BY EndWritten, StoredFields

\* A program that runs cmds and then, if it is to do so again, jumps back.
LEMMA RepeatedAt ==
  ASSUME NEW cmds, Begun(cmds), NEW n \in Nat, n = Len(cmds), NEW jumps
  PROVE  /\ \A i \in 1 .. n : Repeated(cmds, jumps)[i] = cmds[i]
         /\ jumps = 0 => Len(Repeated(cmds, jumps)) = n + 1 /\ Repeated(cmds, jumps)[n + 1] = End
         /\ jumps # 0 => /\ Len(Repeated(cmds, jumps)) = n + 2 /\ Repeated(cmds, jumps)[n + 2] = End
                         /\ Repeated(cmds, jumps)[n + 1] = Loop(jumps, n + 1)
<1>1. \E S : cmds \in Seq(S) /\ End \in S /\ Loop(jumps, n + 1) \in S
  <2>1. cmds \in Seq(Written \cup {End, Loop(jumps, n + 1)})
    BY DEF Begun
  <2> QED BY <2>1
<1>2. PICK S : cmds \in Seq(S) /\ End \in S /\ Loop(jumps, n + 1) \in S
  BY <1>1
<1>3. CASE jumps = 0
  <2>1. Repeated(cmds, jumps) = cmds \o <<>> \o <<End>>
    BY <1>3 DEF Repeated
  <2>2. cmds \o <<>> = cmds
    BY <1>2, ConcatEmptySeq
  <2>3. Repeated(cmds, jumps) = cmds \o <<End>>
    BY <2>1, <2>2
  <2>4. cmds \o <<End>> = Append(cmds, End)
    BY <1>2
  <2>5. Len(Append(cmds, End)) = n + 1 /\ Append(cmds, End)[n + 1] = End
        /\ \A i \in 1 .. n : Append(cmds, End)[i] = cmds[i]
    BY <1>2
  <2> QED BY <1>3, <2>3, <2>4, <2>5
<1>4. CASE jumps # 0
  <2> DEFINE l == Loop(jumps, n + 1)
  <2>1. Repeated(cmds, jumps) = cmds \o <<l>> \o <<End>>
    BY <1>4 DEF Repeated
  <2> HIDE DEF l
  <2>2. cmds \o <<l>> \o <<End>> = Append(Append(cmds, l), End)
    BY <1>2 DEF l
  <2>3. l \in S /\ Append(cmds, l) \in Seq(S) /\ Len(Append(cmds, l)) = n + 1 /\ Append(cmds, l)[n + 1] = l
        /\ \A i \in 1 .. n : Append(cmds, l)[i] = cmds[i]
    BY <1>2 DEF l
  <2> DEFINE d == Append(cmds, l)
  <2> HIDE DEF d
  <2>4. Len(Append(d, End)) = n + 2 /\ Append(d, End)[n + 2] = End
        /\ \A i \in 1 .. n + 1 : Append(d, End)[i] = d[i]
    BY <1>2, <2>3 DEF d
  <2> QED BY <1>4, <2>1, <2>2, <2>3, <2>4 DEF l, d
<1> QED BY <1>3, <1>4

\* As the CRF has it.
LEMMA ProgramAt ==
  ASSUME NEW j, NEW cmds, Begun(cmds), NEW n \in Nat, n = Len(cmds), NEW jumps \in Nat, jumps < CountLimit,
         n <= 8, ProgramOf(j) = Repeated(cmds, jumps)
  PROVE  /\ \A m \in 0 .. n - 1 : Cmd(j, m) = Stored(cmds[m + 1])
         /\ 0 .. n \subseteq InProgram(j)
         /\ jumps = 0 => IsEnd(j, n)
         /\ jumps # 0 => Jumps(Cmd(j, n), jumps, n + 1) /\ n + 1 \in InProgram(j) /\ IsEnd(j, n + 1)
<1> DEFINE prog == Repeated(cmds, jumps)
<1>1. /\ \A i \in 1 .. n : prog[i] = cmds[i]
      /\ jumps = 0 => Len(prog) = n + 1 /\ prog[n + 1] = End
      /\ jumps # 0 => Len(prog) = n + 2 /\ prog[n + 2] = End /\ prog[n + 1] = Loop(jumps, n + 1)
  BY RepeatedAt
<1>2. ProgramOf(j) = prog
  OBVIOUS
<1> HIDE DEF prog
<1>3. \A m \in 0 .. n - 1 : Cmd(j, m) = Stored(cmds[m + 1])
  BY <1>1, <1>2 DEF Cmd
<1>4. Len(prog) \in Nat /\ Len(prog) >= n + 1 /\ (jumps # 0 => Len(prog) = n + 2)
  BY <1>1
<1>5. 0 .. n \subseteq InProgram(j) /\ (jumps # 0 => n + 1 \in InProgram(j))
  BY <1>2, <1>4 DEF InProgram
<1>6. jumps = 0 => IsEnd(j, n)
  BY <1>1, <1>2, EndEnds DEF IsEnd, Cmd
<1>7. ASSUME jumps # 0 PROVE Jumps(Cmd(j, n), jumps, n + 1) /\ IsEnd(j, n + 1)
  <2>1. Cmd(j, n) = Stored(Loop(jumps, n + 1))
    BY <1>1, <1>2, <1>7 DEF Cmd
  <2>2. Jumps(Stored(Loop(jumps, n + 1)), jumps, n + 1)
    BY LoopJumps
  <2>3. Cmd(j, n + 1) = Stored(End)
    <3>1. (n + 1) + 1 = n + 2
      OBVIOUS
    <3> QED BY <1>1, <1>2, <1>7, <3>1 DEF Cmd
  <2> QED BY <2>1, <2>2, <2>3, EndEnds DEF IsEnd
<1> QED BY <1>3, <1>5, <1>6, <1>7

LEMMA WorksLasts ==
  ASSUME NEW j, NEW m \in InProgram(j), m + 1 \in InProgram(j), Works(Cmd(j, m))
  PROVE  Lasts(j, m, NumGrf) /\ ~IsEnd(j, m)
  BY DEF Works, Lasts, IsEnd

-----------------------------------------------------------------------------
(* Groups sent for the commands of a program, one after the other. *)

LEMMA SendingTakes ==
  ASSUME NEW j, NEW op \in {"READ", "WRITE"}, NEW bank \in {0, 1}, NEW row \in Nat, NEW col \in Nat,
         Below(row, col, NumGrf), NEW m \in Nat, Lasts(j, m, NumGrf),
         NEW pc \in InProgram(j), NEW lj, NEW jm, NEW lj2 \in Int, NEW jm2 \in Int,
         \A r \in {-1, 0} : Jumped(j, Seqr(pc, lj, jm, -1, r)) = Seqr(m, lj2, jm2, -1, r)
  PROVE  Takes(j, All(op, bank, row, col, NumGrf, m), OnIt(0, pc, lj, jm), Next1(j, 0, m + 1, lj2, jm2))
<1>1. NumGrf \in Nat \ {0} /\ 0 \in {0, 2} /\ (bank = 1 => 0 = 0)
  BY DEF NumGrf
<1>2. Leads(j, All(op, bank, row, col, NumGrf, m), OnIt(0, pc, lj, jm), Next1(j, 0, m + 1, lj2, jm2))
  BY <1>1, Sending
<1>3. All(op, bank, row, col, NumGrf, m) \in Seq({GroupOf(op, bank, row, col, NumGrf, m)})
  <2>1. All(op, bank, row, col, NumGrf, m) = <<GroupOf(op, bank, row, col, NumGrf, m)>>
    BY DEF All, GroupOf
  <2> QED BY <2>1
<1> QED BY <1>2, <1>3 DEF Takes

LEMMA SendingNext ==
  ASSUME NEW j, NEW op \in {"READ", "WRITE"}, NEW bank \in {0, 1}, NEW row \in Nat, NEW col \in Nat,
         Below(row, col, NumGrf), NEW m \in Nat, Lasts(j, m, NumGrf), NEW lj \in Int, NEW jm \in Int
  PROVE  Takes(j, All(op, bank, row, col, NumGrf, m), OnIt(0, m, lj, jm), Next1(j, 0, m + 1, lj, jm))
<1>1. m \in InProgram(j) /\ Cmd(j, m).type # "JUMP"
  BY DEF Lasts
<1>2. \A r \in {-1, 0} : Jumped(j, Seqr(m, lj, jm, -1, r)) = Seqr(m, lj, jm, -1, r)
  BY <1>1, JumpedStays
<1> QED BY <1>1, <1>2, SendingTakes

LEMMA BelowLow ==
  ASSUME NEW row \in Nat, NEW col \in Nat, NEW n \in Nat, row <= 1000, col + n <= 32 * 7000
  PROVE  Below(row, col, n)
<1> SUFFICES ASSUME NEW i \in 0 .. n - 1 PROVE row + ((col + i) \div NumCols) < 8192
  BY DEF Below
<1>1. (col + i) \div NumCols < 7000
  BY DEF NumCols
<1>2. (col + i) \div NumCols \in Nat
  BY DEF NumCols
<1> QED BY <1>1, <1>2

-----------------------------------------------------------------------------
(* Element-wise kernels. *)

EltwiseLen(j) == IF j.kernel = "RELU" THEN 4 ELSE 6

LEMMA EltwiseWorks ==
  ASSUME NEW type \in {"ADD", "MUL"}
  PROVE  \A i \in 1 .. 6 : Works(Stored(EltwiseCmds(type)[i]))
<1> DEFINE a == Op("FILL", "GRF_A", "EVEN_BANK", "A_OUT", FALSE)
           b == Op(type, "GRF_A", "GRF_A", "EVEN_BANK", TRUE)
           c == Op("FILL", "GRF_B", "ODD_BANK", "A_OUT", FALSE)
           d == Op(type, "GRF_B", "GRF_B", "ODD_BANK", TRUE)
<1>1. EltwiseCmds(type) = <<a, b, Wait(7), c, d, Wait(7)>>
  BY DEF EltwiseCmds
<1>2. Works(Stored(a)) /\ Works(Stored(c))
  <2>1. a.type = "FILL" /\ c.type = "FILL"
    BY DEF Op, Nop
  <2>2. Sober(a, 0)
    BY OpSober
  <2>3. Sober(c, 0)
    BY OpSober
  <2> HIDE DEF a, c
  <2> QED BY <2>1, <2>2, <2>3, FillWorks DEF Sober
<1>3. Works(Stored(b))
  BY OpWorks
<1>4. Works(Stored(d))
  BY OpWorks
<1> HIDE DEF a, b, c, d
<1> QED BY <1>1, <1>2, <1>3, <1>4, WaitWorks

LEMMA ReluWorks == \A i \in 1 .. 4 : Works(Stored(ReluCmds[i]))
<1> DEFINE f == Op("FILL", "GRF_A", "EVEN_BANK", "A_OUT", TRUE)
           g == Op("FILL", "GRF_B", "ODD_BANK", "A_OUT", TRUE)
           a == [f EXCEPT !.relu = TRUE]
           b == [g EXCEPT !.relu = TRUE]
<1>1. ReluCmds = <<a, Wait(7), b, Wait(7)>>
  BY DEF ReluCmds
<1>2. f.type = "FILL" /\ g.type = "FILL"
  BY DEF Op, Nop
<1>3. Sober(f, 0)
  BY OpSober
<1>4. Sober(g, 0)
  BY OpSober
<1> HIDE DEF f, g
<1>5. Sober(a, 0) /\ Sober(b, 0)
  BY <1>3, <1>4, ReluSober
<1>6. a.type = "FILL" /\ b.type = "FILL"
  BY <1>2, <1>3, <1>4 DEF Sober, Written
<1> HIDE DEF a, b
<1>7. Works(Stored(a)) /\ Works(Stored(b))
  BY <1>5, <1>6, FillWorks DEF Sober
<1> QED BY <1>1, <1>7, WaitWorks

\* Commands for the groups of a tile, then a JUMP back for the tiles that are left.
LEMMA EltwiseProgram ==
  ASSUME NEW j \in Jobs, j.kernel \in {"ADD", "MUL", "RELU"}, NEW n, n = EltwiseLen(j)
  PROVE  /\ n \in {4, 6} /\ \A m \in 0 .. n - 1 : Lasts(j, m, NumGrf) /\ ~IsEnd(j, m)
         /\ n \in InProgram(j)
         /\ j.tiles = 1 => IsEnd(j, n)
         /\ j.tiles # 1 => /\ Jumps(Cmd(j, n), j.tiles - 1, n + 1) /\ n + 1 \in InProgram(j)
                           /\ IsEnd(j, n + 1) /\ ~IsEnd(j, n)
<1> DEFINE cmds == IF j.kernel = "RELU" THEN ReluCmds ELSE EltwiseCmds(j.kernel)
<1>1. n \in {4, 6} /\ Begun(cmds) /\ Len(cmds) = n /\ \A i \in 1 .. n : Works(Stored(cmds[i]))
  <2>1. CASE j.kernel = "RELU"
    BY <2>1, ReluBegun, ReluWorks DEF EltwiseLen
  <2>2. CASE j.kernel # "RELU"
    <3>1. j.kernel \in {"ADD", "MUL"} /\ n = 6 /\ cmds = EltwiseCmds(j.kernel)
      BY <2>2 DEF EltwiseLen
    <3> HIDE DEF cmds
    <3>2. Begun(EltwiseCmds(j.kernel)) /\ Len(EltwiseCmds(j.kernel)) = 6
      BY <3>1, EltwiseBegun
    <3>3. \A i \in 1 .. 6 : Works(Stored(EltwiseCmds(j.kernel)[i]))
      BY <3>1, EltwiseWorks
    <3> QED BY <3>1, <3>2, <3>3
  <2> QED BY <2>1, <2>2
<1>2. ProgramOf(j) = Repeated(cmds, j.tiles - 1)
  BY DEF ProgramOf
<1>3. j.tiles \in Nat /\ j.tiles # 0 /\ 8 * j.tiles <= 4096
  BY JobFields DEF Fits, NumCols, Input1
<1>4. j.tiles - 1 \in Nat /\ j.tiles - 1 < CountLimit /\ n \in Nat /\ n <= 8 /\ (j.tiles = 1 <=> j.tiles - 1 = 0)
  BY <1>1, <1>3 DEF CountLimit
<1> HIDE DEF cmds
<1>5. /\ \A m \in 0 .. n - 1 : Cmd(j, m) = Stored(cmds[m + 1])
      /\ 0 .. n \subseteq InProgram(j)
      /\ j.tiles - 1 = 0 => IsEnd(j, n)
      /\ j.tiles - 1 # 0 => Jumps(Cmd(j, n), j.tiles - 1, n + 1) /\ n + 1 \in InProgram(j) /\ IsEnd(j, n + 1)
  BY <1>1, <1>2, <1>4, ProgramAt
<1>6. ASSUME NEW m \in 0 .. n - 1 PROVE Lasts(j, m, NumGrf) /\ ~IsEnd(j, m)
  <2>1. m + 1 \in 1 .. n /\ m \in 0 .. n /\ m + 1 \in 0 .. n
    BY <1>1
  <2>2. Works(Cmd(j, m))
    BY <1>1, <1>5, <2>1
  <2>3. m \in InProgram(j) /\ m + 1 \in InProgram(j)
    BY <1>5, <2>1
  <2> QED BY <2>2, <2>3, WorksLasts
<1>7. n \in 0 .. n
  BY <1>1
<1>8. ASSUME j.tiles # 1 PROVE ~IsEnd(j, n)
  BY <1>4, <1>5, <1>8 DEF Jumps, IsEnd
<1> QED BY <1>1, <1>4, <1>5, <1>6, <1>7, <1>8

\* A step within a tile.
LEMMA EltwiseGroup ==
  ASSUME NEW j \in Jobs, j.kernel \in {"ADD", "MUL", "RELU"}, NEW n, n = EltwiseLen(j),
         NEW op \in {"READ", "WRITE"}, NEW bank \in {0, 1}, NEW row \in {Input0, Input1, Output},
         NEW i \in 0 .. j.tiles - 1, NEW m \in 0 .. n - 1, NEW lj \in Int, NEW jm \in Int
  PROVE  /\ Takes(j, All(op, bank, row, 8 * i, NumGrf, m), OnIt(0, m, lj, jm), Next1(j, 0, m + 1, lj, jm))
         /\ m # n - 1 =>
              Takes(j, All(op, bank, row, 8 * i, NumGrf, m), OnIt(0, m, lj, jm), OnIt(0, m + 1, lj, jm))
         /\ m = 0 =>
              \A pc \in InProgram(j), a, b \in Int :
                (\A r \in {-1, 0} : Jumped(j, Seqr(pc, a, b, -1, r)) = Seqr(0, lj, jm, -1, r))
                => Takes(j, All(op, bank, row, 8 * i, NumGrf, m), OnIt(0, pc, a, b), OnIt(0, 1, lj, jm))
<1>1. n \in {4, 6} /\ m \in Nat /\ Lasts(j, m, NumGrf) /\ (m # n - 1 => ~IsEnd(j, m + 1))
  <2>1. n \in {4, 6} /\ \A k \in 0 .. n - 1 : Lasts(j, k, NumGrf) /\ ~IsEnd(j, k)
    BY EltwiseProgram
  <2>2. m \in Nat /\ (m # n - 1 => m + 1 \in 0 .. n - 1)
    BY <2>1
  <2> QED BY <2>1, <2>2
<1>2. row \in Nat /\ 8 * i \in Nat /\ Below(row, 8 * i, NumGrf)
  <2>1. j.tiles \in Nat /\ 8 * j.tiles <= 4096
    BY JobFields DEF Fits, NumCols, Input1
  <2>2. 8 * i \in Nat /\ NumGrf \in Nat /\ 8 * i + NumGrf <= 32 * 7000 /\ row \in Nat /\ row <= 1000
    BY <2>1 DEF NumGrf, Input0, Input1, Output
  <2> QED BY <2>2, BelowLow
<1>3. Takes(j, All(op, bank, row, 8 * i, NumGrf, m), OnIt(0, m, lj, jm), Next1(j, 0, m + 1, lj, jm))
  BY <1>1, <1>2, SendingNext
<1>4. m # n - 1 => Next1(j, 0, m + 1, lj, jm) = OnIt(0, m + 1, lj, jm)
  BY <1>1 DEF Next1
<1>5. ASSUME m = 0, NEW pc \in InProgram(j), NEW a \in Int, NEW b \in Int,
             \A r \in {-1, 0} : Jumped(j, Seqr(pc, a, b, -1, r)) = Seqr(0, lj, jm, -1, r)
      PROVE  Takes(j, All(op, bank, row, 8 * i, NumGrf, m), OnIt(0, pc, a, b), OnIt(0, 1, lj, jm))
  <2>1. Takes(j, All(op, bank, row, 8 * i, NumGrf, m), OnIt(0, pc, a, b), Next1(j, 0, m + 1, lj, jm))
    BY <1>1, <1>2, <1>5, SendingTakes
  <2>2. m # n - 1 /\ m + 1 = 1
    BY <1>1, <1>5
  <2> QED BY <1>4, <2>1, <2>2
<1> QED BY <1>3, <1>4, <1>5

LEMMA EltwiseMiddle ==
  ASSUME NEW j \in Jobs, j.kernel \in {"ADD", "MUL", "RELU"},
         NEW op \in {"READ", "WRITE"}, NEW bank \in {0, 1}, NEW row \in {Input0, Input1, Output},
         NEW i \in 0 .. j.tiles - 1, NEW m \in 0 .. EltwiseLen(j) - 1, m # EltwiseLen(j) - 1,
         NEW lj \in Int, NEW jm \in Int
  PROVE  Takes(j, All(op, bank, row, 8 * i, NumGrf, m), OnIt(0, m, lj, jm), OnIt(0, m + 1, lj, jm))
  BY EltwiseGroup

LEMMA ReluTileTakes ==
  ASSUME NEW j \in Jobs, j.kernel = "RELU", NEW i \in 0 .. j.tiles - 1,
         NEW pc \in InProgram(j), NEW a \in Int, NEW b \in Int, NEW lj \in Int, NEW jm \in Int,
         \A r \in {-1, 0} : Jumped(j, Seqr(pc, a, b, -1, r)) = Seqr(0, lj, jm, -1, r)
  PROVE  Takes(j, ReluTile(i), OnIt(0, pc, a, b), Next1(j, 0, 4, lj, jm))
<1> DEFINE f(x) == All("READ", x, Input0, 8 * i, NumGrf, 2 * x)
               \o All("WRITE", x, Output, 8 * i, NumGrf, 2 * x + 1)
           s == [x \in 1 .. 2 |-> f(x - 1)]
<1>1. ReluTile(i) = FlattenSeq(s)
  BY DEF ReluTile, Each
<1>2. j.kernel \in {"ADD", "MUL", "RELU"} /\ 4 = EltwiseLen(j)
  BY DEF EltwiseLen
<1>3. Takes(j, All("READ", 0, Input0, 8 * i, NumGrf, 0), OnIt(0, pc, a, b), OnIt(0, 1, lj, jm))
  BY <1>2, EltwiseGroup
<1>4. Takes(j, All("WRITE", 0, Output, 8 * i, NumGrf, 1), OnIt(0, 1, lj, jm), OnIt(0, 2, lj, jm))
  <2>1. 1 \in 0 .. 4 - 1 /\ 1 # 4 - 1 /\ 1 + 1 = 2
    OBVIOUS
  <2>2. Takes(j, All("WRITE", 0, Output, 8 * i, NumGrf, 1), OnIt(0, 1, lj, jm), OnIt(0, 1 + 1, lj, jm))
    BY <1>2, <2>1, EltwiseGroup
  <2> QED BY <2>1, <2>2
<1>5. Takes(j, All("READ", 1, Input0, 8 * i, NumGrf, 2), OnIt(0, 2, lj, jm), OnIt(0, 3, lj, jm))
  <2>1. 2 \in 0 .. 4 - 1 /\ 2 # 4 - 1 /\ 2 + 1 = 3
    OBVIOUS
  <2>2. Takes(j, All("READ", 1, Input0, 8 * i, NumGrf, 2), OnIt(0, 2, lj, jm), OnIt(0, 2 + 1, lj, jm))
    BY <1>2, <2>1, EltwiseGroup
  <2> QED BY <2>1, <2>2
<1>6. Takes(j, All("WRITE", 1, Output, 8 * i, NumGrf, 3), OnIt(0, 3, lj, jm), Next1(j, 0, 4, lj, jm))
  <2>1. 3 \in 0 .. 4 - 1 /\ 3 + 1 = 4
    OBVIOUS
  <2>2. Takes(j, All("WRITE", 1, Output, 8 * i, NumGrf, 3), OnIt(0, 3, lj, jm), Next1(j, 0, 3 + 1, lj, jm))
    BY <1>2, <2>1, EltwiseGroup
  <2> QED BY <2>1, <2>2
<1>7. /\ f(0) = All("READ", 0, Input0, 8 * i, NumGrf, 0) \o All("WRITE", 0, Output, 8 * i, NumGrf, 1)
      /\ f(1) = All("READ", 1, Input0, 8 * i, NumGrf, 2) \o All("WRITE", 1, Output, 8 * i, NumGrf, 3)
  <2>1. 2 * 0 = 0 /\ 2 * 0 + 1 = 1 /\ 2 * 1 = 2 /\ 2 * 1 + 1 = 3
    OBVIOUS
  <2> QED BY <2>1
<1> HIDE DEF f
<1>8. Takes(j, f(0), OnIt(0, pc, a, b), OnIt(0, 2, lj, jm))
  BY <1>3, <1>4, <1>7, TakesOn
<1>9. Takes(j, f(1), OnIt(0, 2, lj, jm), Next1(j, 0, 4, lj, jm))
  BY <1>5, <1>6, <1>7, TakesOn
<1>10. s = [x \in 1 .. 2 |-> s[x]] /\ s[1] = f(0) /\ s[2] = f(1)
  OBVIOUS
<1> HIDE DEF s
<1> QED BY <1>1, <1>8, <1>9, <1>10, TakesTwice

LEMMA AddOrMulTileTakes ==
  ASSUME NEW j \in Jobs, j.kernel \in {"ADD", "MUL"}, NEW i \in 0 .. j.tiles - 1,
         NEW pc \in InProgram(j), NEW a \in Int, NEW b \in Int, NEW lj \in Int, NEW jm \in Int,
         \A r \in {-1, 0} : Jumped(j, Seqr(pc, a, b, -1, r)) = Seqr(0, lj, jm, -1, r)
  PROVE  Takes(j, AddOrMulTile(i), OnIt(0, pc, a, b), Next1(j, 0, 6, lj, jm))
<1> DEFINE f(x) == All("READ", x, Input0, 8 * i, NumGrf, 3 * x)
               \o All("READ", x, Input1, 8 * i, NumGrf, 3 * x + 1)
               \o All("WRITE", x, Output, 8 * i, NumGrf, 3 * x + 2)
           s == [x \in 1 .. 2 |-> f(x - 1)]
<1>1. AddOrMulTile(i) = FlattenSeq(s)
  BY DEF AddOrMulTile, Each
<1>2. j.kernel \in {"ADD", "MUL", "RELU"} /\ 6 = EltwiseLen(j)
  BY DEF EltwiseLen
<1>3. Takes(j, All("READ", 0, Input0, 8 * i, NumGrf, 0), OnIt(0, pc, a, b), OnIt(0, 1, lj, jm))
  BY <1>2, EltwiseGroup
<1>4. \A m \in 1 .. 4, op \in {"READ", "WRITE"}, x \in {0, 1}, row \in {Input0, Input1, Output} :
        Takes(j, All(op, x, row, 8 * i, NumGrf, m), OnIt(0, m, lj, jm), OnIt(0, m + 1, lj, jm))
  <2> SUFFICES ASSUME NEW m \in 1 .. 4, NEW op \in {"READ", "WRITE"}, NEW x \in {0, 1},
                      NEW row \in {Input0, Input1, Output}
               PROVE  Takes(j, All(op, x, row, 8 * i, NumGrf, m), OnIt(0, m, lj, jm), OnIt(0, m + 1, lj, jm))
    OBVIOUS
  <2>1. m \in 0 .. EltwiseLen(j) - 1 /\ m # EltwiseLen(j) - 1
    BY <1>2
  <2> QED BY <1>2, <2>1, EltwiseMiddle
<1>5. Takes(j, All("WRITE", 1, Output, 8 * i, NumGrf, 5), OnIt(0, 5, lj, jm), Next1(j, 0, 6, lj, jm))
  <2>1. 5 \in 0 .. 6 - 1 /\ 5 + 1 = 6
    OBVIOUS
  <2>2. Takes(j, All("WRITE", 1, Output, 8 * i, NumGrf, 5), OnIt(0, 5, lj, jm), Next1(j, 0, 5 + 1, lj, jm))
    BY <1>2, <2>1, EltwiseGroup
  <2> QED BY <2>1, <2>2
<1>6. /\ Takes(j, All("READ", 0, Input1, 8 * i, NumGrf, 1), OnIt(0, 1, lj, jm), OnIt(0, 2, lj, jm))
      /\ Takes(j, All("WRITE", 0, Output, 8 * i, NumGrf, 2), OnIt(0, 2, lj, jm), OnIt(0, 3, lj, jm))
      /\ Takes(j, All("READ", 1, Input0, 8 * i, NumGrf, 3), OnIt(0, 3, lj, jm), OnIt(0, 4, lj, jm))
      /\ Takes(j, All("READ", 1, Input1, 8 * i, NumGrf, 4), OnIt(0, 4, lj, jm), OnIt(0, 5, lj, jm))
  <2>1. /\ 1 + 1 = 2 /\ 2 + 1 = 3 /\ 3 + 1 = 4 /\ 4 + 1 = 5
        /\ 1 \in 1 .. 4 /\ 2 \in 1 .. 4 /\ 3 \in 1 .. 4 /\ 4 \in 1 .. 4
    OBVIOUS
  <2>2. Takes(j, All("READ", 0, Input1, 8 * i, NumGrf, 1), OnIt(0, 1, lj, jm), OnIt(0, 1 + 1, lj, jm))
    BY <1>4, <2>1
  <2>3. Takes(j, All("WRITE", 0, Output, 8 * i, NumGrf, 2), OnIt(0, 2, lj, jm), OnIt(0, 2 + 1, lj, jm))
    BY <1>4, <2>1
  <2>4. Takes(j, All("READ", 1, Input0, 8 * i, NumGrf, 3), OnIt(0, 3, lj, jm), OnIt(0, 3 + 1, lj, jm))
    BY <1>4, <2>1
  <2>5. Takes(j, All("READ", 1, Input1, 8 * i, NumGrf, 4), OnIt(0, 4, lj, jm), OnIt(0, 4 + 1, lj, jm))
    BY <1>4, <2>1
  <2> QED BY <2>1, <2>2, <2>3, <2>4, <2>5
<1>7. /\ f(0) = All("READ", 0, Input0, 8 * i, NumGrf, 0) \o All("READ", 0, Input1, 8 * i, NumGrf, 1)
                \o All("WRITE", 0, Output, 8 * i, NumGrf, 2)
      /\ f(1) = All("READ", 1, Input0, 8 * i, NumGrf, 3) \o All("READ", 1, Input1, 8 * i, NumGrf, 4)
                \o All("WRITE", 1, Output, 8 * i, NumGrf, 5)
  <2>1. 3 * 0 = 0 /\ 3 * 0 + 1 = 1 /\ 3 * 0 + 2 = 2 /\ 3 * 1 = 3 /\ 3 * 1 + 1 = 4 /\ 3 * 1 + 2 = 5
    OBVIOUS
  <2> QED BY <2>1
<1> HIDE DEF f
<1>8. Takes(j, f(0), OnIt(0, pc, a, b), OnIt(0, 3, lj, jm))
  <2>1. Takes(j, All("READ", 0, Input0, 8 * i, NumGrf, 0) \o All("READ", 0, Input1, 8 * i, NumGrf, 1),
              OnIt(0, pc, a, b), OnIt(0, 2, lj, jm))
    BY <1>3, <1>6, TakesOn
  <2> QED BY <1>6, <1>7, <2>1, TakesOn
<1>9. Takes(j, f(1), OnIt(0, 3, lj, jm), Next1(j, 0, 6, lj, jm))
  <2>1. Takes(j, All("READ", 1, Input0, 8 * i, NumGrf, 3) \o All("READ", 1, Input1, 8 * i, NumGrf, 4),
              OnIt(0, 3, lj, jm), OnIt(0, 5, lj, jm))
    BY <1>6, TakesOn
  <2> QED BY <1>5, <1>7, <2>1, TakesOn
<1>10. s = [x \in 1 .. 2 |-> s[x]] /\ s[1] = f(0) /\ s[2] = f(1)
  OBVIOUS
<1> HIDE DEF s
<1> QED BY <1>1, <1>8, <1>9, <1>10, TakesTwice

\* The pass over a tile, from wherever the last one left the program.
LEMMA EltwiseTile ==
  ASSUME NEW j \in Jobs, j.kernel \in {"ADD", "MUL", "RELU"}, NEW n, n = EltwiseLen(j), NEW i \in 0 .. j.tiles - 1,
         NEW pc \in InProgram(j), NEW a \in Int, NEW b \in Int, NEW lj \in Int, NEW jm \in Int,
         \A r \in {-1, 0} : Jumped(j, Seqr(pc, a, b, -1, r)) = Seqr(0, lj, jm, -1, r)
  PROVE  Takes(j, IF j.kernel = "RELU" THEN ReluTile(i) ELSE AddOrMulTile(i),
               OnIt(0, pc, a, b), Next1(j, 0, n, lj, jm))
<1>1. CASE j.kernel = "RELU"
  <2>1. n = 4
    BY <1>1 DEF EltwiseLen
  <2>2. Takes(j, ReluTile(i), OnIt(0, pc, a, b), Next1(j, 0, 4, lj, jm))
    BY <1>1, ReluTileTakes
  <2> QED BY <1>1, <2>1, <2>2
<1>2. CASE j.kernel # "RELU"
  <2>1. n = 6 /\ j.kernel \in {"ADD", "MUL"}
    BY <1>2 DEF EltwiseLen
  <2>2. Takes(j, AddOrMulTile(i), OnIt(0, pc, a, b), Next1(j, 0, 6, lj, jm))
    BY <2>1, AddOrMulTileTakes
  <2> QED BY <1>2, <2>1, <2>2
<1> QED BY <1>1, <1>2

\* Where the program is after x tiles of n.
EltwiseAt(j, x) ==
  LET n == EltwiseLen(j)
  IN IF x = 0 THEN OnIt(0, 0, -1, -1)
     ELSE IF j.tiles = 1 THEN Done(0)
     ELSE IF x = 1 THEN OnIt(0, n, -1, -1)
     ELSE OnIt(0, n, n, j.tiles - x)

LEMMA EltwiseStep ==
  ASSUME NEW j \in Jobs, j.kernel \in {"ADD", "MUL", "RELU"}, NEW x \in 1 .. j.tiles
  PROVE  Takes(j, IF j.kernel = "RELU" THEN ReluTile(x - 1) ELSE AddOrMulTile(x - 1),
               EltwiseAt(j, x - 1), EltwiseAt(j, x))
<1> DEFINE n == EltwiseLen(j)
<1>1. /\ n \in {4, 6} /\ \A m \in 0 .. n - 1 : Lasts(j, m, NumGrf) /\ ~IsEnd(j, m)
      /\ n \in InProgram(j)
      /\ j.tiles = 1 => IsEnd(j, n)
      /\ j.tiles # 1 => Jumps(Cmd(j, n), j.tiles - 1, n + 1) /\ ~IsEnd(j, n)
  BY EltwiseProgram
<1>2. j.tiles \in Nat /\ x - 1 \in 0 .. j.tiles - 1
  BY JobFields
<1>3. n = EltwiseLen(j)
  OBVIOUS
<1> HIDE DEF n
<1>4. ASSUME NEW pc \in InProgram(j), NEW a \in Int, NEW b \in Int, NEW lj \in Int, NEW jm \in Int,
             \A r \in {-1, 0} : Jumped(j, Seqr(pc, a, b, -1, r)) = Seqr(0, lj, jm, -1, r)
      PROVE  Takes(j, IF j.kernel = "RELU" THEN ReluTile(x - 1) ELSE AddOrMulTile(x - 1),
                   OnIt(0, pc, a, b), Next1(j, 0, n, lj, jm))
  BY <1>2, <1>3, <1>4, EltwiseTile
<1>5. CASE x = 1
  <2>1. 0 \in InProgram(j) /\ Cmd(j, 0).type # "JUMP"
    <3>1. 0 \in 0 .. n - 1
      BY <1>1
    <3> QED BY <1>1, <3>1 DEF Lasts
  <2>2. \A r \in {-1, 0} : Jumped(j, Seqr(0, -1, -1, -1, r)) = Seqr(0, -1, -1, -1, r)
    BY <2>1, JumpedStays
  <2>3. Takes(j, IF j.kernel = "RELU" THEN ReluTile(x - 1) ELSE AddOrMulTile(x - 1),
              OnIt(0, 0, -1, -1), Next1(j, 0, n, -1, -1))
    BY <1>4, <2>1, <2>2
  <2>4. EltwiseAt(j, x - 1) = OnIt(0, 0, -1, -1)
    BY <1>5 DEF EltwiseAt
  <2>5. EltwiseAt(j, x) = Next1(j, 0, n, -1, -1)
    BY <1>1, <1>3, <1>5 DEF EltwiseAt, Next1
  <2> QED BY <2>3, <2>4, <2>5
<1>6. CASE x # 1
  <2>1. j.tiles # 1 /\ x >= 2 /\ x <= j.tiles /\ x - 1 # 0
    BY <1>2, <1>6
  <2>2. Cmd(j, n).type = "JUMP" /\ Cmd(j, n).count = j.tiles - 1 /\ Cmd(j, n).offset = n + 1 /\ n \in Nat
    BY <1>1, <2>1 DEF Jumps
  <2> DEFINE a == IF x = 2 THEN -1 ELSE n
             b == IF x = 2 THEN -1 ELSE j.tiles - (x - 1)
  <2>3. a \in Int /\ b \in Int /\ (a = n => b > 0) /\ (IF a = n THEN b ELSE j.tiles - 1) - 1 = j.tiles - x
    BY <1>1, <1>2, <2>1
  <2>4. EltwiseAt(j, x - 1) = OnIt(0, n, a, b)
    BY <1>2, <1>3, <2>1 DEF EltwiseAt
  <2> HIDE DEF a, b
  <2>5. \A r \in {-1, 0} : Jumped(j, Seqr(n, a, b, -1, r)) = Seqr(0, n, j.tiles - x, -1, r)
    <3> SUFFICES ASSUME NEW r \in {-1, 0} PROVE Jumped(j, Seqr(n, a, b, -1, r)) = Seqr(0, n, j.tiles - x, -1, r)
      OBVIOUS
    <3>1. n \in Int /\ Cmd(j, n).count \in Nat /\ Cmd(j, n).count > 0 /\ Cmd(j, n).offset \in Nat
      BY <1>2, <2>1, <2>2
    <3>2. Jumped(j, Seqr(n, a, b, -1, r))
            = Seqr(n - Cmd(j, n).offset + 1, n, (IF a = n THEN b ELSE Cmd(j, n).count) - 1, -1, r)
      BY <2>2, <2>3, <3>1, JumpedBack
    <3>3. n - Cmd(j, n).offset + 1 = 0 /\ (IF a = n THEN b ELSE Cmd(j, n).count) - 1 = j.tiles - x
      BY <2>2, <2>3
    <3> QED BY <3>2, <3>3
  <2>6. Takes(j, IF j.kernel = "RELU" THEN ReluTile(x - 1) ELSE AddOrMulTile(x - 1),
              OnIt(0, n, a, b), Next1(j, 0, n, n, j.tiles - x))
    <3>1. n \in Int /\ j.tiles - x \in Int
      BY <1>2, <2>2
    <3> QED BY <1>1, <1>4, <2>3, <2>5, <3>1
  <2>7. EltwiseAt(j, x) = Next1(j, 0, n, n, j.tiles - x)
    BY <1>1, <1>3, <2>1 DEF EltwiseAt, Next1
  <2> QED BY <2>4, <2>6, <2>7
<1> QED BY <1>5, <1>6

LEMMA EltwiseBodyTakes ==
  ASSUME NEW j \in Jobs, j.kernel \in {"ADD", "MUL", "RELU"}
  PROVE  Takes(j, EltwiseBody(j), Off, Off)
<1> DEFINE s == [x \in 1 .. j.tiles |-> IF j.kernel = "RELU" THEN ReluTile(x - 1) ELSE AddOrMulTile(x - 1)]
           E == [x \in 0 .. j.tiles |-> EltwiseAt(j, x)]
           n == EltwiseLen(j)
<1>1. j.tiles \in Nat /\ j.tiles # 0
  BY JobFields
<1>2. EltwiseBody(j) = Switch(Control(TRUE, FALSE, 0)) \o FlattenSeq(s) \o Switch(Control(FALSE, FALSE, 0))
  BY DEF EltwiseBody, Each
<1>3. Takes(j, FlattenSeq(s), EltwiseAt(j, 0), EltwiseAt(j, j.tiles))
  <2>1. \A x \in 1 .. j.tiles : Takes(j, s[x], E[x - 1], E[x])
    <3>1. \A x \in 1 .. j.tiles : /\ s[x] = IF j.kernel = "RELU" THEN ReluTile(x - 1) ELSE AddOrMulTile(x - 1)
                                  /\ E[x - 1] = EltwiseAt(j, x - 1) /\ E[x] = EltwiseAt(j, x)
      BY <1>1
    <3> HIDE DEF s, E
    <3> QED BY <3>1, EltwiseStep
  <2>2. s = [x \in 1 .. j.tiles |-> s[x]] /\ E[0] = EltwiseAt(j, 0) /\ E[j.tiles] = EltwiseAt(j, j.tiles)
    BY <1>1
  <2> HIDE DEF s, E
  <2>3. Takes(j, FlattenSeq(s), E[0], E[j.tiles])
    BY <1>1, <2>1, <2>2, TakesEach
  <2> QED BY <2>2, <2>3
<1>4. Takes(j, Switch(Control(TRUE, FALSE, 0)), Off, EltwiseAt(j, 0))
  <2>1. Control(TRUE, FALSE, 0).op = TRUE /\ Control(TRUE, FALSE, 0).cond = 0
    BY DEF Control
  <2>2. Takes(j, Switch(Control(TRUE, FALSE, 0)), Off, OnIt(0, 0, -1, -1))
    BY <2>1, SwitchOn
  <2> QED BY <2>2 DEF EltwiseAt
<1>5. Takes(j, Switch(Control(FALSE, FALSE, 0)), EltwiseAt(j, j.tiles), Off)
  <2>1. Control(FALSE, FALSE, 0).op = FALSE
    BY DEF Control
  <2>2. PICK p : Stops(p) /\ Switch(Control(FALSE, FALSE, 0)) = <<{p}>>
    BY <2>1, SwitchOff
  <2>3. CASE j.tiles = 1
    <3>1. EltwiseAt(j, j.tiles) = Done(0)
      BY <2>3 DEF EltwiseAt
    <3> QED BY <2>2, <3>1, DoneOff
  <2>4. CASE j.tiles # 1
    <3>1. EltwiseAt(j, j.tiles) = OnIt(0, n, n, 0)
      <4>1. j.tiles - j.tiles = 0 /\ j.tiles # 0
        BY <1>1
      <4>2. j.tiles >= 2
        BY <1>1, <2>4
      <4> QED BY <2>4, <4>1 DEF EltwiseAt
    <3>2. n \in Int /\ n \in InProgram(j) /\ n + 1 \in InProgram(j) /\ IsEnd(j, n + 1) /\ Cmd(j, n).type = "JUMP"
      <4>1. n \in {4, 6} /\ n \in InProgram(j) /\ n + 1 \in InProgram(j) /\ IsEnd(j, n + 1)
            /\ Jumps(Cmd(j, n), j.tiles - 1, n + 1)
        BY <2>4, EltwiseProgram
      <4> HIDE DEF n
      <4>2. Cmd(j, n).type = "JUMP" /\ n \in Int
        BY <4>1 DEF Jumps
      <4> QED BY <4>1, <4>2
    <3> HIDE DEF n
    <3>3. \A r \in {-1, 0} : Jumped(j, Seqr(n, n, 0, -1, r)).pc = n + 1
      <4>1. \A r \in {-1, 0} : Jumped(j, Seqr(n, n, 0, -1, r)) = Seqr(n + 1, n, 0, -1, r)
        BY <3>2, JumpedOn
      <4>2. \A r : Seqr(n + 1, n, 0, -1, r).pc = n + 1
        BY DEF Seqr
      <4> QED BY <4>1, <4>2
    <3>4. Takes(j, <<{p}>>, OnIt(0, n, n, 0), Off)
      BY <2>2, <3>2, <3>3, EarlyOff
    <3> QED BY <2>2, <3>1, <3>4
  <2> QED BY <2>3, <2>4
<1> HIDE DEF s
<1>6. Takes(j, Switch(Control(TRUE, FALSE, 0)) \o FlattenSeq(s), Off, EltwiseAt(j, j.tiles))
  BY <1>3, <1>4, TakesOn
<1> QED BY <1>2, <1>5, <1>6, TakesOn

-----------------------------------------------------------------------------
(* Conv1D. *)

LEMMA ConvWorks ==
  \A j : j.kernel = "CONV1D" => Lasts(j, 0, 1) /\ IsEnd(j, 1) /\ Cmd(j, 0).type # "JUMP"
<1> SUFFICES ASSUME NEW j, j.kernel = "CONV1D"
             PROVE  Lasts(j, 0, 1) /\ IsEnd(j, 1) /\ Cmd(j, 0).type # "JUMP"
  OBVIOUS
<1> DEFINE a == Op("MAC", "GRF_B", "GRF_A", "EVEN_BANK", FALSE)
<1>1. ProgramOf(j) = <<a, End>>
  <2>1. ProgramOf(j) = ConvCmds
    BY DEF ProgramOf
  <2> QED BY <2>1 DEF ConvCmds
<1>2. a \in Written /\ a.type = "MAC" /\ a.auto = FALSE
  <2>1. Sober(a, 1)
    BY OpSober
  <2>2. a.type = "MAC" /\ a.auto = FALSE
    BY DEF Op, Nop
  <2> HIDE DEF a
  <2> QED BY <2>1, <2>2 DEF Sober
<1> HIDE DEF a
<1>3. Cmd(j, 0) = Stored(a) /\ Cmd(j, 1) = Stored(End) /\ 0 \in InProgram(j) /\ 1 \in InProgram(j)
  BY <1>1 DEF Cmd, InProgram
<1>4. Stored(a).type = "MAC" /\ Stored(a).auto = FALSE
  <2>1. Stored(a).auto = (a.auto /\ a.type \in Arithmetic)
    BY <1>2 DEF Stored, Written
  <2>2. Stored(a).type = "MAC"
    BY <1>2, StoredFields
  <2> QED BY <1>2, <2>1, <2>2
<1>5. ~Repeating(Stored(a))
  BY <1>4 DEF Repeating
<1>6. Lasts(j, 0, 1)
  BY <1>3, <1>4, <1>5 DEF Lasts
<1> QED BY <1>3, <1>4, <1>6, EndEnds DEF IsEnd

LEMMA AllSeq == \A op, bank, row, col, n, m : \E U : All(op, bank, row, col, n, m) \in Seq(U)
<1> SUFFICES ASSUME NEW op, NEW bank, NEW row, NEW col, NEW n, NEW m
             PROVE  \E U : All(op, bank, row, col, n, m) \in Seq(U)
  OBVIOUS
<1> DEFINE g == GroupOf(op, bank, row, col, n, m)
<1>1. All(op, bank, row, col, n, m) = <<g>>
  BY DEF All, GroupOf
<1> HIDE DEF g
<1>2. <<g>> \in Seq({g})
  OBVIOUS
<1> QED BY <1>1, <1>2

LEMMA WriteIdle ==
  ASSUME NEW j, NEW bank, NEW row \in Nat, NEW col \in Nat, NEW n \in Nat \ {0}, Below(row, col, n)
  PROVE  Takes(j, All("WRITE", bank, row, col, n, NoCommand), Off, Off)
BY AllIdle

LEMMA ConvTapTakes ==
  ASSUME NEW j \in Jobs, j.kernel = "CONV1D", NEW slot \in 0 .. j.outs - 1, NEW k \in 0 .. j.tiles - 1
  PROVE  Takes(j, ConvTap(slot, k), Off, Off)
<1> DEFINE r == Register(1, 8, Content(<<2, 0, k>>))
           row == 4 * slot + 2 * (k \div 8)
           on == Control(TRUE, k = 0, 2)
           off == Control(FALSE, FALSE, 2)
<1>1. ConvTap(slot, k) = <<{r}>> \o Switch(on) \o All("READ", 0, row, k % 8, 1, 0) \o Switch(off)
  BY DEF ConvTap
<1>2. Takes(j, <<{r}>>, Off, Off)
  <2>1. Idles(r)
    <3>1. r.op = "WRITE" /\ r.meant = NoCommand /\ r.col = 8 % NumCols
      BY DEF Register, Access
    <3>2. r.col # 0
      BY <3>1 DEF NumCols
    <3> HIDE DEF r
    <3> QED BY <3>1, <3>2 DEF Idles, IsControl
  <2> HIDE DEF r
  <2>2. IsFiniteSet({r}) /\ {r} # {} /\ \A p \in {r} : Idles(p)
    BY <2>1, FS_Singleton
  <2> QED BY <2>2, IdleTakes
<1>3. Takes(j, Switch(on), Off, OnIt(2, 0, -1, -1))
  <2>1. on.op = TRUE /\ on.cond = 2
    BY DEF Control
  <2> HIDE DEF on
  <2> QED BY <2>1, SwitchOn
<1>4. Takes(j, All("READ", 0, row, k % 8, 1, 0), OnIt(2, 0, -1, -1), Done(2))
  <2>1. Lasts(j, 0, 1) /\ IsEnd(j, 1) /\ Cmd(j, 0).type # "JUMP"
    BY ConvWorks
  <2>2. 0 \in InProgram(j)
    BY <2>1 DEF Lasts
  <2>3. \A q \in {-1, 0} : Jumped(j, Seqr(0, -1, -1, -1, q)) = Seqr(0, -1, -1, -1, q)
    BY <2>1, JumpedStays
  <2>4. row \in Nat /\ k % 8 \in Nat /\ Below(row, k % 8, 1)
    <3>1. j.outs \in Nat /\ j.tiles \in Nat \ {0} /\ 4 * (j.outs - 1) + 2 * ((j.tiles - 1) \div 8) < 4096
      BY JobFields DEF Fits
    <3>2. slot \in Nat /\ slot <= j.outs - 1 /\ k \in Nat /\ k <= j.tiles - 1
      BY <3>1
    <3>3. k \div 8 <= (j.tiles - 1) \div 8 /\ k \div 8 \in Nat /\ (j.tiles - 1) \div 8 \in Nat /\ k % 8 \in 0 .. 7
      BY <3>1, <3>2
    <3>4. row \in Nat /\ row < 4096
      BY <3>1, <3>2, <3>3
    <3> HIDE DEF row
    <3>5. \A i \in 0 .. 1 - 1 : row + (((k % 8) + i) \div NumCols) < 8192
      BY <3>3, <3>4 DEF NumCols
    <3> QED BY <3>3, <3>4, <3>5 DEF Below
  <2> HIDE DEF row
  <2>5. Leads(j, All("READ", 0, row, k % 8, 1, 0), OnIt(2, 0, -1, -1), Next1(j, 2, 0 + 1, -1, -1))
    <3>1. 2 \in {0, 2} /\ "READ" \in {"READ", "WRITE"} /\ 0 \in {0, 1} /\ 0 # 1 /\ 1 \in Nat \ {0} /\ 0 \in Nat
          /\ -1 \in Int
      OBVIOUS
    <3> QED BY <2>1, <2>2, <2>3, <2>4, <3>1, Sending
  <2>6. Next1(j, 2, 0 + 1, -1, -1) = Done(2)
    <3>1. 0 + 1 = 1
      OBVIOUS
    <3> QED BY <2>1, <3>1 DEF Next1
  <2>7. \E U : All("READ", 0, row, k % 8, 1, 0) \in Seq(U)
    BY AllSeq
  <2> QED BY <2>5, <2>6, <2>7 DEF Takes
<1>5. Takes(j, Switch(off), Done(2), Off)
  <2>1. off.op = FALSE
    BY DEF Control
  <2> HIDE DEF off
  <2>2. PICK p : Stops(p) /\ Switch(off) = <<{p}>>
    BY <2>1, SwitchOff
  <2> QED BY <2>2, DoneOff
<1> HIDE DEF r, row, on, off
<1>6. Takes(j, <<{r}>> \o Switch(on), Off, OnIt(2, 0, -1, -1))
  BY <1>2, <1>3, TakesOn
<1>7. Takes(j, <<{r}>> \o Switch(on) \o All("READ", 0, row, k % 8, 1, 0), Off, Done(2))
  BY <1>4, <1>6, TakesOn
<1> QED BY <1>1, <1>5, <1>7, TakesOn

\* Pieces that leave the rank as it was.
LEMMA TakesAlike ==
  ASSUME NEW j, NEW n \in Nat, NEW s, s = [i \in 1 .. n |-> s[i]], NEW A, \A i \in 1 .. n : Takes(j, s[i], A, A)
  PROVE  Takes(j, FlattenSeq(s), A, A)
<1> DEFINE E == [i \in 0 .. n |-> A]
<1>1. \A i \in 1 .. n : E[i - 1] = A /\ E[i] = A
  OBVIOUS
<1>2. E[0] = A /\ E[n] = A
  OBVIOUS
<1> HIDE DEF E
<1>3. \A i \in 1 .. n : Takes(j, s[i], E[i - 1], E[i])
  BY <1>1
<1>4. Takes(j, FlattenSeq(s), E[0], E[n])
  BY <1>3, TakesEach
<1> QED BY <1>2, <1>4

LEMMA ConvBodyTakes ==
  ASSUME NEW j \in Jobs, j.kernel = "CONV1D"
  PROVE  Takes(j, ConvBody(j), Off, Off)
<1> DEFINE s(slot) == [y \in 1 .. j.tiles |-> ConvTap(slot, y - 1)]
           f(slot) == FlattenSeq(s(slot)) \o All("WRITE", 1, 4096 + slot, 0, 1, NoCommand)
           t == [x \in 1 .. j.outs |-> f(x - 1)]
<1>1. ConvBody(j) = FlattenSeq(t)
  BY DEF ConvBody, Each
<1>2. j.outs \in Nat /\ j.tiles \in Nat
  BY JobFields
<1>3. ASSUME NEW slot \in 0 .. j.outs - 1 PROVE Takes(j, f(slot), Off, Off)
  <2>1. \A y \in 1 .. j.tiles : Takes(j, s(slot)[y], Off, Off)
    <3>1. ASSUME NEW y \in 1 .. j.tiles PROVE Takes(j, ConvTap(slot, y - 1), Off, Off)
      <4>1. y - 1 \in 0 .. j.tiles - 1
        BY <1>2
      <4> QED BY <4>1, ConvTapTakes
    <3> QED BY <3>1
  <2>2. s(slot) = [y \in 1 .. j.tiles |-> s(slot)[y]]
    OBVIOUS
  <2> HIDE DEF s
  <2>3. Takes(j, FlattenSeq(s(slot)), Off, Off)
    BY <1>2, <2>1, <2>2, TakesAlike
  <2>4. Takes(j, All("WRITE", 1, 4096 + slot, 0, 1, NoCommand), Off, Off)
    <3>1. 4096 + slot + (0 \div NumCols) < 8192
      BY ConvApart
    <3>2. Below(4096 + slot, 0, 1)
      BY <3>1 DEF Below
    <3>3. 4096 + slot \in Nat /\ 0 \in Nat /\ 1 \in Nat \ {0}
      BY <1>2
    <3> QED BY <3>2, <3>3, WriteIdle
  <2> QED BY <2>3, <2>4, TakesOn
<1> HIDE DEF f
<1>4. \A x \in 1 .. j.outs : Takes(j, t[x], Off, Off)
  <2>1. ASSUME NEW x \in 1 .. j.outs PROVE Takes(j, f(x - 1), Off, Off)
    <3>1. x - 1 \in 0 .. j.outs - 1
      BY <1>2
    <3> QED BY <1>3, <3>1
  <2> QED BY <2>1
<1>5. t = [x \in 1 .. j.outs |-> t[x]]
  OBVIOUS
<1> HIDE DEF t
<1> QED BY <1>1, <1>2, <1>4, <1>5, TakesAlike

-----------------------------------------------------------------------------
(* The matrix kernels. *)

LEMMA BelowFirst ==
  ASSUME NEW col \in Nat, NEW n \in Nat, col + n <= 32 * 8192
  PROVE  Below(0, col, n)
<1>1. ASSUME NEW i \in 0 .. n - 1 PROVE 0 + ((col + i) \div 32) < 8192
  <2>1. (col + i) \div 32 < 8192 /\ (col + i) \div 32 \in Int
    OBVIOUS
  <2> QED BY <2>1
<1>2. \A i \in 0 .. n - 1 : 0 + ((col + i) \div NumCols) < 8192
  BY <1>1 DEF NumCols
<1> QED BY ONLY <1>2 DEF Below

\* The vector's elements are written to registers.
LEMMA VectorIdle ==
  ASSUME NEW batch, NEW tile
  PROVE  LET g == {Register(1, 8 + a, VectorOf(batch, tile, a)) : a \in 0 .. 7}
         IN IsFiniteSet(g) /\ g # {} /\ \A p \in g : Idles(p) /\ IsReservedRA(p.row)
<1> DEFINE f == [a \in 0 .. 7 |-> Register(1, 8 + a, VectorOf(batch, tile, a))]
           g == {Register(1, 8 + a, VectorOf(batch, tile, a)) : a \in 0 .. 7}
<1>1. f \in Surjection(0 .. 7, g) /\ g # {}
  <2>1. g = {f[a] : a \in 0 .. 7} /\ f = [a \in 0 .. 7 |-> f[a]] /\ 0 \in 0 .. 7
    OBVIOUS
  <2> HIDE DEF f, g
  <2> QED BY <2>1 DEF Surjection
<1>2. IsFiniteSet(0 .. 7)
  <2>1. 0 \in Int /\ 7 \in Int
    OBVIOUS
  <2> QED BY ONLY <2>1, FS_Interval
<1>3. ASSUME NEW a \in 0 .. 7, NEW p, p = Register(1, 8 + a, VectorOf(batch, tile, a))
      PROVE Idles(p) /\ IsReservedRA(p.row)
  <2>1. /\ p.op = "WRITE" /\ p.meant = NoCommand
        /\ p.col = (8 + a) % NumCols /\ p.row = RegRow + ((8 + a) \div NumCols)
    BY <1>3 DEF Register, Access
  <2>2. (8 + a) % 32 # 0 /\ (8 + a) \div 32 = 0 /\ RegRow + 0 = RegRow
    BY DEF RegRow
  <2>3. p.col # 0 /\ p.row = RegRow
    BY <2>1, <2>2 DEF NumCols
  <2>4. IsReservedRA(RegRow)
    BY DEF IsReservedRA, RegRow
  <2>5. ~IsControl(p)
    BY <2>3 DEF IsControl
  <2> QED BY <2>1, <2>3, <2>4, <2>5 DEF Idles
<1>4. \A p \in g : Idles(p) /\ IsReservedRA(p.row)
  BY <1>3
<1>5. IsFiniteSet(g)
  <2> HIDE DEF f, g
  <2> QED BY <1>1, <1>2, FS_Surjection
<1> QED BY <1>1, <1>4, <1>5

\* A program at its loop of a MAC, command m, and a jump back to it: N passes are wanted,
\* n are over, and entry is where the sequencer was before them.
MacLoop(j, m, N) ==
  /\ m \in Nat /\ N \in Nat /\ N >= 2 /\ Lasts(j, m, NumGrf) /\ ~IsEnd(j, m + 1)
  /\ m + 1 \in InProgram(j) /\ Jumps(Cmd(j, m + 1), N - 1, 2)
Enters(j, entry, m, lj, jm) ==
  /\ lj \in Int /\ jm \in Int /\ lj # m + 1
  /\ \E pc \in InProgram(j), a, b \in Int :
       /\ entry = OnIt(0, pc, a, b)
       /\ \A r \in {-1, 0} : Jumped(j, Seqr(pc, a, b, -1, r)) = Seqr(m, lj, jm, -1, r)
MacAt(entry, m, lj, jm, N, n) ==
  IF n = 0 THEN entry ELSE IF n = 1 THEN OnIt(0, m + 1, lj, jm) ELSE OnIt(0, m + 1, m + 1, N - n)

\* One group of accesses is one pass.
LEMMA MacTakes ==
  ASSUME NEW j, NEW m, NEW N, MacLoop(j, m, N), NEW entry, NEW lj, NEW jm, Enters(j, entry, m, lj, jm),
         NEW n \in 0 .. N - 1, NEW bank \in {0, 1}, NEW col \in Nat, Below(0, col, NumGrf)
  PROVE  Takes(j, All("READ", bank, 0, col, NumGrf, m),
               MacAt(entry, m, lj, jm, N, n), MacAt(entry, m, lj, jm, N, n + 1))
<1>1. /\ m \in Nat /\ N \in Nat /\ N >= 2 /\ Lasts(j, m, NumGrf) /\ ~IsEnd(j, m + 1)
      /\ m + 1 \in InProgram(j) /\ Cmd(j, m + 1).type = "JUMP" /\ Cmd(j, m + 1).count = N - 1
      /\ Cmd(j, m + 1).offset = 2 /\ lj \in Int /\ jm \in Int /\ lj # m + 1
  BY DEF MacLoop, Jumps, Enters
<1>2. ASSUME NEW pc \in InProgram(j), NEW a \in Int, NEW b \in Int, NEW x \in Int, NEW y \in Int,
             \A r \in {-1, 0} : Jumped(j, Seqr(pc, a, b, -1, r)) = Seqr(m, x, y, -1, r)
      PROVE  Takes(j, All("READ", bank, 0, col, NumGrf, m), OnIt(0, pc, a, b), OnIt(0, m + 1, x, y))
  <2>1. Takes(j, All("READ", bank, 0, col, NumGrf, m), OnIt(0, pc, a, b), Next1(j, 0, m + 1, x, y))
    <3>1. "READ" \in {"READ", "WRITE"} /\ 0 \in Nat
      OBVIOUS
    <3> QED BY <1>1, <1>2, <3>1, SendingTakes
  <2>2. Next1(j, 0, m + 1, x, y) = OnIt(0, m + 1, x, y)
    BY <1>1 DEF Next1
  <2> QED BY <2>1, <2>2
<1>3. ASSUME NEW x \in Int, NEW y \in Int, x = m + 1 => y > 0, NEW r
      PROVE  Jumped(j, Seqr(m + 1, x, y, -1, r)) = Seqr(m, m + 1, (IF x = m + 1 THEN y ELSE N - 1) - 1, -1, r)
  <2>1. m + 1 \in Int /\ N - 1 \in Nat /\ N - 1 > 0 /\ 2 \in Nat /\ m + 1 - 2 + 1 = m
    BY <1>1
  <2> QED BY <1>1, <1>3, <2>1, JumpedBack
<1>4. CASE n = 0
  <2>1. MacAt(entry, m, lj, jm, N, n) = entry /\ MacAt(entry, m, lj, jm, N, n + 1) = OnIt(0, m + 1, lj, jm)
    BY <1>4 DEF MacAt
  <2>2. PICK pc \in InProgram(j), a, b \in Int :
          /\ entry = OnIt(0, pc, a, b)
          /\ \A r \in {-1, 0} : Jumped(j, Seqr(pc, a, b, -1, r)) = Seqr(m, lj, jm, -1, r)
    BY DEF Enters
  <2> QED BY <1>1, <1>2, <2>1, <2>2
<1>5. CASE n = 1
  <2>1. /\ MacAt(entry, m, lj, jm, N, n) = OnIt(0, m + 1, lj, jm)
        /\ MacAt(entry, m, lj, jm, N, n + 1) = OnIt(0, m + 1, m + 1, N - 2)
    BY <1>5 DEF MacAt
  <2>2. \A r \in {-1, 0} : Jumped(j, Seqr(m + 1, lj, jm, -1, r)) = Seqr(m, m + 1, N - 2, -1, r)
    <3>1. N - 1 - 1 = N - 2
      BY <1>1
    <3> QED BY <1>1, <1>3, <3>1
  <2>3. m + 1 \in Int /\ N - 2 \in Int
    BY <1>1
  <2> QED BY <1>1, <1>2, <2>1, <2>2, <2>3
<1>6. CASE n >= 2
  <2>1. n + 1 # 0 /\ n + 1 # 1 /\ n # 0 /\ n # 1 /\ N - (n + 1) = N - n - 1 /\ N - n \in Int /\ N - n > 0
        /\ N - n - 1 \in Int
    BY <1>1, <1>6
  <2>2. /\ MacAt(entry, m, lj, jm, N, n) = OnIt(0, m + 1, m + 1, N - n)
        /\ MacAt(entry, m, lj, jm, N, n + 1) = OnIt(0, m + 1, m + 1, N - n - 1)
    BY <2>1 DEF MacAt
  <2>3. m + 1 \in Int
    BY <1>1
  <2>4. \A r \in {-1, 0} : Jumped(j, Seqr(m + 1, m + 1, N - n, -1, r)) = Seqr(m, m + 1, N - n - 1, -1, r)
    BY <1>3, <2>1, <2>3
  <2> QED BY <1>1, <1>2, <2>1, <2>2, <2>3, <2>4
<1> QED BY <1>4, <1>5, <1>6

\* The columns of a tile's weights.
WeightCol(j, tile, out) == 64 * ((tile \div 2) + ((out * j.tiles) \div 2))

LEMMA WeightsBelow ==
  ASSUME NEW j \in Jobs, j.kernel \in {"GEMV", "GEMVTREE"}, NEW out \in 0 .. j.outs - 1,
         NEW tile \in 0 .. j.tiles - 1, NEW g \in 0 .. 7
  PROVE  WeightCol(j, tile, out) + 8 * g \in Nat /\ Below(0, WeightCol(j, tile, out) + 8 * g, NumGrf)
<1> DEFINE H == HalfUp(j.tiles)
<1>1. /\ j.tiles \in Nat /\ j.tiles # 0 /\ j.outs \in Nat /\ j.batches \in Nat
      /\ H \in Nat /\ j.tiles <= 2 * H /\ tile \div 2 <= H - 1 /\ tile \div 2 \in Nat
  <2>1. j.tiles \in Nat /\ j.tiles # 0 /\ j.outs \in Nat /\ j.batches \in Nat
    BY JobFields
  <2>2. tile \div 2 <= H - 1 /\ tile \div 2 \in Nat /\ H \in Nat /\ j.tiles <= 2 * H
    BY <2>1 DEF HalfUp
  <2> QED BY <2>1, <2>2
<1>2. 64 * (j.outs * H) + 8 * (j.outs + j.batches + j.tiles) <= 32 * 8192
  <2>1. 64 * (j.outs * H) + 8 * (j.outs + j.batches + j.tiles)
          <= NumCols * (IF j.kernel = "GEMV" THEN 8192 ELSE ZeroRow)
    BY JobFields DEF Fits
  <2>2. j.outs * H \in Nat
    BY <1>1
  <2> HIDE DEF H
  <2> QED BY <1>1, <2>1, <2>2 DEF NumCols, ZeroRow
<1> HIDE DEF H
<1>3. out * j.tiles \in Nat /\ out * j.tiles <= 2 * (out * H) /\ out * H \in Nat
  <2>1. out \in Nat
    BY <1>1
  <2>2. out * j.tiles <= out * (2 * H) /\ out * j.tiles \in Nat /\ out * (2 * H) = 2 * (out * H) /\ out * H \in Nat
    BY <1>1, <2>1, Monotone
  <2> QED BY <2>2
<1>4. out * H + H <= j.outs * H /\ j.outs * H \in Nat
  <2>1. out + 1 \in Nat /\ out + 1 <= j.outs /\ out \in Nat
    BY <1>1
  <2>2. H * (out + 1) <= H * j.outs
    BY <1>1, <2>1, Monotone
  <2>3. H * (out + 1) = out * H + H /\ H * j.outs = j.outs * H
    BY <1>1, <2>1
  <2> QED BY <1>1, <2>2, <2>3
<1>5. (out * j.tiles) \div 2 \in Nat /\ (out * j.tiles) \div 2 <= out * H
  <2> DEFINE x == out * j.tiles
             y == out * H
  <2>1. x \in Nat /\ y \in Nat /\ x <= 2 * y
    BY <1>3
  <2> HIDE DEF x, y
  <2>2. x \div 2 \in Nat /\ x \div 2 <= y
    BY <2>1
  <2> QED BY <2>2 DEF x, y
<1>6. WeightCol(j, tile, out) + 8 * g \in Nat /\ WeightCol(j, tile, out) + 8 * g + 8 <= 32 * 8192
  <2> DEFINE x == (out * j.tiles) \div 2
             y == out * H
             z == j.outs * H
             t == tile \div 2
  <2>1. /\ x \in Nat /\ y \in Nat /\ z \in Nat /\ t \in Nat /\ x <= y /\ y + H <= z /\ t <= H - 1
        /\ 64 * z + 8 * (j.outs + j.batches + j.tiles) <= 32 * 8192
    BY <1>1, <1>2, <1>3, <1>4, <1>5
  <2>2. WeightCol(j, tile, out) = 64 * (t + x)
    BY DEF WeightCol
  <2> HIDE DEF x, y, z, t
  <2>3. t + x <= z - 1 /\ 64 * (t + x) + 64 <= 32 * 8192
    BY <1>1, <2>1
  <2> QED BY <2>1, <2>2, <2>3
<1> QED BY <1>6, BelowFirst DEF NumGrf

LEMMA VectorTakes ==
  ASSUME NEW j, NEW batch, NEW tile, NEW m, NEW entry, NEW lj, NEW jm, Enters(j, entry, m, lj, jm), NEW N, NEW n
  PROVE  Takes(j, <<{Register(1, 8 + a, VectorOf(batch, tile, a)) : a \in 0 .. 7}>>,
               MacAt(entry, m, lj, jm, N, n), MacAt(entry, m, lj, jm, N, n))
<1> DEFINE g == {Register(1, 8 + a, VectorOf(batch, tile, a)) : a \in 0 .. 7}
<1>1. IsFiniteSet(g) /\ g # {} /\ \A p \in g : Idles(p) /\ IsReservedRA(p.row)
  BY VectorIdle
<1>2. \E pc, a, b : MacAt(entry, m, lj, jm, N, n) = OnIt(0, pc, a, b)
  BY DEF MacAt, Enters
<1> HIDE DEF g
<1>3. Takes(j, <<g>>, MacAt(entry, m, lj, jm, N, n), MacAt(entry, m, lj, jm, N, n))
  BY <1>1, <1>2, RegistersIdle
<1> QED BY <1>3 DEF g

\* The passes over a tile.
LEMMA ComputeTakes ==
  ASSUME NEW j \in Jobs, j.kernel \in {"GEMV", "GEMVTREE"}, NEW out \in 0 .. j.outs - 1,
         NEW tile \in 0 .. j.tiles - 1, NEW batch, NEW m, NEW N, MacLoop(j, m, N),
         NEW entry, NEW lj, NEW jm, Enters(j, entry, m, lj, jm), NEW n \in Nat, n + 8 <= N
  PROVE  Takes(j, ComputeGemv(j, tile, out, batch, m), MacAt(entry, m, lj, jm, N, n), MacAt(entry, m, lj, jm, N, n + 8))
<1> DEFINE f(g) == All("READ", tile % 2, 0, WeightCol(j, tile, out) + 8 * g, NumGrf, m)
           s == [x \in 1 .. 8 |-> f(x - 1)]
           registers == {Register(1, 8 + a, VectorOf(batch, tile, a)) : a \in 0 .. 7}
           M(k) == MacAt(entry, m, lj, jm, N, k)
           E == [x \in 0 .. 8 |-> M(n + x)]
<1>1. ComputeGemv(j, tile, out, batch, m) = <<registers>> \o FlattenSeq(s)
  BY DEF ComputeGemv, Each, WeightCol
<1>2. Takes(j, <<registers>>, M(n), M(n))
  BY VectorTakes
<1>3. ASSUME NEW x \in 1 .. 8 PROVE Takes(j, f(x - 1), M(n + (x - 1)), M(n + x))
  <2>1. /\ x - 1 \in 0 .. 7 /\ n + (x - 1) \in 0 .. N - 1 /\ n + (x - 1) + 1 = n + x
    BY DEF MacLoop
  <2>2. tile % 2 \in {0, 1}
    <3>1. tile \in Nat
      BY JobFields
    <3> QED BY <3>1
  <2> DEFINE g == x - 1
             k == n + (x - 1)
             col == WeightCol(j, tile, out) + 8 * g
  <2>3. col \in Nat /\ Below(0, col, NumGrf)
    BY <2>1, WeightsBelow
  <2>4. k \in 0 .. N - 1
    BY <2>1
  <2> HIDE DEF g, k, col
  <2>5. Takes(j, All("READ", tile % 2, 0, col, NumGrf, m), MacAt(entry, m, lj, jm, N, k), MacAt(entry, m, lj, jm, N, k + 1))
    BY <2>2, <2>3, <2>4, MacTakes
  <2> QED BY <2>1, <2>5 DEF g, k, col
<1> HIDE DEF registers, f
<1>4. /\ \A x \in 1 .. 8 : s[x] = f(x - 1) /\ E[x - 1] = M(n + (x - 1)) /\ E[x] = M(n + x)
      /\ s = [x \in 1 .. 8 |-> s[x]] /\ E[0] = M(n) /\ E[8] = M(n + 8)
  <2> HIDE DEF M
  <2>1. n + 0 = n
    OBVIOUS
  <2> QED BY <2>1
<1> HIDE DEF s, E, M
<1>5. \A x \in 1 .. 8 : Takes(j, s[x], E[x - 1], E[x])
  BY <1>3, <1>4
<1>6. Takes(j, FlattenSeq(s), E[0], E[8])
  BY <1>4, <1>5, TakesEach
<1>7. Takes(j, <<registers>> \o FlattenSeq(s), M(n), M(n + 8))
  BY <1>2, <1>4, <1>6, TakesOn
<1> QED BY <1>1, <1>7 DEF M

\* The program of GEMV, for two tiles or more.
LEMMA GemvProgram ==
  ASSUME NEW j \in Jobs, j.kernel = "GEMV", j.tiles >= 2
  PROVE  /\ MacLoop(j, 0, 8 * HalfUp(j.tiles)) /\ MacLoop(j, 2, 8 * (j.tiles \div 2))
         /\ Lasts(j, 4, NumGrf) /\ IsEnd(j, 5) /\ 0 .. 5 \subseteq InProgram(j)
<1> DEFINE h == HalfUp(j.tiles)
           d == j.tiles \div 2
           even == 8 * h - 1
           odd == 8 * d - 1
           cmds == GemvCmds(even, odd)
<1>1. j.tiles \in Nat /\ h \in 1 .. 4096 /\ d \in 1 .. 4096
  <2>1. j.tiles \in Nat /\ j.outs \in Nat \ {0} /\ j.batches \in Nat \ {0}
    BY JobFields
  <2>2. h \in Nat /\ d \in Nat /\ d >= 1 /\ d <= h
    BY <2>1, Halves
  <2>3. 64 * (j.outs * h) + 8 * (j.outs + j.batches + j.tiles) <= 32 * 8192
    BY JobFields DEF Fits, NumCols
  <2> HIDE DEF h, d
  <2>4. h <= j.outs * h /\ j.outs * h \in Nat
    <3>1. 1 \in Nat /\ j.outs \in Nat /\ 1 <= j.outs
      BY <2>1
    <3>2. h * 1 <= h * j.outs /\ h * j.outs = j.outs * h /\ j.outs * h \in Nat /\ h * 1 = h
      BY <2>1, <2>2, <3>1, Monotone
    <3> QED BY <3>2
  <2>5. h <= 4096
    <3> DEFINE z == j.outs * h
               rest == j.outs + j.batches + j.tiles
    <3>1. z \in Nat /\ rest \in Nat /\ h <= z /\ 64 * z + 8 * rest <= 262144
      BY <2>1, <2>3, <2>4
    <3> HIDE DEF z, rest
    <3> QED BY <2>2, <3>1
  <2> QED BY <2>1, <2>2, <2>5
<1>2. /\ even \in Nat /\ even < CountLimit /\ odd \in Nat /\ odd < CountLimit
  <2> HIDE DEF h, d
  <2> QED BY <1>1 DEF CountLimit
<1> HIDE DEF h, d
<1>3. /\ Begun(cmds) /\ Len(cmds) = 5 /\ cmds[1] = MacEven /\ cmds[2] = Loop(even, 2) /\ cmds[3] = MacOdd
      /\ cmds[4] = Loop(odd, 2) /\ cmds[5] = Wait(7)
  <2>1. even \in Int /\ odd \in Int
    BY <1>2
  <2> HIDE DEF even, odd
  <2>2. Begun(cmds) /\ Len(cmds) = 5
    BY <2>1, GemvBegun
  <2>3. cmds = <<MacEven, Loop(even, 2), MacOdd, Loop(odd, 2), Wait(7)>>
    BY DEF GemvCmds
  <2> HIDE DEF cmds
  <2> QED BY <2>2, <2>3
<1>4. ProgramOf(j) = Repeated(cmds, 0)
  BY DEF ProgramOf, h, d
<1> HIDE DEF even, odd, cmds
<1>5. /\ \A x \in 0 .. 4 : Cmd(j, x) = Stored(cmds[x + 1])
      /\ 0 .. 5 \subseteq InProgram(j) /\ IsEnd(j, 5)
  <2>1. 5 \in Nat /\ 0 \in Nat /\ 0 < CountLimit /\ 5 <= 8 /\ 5 = Len(cmds) /\ 5 - 1 = 4
    BY <1>3 DEF CountLimit
  <2> QED BY <1>3, <1>4, <2>1, ProgramAt
<1>6. /\ Cmd(j, 0) = Stored(MacEven) /\ Cmd(j, 1) = Stored(Loop(even, 2)) /\ Cmd(j, 2) = Stored(MacOdd)
      /\ Cmd(j, 3) = Stored(Loop(odd, 2)) /\ Cmd(j, 4) = Stored(Wait(7))
  BY <1>3, <1>5
<1>7. Works(Cmd(j, 0)) /\ Works(Cmd(j, 2)) /\ Works(Cmd(j, 4))
  <2>1. Works(Stored(MacEven))
    BY OpWorks DEF MacEven
  <2>2. Works(Stored(MacOdd))
    BY OpWorks DEF MacOdd
  <2> QED BY <1>6, <2>1, <2>2, WaitWorks
<1>8. Jumps(Cmd(j, 1), even, 2) /\ Jumps(Cmd(j, 3), odd, 2)
  <2>1. 2 \in 0 .. 9
    OBVIOUS
  <2> QED BY <1>2, <1>6, <2>1, LoopJumps
<1>9. Lasts(j, 0, NumGrf) /\ Lasts(j, 2, NumGrf) /\ Lasts(j, 4, NumGrf) /\ ~IsEnd(j, 1) /\ ~IsEnd(j, 3)
  <2>1. /\ 0 \in InProgram(j) /\ 0 + 1 \in InProgram(j) /\ 2 \in InProgram(j) /\ 2 + 1 \in InProgram(j)
        /\ 4 \in InProgram(j) /\ 4 + 1 \in InProgram(j)
    BY <1>5
  <2>2. Lasts(j, 0, NumGrf) /\ Lasts(j, 2, NumGrf) /\ Lasts(j, 4, NumGrf)
    BY <1>7, <2>1, WorksLasts
  <2> QED BY <1>8, <2>2 DEF Jumps, IsEnd
<1>10. MacLoop(j, 0, 8 * h) /\ MacLoop(j, 2, 8 * d)
  <2>1. /\ 8 * h \in Nat /\ 8 * h >= 2 /\ 8 * d \in Nat /\ 8 * d >= 2 /\ 0 + 1 = 1 /\ 2 + 1 = 3 /\ 0 \in Nat /\ 2 \in Nat
    BY <1>1
  <2>2. 1 \in InProgram(j) /\ 3 \in InProgram(j)
    BY <1>5
  <2>3. 0 + 1 \in InProgram(j) /\ 2 + 1 \in InProgram(j)
    BY <2>1, <2>2
  <2>4. Jumps(Cmd(j, 0 + 1), 8 * h - 1, 2) /\ Jumps(Cmd(j, 2 + 1), 8 * d - 1, 2)
    BY <1>8, <2>1 DEF even, odd
  <2>5. ~IsEnd(j, 0 + 1) /\ ~IsEnd(j, 2 + 1)
    BY <1>9, <2>1
  <2> QED BY <1>9, <2>1, <2>3, <2>4, <2>5 DEF MacLoop
<1> QED BY <1>5, <1>9, <1>10 DEF h, d

LEMMA ResultBelow ==
  ASSUME NEW j \in Jobs, j.kernel \in {"GEMV", "GEMVTREE"}, NEW o \in 0 .. j.outs - 1,
         NEW b \in 0 .. j.batches - 1, NEW k \in 0 .. j.tiles - 1
  PROVE  /\ ResultCol(j, o, b) + 8 * k \in Nat /\ ResultCol(j, o, b) \in Nat
         /\ Below(0, ResultCol(j, o, b) + 8 * k, NumGrf)
<1>1. j.tiles \in Nat
  BY JobFields
<1> DEFINE c == ResultCol(j, o, b)
<1>2. c \in Nat
  <2>1. 0 \in 0 .. 8 * (j.tiles - 1) + 7
    BY <1>1
  <2> QED BY <2>1, GemvApart
<1>3. ASSUME NEW i \in 0 .. NumGrf - 1 PROVE 0 + ((c + 8 * k + i) \div NumCols) < 8192
  <2>1. 8 * k + i \in 0 .. 8 * (j.tiles - 1) + 7
    BY <1>1 DEF NumGrf
  <2>2. (c + (8 * k + i)) \div NumCols < 8192
    BY <2>1, GemvApart
  <2> HIDE DEF c
  <2>3. c + (8 * k + i) = c + 8 * k + i /\ (c + 8 * k + i) \div NumCols \in Int
    BY <1>2, <2>1 DEF NumCols, NumGrf
  <2> QED BY <2>2, <2>3
<1>4. Below(0, c + 8 * k, NumGrf)
  <2> HIDE DEF c
  <2> QED BY ONLY <1>3 DEF Below
<1> QED BY <1>1, <1>2, <1>4

\* The even or the odd tiles.
LEMMA SideTakes ==
  ASSUME NEW j \in Jobs, j.kernel = "GEMV", j.tiles >= 2, NEW o \in 0 .. j.outs - 1, NEW b,
         NEW odd \in {0, 1}, NEW n, n = (IF odd = 0 THEN HalfUp(j.tiles) ELSE j.tiles \div 2),
         NEW entry, NEW lj, NEW jm, Enters(j, entry, 2 * odd, lj, jm)
  PROVE  Takes(j, FlattenSeq([x \in 1 .. n |-> ComputeGemv(j, 2 * (x - 1) + odd, o, b, 2 * odd)]),
               entry, OnIt(0, 2 * odd + 1, 2 * odd + 1, 0))
<1> DEFINE s == [x \in 1 .. n |-> ComputeGemv(j, 2 * (x - 1) + odd, o, b, 2 * odd)]
           m == 2 * odd
           M(k) == MacAt(entry, m, lj, jm, 8 * n, k)
           E == [x \in 0 .. n |-> M(8 * x)]
<1>1. j.tiles \in Nat /\ n \in Nat /\ n >= 1 /\ m \in Nat
  BY JobFields, Halves DEF HalfUp
<1>2. MacLoop(j, m, 8 * n)
  <2>1. MacLoop(j, 0, 8 * HalfUp(j.tiles)) /\ MacLoop(j, 2, 8 * (j.tiles \div 2))
    BY GemvProgram
  <2>2. odd = 0 \/ odd = 1
    OBVIOUS
  <2>3. 2 * 0 = 0 /\ 2 * 1 = 2
    OBVIOUS
  <2> QED BY <2>1, <2>2, <2>3
<1>3. ASSUME NEW x \in 1 .. n PROVE Takes(j, ComputeGemv(j, 2 * (x - 1) + odd, o, b, m), M(8 * (x - 1)), M(8 * x))
  <2> DEFINE i == 2 * (x - 1) + odd
             k == 8 * (x - 1)
  <2>1. i \in 0 .. j.tiles - 1
    <3>1. CASE odd = 0
      BY <1>1, <3>1 DEF HalfUp
    <3>2. CASE odd = 1
      BY <1>1, <3>2
    <3> QED BY <3>1, <3>2
  <2>2. k \in Nat /\ k + 8 <= 8 * n /\ k + 8 = 8 * x
    BY <1>1
  <2> HIDE DEF i, k, m
  <2>3. Takes(j, ComputeGemv(j, i, o, b, m), MacAt(entry, m, lj, jm, 8 * n, k), MacAt(entry, m, lj, jm, 8 * n, k + 8))
    <3>1. Enters(j, entry, m, lj, jm)
      BY DEF m
    <3> QED BY <1>2, <2>1, <2>2, <3>1, ComputeTakes
  <2> QED BY <2>2, <2>3 DEF i, k
<1>4. M(8 * 0) = entry /\ M(8 * n) = OnIt(0, m + 1, m + 1, 0)
  <2>1. 8 * 0 = 0 /\ 8 * n # 0 /\ 8 * n # 1 /\ 8 * n - 8 * n = 0
    BY <1>1
  <2> HIDE DEF m
  <2> QED BY <2>1 DEF MacAt
<1>5. /\ \A x \in 1 .. n : s[x] = ComputeGemv(j, 2 * (x - 1) + odd, o, b, m) /\ E[x - 1] = M(8 * (x - 1)) /\ E[x] = M(8 * x)
      /\ s = [x \in 1 .. n |-> s[x]] /\ E[0] = M(8 * 0) /\ E[n] = M(8 * n)
  <2> HIDE DEF M
  <2>1. \A x \in 1 .. n : x - 1 \in 0 .. n /\ x \in 0 .. n
    BY <1>1
  <2>2. 0 \in 0 .. n /\ n \in 0 .. n
    BY <1>1
  <2> QED BY <2>1, <2>2
<1> HIDE DEF E, M
<1>6. \A x \in 1 .. n : Takes(j, s[x], E[x - 1], E[x])
  <2> HIDE DEF s
  <2> QED BY <1>3, <1>5
<1>7. Takes(j, FlattenSeq(s), E[0], E[n])
  <2> HIDE DEF s
  <2> QED BY <1>1, <1>5, <1>6, TakesEach
<1>8. Takes(j, FlattenSeq(s), entry, OnIt(0, m + 1, m + 1, 0))
  <2> HIDE DEF s, m
  <2> QED BY <1>4, <1>5, <1>7
<1> QED BY <1>8

LEMMA GemvPassTakes ==
  ASSUME NEW j \in Jobs, j.kernel = "GEMV", j.tiles >= 2, NEW o \in 0 .. j.outs - 1, NEW b \in 0 .. j.batches - 1
  PROVE  Takes(j, GemvPass(j, o, b), OnIt(0, 0, -1, -1), Done(0))
<1> DEFINE n(odd) == IF odd = 0 THEN HalfUp(j.tiles) ELSE j.tiles \div 2
           s(odd) == [x \in 1 .. n(odd) |-> ComputeGemv(j, 2 * (x - 1) + odd, o, b, 2 * odd)]
           col == ResultCol(j, o, b)
           results == All("WRITE", 1, 0, col, NumGrf, 4)
<1>1. GemvPass(j, o, b) = FlattenSeq(s(0)) \o FlattenSeq(s(1)) \o results
  BY DEF GemvPass, Each
<1>2. /\ MacLoop(j, 0, 8 * HalfUp(j.tiles)) /\ MacLoop(j, 2, 8 * (j.tiles \div 2))
      /\ Lasts(j, 4, NumGrf) /\ IsEnd(j, 5) /\ 0 .. 5 \subseteq InProgram(j)
  BY GemvProgram
<1>3. /\ Cmd(j, 0).type # "JUMP" /\ Cmd(j, 1).type = "JUMP" /\ Cmd(j, 3).type = "JUMP"
      /\ 0 \in InProgram(j) /\ 1 \in InProgram(j) /\ 3 \in InProgram(j)
  <2>1. Cmd(j, 0).type # "JUMP"
    BY <1>2 DEF MacLoop, Lasts
  <2>2. Cmd(j, 0 + 1).type = "JUMP" /\ Cmd(j, 2 + 1).type = "JUMP"
    BY <1>2 DEF MacLoop, Jumps
  <2>3. 0 + 1 = 1 /\ 2 + 1 = 3 /\ 0 \in 0 .. 5 /\ 1 \in 0 .. 5 /\ 3 \in 0 .. 5
    OBVIOUS
  <2> QED BY <1>2, <2>1, <2>2, <2>3
<1>4. Takes(j, FlattenSeq(s(0)), OnIt(0, 0, -1, -1), OnIt(0, 1, 1, 0))
  <2>1. \A r \in {-1, 0} : Jumped(j, Seqr(0, -1, -1, -1, r)) = Seqr(0, -1, -1, -1, r)
    BY <1>3, JumpedStays
  <2>2. 2 * 0 = 0 /\ 0 + 1 = 1 /\ -1 \in Int /\ 0 \in Int /\ 0 \in {0, 1} /\ -1 # 0 + 1
    OBVIOUS
  <2>3. Enters(j, OnIt(0, 0, -1, -1), 2 * 0, -1, -1)
    BY <1>3, <2>1, <2>2 DEF Enters
  <2>4. n(0) = (IF 0 = 0 THEN HalfUp(j.tiles) ELSE j.tiles \div 2)
    OBVIOUS
  <2> HIDE DEF n
  <2> QED BY <2>2, <2>3, <2>4, SideTakes
<1>5. Takes(j, FlattenSeq(s(1)), OnIt(0, 1, 1, 0), OnIt(0, 3, 3, 0))
  <2>1. \A r \in {-1, 0} : Jumped(j, Seqr(1, 1, 0, -1, r)) = Seqr(1 + 1, 1, 0, -1, r)
    BY <1>3, JumpedOn
  <2>2. 2 * 1 = 2 /\ 1 + 1 = 2 /\ 2 + 1 = 3 /\ 0 \in Int /\ 1 \in Int /\ 1 \in {0, 1} /\ 1 # 2 + 1
    OBVIOUS
  <2>3. Enters(j, OnIt(0, 1, 1, 0), 2 * 1, 1, 0)
    BY <1>3, <2>1, <2>2 DEF Enters
  <2>4. n(1) = (IF 1 = 0 THEN HalfUp(j.tiles) ELSE j.tiles \div 2)
    OBVIOUS
  <2> HIDE DEF n
  <2> QED BY <2>2, <2>3, <2>4, SideTakes
<1>6. Takes(j, results, OnIt(0, 3, 3, 0), Done(0))
  <2>1. \A r \in {-1, 0} : Jumped(j, Seqr(3, 3, 0, -1, r)) = Seqr(3 + 1, 3, 0, -1, r)
    BY <1>3, JumpedOn
  <2>2. col \in Nat /\ Below(0, col, NumGrf)
    <3>1. 0 \in 0 .. j.tiles - 1
      BY JobFields
    <3>2. col \in Nat /\ Below(0, col + 8 * 0, NumGrf)
      BY <3>1, ResultBelow
    <3> HIDE DEF col
    <3>3. col + 8 * 0 = col
      BY <3>2
    <3> QED BY <3>2, <3>3
  <2> HIDE DEF col
  <2>3. 3 + 1 = 4 /\ 4 + 1 = 5 /\ 3 \in Int /\ 0 \in Int /\ 4 \in Nat /\ 1 \in {0, 1} /\ 0 \in Nat
    OBVIOUS
  <2>4. Takes(j, All("WRITE", 1, 0, col, NumGrf, 4), OnIt(0, 3, 3, 0), Next1(j, 0, 4 + 1, 3, 0))
    BY <1>2, <1>3, <2>1, <2>2, <2>3, SendingTakes
  <2>5. Next1(j, 0, 4 + 1, 3, 0) = Done(0)
    BY <1>2, <2>3 DEF Next1
  <2> QED BY <2>4, <2>5
<1> HIDE DEF s, results
<1>7. Takes(j, FlattenSeq(s(0)) \o FlattenSeq(s(1)), OnIt(0, 0, -1, -1), OnIt(0, 3, 3, 0))
  BY <1>4, <1>5, TakesOn
<1> QED BY <1>1, <1>6, <1>7, TakesOn

\* The program of the tree: the same for the even and the odd tile of a pair.
TreeHalf(j, m) ==
  MacLoop(j, m, 8) /\ Lasts(j, m + 2, NumGrf) /\ Lasts(j, m + 3, NumGrf) /\ ~IsEnd(j, m + 3) /\ m \in {0, 4}

LEMMA TreeProgram ==
  ASSUME NEW j \in Jobs, j.kernel = "GEMVTREE"
  PROVE  /\ TreeHalf(j, 0) /\ TreeHalf(j, 4) /\ ~IsEnd(j, 4) /\ 0 .. 8 \subseteq InProgram(j)
         /\ HalfUp(j.tiles) = 1 => IsEnd(j, 8)
         /\ HalfUp(j.tiles) # 1 => Jumps(Cmd(j, 8), HalfUp(j.tiles) - 1, 9) /\ ~IsEnd(j, 8)
<1> DEFINE h == HalfUp(j.tiles)
           jumps == h - 1
<1>1. h \in 1 .. 500
  <2>1. j.tiles \in Nat \ {0} /\ j.outs \in Nat \ {0} /\ j.batches \in Nat \ {0}
    BY JobFields
  <2>2. h \in Nat /\ h >= 1
    BY <2>1 DEF HalfUp
  <2>3. 64 * (j.outs * h) + 8 * (j.outs + j.batches + j.tiles) <= 32 * 1000
    BY JobFields DEF Fits, NumCols, ZeroRow
  <2> HIDE DEF h
  <2>4. h <= j.outs * h /\ j.outs * h \in Nat
    <3>1. 1 \in Nat /\ j.outs \in Nat /\ 1 <= j.outs
      BY <2>1
    <3>2. h * 1 <= h * j.outs /\ h * j.outs = j.outs * h /\ j.outs * h \in Nat /\ h * 1 = h
      BY <2>1, <2>2, <3>1, Monotone
    <3> QED BY <3>2
  <2>5. h <= 500
    <3> DEFINE z == j.outs * h
               rest == j.outs + j.batches + j.tiles
    <3>1. z \in Nat /\ rest \in Nat /\ h <= z /\ 64 * z + 8 * rest <= 32000
      BY <2>1, <2>3, <2>4
    <3> HIDE DEF z, rest
    <3> QED BY <2>2, <3>1
  <2> QED BY <2>2, <2>5
<1> HIDE DEF h
<1>2. jumps \in Nat /\ jumps < CountLimit /\ (h = 1 <=> jumps = 0)
  BY <1>1 DEF CountLimit
<1>3. Begun(TreeCmds) /\ Len(TreeCmds) = 8
  BY TreeBegun
<1>4. ProgramOf(j) = Repeated(TreeCmds, jumps)
  BY DEF ProgramOf, h
<1> HIDE DEF jumps
<1>5. /\ \A x \in 0 .. 7 : Cmd(j, x) = Stored(TreeCmds[x + 1])
      /\ 0 .. 8 \subseteq InProgram(j)
      /\ jumps = 0 => IsEnd(j, 8)
      /\ jumps # 0 => Jumps(Cmd(j, 8), jumps, 9)
  <2>1. 8 \in Nat /\ 8 <= 8 /\ 8 = Len(TreeCmds) /\ 8 - 1 = 7 /\ 8 + 1 = 9
    BY <1>3
  <2> QED BY <1>2, <1>3, <1>4, <2>1, ProgramAt
<1>6. ASSUME NEW m \in {0, 4} PROVE TreeHalf(j, m)
  <2>1. /\ TreeCmds[m + 1] \in {MacEven, MacOdd} /\ TreeCmds[m + 2] = Loop(7, 2) /\ TreeCmds[m + 3] = Wait(7)
        /\ TreeCmds[m + 4] = ClearB
    <3>1. CASE m = 0
      BY <3>1 DEF TreeCmds
    <3>2. CASE m = 4
      BY <3>2 DEF TreeCmds
    <3> QED BY <3>1, <3>2
  <2>2. /\ m \in 0 .. 7 /\ m + 1 \in 0 .. 7 /\ m + 2 \in 0 .. 7 /\ m + 3 \in 0 .. 7 /\ m + 4 \in 0 .. 8
        /\ m + 1 + 1 = m + 2 /\ m + 2 + 1 = m + 3 /\ m + 3 + 1 = m + 4 /\ m \in Nat
    OBVIOUS
  <2>3. /\ Cmd(j, m) = Stored(TreeCmds[m + 1]) /\ Cmd(j, m + 1) = Stored(Loop(7, 2))
        /\ Cmd(j, m + 2) = Stored(Wait(7)) /\ Cmd(j, m + 3) = Stored(ClearB)
    BY <1>5, <2>1, <2>2
  <2>4. Works(Cmd(j, m)) /\ Works(Cmd(j, m + 2)) /\ Works(Cmd(j, m + 3))
    <3>1. Works(Stored(MacEven))
      BY OpWorks DEF MacEven
    <3>2. Works(Stored(MacOdd))
      BY OpWorks DEF MacOdd
    <3>3. Works(Stored(ClearB))
      BY OpWorks DEF ClearB
    <3> QED BY <2>1, <2>3, <3>1, <3>2, <3>3, WaitWorks
  <2>5. Jumps(Cmd(j, m + 1), 7, 2)
    <3>1. 2 \in 0 .. 9 /\ 7 \in Nat /\ 7 < CountLimit
      BY DEF CountLimit
    <3> QED BY <2>3, <3>1, LoopJumps
  <2>6. \A x \in {m, m + 1, m + 2, m + 3, m + 4} : x \in InProgram(j)
    BY <1>5, <2>2
  <2>7. Lasts(j, m, NumGrf) /\ Lasts(j, m + 2, NumGrf) /\ Lasts(j, m + 3, NumGrf) /\ ~IsEnd(j, m + 3)
    BY <2>2, <2>4, <2>6, WorksLasts
  <2>8. ~IsEnd(j, m + 1)
    BY <2>5 DEF Jumps, IsEnd
  <2>9. MacLoop(j, m, 8)
    <3>1. 8 \in Nat /\ 8 >= 2 /\ 8 - 1 = 7
      OBVIOUS
    <3> QED BY <2>2, <2>5, <2>6, <2>7, <2>8, <3>1 DEF MacLoop
  <2> QED BY <2>7, <2>9 DEF TreeHalf
<1>7. ~IsEnd(j, 4)
  <2>1. Lasts(j, 4, NumGrf)
    BY <1>6 DEF TreeHalf, MacLoop
  <2> QED BY <2>1 DEF Lasts, IsEnd
<1>8. jumps # 0 => ~IsEnd(j, 8)
  BY <1>5 DEF Jumps, IsEnd
<1> QED BY <1>2, <1>5, <1>6, <1>7, <1>8 DEF h, jumps

\* A tile: its products are written, and GRF_B is cleared for the next.
TreeTile(j, i, o, b, m) ==
  ComputeGemv(j, i, o, b, m)
    \o All("WRITE", 1, 0, ResultCol(j, o, b) + 8 * i, NumGrf, m + 2)
    \o All("READ", 0, ZeroRow, 0, NumGrf, m + 3)

LEMMA TreeTileTakes ==
  ASSUME NEW j \in Jobs, j.kernel = "GEMVTREE", NEW o \in 0 .. j.outs - 1, NEW b \in 0 .. j.batches - 1,
         NEW i \in 0 .. j.tiles - 1, NEW m, TreeHalf(j, m), NEW entry, NEW lj, NEW jm, Enters(j, entry, m, lj, jm)
  PROVE  Takes(j, TreeTile(j, i, o, b, m), entry, Next1(j, 0, m + 4, m + 1, 0))
<1> DEFINE c == ComputeGemv(j, i, o, b, m)
           col == ResultCol(j, o, b) + 8 * i
           w == All("WRITE", 1, 0, col, NumGrf, m + 2)
           r == All("READ", 0, ZeroRow, 0, NumGrf, m + 3)
<1>1. MacLoop(j, m, 8) /\ Lasts(j, m + 2, NumGrf) /\ Lasts(j, m + 3, NumGrf) /\ ~IsEnd(j, m + 3) /\ m \in {0, 4}
  BY DEF TreeHalf
<1>2. /\ m + 1 \in InProgram(j) /\ Cmd(j, m + 1).type = "JUMP" /\ m + 1 + 1 = m + 2 /\ m + 2 + 1 = m + 3
      /\ m + 3 + 1 = m + 4 /\ m + 1 \in Int /\ 0 \in Int /\ m + 2 \in Nat /\ m + 3 \in Nat
  BY <1>1 DEF MacLoop, Jumps
<1>3. Takes(j, c, entry, OnIt(0, m + 1, m + 1, 0))
  <2>1. 0 \in Nat /\ 0 + 8 <= 8 /\ 0 + 8 = 8
    OBVIOUS
  <2>2. Takes(j, c, MacAt(entry, m, lj, jm, 8, 0), MacAt(entry, m, lj, jm, 8, 0 + 8))
    BY <1>1, <2>1, ComputeTakes
  <2>3. MacAt(entry, m, lj, jm, 8, 0) = entry /\ MacAt(entry, m, lj, jm, 8, 8) = OnIt(0, m + 1, m + 1, 0)
    <3>1. 8 # 0 /\ 8 # 1 /\ 8 - 8 = 0
      OBVIOUS
    <3> QED BY <3>1 DEF MacAt
  <2> QED BY <2>1, <2>2, <2>3
<1>4. Takes(j, w, OnIt(0, m + 1, m + 1, 0), OnIt(0, m + 3, m + 1, 0))
  <2>1. \A q \in {-1, 0} : Jumped(j, Seqr(m + 1, m + 1, 0, -1, q)) = Seqr(m + 2, m + 1, 0, -1, q)
    BY <1>2, JumpedOn
  <2>2. col \in Nat /\ Below(0, col, NumGrf)
    BY ResultBelow
  <2> HIDE DEF col
  <2>3. Takes(j, w, OnIt(0, m + 1, m + 1, 0), Next1(j, 0, m + 2 + 1, m + 1, 0))
    <3>1. 1 \in {0, 1} /\ 0 \in Nat /\ "WRITE" \in {"READ", "WRITE"}
      OBVIOUS
    <3> QED BY <1>1, <1>2, <2>1, <2>2, <3>1, SendingTakes
  <2>4. Next1(j, 0, m + 2 + 1, m + 1, 0) = OnIt(0, m + 3, m + 1, 0)
    BY <1>1, <1>2 DEF Next1
  <2> QED BY <2>3, <2>4
<1>5. Takes(j, r, OnIt(0, m + 3, m + 1, 0), Next1(j, 0, m + 4, m + 1, 0))
  <2>1. ZeroRow \in Nat /\ 0 \in Nat /\ Below(ZeroRow, 0, NumGrf)
    <3>1. 1000 \in Nat /\ 0 \in Nat /\ 8 \in Nat /\ 1000 <= 1000 /\ 0 + 8 <= 32 * 7000
      OBVIOUS
    <3>2. Below(1000, 0, 8)
      BY <3>1, BelowLow
    <3> QED BY <3>1, <3>2 DEF ZeroRow, NumGrf
  <2>2. Takes(j, r, OnIt(0, m + 3, m + 1, 0), Next1(j, 0, m + 3 + 1, m + 1, 0))
    <3>1. 0 \in {0, 1} /\ "READ" \in {"READ", "WRITE"}
      OBVIOUS
    <3> QED BY <1>1, <1>2, <2>1, <3>1, SendingNext
  <2> QED BY <1>2, <2>2
<1>6. TreeTile(j, i, o, b, m) = c \o w \o r
  BY DEF TreeTile
<1> HIDE DEF c, w, r
<1>7. Takes(j, c \o w, entry, OnIt(0, m + 3, m + 1, 0))
  BY <1>3, <1>4, TakesOn
<1> QED BY <1>5, <1>6, <1>7, TakesOn

\* Where the sequencer is when i tiles are done: it goes back to its beginning after each
\* pair but with a single one, where it is at EXIT.
TreeAt(j, i) ==
  IF i = 0 THEN OnIt(0, 0, -1, -1)
  ELSE IF i % 2 = 1 THEN OnIt(0, 4, 1, 0)
  ELSE IF HalfUp(j.tiles) = 1 THEN Done(0) ELSE OnIt(0, 8, 5, 0)

LEMMA TreeStep ==
  ASSUME NEW j \in Jobs, j.kernel = "GEMVTREE", NEW o \in 0 .. j.outs - 1, NEW b \in 0 .. j.batches - 1,
         NEW i \in 0 .. j.tiles - 1
  PROVE  Takes(j, TreeTile(j, i, o, b, 4 * (i % 2)), TreeAt(j, i), TreeAt(j, i + 1))
<1> DEFINE h == HalfUp(j.tiles)
<1>1. /\ TreeHalf(j, 0) /\ TreeHalf(j, 4) /\ ~IsEnd(j, 4) /\ 0 .. 8 \subseteq InProgram(j)
      /\ h = 1 => IsEnd(j, 8)
      /\ h # 1 => Jumps(Cmd(j, 8), h - 1, 9) /\ ~IsEnd(j, 8)
  BY TreeProgram
<1>2. j.tiles \in Nat /\ i \in Nat /\ h \in Nat /\ h >= 1 /\ (i >= 2 => h # 1)
  BY JobFields DEF HalfUp
<1>3. /\ Cmd(j, 0).type # "JUMP" /\ Cmd(j, 4).type # "JUMP"
      /\ 0 \in InProgram(j) /\ 4 \in InProgram(j) /\ 8 \in InProgram(j)
  <2>1. 0 \in 0 .. 8 /\ 4 \in 0 .. 8 /\ 8 \in 0 .. 8
    OBVIOUS
  <2> QED BY <1>1, <2>1 DEF TreeHalf, MacLoop, Lasts
<1>4. CASE i % 2 = 1
  <2>1. 4 * (i % 2) = 4 /\ i # 0 /\ i + 1 # 0 /\ (i + 1) % 2 # 1
    BY <1>2, <1>4
  <2>2. TreeAt(j, i) = OnIt(0, 4, 1, 0)
    BY <1>4, <2>1 DEF TreeAt
  <2>3. TreeAt(j, i + 1) = Next1(j, 0, 8, 5, 0)
    <3>1. TreeAt(j, i + 1) = IF h = 1 THEN Done(0) ELSE OnIt(0, 8, 5, 0)
      BY <2>1 DEF TreeAt
    <3> HIDE DEF h
    <3> QED BY <1>1, <3>1 DEF Next1
  <2>4. Enters(j, OnIt(0, 4, 1, 0), 4, 1, 0)
    <3>1. \A r \in {-1, 0} : Jumped(j, Seqr(4, 1, 0, -1, r)) = Seqr(4, 1, 0, -1, r)
      BY <1>3, JumpedStays
    <3>2. 1 \in Int /\ 0 \in Int /\ 1 # 4 + 1
      OBVIOUS
    <3> QED BY <1>3, <3>1, <3>2 DEF Enters
  <2>5. Takes(j, TreeTile(j, i, o, b, 4), OnIt(0, 4, 1, 0), Next1(j, 0, 4 + 4, 4 + 1, 0))
    BY <1>1, <2>4, TreeTileTakes
  <2>6. 4 + 4 = 8 /\ 4 + 1 = 5
    OBVIOUS
  <2> QED BY <2>1, <2>2, <2>3, <2>5, <2>6
<1>5. CASE i % 2 # 1
  <2>1. 4 * (i % 2) = 0 /\ i + 1 # 0 /\ (i + 1) % 2 = 1 /\ (i # 0 => i >= 2)
    BY <1>2, <1>5
  <2>2. TreeAt(j, i + 1) = Next1(j, 0, 0 + 4, 0 + 1, 0)
    <3>1. TreeAt(j, i + 1) = OnIt(0, 4, 1, 0)
      BY <2>1 DEF TreeAt
    <3>2. 0 + 4 = 4 /\ 0 + 1 = 1
      OBVIOUS
    <3> QED BY <1>1, <3>1, <3>2 DEF Next1
  <2>3. CASE i = 0
    <3>1. TreeAt(j, i) = OnIt(0, 0, -1, -1)
      BY <2>3 DEF TreeAt
    <3>2. Enters(j, OnIt(0, 0, -1, -1), 0, -1, -1)
      <4>1. \A r \in {-1, 0} : Jumped(j, Seqr(0, -1, -1, -1, r)) = Seqr(0, -1, -1, -1, r)
        BY <1>3, JumpedStays
      <4>2. -1 \in Int /\ 0 \in Int /\ -1 # 0 + 1
        OBVIOUS
      <4> QED BY <1>3, <4>1, <4>2 DEF Enters
    <3>3. Takes(j, TreeTile(j, i, o, b, 0), OnIt(0, 0, -1, -1), Next1(j, 0, 0 + 4, 0 + 1, 0))
      BY <1>1, <3>2, TreeTileTakes
    <3> QED BY <2>1, <2>2, <3>1, <3>3
  <2>4. CASE i # 0
    <3>1. h # 1 /\ h - 1 \in Nat /\ h - 1 > 0
      BY <1>2, <2>1, <2>4
    <3>2. TreeAt(j, i) = OnIt(0, 8, 5, 0)
      BY <1>5, <2>4, <3>1 DEF TreeAt
    <3> HIDE DEF h
    <3>3. Enters(j, OnIt(0, 8, 5, 0), 0, 8, h - 1 - 1)
      <4>1. /\ Cmd(j, 8).type = "JUMP" /\ Cmd(j, 8).count = h - 1 /\ Cmd(j, 8).offset = 9
        BY <1>1, <3>1 DEF Jumps
      <4>2. /\ 8 \in Int /\ 5 \in Int /\ 0 \in Int /\ 9 \in Nat /\ 5 # 8 /\ 8 - 9 + 1 = 0 /\ 8 # 0 + 1 /\ h - 1 - 1 \in Int
        BY <1>2
      <4>3. ASSUME NEW r \in {-1, 0} PROVE Jumped(j, Seqr(8, 5, 0, -1, r)) = Seqr(0, 8, h - 1 - 1, -1, r)
        <5>1. Jumped(j, Seqr(8, 5, 0, -1, r))
                = Seqr(8 - Cmd(j, 8).offset + 1, 8, (IF 5 = 8 THEN 0 ELSE Cmd(j, 8).count) - 1, -1, r)
          BY <3>1, <4>1, <4>2, JumpedBack
        <5> QED BY <4>1, <4>2, <5>1
      <4> QED BY <1>3, <4>2, <4>3 DEF Enters
    <3>4. Takes(j, TreeTile(j, i, o, b, 0), OnIt(0, 8, 5, 0), Next1(j, 0, 0 + 4, 0 + 1, 0))
      BY <1>1, <3>3, TreeTileTakes
    <3> QED BY <2>1, <2>2, <3>2, <3>4
  <2> QED BY <2>3, <2>4
<1> QED BY <1>4, <1>5

LEMMA TreePassTakes ==
  ASSUME NEW j \in Jobs, j.kernel = "GEMVTREE", NEW o \in 0 .. j.outs - 1, NEW b \in 0 .. j.batches - 1
  PROVE  Takes(j, TreePass(j, o, b), OnIt(0, 0, -1, -1), TreeAt(j, j.tiles))
<1> DEFINE s == [x \in 1 .. j.tiles |-> TreeTile(j, x - 1, o, b, 4 * ((x - 1) % 2))]
           E == [x \in 0 .. j.tiles |-> TreeAt(j, x)]
<1>1. j.tiles \in Nat /\ 0 \in 0 .. j.tiles /\ j.tiles \in 0 .. j.tiles
  BY JobFields
<1>2. TreePass(j, o, b) = FlattenSeq(s)
  BY DEF TreePass, TreeTile, Each
<1>3. ASSUME NEW x \in 1 .. j.tiles PROVE Takes(j, s[x], E[x - 1], E[x])
  <2>1. x - 1 \in 0 .. j.tiles - 1 /\ x - 1 + 1 = x /\ x \in 0 .. j.tiles /\ x - 1 \in 0 .. j.tiles
    BY <1>1
  <2>2. Takes(j, TreeTile(j, x - 1, o, b, 4 * ((x - 1) % 2)), TreeAt(j, x - 1), TreeAt(j, x - 1 + 1))
    BY <2>1, TreeStep
  <2> QED BY <2>1, <2>2
<1>4. s = [x \in 1 .. j.tiles |-> s[x]] /\ E[0] = OnIt(0, 0, -1, -1) /\ E[j.tiles] = TreeAt(j, j.tiles)
  BY <1>1 DEF TreeAt
<1> HIDE DEF s, E
<1>5. Takes(j, FlattenSeq(s), E[0], E[j.tiles])
  BY <1>1, <1>3, <1>4, TakesEach
<1> QED BY <1>2, <1>4, <1>5

\* Reduction's accesses come without barriers, and GEMV's program waits for an odd tile.
Regular(j) == j.kernel # "REDUCTION" /\ (j.kernel = "GEMV" => j.tiles >= 2)

LEMMA PassTakes ==
  ASSUME NEW j \in Jobs, j.kernel \in {"GEMV", "GEMVTREE"}, Regular(j),
         NEW o \in 0 .. j.outs - 1, NEW b \in 0 .. j.batches - 1
  PROVE  Takes(j, Switch(Control(TRUE, TRUE, 0)) \o Pass(j, o, b) \o Switch(Control(FALSE, FALSE, 0)), Off, Off)
<1> DEFINE on == Control(TRUE, TRUE, 0)
           off == Control(FALSE, FALSE, 0)
<1>1. Takes(j, Switch(on), Off, OnIt(0, 0, -1, -1))
  <2>1. on.op = TRUE /\ on.cond = 0 /\ 0 \in {0, 2}
    BY DEF Control
  <2> HIDE DEF on
  <2> QED BY <2>1, SwitchOn
<1>2. PICK p : Stops(p) /\ Switch(off) = <<{p}>>
  <2>1. off.op = FALSE
    BY DEF Control
  <2> HIDE DEF off
  <2> QED BY <2>1, SwitchOff
<1> HIDE DEF on, off
<1>3. Takes(j, Pass(j, o, b) \o Switch(off), OnIt(0, 0, -1, -1), Off)
  <2>1. CASE j.kernel = "GEMV"
    <3>1. Takes(j, Pass(j, o, b), OnIt(0, 0, -1, -1), Done(0))
      BY <2>1, GemvPassTakes DEF Pass, Regular
    <3>2. Takes(j, Switch(off), Done(0), Off)
      BY <1>2, DoneOff
    <3> QED BY <3>1, <3>2, TakesOn
  <2>2. CASE j.kernel = "GEMVTREE"
    <3>1. Takes(j, Pass(j, o, b), OnIt(0, 0, -1, -1), TreeAt(j, j.tiles))
      BY <2>2, TreePassTakes DEF Pass
    <3>2. Takes(j, Switch(off), TreeAt(j, j.tiles), Off)
      <4>1. j.tiles \in Nat \ {0}
        BY JobFields
      <4>2. CASE j.tiles = 2
        <5>1. TreeAt(j, j.tiles) = Done(0)
          <6>1. j.tiles # 0 /\ j.tiles % 2 # 1 /\ HalfUp(j.tiles) = 1
            BY <4>2 DEF HalfUp
          <6> QED BY <6>1 DEF TreeAt
        <5> QED BY <1>2, <5>1, DoneOff
      <4>3. CASE j.tiles # 2
        <5>1. \E pc \in Int, lj \in Int, jm \in Int : TreeAt(j, j.tiles) = OnIt(0, pc, lj, jm)
          <6>1. j.tiles # 0 /\ (j.tiles % 2 = 1 \/ HalfUp(j.tiles) # 1)
            BY <4>1, <4>3 DEF HalfUp
          <6>2. TreeAt(j, j.tiles) = OnIt(0, 4, 1, 0) \/ TreeAt(j, j.tiles) = OnIt(0, 8, 5, 0)
            BY <6>1 DEF TreeAt
          <6>3. 4 \in Int /\ 1 \in Int /\ 0 \in Int /\ 8 \in Int /\ 5 \in Int
            OBVIOUS
          <6> QED BY <6>2, <6>3
        <5>2. PICK pc \in Int, lj \in Int, jm \in Int : TreeAt(j, j.tiles) = OnIt(0, pc, lj, jm)
          BY <5>1
        <5> QED BY <1>2, <2>2, <4>3, <5>2, EarlyOff
      <4> QED BY <4>2, <4>3
    <3> QED BY <3>1, <3>2, TakesOn
  <2> QED BY <2>1, <2>2
<1>4. Takes(j, Switch(on) \o (Pass(j, o, b) \o Switch(off)), Off, Off)
  BY <1>1, <1>3, TakesOn
<1>5. Switch(on) \o (Pass(j, o, b) \o Switch(off)) = Switch(on) \o Pass(j, o, b) \o Switch(off)
  <2>1. PICK U : Switch(on) \in Seq(U)
    BY <1>1 DEF Takes
  <2>2. PICK V : Pass(j, o, b) \in Seq(V)
    <3>1. Pass(j, o, b) \in Groups(j)
      BY GemvPassIn, TreePassIn DEF Pass
    <3> QED BY <3>1 DEF Groups
  <2>3. PICK W : Switch(off) \in Seq(W)
    <3>1. <<{p}>> \in Seq({{p}})
      OBVIOUS
    <3> QED BY <1>2, <3>1
  <2>4. \A a \in Seq(U), c \in Seq(V), d \in Seq(W) : a \o (c \o d) = a \o c \o d
    OBVIOUS
  <2> QED BY <2>1, <2>2, <2>3, <2>4
<1> QED BY <1>4, <1>5 DEF on, off

LEMMA GemvBodyTakes ==
  ASSUME NEW j \in Jobs, j.kernel \in {"GEMV", "GEMVTREE"}, Regular(j)
  PROVE  Takes(j, GemvBody(j), Off, Off)
<1> DEFINE f(o, b) == Switch(Control(TRUE, TRUE, 0)) \o Pass(j, o, b) \o Switch(Control(FALSE, FALSE, 0))
           s(o) == [y \in 1 .. j.batches |-> f(o, y - 1)]
           t == [x \in 1 .. j.outs |-> FlattenSeq(s(x - 1))]
<1>1. GemvBody(j) = FlattenSeq(t)
  BY DEF GemvBody, Each
<1>2. j.outs \in Nat /\ j.batches \in Nat
  BY JobFields
<1>3. ASSUME NEW o \in 0 .. j.outs - 1, NEW y \in 1 .. j.batches PROVE Takes(j, f(o, y - 1), Off, Off)
  <2>1. y - 1 \in 0 .. j.batches - 1
    BY <1>2
  <2> QED BY <2>1, PassTakes
<1> HIDE DEF f
<1>4. ASSUME NEW o \in 0 .. j.outs - 1 PROVE Takes(j, FlattenSeq(s(o)), Off, Off)
  <2>1. \A y \in 1 .. j.batches : Takes(j, s(o)[y], Off, Off)
    BY <1>3
  <2>2. s(o) = [y \in 1 .. j.batches |-> s(o)[y]]
    OBVIOUS
  <2> HIDE DEF s
  <2> QED BY <1>2, <2>1, <2>2, TakesAlike
<1> HIDE DEF s
<1>5. \A x \in 1 .. j.outs : Takes(j, t[x], Off, Off)
  <2>1. ASSUME NEW x \in 1 .. j.outs PROVE Takes(j, FlattenSeq(s(x - 1)), Off, Off)
    <3>1. x - 1 \in 0 .. j.outs - 1
      BY <1>2
    <3> QED BY <1>4, <3>1
  <2> QED BY <2>1
<1>6. t = [x \in 1 .. j.outs |-> t[x]]
  OBVIOUS
<1> HIDE DEF t
<1> QED BY <1>1, <1>2, <1>5, <1>6, TakesAlike

\* Every script takes the rank through its commands in step.
LEMMA BodyTakes == ASSUME NEW j \in Jobs, Regular(j) PROVE Takes(j, Body(j), Off, Off)
<1>1. CASE j.kernel \in {"ADD", "MUL", "RELU"}
  BY <1>1, EltwiseBodyTakes DEF Body
<1>2. CASE j.kernel \in {"GEMV", "GEMVTREE"}
  BY <1>2, GemvBodyTakes DEF Body
<1>3. CASE j.kernel = "CONV1D"
  BY <1>3, ConvBodyTakes DEF Body
<1>4. j.kernel \in {"ADD", "MUL", "RELU", "GEMV", "GEMVTREE", "CONV1D"}
  BY JobFields DEF Regular
<1> QED BY <1>1, <1>2, <1>3, <1>4

LEMMA RegularTakes == ASSUME NEW j \in Jobs, Regular(j) PROVE Takes(j, Scripts[j], Single, Single)
  BY BodyTakes, ScriptTakes

-----------------------------------------------------------------------------
(* What handling an access does to the state of the rank, where the program is loaded.  *)

RankNow == [mode |-> mode, sq |-> sq, ctl |-> ctl]

\* The rank once the JUMP an access has found is followed.
Halfway(j, x) == [mode |-> x.mode, sq |-> Jumped(j, x.sq), ctl |-> x.ctl]

InCrf == mode = "HAB_PIM" => \A i \in InProgram(job) : i \in Slots /\ crf[i] = Cmd(job, i)

LEMMA RunsLoaded == KInv => InCrf
<1> SUFFICES ASSUME KInv, mode = "HAB_PIM", NEW i \in InProgram(job)
             PROVE  i \in Slots /\ crf[i] = Cmd(job, i)
  BY DEF InCrf
<1>1. job \in Jobs /\ at \in Nat /\ CrfAt(job) \in Nat
  BY PlaceFacts DEF KInv
<1>2. Loading
  BY DEF KInv, Stage, Before, Entering
<1>3. at # CrfAt(job) /\ now \notin Program
  BY <1>2 DEF Loading
<1>4. \A q \in Program : Loaded(q)
  BY <1>2, <1>3 DEF Loading
<1>5. \A q \in CrfGroup(ProgramOf(job)) : Loaded(q)
  BY <1>4 DEF Program
<1>6. i \in 0 .. Len(ProgramOf(job)) - 1
  BY DEF InProgram
<1> QED BY <1>1, <1>5, <1>6, LoadedAt DEF Cmd

\* An access that triggers nothing.
LEMMA QuietStep ==
  ASSUME NEW j, Handle, ~Triggers(RankNow, now)
  PROVE  RankNow' = After(j, RankNow, now) /\ now' = NoAccess
<1>1. ~InPIM
  BY DEF Triggers, RankNow, InPIM, Toggles
<1>2. CASE SwitchHab
  <2>1. /\ now.op \in {"HAB", "SB"} /\ now' = NoAccess /\ sq' = sq /\ ctl' = ctl
        /\ mode' = IF now.op = "HAB" THEN (IF mode = "SB" THEN "HAB" ELSE mode)
                   ELSE (IF mode = "HAB" THEN "SB" ELSE mode)
    BY <1>2 DEF SwitchHab
  <2>2. After(j, RankNow, now) =
          IF now.op = "HAB" THEN [RankNow EXCEPT !.mode = IF RankNow.mode = "SB" THEN "HAB" ELSE RankNow.mode]
          ELSE [RankNow EXCEPT !.mode = IF RankNow.mode = "HAB" THEN "SB" ELSE RankNow.mode]
    BY <2>1 DEF After
  <2> QED BY <2>1, <2>2 DEF RankNow
<1>3. CASE AccessSb
  <2>1. now.op \in {"READ", "WRITE"} /\ mode = "SB" /\ now' = NoAccess /\ sq' = sq /\ ctl' = ctl /\ mode' = mode
    BY <1>3 DEF AccessSb
  <2>2. RankNow.mode = "SB"
    BY <2>1 DEF RankNow
  <2>3. After(j, RankNow, now) = RankNow
    BY <2>1, <2>2 DEF After
  <2> QED BY <2>1, <2>3 DEF RankNow
<1>4. CASE ControlPIM
  <2>1. /\ now.op \in {"READ", "WRITE"} /\ mode # "SB" /\ IsControl(now) /\ now' = NoAccess
        /\ ctl' = [opMode |-> now.data.op, even |-> now.data.cond % 2 = 0,
                   odd |-> (now.data.cond \div 2) % 2 = 0, ra13 |-> now.data.cond >= 4]
        /\ mode' = IF now.data.op THEN "HAB_PIM" ELSE "HAB"
        /\ sq' = IF now.data.op THEN Restarted ELSE sq
    BY <1>4 DEF ControlPIM, InHab
  <2>2. RankNow.mode # "SB" /\ RankNow.sq = sq
    BY <2>1 DEF RankNow
  <2>3. After(j, RankNow, now) =
          [mode |-> IF now.data.op THEN "HAB_PIM" ELSE "HAB",
           sq |-> IF now.data.op THEN Restarted ELSE sq,
           ctl |-> [opMode |-> now.data.op, even |-> now.data.cond % 2 = 0,
                    odd |-> (now.data.cond \div 2) % 2 = 0, ra13 |-> now.data.cond >= 4]]
    BY <2>1, <2>2 DEF After
  <2>4. RankNow' = [mode |-> mode', sq |-> sq', ctl |-> ctl']
    BY DEF RankNow
  <2> QED BY ONLY <2>1, <2>3, <2>4
<1>5. CASE WriteCrf \/ WriteGrf \/ WriteSrf \/ MoveToBank \/ MoveFromBank \/ IgnoreReserved
  <2>1. /\ now.op \in {"READ", "WRITE"} /\ now' = NoAccess /\ sq' = sq /\ ctl' = ctl /\ mode' = mode
    BY <1>5 DEF WriteCrf, WriteGrf, WriteSrf, MoveToBank, MoveFromBank, IgnoreReserved, InHab
  <2>2. ~IsControl(now)
    BY <1>5 DEF WriteCrf, WriteGrf, WriteSrf, MoveToBank, MoveFromBank, IgnoreReserved, IsControl,
      IsCrfWrite, IsGrfWrite, IsSrfWrite, ToRegisters, IsReservedRA, RegRow
  <2>3. After(j, RankNow, now) = RankNow
    BY <2>1, <2>2 DEF After
  <2> QED BY <2>1, <2>3 DEF RankNow
<1>6. ~Jump /\ ~Exit /\ ~Execute
  BY <1>1 DEF Jump, Exit, Execute
<1> QED BY <1>2, <1>3, <1>4, <1>5, <1>6 DEF Handle

\* The rules of the schedule are those of the sequencer.
LEMMA JumpIsJumped ==
  ASSUME NEW j, crf[sq.pc] = Cmd(j, sq.pc), Cmd(j, sq.pc).type = "JUMP"
  PROVE  AfterJump(crf[sq.pc]) = Jumped(j, sq)
  BY DEF AfterJump, Jumped

LEMMA RepeatIsRepeated ==
  ASSUME NEW j, crf[sq.pc] = Cmd(j, sq.pc)
  PROVE  AfterRepeat(crf[sq.pc]) = Repeated1(j, sq)
  BY DEF AfterRepeat, Repeated1

LEMMA NoExitAhead ==
  ASSUME NEW s \in SqType, s.exit = FALSE, crf[s.pc].type # "EXIT"
  PROVE  LookAhead(s) = s
<1>1. (s.exit \/ (s.pc \in Slots /\ crf[s.pc].type = "EXIT")) = FALSE
  OBVIOUS
<1>2. LookAhead(s) = [s EXCEPT !.exit = FALSE]
  BY ONLY <1>1 DEF LookAhead
<1>3. [s EXCEPT !.exit = FALSE] = s
  <2>1. s = [pc |-> s.pc, lastJump |-> s.lastJump, jumps |-> s.jumps, lastRepeat |-> s.lastRepeat,
             repeats |-> s.repeats, exit |-> s.exit]
    BY DEF SqType
  <2>2. [s EXCEPT !.exit = FALSE] = [pc |-> s.pc, lastJump |-> s.lastJump, jumps |-> s.jumps,
             lastRepeat |-> s.lastRepeat, repeats |-> s.repeats, exit |-> FALSE]
    BY <2>1
  <2>3. [pc |-> s.pc, lastJump |-> s.lastJump, jumps |-> s.jumps, lastRepeat |-> s.lastRepeat,
             repeats |-> s.repeats, exit |-> s.exit]
          = [pc |-> s.pc, lastJump |-> s.lastJump, jumps |-> s.jumps,
             lastRepeat |-> s.lastRepeat, repeats |-> s.repeats, exit |-> FALSE]
    OBVIOUS
  <2> QED BY ONLY <2>1, <2>2, <2>3
<1> QED BY <1>2, <1>3

\* An access that has met a JUMP follows it and goes on.
LEMMA JumpFirst ==
  ASSUME IInv, InCrf, job \in Jobs, Handle, Due(job, RankNow, now), Triggers(RankNow, now),
         Cmd(job, sq.pc).type = "JUMP"
  PROVE  now' = now /\ RankNow' = Halfway(job, RankNow) /\ ~sq'.exit
<1>1. /\ mode = "HAB_PIM" /\ ctl.opMode /\ ~sq.exit /\ InPIM
      /\ sq.pc \in InProgram(job) /\ Jumped(job, sq).pc = now.meant /\ now.meant \in InProgram(job)
      /\ Cmd(job, now.meant).type # "EXIT"
  <2>1. RankNow.mode = mode /\ RankNow.sq = sq /\ RankNow.ctl = ctl
    BY DEF RankNow
  <2>2. mode = "HAB_PIM" /\ ctl.opMode /\ ~sq.exit /\ Toggles(now) /\ now.op \in {"READ", "WRITE"}
    BY <2>1 DEF Triggers, Toggles
  <2>3. now.meant # NoCommand
    BY DEF Due
  <2>4. Busy
    BY DEF Handle, SwitchHab, AccessSb, ControlPIM, WriteCrf, WriteGrf, WriteSrf, MoveToBank,
         MoveFromBank, IgnoreReserved, Jump, Exit, Execute, InHab, InPIM
  <2> QED BY <2>1, <2>2, <2>3, <2>4 DEF Due, InPIM
<1>2. crf[sq.pc] = Cmd(job, sq.pc) /\ crf[now.meant] = Cmd(job, now.meant)
  BY <1>1 DEF InCrf
<1>3. Jump
  BY <1>1, <1>2 DEF Handle, SwitchHab, AccessSb, ControlPIM, WriteCrf, WriteGrf, WriteSrf, MoveToBank,
         MoveFromBank, IgnoreReserved, InHab, InPIM, Exit, Execute
<1>4. Jumped(job, sq) \in SqType /\ Jumped(job, sq).exit = FALSE
  <2>1. TypeOK /\ sq.pc \in Slots /\ crf[sq.pc] \in Commands
    BY DEF IInv, TypeOK
  <2>2. AfterJump(crf[sq.pc]) = Jumped(job, sq)
    BY <1>2, JumpIsJumped
  <2>3. Jumped(job, sq) \in SqType
    BY <2>1, <2>2, JumpStep
  <2>4. Jumped(job, sq).exit = sq.exit
    BY <2>1, <2>2 DEF AfterJump, TypeOK
  <2>5. sq.exit \in BOOLEAN
    BY <2>1 DEF TypeOK
  <2> QED BY <1>1, <2>3, <2>4, <2>5
<1>5. sq' = Jumped(job, sq)
  <2>1. sq' = LookAhead(AfterJump(crf[sq.pc]))
    BY <1>3 DEF Jump
  <2>2. AfterJump(crf[sq.pc]) = Jumped(job, sq)
    BY <1>2, JumpIsJumped
  <2>3. crf[Jumped(job, sq).pc].type # "EXIT"
    BY <1>1, <1>2
  <2> QED BY <1>4, <2>1, <2>2, <2>3, NoExitAhead
<1>6. now' = now /\ mode' = mode /\ ctl' = ctl
  <2>1. now' = (IF sq'.exit THEN NoAccess ELSE now) /\ mode' = mode /\ ctl' = ctl
    BY <1>3 DEF Jump
  <2>2. sq'.exit = FALSE
    BY <1>4, <1>5
  <2> QED BY <2>1, <2>2
<1> QED BY <1>4, <1>5, <1>6 DEF RankNow, Halfway

\* One that is at its command executes it.
LEMMA Executes ==
  ASSUME IInv, InCrf, job \in Jobs, Handle, NEW y, y = [mode |-> y.mode, sq |-> y.sq, ctl |-> y.ctl],
         Due(job, y, now), Triggers(y, now), mode = y.mode, ctl = y.ctl, sq = Jumped(job, y.sq), ~sq.exit
  PROVE  now' = NoAccess /\ RankNow' = After(job, y, now)
<1> DEFINE r == Repeated1(job, sq)
<1>1. /\ mode = "HAB_PIM" /\ InPIM /\ sq.pc = now.meant /\ sq.pc \in InProgram(job) /\ sq.pc + 1 \in InProgram(job)
      /\ Cmd(job, sq.pc).type \notin {"JUMP", "EXIT"}
  <2>1. now.meant # NoCommand
    BY DEF Due
  <2>2. mode = "HAB_PIM" /\ Toggles(now) /\ now.op \in {"READ", "WRITE"}
    BY DEF Triggers, Toggles
  <2>3. Busy
    BY DEF Handle, SwitchHab, AccessSb, ControlPIM, WriteCrf, WriteGrf, WriteSrf, MoveToBank,
         MoveFromBank, IgnoreReserved, Jump, Exit, Execute, InHab, InPIM
  <2> QED BY <2>1, <2>2, <2>3 DEF Due, InPIM
<1>2. /\ crf[sq.pc] = Cmd(job, sq.pc) /\ crf[sq.pc + 1] = Cmd(job, sq.pc + 1)
      /\ sq.pc \in Slots /\ sq.pc + 1 \in Slots
  BY <1>1 DEF InCrf
<1>3. Execute
  BY <1>1, <1>2 DEF Handle, SwitchHab, AccessSb, ControlPIM, WriteCrf, WriteGrf, WriteSrf, MoveToBank,
         MoveFromBank, IgnoreReserved, InHab, InPIM, Exit, Jump
<1>4. AfterRepeat(crf[sq.pc]) = r
  BY <1>2, RepeatIsRepeated
<1>5. r.pc \in {sq.pc, sq.pc + 1} /\ r.exit = FALSE
  <2>1. TypeOK /\ crf[sq.pc] \in Commands
    BY <1>2 DEF IInv, TypeOK
  <2>2. sq.lastRepeat = -1 \/ (sq.lastRepeat = sq.pc /\ Repeating(crf[sq.pc]))
    BY <1>1 DEF IInv, RepeatInUse
  <2>3. r.pc \in {sq.pc, sq.pc + 1}
    BY <1>4, <2>1, <2>2, RepeatStep
  <2>4. r.exit = sq.exit
    BY <1>4, <2>1 DEF AfterRepeat, TypeOK
  <2>5. sq.exit = FALSE
    BY <2>1 DEF TypeOK
  <2> QED BY <2>3, <2>4, <2>5
<1> HIDE DEF r
<1>6. r.pc \in Slots /\ crf[r.pc] = Cmd(job, r.pc)
  BY <1>2, <1>5
<1>7. sq' = Passed(job, sq)
  <2>1. sq' = LookAhead(r)
    BY <1>3, <1>4 DEF Execute
  <2>2. LookAhead(r) = [r EXCEPT !.exit = r.exit \/ (r.pc \in Slots /\ crf[r.pc].type = "EXIT")]
    BY DEF LookAhead
  <2>3. (r.exit \/ (r.pc \in Slots /\ crf[r.pc].type = "EXIT")) = (Cmd(job, r.pc).type = "EXIT")
    BY <1>5, <1>6
  <2>4. Passed(job, sq) = [r EXCEPT !.exit = (Cmd(job, r.pc).type = "EXIT")]
    BY DEF Passed, r
  <2> QED BY ONLY <2>1, <2>2, <2>3, <2>4
<1>8. now' = NoAccess /\ mode' = mode /\ ctl' = ctl
  BY <1>3 DEF Execute
<1>9. After(job, y, now) = [y EXCEPT !.sq = Passed(job, Jumped(job, y.sq))]
  BY DEF After
<1> DEFINE t == Passed(job, Jumped(job, y.sq))
<1>10. sq' = t /\ After(job, y, now) = [y EXCEPT !.sq = t]
  BY <1>7, <1>9
<1> HIDE DEF t
<1>11. [y EXCEPT !.sq = t] = [mode |-> y.mode, sq |-> t, ctl |-> y.ctl]
  OBVIOUS
<1>12. RankNow' = [mode |-> mode', sq |-> sq', ctl |-> ctl']
  BY DEF RankNow
<1> QED BY <1>8, <1>10, <1>11, <1>12

-----------------------------------------------------------------------------
(* The schedule of a script: F[i][k] is the rank's state once k accesses of group i are *)
(* handled, in whatever order they came.                                               *)

Fresh == [mode |-> "SB", sq |-> Restarted,
          ctl |-> [opMode |-> FALSE, even |-> FALSE, odd |-> FALSE, ra13 |-> FALSE]]

Schedule(j, F) ==
  LET S == Scripts[j]
  IN /\ \A i \in 1 .. Len(S) : IsFiniteSet(S[i]) /\ S[i] # {}
     /\ \A i \in 1 .. Len(S) - 1 : F[i][Cardinality(S[i])] = F[i + 1][0]
     /\ \A i \in 1 .. Len(S) : \A k \in 0 .. Cardinality(S[i]) - 1 : \A p \in S[i] :
          Due(j, F[i][k], p) /\ Spent(j, F[i][k], p) /\ F[i][k + 1] = After(j, F[i][k], p)

LEMMA ManyGroups == ASSUME NEW j \in Jobs PROVE Len(Scripts[j]) \in Nat /\ 1 \in 1 .. Len(Scripts[j])
<1>1. Scripts[j] \in Seq(SUBSET Sent(j)) /\ CrfAt(j) \in 2 .. Len(Scripts[j]) - 1
  BY ScriptGroups
<1>2. Len(Scripts[j]) \in Nat
  BY <1>1
<1> QED BY <1>1, <1>2

LEMMA Scheduled ==
  ASSUME NEW j \in Jobs, Regular(j)
  PROVE  \E F : Schedule(j, F) /\ F[1][0] = Fresh
<1> DEFINE S == Scripts[j]
           Served(g, x, y, f) ==
             /\ IsFiniteSet(g) /\ g # {} /\ f[0] = x /\ f[Cardinality(g)] = y
             /\ \A k \in 0 .. Cardinality(g) - 1 : \A p \in g :
                  Due(j, f[k], p) /\ Spent(j, f[k], p) /\ f[k + 1] = After(j, f[k], p)
<1>1. Fresh \in Single
  BY DEF Fresh, Single, Restarted, Sequencers, Toggling
<1>2. \E y : Walks(j, S, Fresh, y)
  BY <1>1, RegularTakes DEF Takes, Leads
<1>3. PICK e : e[1] = Fresh /\ \A i \in 1 .. Len(S) : Serves(j, S[i], e[i], e[i + 1])
  BY <1>2 DEF Walks
<1>4. ASSUME NEW g, NEW x, NEW y, Serves(j, g, x, y) PROVE \E f : Served(g, x, y, f)
  BY <1>4 DEF Serves
<1> HIDE DEF Served
<1> DEFINE F == [i \in 1 .. Len(S) |-> CHOOSE f : Served(S[i], e[i], e[i + 1], f)]
<1>5. \A i \in 1 .. Len(S) : Served(S[i], e[i], e[i + 1], F[i])
  <2>1. ASSUME NEW i \in 1 .. Len(S) PROVE \E f : Served(S[i], e[i], e[i + 1], f)
    BY <1>3, <1>4
  <2>2. ASSUME NEW i \in 1 .. Len(S) PROVE Served(S[i], e[i], e[i + 1], F[i])
    BY <2>1
  <2> QED BY <2>2
<1>6. Len(S) \in Nat /\ 1 \in 1 .. Len(S)
  BY ManyGroups
<1> HIDE DEF F, S
<1>7. \A i \in 1 .. Len(S) :
        /\ IsFiniteSet(S[i]) /\ S[i] # {} /\ F[i][0] = e[i] /\ F[i][Cardinality(S[i])] = e[i + 1]
        /\ \A k \in 0 .. Cardinality(S[i]) - 1 : \A p \in S[i] :
             Due(j, F[i][k], p) /\ Spent(j, F[i][k], p) /\ F[i][k + 1] = After(j, F[i][k], p)
  BY <1>5 DEF Served
<1>8. \A i \in 1 .. Len(S) - 1 : i \in 1 .. Len(S) /\ i + 1 \in 1 .. Len(S)
  BY <1>6
<1>9. \A i \in 1 .. Len(S) - 1 : F[i][Cardinality(S[i])] = F[i + 1][0]
  BY <1>7, <1>8
<1>10. F[1][0] = Fresh
  BY <1>3, <1>6, <1>7
<1>11. Schedule(j, F)
  BY <1>7, <1>9 DEF Schedule, S
<1> QED BY <1>10, <1>11

\* k accesses of group i are sent.
GoneTo(j, a, l, i, k) ==
  LET S == Scripts[j]
  IN IF k < Cardinality(S[i]) THEN a = i /\ Cardinality(l) = Cardinality(S[i]) - k
     ELSE a = i + 1 /\ (a <= Len(S) => l = S[a])

\* The client at group a with l left of it, access p under way and the rank in state x are
\* on schedule.
OnTime(j, F, a, l, p, x) ==
  LET S == Scripts[j]
  IN IF p = NoAccess
     THEN a <= Len(S) => \E k \in 0 .. Cardinality(S[a]) - 1 : GoneTo(j, a, l, a, k) /\ x = F[a][k]
     ELSE \E i \in 1 .. Len(S) : \E k \in 0 .. Cardinality(S[i]) - 1 :
            /\ p \in S[i] /\ GoneTo(j, a, l, i, k + 1)
            /\ \/ x = F[i][k]
               \/ /\ Triggers(F[i][k], p) /\ ~x.sq.exit /\ x = Halfway(j, F[i][k])
                  /\ F[i][k] = [mode |-> F[i][k].mode, sq |-> F[i][k].sq, ctl |-> F[i][k].ctl]

LEMMA GroupCount ==
  ASSUME NEW g, IsFiniteSet(g), g # {}
  PROVE  Cardinality(g) \in Nat /\ Cardinality(g) >= 1
<1>1. Cardinality(g) \in Nat
  BY FS_CardinalityType
<1>2. Cardinality(g) # 0
  BY FS_EmptySet
<1> QED BY <1>1, <1>2

\* When an access is handled.
LEMMA HandledOnTime ==
  ASSUME NEW j \in Jobs, NEW F, Schedule(j, F), NEW i \in 1 .. Len(Scripts[j]),
         NEW k \in 0 .. Cardinality(Scripts[j][i]) - 1, NEW a, NEW l, GoneTo(j, a, l, i, k + 1)
  PROVE  OnTime(j, F, a, l, NoAccess, F[i][k + 1])
<1> DEFINE S == Scripts[j]
<1>1. Len(S) \in Nat /\ Cardinality(S[i]) \in Nat
  BY ScriptGroups, GroupCount DEF Schedule
<1> SUFFICES ASSUME a <= Len(S)
             PROVE  \E q \in 0 .. Cardinality(S[a]) - 1 : GoneTo(j, a, l, a, q) /\ F[i][k + 1] = F[a][q]
  BY DEF OnTime
<1>2. CASE k + 1 < Cardinality(S[i])
  <2>1. a = i /\ k + 1 \in 0 .. Cardinality(S[i]) - 1
    BY <1>1, <1>2 DEF GoneTo
  <2> QED BY <2>1
<1>3. CASE ~(k + 1 < Cardinality(S[i]))
  <2>1. a = i + 1 /\ l = S[a] /\ k + 1 = Cardinality(S[i]) /\ i \in 1 .. Len(S) - 1 /\ a \in 1 .. Len(S)
    BY <1>1, <1>3 DEF GoneTo
  <2>2. Cardinality(S[a]) \in Nat /\ Cardinality(S[a]) >= 1
    BY <2>1, GroupCount DEF Schedule
  <2>3. F[i][k + 1] = F[a][0]
    BY <2>1 DEF Schedule
  <2>4. 0 \in 0 .. Cardinality(S[a]) - 1 /\ 0 < Cardinality(S[a]) /\ Cardinality(S[a]) - 0 = Cardinality(S[a])
    BY <2>2
  <2>5. GoneTo(j, a, l, a, 0)
    BY <2>1, <2>4 DEF GoneTo
  <2> QED BY <2>3, <2>4, <2>5
<1> QED BY <1>2, <1>3

\* When the next one comes.
LEMMA SentOnTime ==
  ASSUME NEW j \in Jobs, NEW F, Schedule(j, F), NEW a \in 1 .. Len(Scripts[j]), NEW l, l \subseteq Scripts[j][a],
         NEW x, OnTime(j, F, a, l, NoAccess, x), NEW p \in l, p # NoAccess, NEW a2, NEW l2,
         IF l # {p} THEN l2 = l \ {p} /\ a2 = a
         ELSE a2 = a + 1 /\ l2 = IF a < Len(Scripts[j]) THEN Scripts[j][a + 1] ELSE {}
  PROVE  OnTime(j, F, a2, l2, p, x)
<1> DEFINE S == Scripts[j]
<1>1. Len(S) \in Nat /\ IsFiniteSet(S[a]) /\ Cardinality(S[a]) \in Nat /\ IsFiniteSet(l)
  <2>1. IsFiniteSet(S[a]) /\ S[a] # {}
    BY DEF Schedule
  <2>2. IsFiniteSet(l)
    BY <2>1, FS_Subset
  <2>3. Cardinality(S[a]) \in Nat
    BY <2>1, GroupCount
  <2>4. Len(S) \in Nat
    BY ScriptGroups
  <2> QED BY <2>1, <2>2, <2>3, <2>4
<1>2. PICK k \in 0 .. Cardinality(S[a]) - 1 : GoneTo(j, a, l, a, k) /\ x = F[a][k]
  BY <1>1 DEF OnTime
<1>3. Cardinality(l) = Cardinality(S[a]) - k /\ Cardinality(l) \in Nat
  BY <1>1, <1>2 DEF GoneTo
<1>4. GoneTo(j, a2, l2, a, k + 1)
  <2>1. CASE l # {p}
    <3>1. l2 = l \ {p} /\ a2 = a
      BY <2>1
    <3>2. IsFiniteSet(l2) /\ Cardinality(l2) = Cardinality(l) - 1
      BY <1>1, <3>1, FS_RemoveElement
    <3>3. l2 # {}
      BY <2>1, <3>1
    <3>4. Cardinality(l2) >= 1
      BY <3>2, <3>3, GroupCount
    <3>5. k + 1 < Cardinality(S[a]) /\ Cardinality(l2) = Cardinality(S[a]) - (k + 1)
      BY <1>1, <1>3, <3>2, <3>4
    <3> QED BY <3>1, <3>5 DEF GoneTo
  <2>2. CASE l = {p}
    <3>1. a2 = a + 1 /\ l2 = IF a < Len(S) THEN S[a + 1] ELSE {}
      BY <2>2
    <3>2. Cardinality(l) = 1
      BY <2>2, FS_Singleton
    <3>3. ~(k + 1 < Cardinality(S[a]))
      BY <1>1, <1>3, <3>2
    <3>4. a2 <= Len(S) => l2 = S[a2]
      BY <1>1, <3>1
    <3> QED BY <3>1, <3>3, <3>4 DEF GoneTo
  <2> QED BY <2>1, <2>2
<1>5. p \in S[a]
  OBVIOUS
<1> QED BY <1>2, <1>4, <1>5 DEF OnTime

-----------------------------------------------------------------------------
(* The rank keeps to the schedule. *)

SInv == Regular(job) /\ error = "none" => \E F : Schedule(job, F) /\ OnTime(job, F, at, left, now, RankNow)

LEMMA InitSInv == Init => SInv
<1> SUFFICES ASSUME Init, Regular(job) PROVE \E F : Schedule(job, F) /\ OnTime(job, F, at, left, now, RankNow)
  BY DEF SInv
<1>1. job \in Jobs /\ at = 1 /\ left = Scripts[job][1] /\ now = NoAccess /\ RankNow = Fresh
  BY DEF Init, RankInit, RankNow, Fresh, Restarted
<1>2. PICK F : Schedule(job, F) /\ F[1][0] = Fresh
  BY <1>1, Scheduled
<1>3. 1 \in 1 .. Len(Scripts[job])
  BY <1>1, ManyGroups
<1> DEFINE n == Cardinality(Scripts[job][1])
<1>4. n \in Nat /\ n >= 1
  BY <1>2, <1>3, GroupCount DEF Schedule
<1>5. 0 \in 0 .. n - 1 /\ 0 < n /\ n - 0 = n
  BY <1>4
<1>6. GoneTo(job, at, left, 1, 0)
  BY <1>1, <1>5 DEF GoneTo
<1>7. OnTime(job, F, at, left, now, RankNow)
  BY <1>1, <1>2, <1>5, <1>6 DEF OnTime
<1> QED BY <1>2, <1>7

LEMMA DeliverSInv == ASSUME KInv, SInv, Deliver PROVE SInv'
<1> SUFFICES ASSUME Regular(job'), error' = "none"
             PROVE  \E F : Schedule(job', F) /\ OnTime(job', F, at', left', now', RankNow')
  BY DEF SInv, RankNow
<1>1. PICK p \in left :
        /\ Arrive(p)
        /\ IF left # {p} THEN left' = left \ {p} /\ at' = at
           ELSE at' = at + 1 /\ left' = IF at < Len(Scripts[job]) THEN Scripts[job][at + 1] ELSE {}
  BY DEF Deliver
<1>2. /\ job' = job /\ now = NoAccess /\ now' = p /\ RankNow' = RankNow /\ error = "none"
  BY <1>1 DEF Arrive, Idle, RankNow, Deliver
<1>3. job \in Jobs /\ at \in 1 .. Len(Scripts[job]) /\ left \subseteq Scripts[job][at]
  <2>1. Place /\ at \in Nat /\ Len(Scripts[job]) \in Nat /\ job \in Jobs
    BY PlaceFacts DEF KInv
  <2>2. ~(at > Len(Scripts[job]))
    BY DEF Deliver, Over
  <2> QED BY <2>1, <2>2 DEF Place
<1>4. p # NoAccess
  <2>1. Scripts[job] \in Seq(SUBSET Sent(job))
    BY <1>3, ScriptGroups
  <2>2. p \in ScriptPackets
    BY <1>3, <2>1 DEF ScriptPackets, Range
  <2>3. p \in Packets
    BY <2>2, PimKernelAssumption
  <2>4. p.op # "NONE"
    BY <2>3, PimRankAssumption
  <2> QED BY <2>4 DEF NoAccess
<1>5. PICK F : Schedule(job, F) /\ OnTime(job, F, at, left, NoAccess, RankNow)
  BY <1>2 DEF SInv
<1>6. OnTime(job, F, at', left', p, RankNow)
  BY <1>1, <1>3, <1>4, <1>5, SentOnTime
<1> QED BY <1>2, <1>5, <1>6

LEMMA RespondOnTime ==
  ASSUME IInv, KInv, Handle, NEW F, Schedule(job, F), OnTime(job, F, at, left, now, RankNow)
  PROVE  OnTime(job, F, at, left, now', RankNow')
<1>1. InCrf /\ job \in Jobs /\ now # NoAccess
  BY RunsLoaded, PlaceFacts, HandleEffects DEF KInv
<1> DEFINE At(i, k) ==
        /\ now \in Scripts[job][i] /\ GoneTo(job, at, left, i, k + 1)
        /\ \/ RankNow = F[i][k]
           \/ /\ Triggers(F[i][k], now) /\ ~RankNow.sq.exit /\ RankNow = Halfway(job, F[i][k])
              /\ F[i][k] = [mode |-> F[i][k].mode, sq |-> F[i][k].sq, ctl |-> F[i][k].ctl]
<1>2. PICK i \in 1 .. Len(Scripts[job]) : \E k \in 0 .. Cardinality(Scripts[job][i]) - 1 : At(i, k)
  BY <1>1 DEF OnTime
<1>3. PICK k \in 0 .. Cardinality(Scripts[job][i]) - 1 : At(i, k)
  BY <1>2
<1> DEFINE y == F[i][k]
<1>4. Due(job, y, now) /\ F[i][k + 1] = After(job, y, now)
  BY <1>3 DEF Schedule
<1>5. OnTime(job, F, at, left, NoAccess, F[i][k + 1])
  BY <1>1, <1>3, HandledOnTime
<1>6. RankNow = [mode |-> RankNow.mode, sq |-> RankNow.sq, ctl |-> RankNow.ctl]
      /\ RankNow.mode = mode /\ RankNow.sq = sq /\ RankNow.ctl = ctl
  BY DEF RankNow
<1> HIDE DEF y
<1>7. CASE RankNow = y /\ ~Triggers(RankNow, now)
  <2>1. RankNow' = After(job, y, now) /\ now' = NoAccess
    BY <1>7, QuietStep
  <2> QED BY <1>4, <1>5, <2>1
<1>8. CASE RankNow = y /\ Triggers(RankNow, now) /\ Cmd(job, sq.pc).type = "JUMP"
  <2>1. now' = now /\ RankNow' = Halfway(job, RankNow) /\ ~sq'.exit
    BY <1>1, <1>4, <1>8, JumpFirst
  <2>2. RankNow'.sq = sq'
    BY DEF RankNow
  <2>3. /\ Triggers(y, now) /\ ~RankNow'.sq.exit /\ RankNow' = Halfway(job, y)
        /\ y = [mode |-> y.mode, sq |-> y.sq, ctl |-> y.ctl]
    BY <1>6, <1>8, <2>1, <2>2
  <2> QED BY <1>1, <1>3, <2>1, <2>3 DEF OnTime, y
<1>9. CASE RankNow = y /\ Triggers(RankNow, now) /\ Cmd(job, sq.pc).type # "JUMP"
  <2>1. Jumped(job, y.sq) = sq
    BY <1>6, <1>9 DEF Jumped
  <2>2. ~sq.exit
    BY <1>6, <1>9 DEF Triggers
  <2>3. now' = NoAccess /\ RankNow' = After(job, y, now)
    BY <1>1, <1>4, <1>6, <1>9, <2>1, <2>2, Executes
  <2> QED BY <1>4, <1>5, <2>3
<1>10. CASE /\ Triggers(y, now) /\ ~RankNow.sq.exit /\ RankNow = Halfway(job, y)
           /\ y = [mode |-> y.mode, sq |-> y.sq, ctl |-> y.ctl]
  <2>1. mode = y.mode /\ ctl = y.ctl /\ sq = Jumped(job, y.sq) /\ ~sq.exit
    BY <1>6, <1>10 DEF Halfway
  <2>2. now' = NoAccess /\ RankNow' = After(job, y, now)
    BY <1>1, <1>4, <1>10, <2>1, Executes
  <2> QED BY <1>4, <1>5, <2>2
<1> QED BY <1>3, <1>7, <1>8, <1>9, <1>10 DEF y

LEMMA SInvStep == ASSUME IInv, KInv, SInv, [Next]_vars PROVE SInv'
<1>1. CASE Deliver
  BY <1>1, DeliverSInv
<1>2. CASE Respond
  <2> SUFFICES ASSUME Regular(job'), error' = "none"
               PROVE  \E F : Schedule(job', F) /\ OnTime(job', F, at', left', now', RankNow')
    BY DEF SInv, RankNow
  <2>1. Handle /\ job' = job /\ at' = at /\ left' = left
    BY <1>2 DEF Respond
  <2>2. error = "none"
    BY <2>1 DEF Handle, SwitchHab, AccessSb, ControlPIM, WriteCrf, WriteGrf, WriteSrf, MoveToBank,
         MoveFromBank, IgnoreReserved, Jump, Exit, Execute, InHab, InPIM, Busy
  <2>3. PICK F : Schedule(job, F) /\ OnTime(job, F, at, left, now, RankNow)
    BY <2>1, <2>2 DEF SInv
  <2>4. OnTime(job, F, at, left, now', RankNow')
    BY <2>1, <2>3, RespondOnTime
  <2> QED BY <2>1, <2>3, <2>4
<1>3. CASE UNCHANGED vars
  BY <1>3 DEF vars, SInv, RankNow
<1> QED BY <1>1, <1>2, <1>3 DEF Next

LEMMA KeepsSchedule == Spec => [](IInv /\ KInv /\ SInv)
<1>1. Init => IInv /\ KInv /\ SInv
  BY InitIInv, InitKInv, InitSInv DEF Init
<1>2. IInv /\ KInv /\ SInv /\ [Next]_vars => (IInv /\ KInv /\ SInv)'
  BY KernelStep, SInvStep
<1> QED BY <1>1, <1>2, PTL DEF Spec

\* What an access under way finds.
LEMMA FindsItsCommand == ASSUME IInv, KInv, SInv, Regular(job), Busy PROVE InStep /\ ProgramSpent
<1>1. InCrf /\ job \in Jobs /\ now # NoAccess /\ error = "none"
  BY RunsLoaded, PlaceFacts DEF KInv, Busy
<1>2. PICK F : Schedule(job, F) /\ OnTime(job, F, at, left, now, RankNow)
  BY <1>1 DEF SInv
<1> DEFINE At(i, k) ==
        /\ now \in Scripts[job][i] /\ GoneTo(job, at, left, i, k + 1)
        /\ \/ RankNow = F[i][k]
           \/ /\ Triggers(F[i][k], now) /\ ~RankNow.sq.exit /\ RankNow = Halfway(job, F[i][k])
              /\ F[i][k] = [mode |-> F[i][k].mode, sq |-> F[i][k].sq, ctl |-> F[i][k].ctl]
<1>3. PICK i \in 1 .. Len(Scripts[job]) : \E k \in 0 .. Cardinality(Scripts[job][i]) - 1 : At(i, k)
  BY <1>1, <1>2 DEF OnTime
<1>4. PICK k \in 0 .. Cardinality(Scripts[job][i]) - 1 : At(i, k)
  BY <1>3
<1> DEFINE y == F[i][k]
<1>5. Due(job, y, now) /\ Spent(job, y, now)
  BY <1>2, <1>4 DEF Schedule
<1>6. RankNow.mode = mode /\ RankNow.sq = sq /\ RankNow.ctl = ctl
  BY DEF RankNow
<1> HIDE DEF y
<1>7. Triggers(RankNow, now) <=> InPIM
  BY <1>6 DEF Triggers, InPIM, Toggles
<1>8. ASSUME sq.pc \in InProgram(job), mode = "HAB_PIM"
      PROVE  Reached = Jumped(job, sq).pc
  <2>1. crf[sq.pc] = Cmd(job, sq.pc)
    BY <1>1, <1>8 DEF InCrf
  <2> QED BY <2>1, JumpIsJumped DEF Reached, Jumped
<1>9. CASE RankNow = y
  <2>1. InStep
    <3>1. CASE now.meant = NoCommand
      BY <1>5, <1>7, <1>9, <3>1 DEF Due, InStep
    <3>2. CASE now.meant # NoCommand
      <4>1. InPIM /\ sq.pc \in InProgram(job) /\ Jumped(job, sq).pc = now.meant
        BY <1>5, <1>6, <1>7, <1>9, <3>2 DEF Due
      <4>2. mode = "HAB_PIM"
        BY <4>1 DEF InPIM
      <4> QED BY <1>8, <3>2, <4>1, <4>2 DEF InStep
    <3> QED BY <3>1, <3>2
  <2>2. ProgramSpent
    <3> SUFFICES ASSUME mode = "HAB_PIM", IsControl(now), job.kernel = "GEMVTREE" => job.tiles = 2, ~sq.exit
                 PROVE  crf[Reached].type = "EXIT"
      BY DEF ProgramSpent
    <3>1. /\ sq.pc \in InProgram(job) /\ Jumped(job, sq).pc \in InProgram(job)
          /\ Cmd(job, Jumped(job, sq).pc).type = "EXIT"
      BY <1>5, <1>6, <1>9 DEF Spent
    <3>2. crf[Jumped(job, sq).pc] = Cmd(job, Jumped(job, sq).pc)
      BY <1>1, <3>1 DEF InCrf
    <3> QED BY <1>8, <3>1, <3>2
  <2> QED BY <2>1, <2>2
<1>10. CASE /\ Triggers(y, now) /\ ~RankNow.sq.exit /\ RankNow = Halfway(job, y)
           /\ y = [mode |-> y.mode, sq |-> y.sq, ctl |-> y.ctl]
  <2>1. mode = y.mode /\ ctl = y.ctl /\ sq = Jumped(job, y.sq) /\ ~sq.exit
    BY <1>6, <1>10 DEF Halfway
  <2>2. now.meant # NoCommand
    BY <1>5, <1>10 DEF Due
  <2>3. /\ Jumped(job, y.sq).pc = now.meant /\ now.meant \in InProgram(job)
        /\ Cmd(job, now.meant).type \notin {"JUMP", "EXIT"} /\ y.sq.pc \in InProgram(job)
    BY <1>5, <2>2 DEF Due
  <2>4. mode = "HAB_PIM" /\ sq.pc = now.meant /\ InPIM
    BY <1>10, <2>1, <2>3, Busy DEF Triggers, InPIM, Toggles
  <2>5. crf[sq.pc].type # "JUMP"
    BY <1>1, <2>3, <2>4 DEF InCrf
  <2>6. InStep
    BY <2>2, <2>4, <2>5 DEF InStep, Reached
  <2>7. ProgramSpent
    <3>1. (job.kernel = "GEMVTREE" => job.tiles = 2) /\ IsControl(now) => FALSE
      <4> SUFFICES ASSUME IsControl(now), job.kernel = "GEMVTREE" => job.tiles = 2 PROVE FALSE
        OBVIOUS
      <4>1. ~y.sq.exit /\ y.mode = "HAB_PIM"
        BY <1>10 DEF Triggers
      <4>2. Cmd(job, Jumped(job, y.sq).pc).type = "EXIT"
        BY <1>5, <4>1 DEF Spent
      <4> QED BY <2>3, <4>2
    <3> QED BY <3>1 DEF ProgramSpent
  <2> QED BY <2>6, <2>7
<1> QED BY <1>4, <1>9, <1>10 DEF y

\* For every shape of a kernel that fits the banks, in whatever order the accesses of a
\* group come: one sent to trigger a command finds the rank in HAB_PIM mode and the
\* sequencer at that command, and no other triggers anything.
THEOREM KernelsInStep == Spec => [](Regular(job) => InStep)
<1>1. IInv /\ KInv /\ SInv => (Regular(job) => InStep)
  BY FindsItsCommand DEF InStep
<1> QED BY <1>1, KeepsSchedule, PTL

\* And when a kernel switches HAB_PIM off, its program has run to its end.
THEOREM KernelsSpend == Spec => [](Regular(job) => ProgramSpent)
<1>1. IInv /\ KInv /\ SInv => (Regular(job) => ProgramSpent)
  BY FindsItsCommand DEF ProgramSpent
<1> QED BY <1>1, KeepsSchedule, PTL
=============================================================================
