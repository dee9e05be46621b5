------------------------------- MODULE PimMode -------------------------------
(***************************************************************************)
(* The mode protocol between PIMKernel and a rank.  The rank leaves SB mode    *)
(* when rows of the ABMR register have been opened in four banks and returns     *)
(* when rows of the SBMR register have been closed in two; the kernel only         *)
(* queues writes to those rows, and the channel decides when, and after which        *)
(* refreshes, a row opens or closes.  Here the client of Hbm2Channel is one of        *)
(* the host programs, transaction by transaction, on a rank of sixteen banks.          *)
(***************************************************************************)
EXTENDS Hbm2Channel

CONSTANTS
  NumGrf,              \* num_grf_, the accesses of one PIM instruction group
  Kernels,             \* the host programs a run takes one of
  Preloads             \* bound: the writes that come before the kernel

ASSUME PimModeAssumption ==
  /\ NumRanks = 1 /\ NumBanks = 16 /\ BanksPerGroup = 4 /\ Batch
  /\ NumGrf \in Nat \ {0}
  /\ Kernels \subseteq {"ELTWISE", "GEMV", "REDUCTION", "BANDWIDTH", "CONV1D"}
  /\ Preloads \subseteq Nat

-----------------------------------------------------------------------------
(* Host programs.  An access carries the mode its author means it to find;      *)
(* "ANY" when every mode treats it alike, as the park rows and the mode rows.    *)

Access(o, b, w, c, v, m) == [op |-> o, bank |-> b, row |-> w, col |-> c, val |-> v, mode |-> m]
Barrier == [op |-> "BARRIER"]
Run == [op |-> "RUN"]          \* runPIM, or the bench's own loop

\* addTransactionAll: num_loop columns of one row, then, if asked for, a barrier.
AddAll(o, b, w, n, m) == [i \in 1 .. n |-> Access(o, b, w, i - 1, 0, m)]
Fenced(o, b, w, n, m) == Append(AddAll(o, b, w, n, m), Barrier)

\* A read of row 1 << 13 in every bank, a bank of each group in turn.
ParkReads ==
  [i \in 1 .. NumBanks |->
     Access("READ", ((i - 1) % 4) * BanksPerGroup + (i - 1) \div 4, 8192, 0, 0, "ANY")]
\* A slip: the kernel starts without parking the banks.
NotParked == <<Barrier>>
ParkIn == <<Barrier>> \o ParkReads \o <<Barrier>>
ParkOut == ParkReads \o <<Barrier>>

\* changePIMMode; banks 8 and 9 are banks 0 and 1 of group 2.
ModeRowWrites(banks, row) ==
  [i \in DOMAIN banks |-> Access("WRITE", banks[i], row, 31, 0, "ANY")]
ToHab == Append(ModeRowWrites(<<0, 1, 8, 9>>, 10239), Barrier)
\* A slip: one of the two banks left out.
ToSbHalf == Append(ModeRowWrites(<<0>>, 12287), Barrier)
ToSb == Append(ModeRowWrites(<<0, 1>>, 12287), Barrier)
ToHabPim == <<Access("WRITE", 0, 16383, 0, 1, "HAB"), Barrier>>
FromHabPim == <<Access("WRITE", 0, 16383, 0, 0, "HAB_PIM"), Barrier>>

\* A slip: the CRF written in three bursts.
ProgramCrfLong == [i \in 1 .. 3 |-> Access("WRITE", 1, 16383, 3 + i, 0, "HAB")] \o <<Barrier>>
ProgramCrf == <<Access("WRITE", 1, 16383, 4, 0, "HAB"), Barrier>>

Enter == ParkIn \o ToHab \o ProgramCrf
Leave == ToSb \o ParkOut

\* computeAddOrMul, one tile: for even, then odd banks, two operands, the result.
EltwiseBody ==
  FlattenSeq([i \in 1 .. 2 |-> Fenced("READ", i - 1, 0, NumGrf, "HAB_PIM")
                               \o Fenced("READ", i - 1, 128, NumGrf, "HAB_PIM")
                               \o Fenced("WRITE", i - 1, 256, NumGrf, "HAB_PIM")])
\* readData of the result, one column of each bank.
ReadBack == [i \in 1 .. NumBanks |-> Access("READ", i - 1, 256, 0, 0, "SB")]
\* executeEltwise between a preload and a readData, all of it queued at once.
Eltwise == Enter \o ToHabPim \o EltwiseBody \o FromHabPim \o Leave \o ReadBack \o <<Run>>

\* executeGemv: GRF_A loaded, two MAC groups for each parity of banks, the result
\* written from GRF_B.
GemvBody ==
  FlattenSeq([i \in 1 .. 2 |->
      [k \in 1 .. NumGrf |-> Access("WRITE", 1, 16383, 7 + k, 0, "HAB_PIM")] \o <<Barrier>>
      \o Fenced("READ", i - 1, 0, NumGrf, "HAB_PIM") \o Fenced("READ", i - 1, 0, NumGrf, "HAB_PIM")])
  \o Fenced("WRITE", 1, 0, NumGrf, "HAB_PIM")
Gemv == Enter \o ToHabPim \o GemvBody \o FromHabPim \o Leave \o <<Run>>

\* PIMReduction: each step runs its shots without barriers; the last mode changes
\* stay queued when the bench ends.
ReductionStep ==
  ToHabPim \o AddAll("READ", 0, 0, NumGrf, "HAB_PIM") \o AddAll("READ", 0, 1, NumGrf, "HAB_PIM")
  \o AddAll("READ", 1, 0, NumGrf, "HAB_PIM") \o AddAll("READ", 1, 1, NumGrf, "HAB_PIM")
  \o <<Run>> \o FromHabPim
Reduction == Enter \o ReductionStep \o ReductionStep \o Leave

\* The random bandwidth bench: all-bank reads of several rows, never in PIM mode.
Bandwidth ==
  ParkIn \o <<Run>> \o ToHab \o <<Run>>
  \o [i \in 1 .. NumGrf |-> Access("READ", 0, (i * 5) % 7, i, 0, "HAB")] \o <<Run>>
  \o Leave \o <<Run>>

\* PIMConv1D: two taps and one result row; the results are read back from the
\* odd banks before the banks are parked out.
Conv1dTap ==
  <<Access("WRITE", 1, 16383, 8, 0, "HAB"), Barrier, Run>> \o ToHabPim \o <<Run>>
  \o Fenced("READ", 0, 0, 1, "HAB_PIM") \o <<Run>> \o FromHabPim \o <<Run>>
Conv1dResults == [i \in 1 .. 8 |-> Access("READ", 2 * i - 1, 4096, 0, 0, "SB")]
Conv1d ==
  Enter \o <<Run>> \o Conv1dTap \o Conv1dTap
  \o Fenced("WRITE", 1, 4096, 1, "HAB") \o <<Run>>
  \o ToSb \o <<Run>> \o Conv1dResults \o <<Run>> \o ParkOut \o <<Run>>

\* preloadNoReplacement and the benches' preloads: n writes over the banks in turn,
\* even banks only for the convolution.  A test's preload, which it queues together
\* with the kernel, is at least a tile for every bank: none, or more than the
\* transaction queue holds.
Preload(n, step) ==
  [i \in 1 .. n |-> Access("WRITE", ((i - 1) * step) % NumBanks, 0,
                           (i - 1) \div (NumBanks \div step), 0, "SB")]

Tiles(n) == IF n = 0 THEN 0 ELSE TransQueueDepth + n

Program(k, n) ==
  CASE k = "ELTWISE"   -> Preload(Tiles(n), 1) \o Eltwise
    [] k = "GEMV"      -> Preload(Tiles(n), 1) \o Gemv
    [] k = "REDUCTION" -> Preload(n, 1) \o <<Run>> \o Reduction
    [] k = "BANDWIDTH" -> Preload(n, 1) \o <<Run>> \o Bandwidth
    [] k = "CONV1D"    -> Preload(n, 2) \o <<Run>> \o Conv1d
Programs == [k \in Kernels |-> [n \in Preloads |-> Program(k, n)]]

-----------------------------------------------------------------------------
VARIABLES
  kernel, preload,     \* the host program
  at                   \* the next of its steps

hostVars == <<kernel, preload, at>>
allVars == <<vars, hostVars>>

Host == Programs[kernel][preload]
Ended == at > Len(Host)
Now == Host[at]

PimInit ==
  /\ Init
  /\ kernel \in Kernels /\ preload \in Preloads /\ at = 1

Untouched == <<kernel, preload, clientVars, pendRd, queueVars, dataVars, mc, rk, bus, pc, error>>
HostMay == pc = "deliver" /\ error = "none" /\ ~Ended

HostAccess ==
  /\ HostMay /\ Now.op \in {"READ", "WRITE"}
  /\ Enqueue([op |-> Now.op, rank |-> 0, bank |-> Now.bank, row |-> Now.row, col |-> Now.col,
              bar |-> FALSE, val |-> Now.val, epoch |-> 0, mode |-> Now.mode])
  /\ at' = at + 1 /\ UNCHANGED Untouched

HostBarrier ==
  /\ HostMay /\ Now.op = "BARRIER"
  /\ TagLast
  /\ at' = at + 1 /\ UNCHANGED <<Untouched, onFly>>

\* The loop calls update while transactions are in flight, then returns.
HostRuns == HostMay /\ Now.op = "RUN"
HostReturns ==
  /\ HostRuns /\ onFly = 0
  /\ at' = at + 1 /\ UNCHANGED <<Untouched, frontVars, onFly>>

Update == (pc = "deliver" => HostRuns) /\ Clock /\ UNCHANGED hostVars

PimNext == HostAccess \/ HostBarrier \/ HostReturns \/ Update
PimSpec == PimInit /\ [][PimNext]_allVars

\* The host program goes on, and an update it calls runs to its end.
HostGoes == HostMay /\ (Now.op = "RUN" => onFly = 0) /\ at' = at + 1
UpdateGoes == (pc = "deliver" => HostRuns) /\ Tick
PimFairSpec == PimSpec /\ WF_at(HostGoes) /\ WF_pc(UpdateGoes)

-----------------------------------------------------------------------------
PimTypeOK ==
  /\ kernel \in Kernels /\ preload \in Preloads /\ at \in 1 .. Len(Host) + 1
  /\ modes[0].now \in {"SB", "HAB", "HAB_PIM"}
  /\ modes[0].abmr \subseteq {0, 1, 8, 9} /\ modes[0].sbmr \subseteq {0, 1}
  /\ Len(transQ) <= TransQueueDepth /\ Len(cmdQ[0]) <= CmdQueueDepth
  /\ mc \in [Ranks -> [Banks -> BankStateType]]
  /\ rk \in [Ranks -> [Banks -> BankStateType]]

(* RankNeverExits: in all-bank modes one command is checked against every bank    *)
(* of its parity, while the controller's shadow follows two banks only; no host      *)
(* program's command ever fails Rank::check, wherever the refreshes fall.              *)
RankNeverExits == error = "none"

(* FoundInMode: an access whose effect depends on the rank's mode arrives in the     *)
(* mode its author meant, although queues, barriers and refreshes lie between the      *)
(* mode change's row commands and it.                                                   *)
FoundInMode ==
  bus.op \in {"READ", "WRITE"} => bus.mode \in {"ANY", Mode(0)}

(* SwitchesQuiet: the rank enters and leaves SB mode only while none of its banks     *)
(* has an ordinary row open, since from then on one command stands for many banks.     *)
SwitchesQuiet ==
  [][(Mode(0) = "SB") # (Mode(0)' = "SB") => \A b \in Banks : rk[0][b].st = "Idle"]_allVars

(* BarriersStand: a barrier asked for while transactions are queued fences the last   *)
(* of them; none is lost to a transaction queue that is exactly full.                   *)
BarriersStand ==
  HostMay /\ Now.op = "BARRIER" /\ transQ # <<>> => Fences

(* HostEnds: the host program comes to its end, every run of it included; no access    *)
(* waits for a bank the mode does not let the controller open.                           *)
HostEnds == <>Ended
=============================================================================
