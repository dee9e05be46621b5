# Verification of the HBM-PIM simulators

TLA+ models of the code under `src/`, configurations that check them with TLC,
and theorems about them that TLAPS proves. Every definition is translated from
the source; `PROJECT.json` ("map") gives the lines.

## The system

`src/` holds three bodies of code that do not call each other.

* `HBM2_PIM/` - a cycle simulator of HBM2 with processing in memory: Samsung's
  PIMSimulator on top of DRAMSim2.
* `HBM3_PIM/` - Ramulator 2 with an HBM3-PIM device, controller and trace front
  end added (`ext/` is vendored).
* `GPU_CPU/` - stand-alone CPU and GPU baselines. They share no state with the
  simulators and are not modelled.

### Components of HBM2_PIM

Each channel is a `MemorySystem`; everything is single-threaded and moves by
`update()` calls. What is hard is not threads but many countdowns and queues
that advance together, two records of the same banks, reordering, and clients
that drive the loop by a counter.

| Component | State | Operations | Correct when |
|---|---|---|---|
| `MultiChannelMemorySystem`, run loops (`PIMKernel::runPIM`, `PimSimulator::run`) | channels, clock | `addTransaction`, `addBarrier`, `update`, `hasPendingTransactions` | the loop stops only when the work is done, and does stop |
| `MemorySystem` | `pendingTransactions`, `numOnTheFlyTransactions` | `addTransaction`, `addBarrier`, `update` | the counter is exact; nothing added is forgotten |
| `MemoryController` | transaction queue, pending reads, bank shadow, command and data bus packets, write data in flight, refresh countdowns | `update` and what it calls | the shadow never allows what the rank refuses; no bus collision; each read returns once |
| `CommandQueue` | one queue per rank, round-robin cursors, one refresh request | `enqueue`, `pop`, `hasRoomFor`, `needRefresh` | reordering respects columns and barriers; refreshes are served; rows close |
| `Rank`, `Bank` | bank records, mode, data to return, arrays | `receiveFromBus`, `update` | accepts only legal commands; mode changes happen as the kernel's script intends |
| `PIMRank`, `PIMBlock` | CRF, program counter, loop and repeat counters, registers | `writeHab`, `readHab`, `doPIM` | the command sequence executed is the program's |
| `PIMKernel` | none of its own | parking, mode change, kernels as batches of transactions and barriers | mode scripts leave the rank in the mode the next step assumes |
| `AddressMapping`, `ClockDomain` | clock counters | mapping, clock crossing | addresses and locations correspond one to one; no tick is lost |

A client calls `addTransaction` and `addBarrier`, then the run loop calls
`update`. `MemorySystem::update` calls `Rank::update` (which may hand a finished
read to the controller by `receiveFromBus`), moves one pending transaction, and
calls `MemoryController::update`, which hands last cycle's command to its rank,
asks `CommandQueue::pop` for the next and feeds the queue. `CommandQueue` reads
the controller's `bankStates` by reference and the ranks' mode by pointer.

### Components of HBM3_PIM

| Component | State | Operations | Correct when |
|---|---|---|---|
| PIM controller (`hbm3_pim_controller.cpp`) with the PIM scheduler and the refresh manager | active, priority, read, write and PIM buffers, reads on their way back, write-drain mode | `send`, `priority_send`, `tick` (returned reads, refresh, first and second command) | every request is served once and ends; PIM requests respect barriers; the two commands of a cycle agree |
| Device (`dram/node.h`, `dram/impl/HBM3-PIM.cpp`, `dram/lambdas`) | open rows of each bank, ready clock of each node and command, history of activates | `get_preq_command`, `check_ready`, `check_rowbuffer_hit`, `issue_command` | a command goes out only when the table allows it |
| Trace front ends, main loop | position in the trace | `tick`, `is_finished` | each line is sent once; the loop ends |
| SimpleO3 (not in the build): cores, window, last-level cache | instruction windows, sets in LRU order, miss registers, waiting requests, requests waiting out the latency | `tick`, `send`, `receive` | no load is forgotten, no store lost, the cores finish |
| RowHammer plugins (not in the build) | tables of activated rows of each bank | `update` for the command just issued, reset, pruning | no row escapes its threshold |
| Address mappers, row indirection table | permutation of rows | `apply`, swap | addresses and locations correspond one to one |
| Factory, parameters, statistics, trace generators | - | - | - |

A front end calls `send` on the memory system, which passes it to the controller of
the request's channel; `send` may refuse, and the front end tries again in its next
tick. The main loop ticks front end and memory system in turn. The controller asks its
scheduler for the best request of a buffer, the scheduler asks the device which
command the request needs next and whether it is ready, the refresh manager queues
refreshes by `priority_send`, and every plugin sees the command just issued. A read
that ends calls back into the front end.

What is hard: up to two commands a cycle decided from the same buffers, a request
that moves between buffers while others are compared with it, refreshes that compete
with active requests, and a cache in which three kinds of requests for one line wait
for one another.

## Modules

| Module | What it is |
|---|---|
| `BankTiming` | the timing and bank-state rules of an HBM2 channel, both sides: what the controller records (`updateCommandQueue`, `updateBankState`), what `isIssuable` asks, what the rank checks and records (`check`, `updateState`) |
| `DramTiming` | abstract specification: a controller that may issue any command its shadow allows, and the ranks that receive it a cycle later. No queues, no policy |
| `CommandQueue` | what `pop` may take from the per-rank queues, as functions of the queues and the shadow |
| `Hbm2Channel` | one channel: client, memory system, controller, queues, buses, ranks with their modes; shown to implement `DramTiming` |
| `PimMode` | the host programs of `PIMKernel` and the benchmarks, transaction by transaction, as the client of `Hbm2Channel` |
| `PimRank` | a rank's processing in memory: command register file (CRF), sequencer, registers of a block, and what an access does in each mode |
| `PimKernel` | the kernels and a benchmark as the accesses they send, driving `PimRank`; shown to implement it |
| `MemService` | abstract specification: what the HBM3-PIM controller promises - each request is served once, and some only after others. No banks, buffers, timing or refresh |
| `Hbm3Device` | the HBM3-PIM device: node tree, timing table, prerequisites, row states |
| `Hbm3Controller` | the controller of a channel over `Hbm3Device`, with scheduler, refresh manager and trace front end; shown to implement `MemService` |
| `SimpleO3Llc`, `SimpleO3` | the last-level cache as operators on a record; the cores that share it and one channel of the memory as they meet it: buffers and answers |
| `Graphene`, `Twice` | the trackers of the two plugins for one bank, with ghosts for what really happened to a row |
| `Hbm2ChannelProofs`, `Hbm2TrafficProofs` | theorems about `Hbm2Channel`, the second module using the first: types and timing; what is in flight and in which order it is served |
| `QueueLemmas` | what several of the proofs need about sequences, sums and recursive functions |
| `Hbm3Proofs` | theorems about `Hbm3Controller` and `MemService` |
| `PimProofs` | theorems about `PimRank`, and about `PimKernel`, which is shown to implement it |
| `DramTimingProofs`, `SimpleO3Proofs`, `RowTrackerProofs` | theorems about the other modules |
| `MCDramTiming`, `MCHbm2Channel`, `MCPimMode`, `MCPimRank`, `MCPimKernel`, `MCHbm3Controller`, `MCSimpleO3`, `MCRowTrackers` | instances for TLC |

`Hbm2Channel` says in which order accesses reach a rank, `PimRank` what they do
there. The two meet in two facts: accesses with a barrier between them arrive in
order, others in any (`BarrierOrder` in the first, the groups of `PimKernel` in
the second), and each access finds the rank in the mode its author meant
(`FoundInMode` in `PimMode`; in `PimKernel` the change of mode is one step).

`SimpleO3` has the buffers of the controller but not its scheduler: which request is opened or
served next is left open, and that each is served at last (`FairSpec`) is what
`Hbm3Controller` shows of itself (`Drains`).

Not all of this is compiled at this commit. `frontend/CMakeLists.txt` lists only the two
load/store front ends, so SimpleO3 is a part of the source that no executable contains;
`dram_controller/CMakeLists.txt` lists neither Graphene nor TWiCe, and their `setup` would
throw on both devices, which have no victim-row refresh (VRR). What is said of these three is
about their source, as it would run where they are listed and, for the plugins, on a
device with that command.

A few definitions are used by no other, most of them introduced by "A slip:". Each is a
plausible mistake in the definition next to it; the mutants of `PROJECT.json` put it in
its place to confirm that a property notices.

### How state and actions correspond

*Time.* The code stores absolute cycles and compares them with
`currentClockCycle`. The models store what is left: a count that ages by one
each cycle. `max(next, now + d)` is `Later(n, d)`, "now >= next" is `n = 0`. All
objects of a channel step once per update, so this is exact and makes the state
finite.

*An update* is three steps with a program counter `pc`: `Deliver` (the ranks'
update, one pending transaction accepted, `MemoryController::update` as far as
`updateRefresh`), one of `IssueForRefresh`, `IssueColumn`, `IssueActivate`,
`IssuePrecharge`, `IssueNothing` (`pop` and `updateCommandQueue`), and `Retire`
(`updateTransactionQueue`, one returned read, the clock). The code runs them
without interruption; they are steps of their own so that each is readable and
so that a run can see between them. The client acts only between two updates.

*Packets* are records with rank, bank, row, column, the barrier tag and a value.
Addresses are replaced by locations.
Energy, statistics, debug output and power-down (disabled in the source) are left
out, and so are `refreshCountdownBank` (counted and never read) and
`tXAWCountdown` and `rowAccessCounters` (read and never changed, so that the
tests on them are constantly true).

*A PIM access* is taken from the client by `Receive` (or `Deliver`) into `now` and
ends when `now` is empty again. One action for each branch of the code handles
it: `SwitchHab`, `AccessSb`, `ControlPIM` (control register), `WriteCrf`,
`WriteGrf`, `WriteSrf`, `MoveToBank`, `MoveFromBank`, `IgnoreReserved`, and for an
access that toggles, `Jump`, `Exit`, `Execute`. `doPIM` is a loop over JUMP
commands; each pass of it is a step, so that a loop that never ends would be
seen as such. `error` is "bank" where the code calls `exit` and "crf" where it
would read outside its array, which is undefined. `SwitchHab` is the effect of a
whole parking and mode-change script; `PimMode` has the script itself.

All blocks execute the same command, each on its own banks, so one block and its
two banks stand for all. What arithmetic computes is a parameter; `MCPimKernel`
uses formal sums of products of cells, which tell apart every operand, order and
repetition that matters. A cell nobody wrote holds `Content` of its position:
the preloaded operands.

*A kernel* is a sequence of groups of accesses, a barrier between two groups.
Accesses of a group arrive in every order. The code notes in tags such as
"MAC" what an access is for; the model's ghost `meant` is the index of the CRF
command it is sent to trigger.

*A host program* (`PimMode`) is a sequence of steps: an access (`HostAccess`, i.e.
`addTransaction`), a barrier (`HostBarrier`, `addBarrier`), and `RUN`
(`HostReturns`), the loop that calls `update` until nothing is in flight. Parking,
the writes that make up a mode change, control writes, CRF writes and the accesses of
the kernel are queued one by one and may all be in the queue together, as in the
code. The rank changes mode on the command bus, when it receives an activate of the
ABMR row or a precharge of the SBMR row, and checks a broadcast command against every
bank of its parity. An access carries the mode its author meant it to find. The
preload before a kernel has 0 to 19 writes, which shifts the phase of the refreshes
against the script; kernels that queue their preload together with the script start
with none, or with more than the transaction queue holds.

*The HBM3 device.* Every node keeps, per command, the clock from which it is ready;
`busy` holds the cycles left for the pairs not yet ready. `TimingCons` is the table
of `set_timing_vals` for the commands that can be issued. `rows` is the set of rows
recorded open in a bank: PIM activates add their row to whatever is open, so it can have
two.

*The HBM3 controller.* `Tick` is `tick()`, one action: `serve_completed_reads`,
`m_refresh->tick()`, `schedule_request` and issue, `schedule_sec_request` and issue.
`Send` is the front end's call of `send` followed by its moving on. A request that
arrives carries the epoch of its arrival instead of the clock, so that requests of
one cycle compare equal. `first_command` is read after `req_it` may have been erased
or may be an end iterator (`hbm3_pim_controller.cpp:156`); `FirstTypes` then lets it be
anything in `Stray`.

*SimpleO3.* A state is one record; `Tick` is the cache's cycle followed by the cores'
cycles in their order. An address is a number and an index, a tag or a line the set of its
one bits, so that masks and shifts are intersections and translations of sets. The memory is
one channel with the read, the write and the active buffer of `hbm3_pim_controller.cpp`: `Takes` and
`Taken` are `send` with its forwarding from the write buffer and `enqueue`'s `<=`; `Open` moves a
request into the active buffer, `Serve` issues its last command, `Answer` is
`serve_completed_reads`, in the order of `pending`. `Open` waits for room, as what happens
without it is `Hbm3Controller`'s subject, and the precedence of the buffers is left open: the
cores see only what is refused, and when an answer comes. `check_set_hit` dereferences `end()`
for a tag that is not there; both of its outcomes return `end()`. Translation is the identity
(`NoTranslation`). The ghost `unsaved` holds the lines stored to since the memory last took a
write of them. `MaxLines` bounds the trace lines a core takes: a finished core goes on with its
trace, and the writebacks and merged stores of the cache are unbounded while the memory
refuses.

*Trackers.* `Graphene!Activate` and `Quiet` are `update()` with and without an activate
of this bank, at every cycle; `gap` (the row cycle of the bank) is the device's.
`Twice` has one action per outcome of an activate and `Prune` for a refresh. Ghosts:
`exposed`, `acts`, `hammered`, `refs`, `refreshes`. A row's count of what happened to it starts
again when the plugin sends the controller a victim-row refresh for it; the controller
issues that later, by its own schedule, and activates in between belong to the next count.
`MCRowTrackers` runs one of the two in each behaviour, as they share nothing.

*Ghosts of HBM2.* `golden` (last value the client wrote to a location), `epoch`
(barriers acknowledged so far) and `issued` (latest epoch a rank's queue has let
go) are not in the code; a packet carries the epoch it was added in and, if a
read, the value it should find.

### Assumptions

`TimingAssumption` (in `BankTiming`): naturals; `AL <= tRCDRD`, `AL <= tRCDWR` and
`WL <= RL`, without which the code's unsigned subtractions wrap; `tWTRS <= tWTRL`.
The shipped ini files satisfy all of them. The runs of
`Hbm2Channel` without `PimMode` stay in SB mode (no location in a mode-register row
0x27ff, 0x2fff, 0x3fff). The module adds: `tCMD = 1` (as
shipped; with more, `pop` would find the command bus busy), the `per_rank` queue
(`pop` refuses the other), `RL`, `WL` at least 1 and `BL` at least 2 (a countdown
pushed as 0 wraps).

Three theorems about a channel need more, and name it in their statement.
`NoModeSwitch`: no location lies in row 0x27ff with column 0x1f, the access that leaves SB
mode. `OneRankOrSlow`: one rank, or bursts no longer than a write waits after an activate
(`BL / 2 <= tRCDWR - AL + 1`; the ini files have 2 and 11). Without it two ranks can
bring their write data onto the bus at once: with `BL = 6` and `tRCDWR = 0` TLC finds the
collision, since a write delays the banks of another rank only if their row is open already
(`MemoryController.cpp:227`); one that is opened after may send at once. `InOrder`: the
client runs each batch to its end, or adds only what the transaction queue has room for.

`PimRankAssumption`: at least one block and one CRF entry, and packets with the
fields the code reads (a CRF write carries eight commands, a control write the
control flags). Clients of `RankSpec` keep to a protocol (`Disciplined`): the CRF
is written only while nothing runs, and a program that is started has an EXIT and
no JUMP before it to before its beginning (`WellFormed`). The code checks
neither; that the kernels do both is checked and proved (`ImplementsRank`).

`PimKernelAssumption`: a rank has as many PIM blocks as a group of accesses has
columns (eight of each: an auto command repeats once for every block, while the kernels
send `num_grf` accesses for it), the CRF holds ten commands (it has 32; the longest
program has ten), `Packets` has the accesses of the scripts, and the shapes of the data
fit (`Fits`): operands of an element-wise kernel into the 128 rows the tests leave between
one and the next (`KernelTestCases.h:134`), weights, input and results of a GEMV below
the register rows, and below the zero row as well for the tree, the slots of Conv1D below
its result rows (`PIMConv1D.cpp:126` asserts this one). Nothing else in the code
looks at this. Larger data would be written over the next operand or into the registers.

`PimModeAssumption`: one
rank of sixteen banks in groups of four, the shape the parking code is written for.

`DeviceAssumption`, `ControllerAssumption`, `LlcAssumption`, `O3Assumption`: sizes and
timings are natural numbers, counts positive where the code divides or indexes by them.
A trace of `SimpleO3` has at least one line, and its addresses are natural numbers or, for a
line without a store, absent. The theorems about the cache need more and name it in their
statement. `PowersOfTwo`: line size and number of sets are powers of two, which the code's
masks and shifts take for granted and nothing checks.

`GrapheneAssumption`: the table is large enough that the activates which fit in a
period cannot bring the spillover counter to the threshold; the plugin leaves this
choice to its user. `TwiceAssumption`: the threshold is at least 2.

## Runs

All timings are shrunk to the smallest values that keep the order the ini files and
presets give them (`tCCDS < tCCDL`, `tRRDS < tRRDL`, `tRAS < tRC`, `WL < RL`, ...), so that
every comparison between two rules comes up within a few cycles.

| Run | Question | Result |
|---|---|---|
| `dram_timing` | can any schedule that the shadow allows be refused by the rank? | no, for three banks, two of them in a bank group, with an ordinary and a parking row |
| `channel_batch` | do batches, run to the end, keep data, order, barriers and counters right, and do they end? | yes: one rank, two banks, queues of depth 2, three transactions with barriers anywhere, refreshes between |
| `channel_ranks` | is every transaction accounted for on two ranks, bank-then-rank order, and with a client that adds while the channel runs? | yes, two transactions, queues of depth 1 |
| `refresh_starvation` | is a due refresh issued? | not always (finding) |
| `pim_rank` | can any sequence of accesses lead the sequencer off its program, or to a command with another's repeat count? | no: four startable programs with loops, nested loops and every operand kind, two that may be loaded but not started, restarts and reloads at any time |
| `pim_kernels` | does each access of a kernel trigger the command it is for, and is the result right? | yes, for ADD, MUL, RELU, GEMV, GEMVTREE and Conv1D |
| `reduction_in_step` | the same of one shot of the sum reduction | no (finding) |
| `pim_modes` | does every access of a host program find the mode it needs, whatever refreshes fall between? | yes, for five programs and twenty phases of the refreshes |
| `hbm3` | does the HBM3-PIM controller serve each request once, in a permitted order, and end? | yes, for reads and writes at any pace, PIM requests of every kind, refreshes and two commands a cycle |
| `timing_table` | does every HBM3 command respect the timing table? | no (finding) |
| `o3` | do the SimpleO3 cores and their cache keep loads and stores and finish? | yes, for two cores, two sets of two ways, three miss registers, a latency of one |
| `row_trackers` | can a row escape Graphene or TWiCe? | no |

### The properties

`NeverExits` and `ShadowConservative`: the controller decides by
a shadow that it updates one cycle before the rank's record, by other formulas;
the shadow agrees about the open row and is never more than that one cycle
ahead. `NoCheckFails`: no check on a transaction's way ends the program (rank
check, data bus collision, unmatched read). `OnFlyExact`, `ReadsAccounted`: each
accepted transaction and each outstanding read is in exactly one place.
`DataIntegrity`, `BarrierOrder`: reordering is invisible to the client.
`NoEarlyStop`: the run loop never stops over a waiting transaction, although its
counter leaves `pendingTransactions` out. `Drains`: batches end.
`ImplementsTiming`: the channel is one way to run `DramTiming`.

`SequencerInside`: the program counter never passes the first EXIT and no command
is fetched from outside the CRF, although the one jump counter is shared by all
loops. `RepeatBelongs`: the one repeat counter, when in use, is that of the
command the program counter is at. `InStep`: kernel and sequencer count
separately - the kernel in loops over transactions, the sequencer in repeat and
jump counters - and nothing but arithmetic keeps them together; each access must
find the sequencer at the command it is meant for. `ProgramSpent`: the program is
at its EXIT when the kernel switches it off, so the jump counts are not too large.
`ResultCorrect`: result cells hold what the kernel is for, in every order of
arrival. `OperandsKept`: results, placed by another function of the same shape,
never land on operands. `ImplementsRank`: kernels are clients of the kind the
theorems assume.

`RankNeverExits`: the shadow follows two banks while the rank checks a broadcast
command on all of its parity. `SwitchesQuiet`: the rank enters and leaves SB mode
with all banks closed. `FoundInMode`: queues, barriers and refreshes lie between a
mode change and the access that needs it. `BarriersStand`: `addBarrier` can fail and
the kernels ignore it; it does not, with their transaction counts. `HostEnds`: no access
waits for a bank that its mode does not let the controller open.

`EveryRequestServed`: a request leaves the buffers only by its own command going out,
and no command stands for two requests - not by being dropped at a full active buffer,
not by both slots serving it. `NeverThrows`: the priority buffer always has room for the
refreshes. `OneRowOpen`: with reads and writes, two commands in a cycle never leave two
rows of a bank open. `Drains`: buffers, write-drain mode, active requests and refreshes
never wait for each other for ever. `ServesInOrder` (refinement of `MemService`): nothing
overtakes a barrier, no write an older write of its address. `PimInOrder` is the half of it
about barriers, stated as an invariant to be proved. `TimingRespected`: every
node on a command's way is free for it.

`LinesRegistered`: the miss registers stand for exactly the lines in flight, so the iterator a
register keeps is still good when the answer comes, after any hits, evictions and merged
misses; and no set has a tag twice (`TagOnce`), so a miss never finds its tag there, which
`need_eviction` asserts in a build that keeps assertions. `NoneForgotten`: every load in a window is owed an
answer. `StoresKept`: a store stays in a dirty line or a writeback until the memory has
it. `Finishes`: the cores retire what is expected of them.

`GrapheneGuards`: no row is activated more often than the threshold between two
victim-row refreshes sent for it in a period, although entries change hands. `TwiceGuards`: pruning
forgets activates, but at most one rate for every refresh but the first.

*Where ProgramSpent is claimed.* Not for GEMVTREE with other than two tiles. With
one, its program stops half-way; with more, the inner loops overwrite the only
jump counter and the outer loop has no end. Neither is noticed, since the kernel
stops sending and every restart resets the sequencer.

*Where InStep is claimed.* For all kernels but the reduction (the finding
`reduction_in_step`) and a GEMV of a single input tile. The program of a GEMV always
has a loop for odd tiles; with one tile there is none, so the writes of the results find
the sequencer at the MAC of the odd bank (see the observations).

*Where DataIntegrity and BarrierOrder are claimed.* For batches, `DataIntegrity` on any
number of ranks, `BarrierOrder` on one. A
client that adds while `pendingTransactions` is not empty overtakes what waits
there (`MemorySystem.cpp:212`), and a barrier tags a single transaction and so
fences one rank (`MemorySystem.cpp:200`); neither happens in the batch run
loops with one PIM rank.

*Where OneRowOpen is claimed.* For programs of reads and writes. An all-bank activate
opens its row in every bank that is closed or not, after looking at the first bank
only.

*Where the O3 properties are claimed.* `LinesRegistered` and `StoresKept` at every latency,
for powers of two (they are proved). `NoneForgotten` and `Finishes` at a latency of one
only: a longer one lets a line be evicted and missed again before an earlier hit on it is
answered (see the observations), and with a latency of three TLC finds `NoneForgotten` violated.
With three sets it finds `TagOnce` and `TypeOK` violated.

### Bounds

*HBM2 channel.* `NumTrans` bounds the transactions of a run: three are enough for a
conflict (two rows of a bank), an overtaking and a barrier in between, with
queues of depth 2 full and overflowing. `NumValues` is how many writes of a
location can be told apart; three transactions cannot make more than three.
Depths 1 and 2 make every "full" case happen. `tREFI` is 14 so that refreshes
fall between, before and after the packets of one batch. With `NumTrans = 0` the
client goes on for ever and keeps the transaction queue supplied.

*Sequencer and kernels.* In `pim_rank` the CRF has eight entries (one burst) and
commands repeat twice: each program has at most six commands, and a repeat can be
begun, in the middle and over. In `pim_kernels` a group has eight accesses and
commands repeat eight times, as in the code, so no count is scaled down; a CRF of 16
holds the longest program (ten commands). Shapes are the smallest with each case: ADD
on two tiles (one pass of the outer loop), MUL on one (no JUMP is generated), RELU on
three; GEMV with 2 tiles and 2 outputs, 3 tiles (odd, so that even and odd banks
differ), and 2 batches; GEMVTREE on two and three tiles; Conv1D with ten taps
(past the eight columns of a row) and two output slots. Each order of a group is
explored. The reduction alone is given in program order: the finding does not
need reordering.

*Host programs.* Sixteen banks and queues of 64 are the shipped values, since
parking and the counts of transactions depend on them. The timings are closer to the
shipped ratios than elsewhere: with distorted ones a program can go on for ever
between a refresh and a mode row. The host is deterministic; what varies is the program
and the phase of the refreshes, 20 preloads against a `tREFI` of 100.

*HBM3.* Two pseudochannels with one rank, two bank groups and two banks: the least
in which all-bank, same-bank and per-bank commands reach different sets of banks. Timings are the preset's over
six in their order, among it `2 + nRP + nRCDRD < nRAS`: with other ratios the rows of two
PIM requests could be opened and closed in turn for ever. `nREFI = 24` makes refreshes
fall into all programs but the shortest. `MaxSize = 2` lets every
buffer fill up. Programs: every sequence of three reads and writes on two
pseudochannels sent at any pace, of four on two banks sent at once, of four of
all-bank MACs, result writes and barriers, of three with MACs of all kinds and buffer
loads, of three with same-bank MACs of the second bank group, and the shape of a sparse
matrix-vector trace. A barrier's scope is left
uninitialised by the table and is taken as zero, the channel.

*SimpleO3.* Two sets of two ways under five lines of two words (addresses 0 to 9), three
registers, and memory buffers that hold one entry each (`BufferSize = 0`, as `enqueue` compares with
`<=`). Two cores with one of three pairs of short traces: merged misses of both cores, stores to
lines in flight, dirty victims and two words of a line. Of the reasons to refuse, all occur:
registers taken, all ways of a set in flight, a read and a writeback before a full buffer, and
a read answered from a waiting write. Windows of three and an issue width of two make the window
fill up. A core takes four lines of its trace of two, and is expected to retire four
instructions.

*Trackers.* Four rows on two entries with threshold 3, and a period in which eight
activates fit: entries change hands and the spillover counter rises. TWiCe: three rows,
threshold 4, rate 2, five refreshes, enough to be pruned and return twice.

### Fairness

*HBM2.* The only assumption is that of the run loops: while
`hasPendingTransactions()` is not 0, `update` is called again and finishes
(`WF_pc(Tick)`). `Tick` is what every step of an update does to `pc`, so this is
weak fairness of `Clock`. Nothing is assumed of the client; in the starvation
run the loop never ends by itself. In `PimMode` the host program moreover goes on when
it can (`WF_at(HostGoes)`): it is a sequential program.

*HBM3.* The main loop ticks front end and memory in turn (`WF_vars(Send)`,
`WF_due(Clock)`; only a tick moves the clock of the refreshes). In `SimpleO3`, the front end
is ticked (`WF_clk(Advance)`; only a tick changes `clk`), and the memory serves the first
request of each buffer (`WF_vars(Serve(b, 1))`) and answers its oldest read (`WF_vars(Answer)`),
which `hbm3` checks of the controller.

*Deadlock* is checked except where the system really stops: batches
(`channel_batch`), host programs (`pim_modes`) and request programs (`hbm3`,
`timing_table`) end, and in `pim_rank` the code exits the program on a
write to the odd bank by an access to an even one (`error = "bank"`).

### Findings

* `refresh_starvation`: the comment says a refresh is issued "else" commands are
  popped, but commands are popped whenever the refresh cannot go this very
  cycle, and each write moves the precharge the refresh needs. The
  counterexample is a loop of writes one `tCCD` apart. It needs the write-to-
  precharge delay to exceed the write spacing, as all shipped timings do (26
  cycles against 4).
* `reduction_in_step`: the benchmark's comments say that eight fills and eight adds
  of the even bank are followed by eight fills and eight adds of the odd one. Its
  program has a NOP that waits eight accesses after each add, and the benchmark,
  unlike `executeEltwise`, sends nothing for it: the odd fills are spent in the NOP,
  the odd adds fill, and `GRF_B` is never added to.
* `timing_table`: the table states constraints of `PREA` and `REFab` at the
  pseudochannel and the rank, but `check_ready` stops at the scope of a command, which
  for both is the channel. A `PREA` goes out before `nRAS` and before written data is in
  the cells, a `REFab` before the precharge has ended.

### Observations

Met while modelling; no run of their own, as no doc or comment says otherwise, the scope of
a property already excludes them, or the code is not in the build (SimpleO3).

* HBM2: `rowAccessCounters` is compared and never counted, so an endless stream of
  hits on one row starves another row of its bank. `PIMPureComputePerformance.cpp`
  changes to HAB_PIM without the control write that starts its program, so its
  accesses only move data. A second rank that comes due for refresh overwrites the first
  one's request (`CommandQueue.cpp:514`). A GEMV of one input tile asks for -1 jumps of
  its odd loop (`PIMKernel.cpp:405`) and leaves its results in the registers: TLC finds
  `InStep` violated by the job `GEMV` with one tile.
* HBM3 controller: a refresh's `PREA` closes the row of an active request; a read passes
  an older write of its address that sits in the active buffer, where forwarding does
  not look; requests of the PIM buffer are not in order between barriers; the result
  of `priority_send` is used only by the refresh manager. The LD and ST variants of the
  sparse traces can stop for good (hazard at `hbm3_pim_controller.cpp:299`), and so can
  same-bank MACs of two bank groups that want different rows, as `PRESB` closes one
  group's banks only (`action.h:106`).
* SimpleO3, a hit's answer: `receive` cannot tell it from an answer of the memory
  (`llc.cpp:44`). When the line of the hit has meanwhile been evicted and missed again, it marks
  the new line ready and frees its register while the fetch is under way (against the comment at
  `llc.h:27`), and the requests that wait for the fetch are overwritten with the hit and
  forgotten; they wake only if their core asks for the address again. It takes two ways and a latency
  of three; with the defaults (latency 47, eight ways) the other ways of the set must be in flight
  or be taken by misses within the latency, and one of them be answered in it.
* SimpleO3, three cores: the capacity is multiplied by the number of cores (`simpleO3.cpp:52`).
  Three cores of 2 MB make 12288 sets: the mask 0x2fff and a tag that starts 13 bits above the
  line leave bit 12 out of both, so two lines share index and tag. `need_eviction` says that
  "the program can't reach here" (`llc.cpp:194`); the `assert` behind it is compiled out of the
  default build type, and the set grows beyond its ways. What follows is a hit on another line's
  data and, for a store, a writeback to the other line's address.
* SimpleO3, else: a refused writeback is overtaken by a fetch of its line (`llc.cpp:28`); the
  main loop ends only when the memory is idle, while finished cores keep sending
  (`main.cpp:108`).
* Plugins: Graphene's bound is per reset period, and since a row that takes over an
  entry is not compared with the threshold it can reach it (`graphene.cpp:151`). The
  row swaps of RRS draw a row from an inclusive range (`rrs.cpp:103`) and re-swap two rows with
  targets that the table records the other way round (`rrs.cpp:265`). None
  of these plugins is compiled, and the HBM3 devices lack the command Graphene and TWiCe need.

## Proofs

`DramTimingProofs` proves, for every number of ranks and banks and every timing
allowed by `TimingAssumption`:

* `TypeCorrect == Spec => []TypeOK`
* `Conservative == Spec => [](NeverExits /\ ShadowConservative)`
* `NoExit == Spec => []NeverExits`

`NeverExits` is not inductive: that the next command passes `Rank::check` depends on
how shadow and record relate. The strengthening `IInv` adds `ShadowConservative`, which
says it for each point of the cycle. The argument, per bank:

1. `Shadows(m, x)`: the record `x` is active exactly if the shadow `m` is active on
   a row the rank looks at, with that row, and each count of `x` is at most the
   shadow's plus 1, the cycle a command travels. The clock keeps this
   (`AgeKeepsShadow`).
2. A command the shadow allows has its count at 0, so the rank's is at most 1, and
   0 when the command arrives a cycle later (`IssuableAccepted`).
3. Recording the same command on both sides keeps `Shadows` (`RecordedLags`,
   `RecordedAgrees`, `CommandKeepsShadow`): each of the shadow's delays is at
   least the rank's. This is where `tWTRS <= tWTRL` is used, and where a refresh,
   which overwrites `nextActivate` on both sides, has to be treated apart.
4. Settling a precharge or refresh changes no row that is open
   (`SettleKeepsShadow`).

`Hbm2ChannelProofs` proves, for every number of ranks, banks and transactions, all queue depths,
both scheduling policies and every timing that the assumptions allow:

* `TypesHold == Spec => []TypeInv`
* `Implements == ASSUME NoModeSwitch PROVE Spec => ImplementsTiming`
* `NoRankRejects == ASSUME NoModeSwitch PROVE Spec => [](error # "rank")`

`TypeOK`, the invariant of the runs, is not inductive. `TypeInv` adds what its bounds come
from: the countdowns in a return queue are apart by at least one (`Apart`), so one
decrement of them all leaves at most one at 0; a rank's queue holds packets of that rank
(`QueuesOK`); the refresh countdowns take turns, so that the one whose turn it is
is the smallest and none is decremented at 0 (`RefreshOK`). `SBInv` adds that all ranks are in SB
mode (`StaysSB`) and that an open row is the row of some location (`RowsKnown`). From it, each step
of the channel is a step of `DramTiming` or leaves it alone (`StepCases`): what `pop`
returns was `Issuable` and reaches the rank one cycle later. `NoRankRejects` follows from
`Conservative`, instantiated (`TP`), without a second look at the rank's rules.

`Hbm2TrafficProofs` proves, of the same channels:

* `TypeCorrect == Spec => []TypeOK`
* `EveryReadPending == Spec => []ReadsAccounted`
* `LoopsRunOn == Spec => []NoEarlyStop`
* `ReadsMatch == Spec => [](error # "noMatch")`
* `CountedOnce == Spec => [](error = "none" => OnFlyExact)`
* `CountExact == ASSUME OneRankOrSlow PROVE Spec => []OnFlyExact`
* `ChecksPass == ASSUME NoModeSwitch, OneRankOrSlow PROVE Spec => []NoCheckFails`

`TrafficInv` is their inductive invariant:

1. `Phases` says what the steps of an update leave for the next: the command bus is
   empty when the next command is chosen.
2. `ReadGaps` relates the countdowns in `readReturnPacket` and the burst on the
   rank's data bus to the shadow's counts. The rank does not look whether a burst is
   still out before it sends the next; none is, because the shadow lets no read follow
   another sooner than `max(BL/2, tCCDS)`.
3. `WriteGaps` says the same of the write data the controller sends, across ranks. This is
   where `OneRankOrSlow` is needed, and only here.
4. `Accounts`: for every set of locations, `pendRd` has as many entries in it as there are
   reads to it in the command queues, on the command bus, in the ranks' returns and in
   `returnTransaction`. It is stated for sets because `ReadsMatch` needs it of one
   location and `OnFlyExact` of all.
5. `ExactInv` is `OnFlyExact` with `onFly` a natural number, until a check fails.
6. `PendingHeld`: a transaction waits outside only while the transaction queue is full, or has just
   lost one to a command queue, which therefore is not empty.

And, of the order in which they are served:

* `ReadsFindWrites == ASSUME NoModeSwitch, InOrder PROVE Spec => []DataIntegrity`
* `BarriersHold == ASSUME NumRanks = 1, InOrder PROVE Spec => []BarrierOrder`

Both argue about `Line(r)`, everything that waits for rank r, oldest first: its
command queue, then the transaction queue, then what is outside. A packet enters a line
at its end (`AddsLast`: a batch stops adding once something is outside and nothing
leaves, so it never overtakes), changes queue without passing another of its rank, and
leaves from within the first part, where the scheduler chooses.

1. `Chain`: each read in a line should find the value of the last write to its
   location ahead of it or, without one, what the bank holds once the command on the bus
   has reached it (`Base`); the client's last write (`golden`) is the line's last. The
   packet that leaves has no earlier one of its column in the queue (`Ready`), so a read
   that leaves finds `Base`, and a write that leaves becomes `Base` for those behind it.
   `Served` adds the read on the bus and those on their way back.
2. `Fenced`: epochs grow along the line, and where they do a packet tagged `BAR` stands
   between; at the line's end a barrier of the current epoch will stand or stands. A packet
   that leaves has no `BAR` before it and, being tagged itself, leaves from the head, so
   whatever is older than it has left. With two ranks this is false: the tag goes into
   one rank's line only.

`QueueLemmas` has what these need of sequences, of `RemoveAt`, `FlattenSeq` and `Total`: a
sum changes by what one summand changes. `Total` and the community modules' `FlattenSeq`
are recursive functions; that they satisfy their recursion is proved by induction
over the naturals in the form "a set of naturals that is not empty has a least
element" (`NatMin`), which needs no operator as a parameter.

`PimProofs` proves, for every CRF size, number of blocks, arithmetic and set of
accesses allowed by `PimRankAssumption`:

* `RankTypes == RankSpec => []TypeOK`
* `StaysInside == RankSpec => []SequencerInside`
* `NoStaleRepeat == RankSpec => []RepeatBelongs`

None is inductive. `IInv` adds to them `RepeatInUse` (a repeat in use is of a
command that repeats, so that a JUMP or EXIT is never met with one), `Sound`
(what runs is `WellFormed`) and `Promised` (the access in `now` was `Disciplined`
when it came, and still is). The argument:

1. A JUMP moves the counter to the next command or back by its offset
   (`JumpStep`); another command leaves it or moves it on by one, and leaves the
   repeat in use only if it stays (`RepeatStep`).
2. The sequencer has not passed the first EXIT. If it is at it, `LookAhead` has
   stopped it or `Exit` does; otherwise the next command is at or before that
   EXIT, and a well-formed offset does not lead to before 0. So the step stays
   within (`Ahead`, `SequencerMoved`).
3. A loop leaves its access in `now` for several steps, so `Promised` must hold
   across them; it does, as only `ControlPIM` changes the mode and only
   `WriteCrf` the CRF, and both end their access.

It then proves, for every set of kernels with every shape of their data that fits
(`PimKernelAssumption`), in every order in which the accesses between two barriers arrive:

* `KernelsImplementRank == Spec => ImplementsRank`
* `KernelsKeepOperands == Spec => []OperandsKept`
* `KernelsStayInside == Spec => []SequencerInside`

The second is not inductive: a command that has a bank as its destination would write
there, so it depends on what is in the CRF. `KInv` adds `NoBankWrites`, `Place` (where the
client is in its script) and `Stage` (what that place says of mode and CRF). The argument:

1. A script is some accesses in SB mode, the switch to HAB, one group that loads the
   program, a body, and the switch back (`ScriptGroups`). Every access of a body is
   harmless (`Work`): it writes no register but as the control write does, and no cell of
   an operand. For the cells this is arithmetic on the layouts (`EltwiseApart`,
   `GemvApart`, `ZeroApart`, `ConvApart`), and it is here that the shape must fit.
2. Every program is a `GoodProgram`: at most ten commands, EXIT the last and only at the
   end, jumps that stay inside, no bank as a destination. The bursts that carry it may
   arrive in any order. `Stage` says of each that it is still to come, in `now`, or in
   the CRF (`Loaded`). When the group is done all are, and what the CRF then holds up to
   EXIT is the program and hence `WellFormed` (`WellLoaded`), whatever an earlier one left
   behind.
3. So the control write that switches HAB_PIM on finds a well-formed program, and no CRF
   write comes while it runs: every access is `Disciplined`, each step of a kernel is
   one of `RankSpec`, and `StaysInside` holds of the kernels.

And, for the same shapes and orders, that kernel and sequencer count alike
(`Regular` leaves out the reduction and the GEMV of one tile, where they do not):

* `KernelsInStep == Spec => [](Regular(job) => InStep)`
* `KernelsSpend == Spec => [](Regular(job) => ProgramSpent)`

The client is ahead of the rank by what it has sent and the rank has not handled, so the
invariant compares the two through a third thing, a schedule. `RankNow` is what decides
which command an access triggers: mode, sequencer and control flags. The argument:

1. `After(j, x, p)` is that state once `p` is handled, as a function of the program
   alone; `Due` and `Spent` are what `p` must find. A group of accesses `Serves` if, from
   `x`, any of its accesses in any position finds what is due and leaves the same next
   state: that takes care of the order within a group. `Takes(j, s, A, B)` says that the
   script `s` leads from every state of `A` to one of `B`; it composes (`TakesOn`) and, over
   the repetitions of a loop, iterates (`TakesAlike`; `MacLoop` and `TreeStep` carry the
   jump counter along).
2. For each kernel: a command takes exactly the eight accesses of its group, or the one
   of a tap (`VectorTakes`); the loops of the program turn as often as those of the
   kernel: the jump counts `tiles - 1`, `8 * HalfUp(tiles) - 1` and
   `8 * (tiles \div 2) - 1` are compared with the number of groups that are sent
   (`EltwiseBodyTakes`, `GemvPassTakes`, `ConvBodyTakes`). The tree's outer loop never ends
   (its inner loops take the jump counter), so there the state after `i` tiles is given
   outright (`TreeAt`). `RegularTakes` puts this together: every script leads from SB mode
   to SB mode. The sequencer a pass leaves behind does not matter, since switching
   HAB_PIM on resets it.
3. So there is a schedule `F`: `F[i][k]` is the rank's state once `k` accesses of group `i`
   are handled (`Scheduled`). `SInv` says that the rank is on it (`OnTime`): at `F[i][k]`
   when the access under way is the `k + 1`st of its group, or `Halfway`, with the JUMP in
   front of its command followed. `HandledOnTime` and `SentOnTime` move the place in the
   schedule; `QuietStep`, `JumpFirst` and `Executes` show that `After` is what the rank does,
   for which the CRF must hold the program (`RunsLoaded`, from `KInv`).

`Hbm3Proofs` proves, for every geometry, timing, size of the buffers, watermark, set of
programs, and whatever type is read of a command that has been freed (`Stray`):

* `TypeCorrect == Spec => []TypeOK`
* `OneRow == Spec => []OneRowOpen`
* `BarriersHold == Spec => []PimInOrder`
* `RequestsServed == Spec /\ [](Len(buffers.active) < MaxSize) => EveryRequestServed`

None is inductive. `IInv` says what the buffers hold (`BuffersOK`: accepted requests of the
program, each in the buffer of its kind, and refreshes in the priority buffer), that the
device's clocks are positive and its histories sorted (`DeviceOK`), and `InOrder` of the
pim buffer. The argument, for one slot:

1. The best request of a buffer is one of it: the first, or one that was `Considered`
   (`BestProperties`, an induction along the buffer with `Climb`). What a slot finds
   is therefore the next command of an entry of the buffer it names, also after a
   barrier has been taken off the head of the pim buffer (`ScheduleOK`).
2. A read or a write, or a refresh, asks for ACT only when its bank is closed
   (`OrdinaryCommands`, `RefreshCommands`), so an activate opens the bank's one
   row (`RowsKept`). The second slot looks at the rows the first has left.
3. A request's own command neither opens nor closes a row (`FinalIsFinal`). A request that
   leaves the pim buffer was thus let through by the order and not as a row command: no
   barrier stands between the head and it. Whatever it must not pass has left
   (`LeavesInOrder`: the barrier between two requests is itself fenced by the older one, and
   so still waits as long as that does). Only reads and writes move to the active buffer
   (`MovesOrdinary`), so a PIM request waits in the pim buffer or nowhere.
4. What a slot takes out of the buffers is at most one request, whose last command it has
   just put on the bus (`SlotLoses`): a barrier that falls takes nothing else with it
   (`FallKeepsRequests`), a removal only what it removes (`RemovalKeepsRequests`), and a
   request that opens its row goes on waiting in the active buffer, if that has room. Each
   slot fills one place there at most (`SlotAdds`), so a cycle that starts with two free
   places loses nothing (`TickLosesNone`). Both slots can move a request in one cycle, as
   the second reads the first one's type in freed memory.
5. `LaterOK`: of the constraints on a command the longest counts, and there is one, as all are
   bounded by the timing parameters (`Bounded`, `Greatest`).

The model keeps the history of activates as it stands in the code, youngest first, and
cuts off what has left the window; that this cuts at one place is part of `AgedActsOK`.

The same module proves of the abstract service, for every set of programs:

* `ServiceTypeCorrect == Abstract!Spec => []Abstract!ServiceTypeOK`
* `ServedInOrder == Abstract!Spec => []Abstract!Ordered`

`Ordered` is inductive: what a step serves has its predecessors served before or
with it (`Work`), and a read answered from a write has none (`ReadsAreFree`). That the
controller implements the service is model-checked (`ServesInOrder`). It is not true for every
constant: a request that opens its row while the active buffer is full is dropped
(`AfterIssue`), and of two writes of one address the younger can go first when the
older sits in the active buffer behind a request that a refresh has interrupted. Nor,
for the first reason, is `EveryRequestServed`, which is why its theorem asks for room:
with `MaxSize = 0` TLC loses a request. The run's buffers are never that full.

`RowTrackerProofs` proves, for every number of rows and entries, every threshold,
period and pruning rate that the assumptions allow:

* `TwiceBound == TwiceSpec => []TwiceGuards`. What an entry does not show was lost with
  earlier entries. `LostBefore(r)` bounds it: a listed row has been activated at most
  its count and one rate for every refresh before it was listed, but one; an unlisted row
  at most one rate for every refresh but one. Pruning keeps this because a pruned entry
  counted less than the rate times its life, and its life is no more than the refreshes
  since then (`PruneOK`).
* `GrapheneTypes == GrapheneSpec => []GrapheneTypeOK`
* `GrapheneBound == GrapheneSpec => []GrapheneGuards`. `Good` says that every entry is at
  the spillover counter or above and not above the threshold (`Between`), that a row has
  one entry (`OneEntry`), that a row's activates show in its entry or, without one, are at
  most the spillover counter (`Covered`), and that all counters together are at most the
  activates of the period (`WithinActs`). The last is a statement about cardinalities:
  `Units` is the set of counted units, and a step adds at most one (`OneUnit`). Hence
  the spillover counter needs `NumEntries + 1` activates to rise by one (`SpillPaid`), and by
  `GrapheneAssumption` a period has too few for it to reach the threshold.

`SimpleO3Proofs` proves, for every number of cores, associativity, number of registers, latency,
size of the memory's buffers and set of traces that the assumptions allow, with a line size and a
number of sets that are powers of two:

* `TypeCorrect == PowersOfTwo /\ Spec => []TypeOK`
* `Registered == PowersOfTwo /\ Spec => []LinesRegistered`
* `StoresSafe == PowersOfTwo /\ Spec => []StoresKept`

None is inductive: whether a register is freed with its line depends on the line being in
one set, once. `StateOK` adds it and is an invariant of every part of a cycle:

1. `LinesTold`: two addresses are of one line exactly if they have the same index and the same tag.
   For powers of two the masks keep the bits below a boundary and the shifts those above, so the
   bits of an address fall into three parts: offset, index and tag (`BitsTold`, `Told`). This is
   the only use of `PowersOfTwo`, and without it the theorems are false (see the observations).
2. `CacheOK`: a line stands in the set of its index (`GoodSet`), no set has it twice or
   is longer than its associativity, and the registers held are exactly the lines in flight. A
   miss adds one line and one register (`NewMissKeeps`); an answer ends both
   (`ReceiveKeeps`), also one that comes too early; a victim is never in flight.
3. `Kept`: a line stored to since the memory last took it is dirty in its set, or a writeback of it
   waits to be sent. What a `send` does to one set (`Merged`, `Replaced`,
   `Changed`) is stated set by set, so that a lemma about it serves every set of the cache.
4. A cycle is three loops: misses go to the memory, hits are answered, cores run. Each is a
   recursive function, which exists by induction (`Climb` of `QueueLemmas`), and each step of it
   keeps `StateOK`. While the misses are being sent, a writeback counts as long as it
   is still to be handled (`KeptTo`); one the memory refuses stays in the list.

That a line which is answered finds whoever waits for it (`NoneForgotten`) is not provable: it is
false at longer latencies (the hazard at `llc.cpp:44`), and stays a result about the instance
TLC checks.

*Only model-checked.* `Drains`, `HostEnds`, `Finishes` and the starvation property are
liveness under fairness, out of the prover's reach. The refinement `ServesInOrder` and
the invariants of `PimMode` have no proofs.
`NeverThrows` depends on the constants: it holds if a refresh always goes out within the
interval, which is a matter of timing. What a kernel computes (`ResultCorrect`) is data
folded over whole programs, and stays with TLC.

## Not modelled, and why

* HBM2: HAB modes for the data of `Hbm2Channel` (what an access does in them is
  `PimRank`'s), packets sharing a data buffer, register reads in SB mode (they change
  no state), the adder tree on the host, benchmarks that send ordinary transactions
  (histogram, SpMV), clock crossing between CPU and memory, several channels (they share
  nothing but the run loop), bit slicing of addresses, power-down (nothing calls it).
* HBM3: `hbm3_controller.cpp` and `generic_dram_controller.cpp`, which are the modelled
  controller without the PIM buffer and without the second command; `REFsb`, which
  nothing issues; the other devices; Hydra, TRR, PARA, OracleRH and row swapping; the
  other front ends, which are the modelled one with fewer commands; virtual memory.
* Data only: block arithmetic and FP16, statistics, energy, logs. Input and output:
  configuration files, factories, trace generators, test drivers. `GPU_CPU`: independent
  programs.

More than half of the tree's lines are vendored (`lib/half.h`, `ext/spdlog`,
`ext/argparse`, `ext/yaml-cpp`); the simulators themselves are about 32 000 lines, of
which tables of timing presets, devices that are never built into a PIM run, trace
scripts and drivers are the larger part.

## Plan

1. Done: `BankTiming`, `DramTiming`, `CommandQueue`, `Hbm2Channel`, `PimRank`, `PimKernel`,
   `PimMode`; `Hbm3Device`, `Hbm3Controller`, `MemService`; `SimpleO3Llc`, `SimpleO3`;
   `Graphene`, `Twice`; their runs, findings and the theorems above.
2. Done, proofs: the refinement of `DramTiming` by `Hbm2Channel`, and every invariant of
   `Hbm2Channel`. The types, the registers and the stores of the cache. The types, the rows
   and the barriers of `Hbm3Controller`. `ImplementsRank`, `OperandsKept`, `InStep` and
   `ProgramSpent` of the kernels for every shape. Next: `FoundInMode` of the mode protocol.
3. Then, models: Hydra and row swapping with the row indirection table as a
   permutation; clock crossing; per-rank refresh and service with two ranks and an
   endless client.
