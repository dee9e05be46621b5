----------------------------- MODULE Hbm2Channel -----------------------------
(***************************************************************************)
(* One channel of the HBM2 simulator: MemorySystem, its MemoryController with  *)
(* transaction and command queues, the command and data buses and the ranks.    *)
(* A client adds transactions and barriers between two calls of                  *)
(* MemorySystem::update; an update is three steps here, in the code's order:      *)
(*   Deliver  Rank::update, one waiting transaction accepted, and the first part   *)
(*            of MemoryController::update, up to updateRefresh;                     *)
(*   Issue    CommandQueue::pop and updateCommandQueue, one action per outcome;       *)
(*   Retire   updateTransactionQueue, one read returned, the clock steps.              *)
(* A rank changes its mode when it opens or closes a row of the mode registers; what an   *)
(* access does in the all-bank modes is PimRank's, so store is the banks' in SB mode.      *)
(***************************************************************************)
EXTENDS CommandQueue

CONSTANTS
  TransQueueDepth,     \* TRANS_QUEUE_DEPTH
  tREFI,               \* refresh interval, in cycles
  Locations,           \* the (rank, bank, row, column) a client uses
  Batch,               \* the client adds only while nothing is in flight, then runs
                       \* the channel until hasPendingTransactions() is 0
  NumTrans,            \* bound: transactions a client adds; 0: as many as the
                       \* transaction queue has room for, for ever, without barriers
  NumValues            \* bound: how many successive writes of a location differ

ASSUME ChannelAssumption ==
  /\ TransQueueDepth \in Nat \ {0} /\ tREFI \in Nat /\ tREFI >= NumRanks
  /\ Locations \subseteq [rank : Ranks, bank : Banks, row : Nat, col : Nat]
  /\ Batch \in BOOLEAN /\ NumTrans \in Nat /\ NumValues \in Nat \ {0}
  /\ RL >= 1 /\ WL >= 1 /\ BL >= 2

VARIABLES
  pending,      \* MemorySystem::pendingTransactions
  transQ,       \* MemoryController::transactionQueue
  pendRd,       \* pendingReadTransactions
  cmdQ,         \* CommandQueue::queues, one per rank
  cq,           \* CommandQueue's cursors and its one refresh request
  refresh,      \* MemoryController::refreshRank and refreshCountdown
  mc, rk, bus,  \* the bank shadow, the ranks' banks, outgoingCmdPacket
  wrData,       \* writeDataToSend with writeDataCountdown
  wrBus,        \* MemoryController::outgoingDataPacket with dataCyclesLeft
  rdRet,        \* Rank::readReturnPacket with readReturnCountdown
  rdBus,        \* Rank::outgoingDataPacket with dataCyclesLeft
  retQ,         \* returnTransaction
  onFly,        \* MemorySystem::numOnTheFlyTransactions
  modes,        \* Rank::mode_ with the ABMR and SBMR banks seen so far
  store,        \* what the ranks' banks hold
  pc, error,    \* where update is; the check that ended the program, if any
  adding,       \* the client has added since the last update
  added,        \* bounds the client: transactions added
  golden,       \* ghost: the value of the last write the client added
  epoch,        \* ghost: barriers the channel has acknowledged
  issued        \* ghost: the latest epoch of a packet a rank's queue let go

clientVars == <<adding, added, golden, epoch>>
frontVars == <<pending, transQ, pendRd>>
queueVars == <<cmdQ, cq, refresh, issued>>
dataVars == <<wrData, wrBus, rdRet, rdBus, retQ, modes, store>>
vars == <<clientVars, frontVars, queueVars, dataVars, mc, rk, bus, onFly, pc, error>>

Mode(r) == modes[r].now
None == [left |-> 0]
Values == 0 .. NumValues - 1

\* One transaction or bus packet: what it does, where, whether it carries BAR,
\* the value a write stores or a read should find, and the epoch it was added in.
Packets ==
  [op : {"READ", "WRITE"}, rank : Ranks, bank : Banks, row : Nat, col : Nat,
   bar : BOOLEAN, val : Values, epoch : Nat]

LocationOf(p) == [rank |-> p.rank, bank |-> p.bank, row |-> p.row, col |-> p.col]
WillAccept == Len(transQ) < TransQueueDepth
CommandOf(c) == [op |-> c.op, rank |-> c.rank, bank |-> c.bank, row |-> c.row]
IsRead(c) == c # NoCmd /\ c.op = "READ"

Init ==
  /\ pending = <<>> /\ transQ = <<>> /\ pendRd = <<>>
  /\ cmdQ = [r \in Ranks |-> <<>>]
  /\ cq = [nextRank |-> 0, nextPRE |-> 0, waiting |-> FALSE, rank |-> 0]
  /\ refresh = [rank |-> 0, count |-> [r \in Ranks |-> (tREFI \div NumRanks) * (r + 1)]]
  /\ mc = [r \in Ranks |-> [b \in Banks |-> InitBank]]
  /\ rk = [r \in Ranks |-> [b \in Banks |-> InitBank]]
  /\ bus = NoCmd /\ wrData = <<>> /\ wrBus = None
  /\ rdRet = [r \in Ranks |-> <<>>] /\ rdBus = [r \in Ranks |-> None] /\ retQ = <<>>
  /\ modes = [r \in Ranks |-> [now |-> "SB", abmr |-> {}, sbmr |-> {}]]
  /\ onFly = 0 /\ store = [l \in Locations |-> 0]
  /\ pc = "deliver" /\ error = "none"
  /\ adding = FALSE /\ added = 0 /\ golden = [l \in Locations |-> 0]
  /\ epoch = 0 /\ issued = [r \in Ranks |-> 0]

-----------------------------------------------------------------------------
(* The client, between two updates. *)

ClientMayAdd == pc = "deliver" /\ error = "none" /\ (Batch => adding \/ onFly = 0)

\* A write to a reserved row leaves the array as it is (Rank::writeSb).
Request(o, l) ==
  [op |-> o, rank |-> l.rank, bank |-> l.bank, row |-> l.row, col |-> l.col, bar |-> FALSE,
   val |-> IF o = "READ" THEN golden[l] ELSE (golden[l] + 1) % NumValues, epoch |-> epoch]

\* MemorySystem::addTransaction
Enqueue(p) ==
  IF WillAccept
  THEN transQ' = Append(transQ, p) /\ onFly' = onFly + 1 /\ pending' = pending
  ELSE pending' = Append(pending, p) /\ UNCHANGED <<transQ, onFly>>

AddTransaction(o, l) ==
  /\ ClientMayAdd
  /\ IF NumTrans = 0 THEN WillAccept ELSE added < NumTrans
  /\ Enqueue(Request(o, l))
  /\ golden' = IF o = "WRITE" /\ ~IsReservedRA(l.row)
               THEN [golden EXCEPT ![l] = Request(o, l).val] ELSE golden
  /\ added' = IF NumTrans = 0 THEN 0 ELSE added + 1
  /\ adding' = TRUE
  /\ UNCHANGED <<epoch, pendRd, queueVars, dataVars, mc, rk, bus, pc, error>>

Tagged(q) == [q EXCEPT ![Len(q)].bar = TRUE]

\* addBarrier tags the last transaction of the queue it looks at.  On an empty
\* queue it returns false, and no caller looks: nothing is tagged.
Fences == IF WillAccept THEN transQ # <<>> ELSE pending # <<>>
TagLast ==
  /\ transQ' = IF WillAccept /\ Fences THEN Tagged(transQ) ELSE transQ
  /\ pending' = IF ~WillAccept /\ Fences THEN Tagged(pending) ELSE pending

AddBarrier ==
  /\ ClientMayAdd
  /\ NumTrans # 0 /\ epoch < added
  /\ Fences /\ TagLast
  /\ epoch' = epoch + 1
  /\ UNCHANGED <<adding, added, golden, pendRd, queueVars, dataVars,
                 mc, rk, bus, onFly, pc, error>>

-----------------------------------------------------------------------------
(* Deliver: Rank::update of every rank, MemorySystem::update's one waiting       *)
(* transaction, then MemoryController::update as far as updateRefresh.             *)

Counted(s) == [i \in DOMAIN s |-> [s[i] EXCEPT !.left = @ - 1]]
Due(s) == s # <<>> /\ Head(s).left = 1
\* A slip: a packet that is due is sent but not erased.
Kept(s) == Counted(s)
Rest(s) == IF Due(s) THEN Tail(Counted(s)) ELSE Counted(s)
BusAfter(b) == IF b.left <= 1 THEN None ELSE [b EXCEPT !.left = @ - 1]

\* A packet whose burst is over reaches the controller; the next read due takes
\* the rank's data bus, whatever was on it.
RanksUpdate ==
  /\ retQ' = retQ \o FlattenSeq([k \in 1 .. NumRanks |->
                  IF rdBus[k - 1].left = 1 THEN <<rdBus[k - 1].pkt>> ELSE <<>>])
  /\ rdBus' = [r \in Ranks |-> IF Due(rdRet[r])
                              THEN [pkt |-> Head(rdRet[r]).pkt, left |-> Burst]
                              ELSE BusAfter(rdBus[r])]

\* A slip: the drain of pendingTransactions taken out, as dead code.
NeverAccepting == FALSE
Accepting == pending # <<>> /\ WillAccept

AcceptOne ==
  IF Accepting
  THEN transQ' = Append(transQ, Head(pending)) /\ pending' = Tail(pending)
  ELSE UNCHANGED <<transQ, pending>>

\* Rank::receiveFromBus: a reserved row is neither checked nor recorded, but
\* reaches the bank like any other.
Checked(c) == c # NoCmd /\ ~IsReservedRA(c.row)
Rejected == Checked(bus) /\ ~RankAccepts(Mode(bus.rank), rk[bus.rank], bus)

\* sendToBank: 0x27ff, 0x2fff and 0x3fff are PIM_ABMR_RA, PIM_SBMR_RA, PIM_REG_RA.
SwitchBanks == IF NumBanks <= 2 THEN {0, 1} ELSE {0, 1, 8, 9}
AfterActivate(m, c) ==
  LET seen == m.abmr \cup ({c.bank} \cap {0, 1, 8, 9}) IN
  IF m.now # "SB" \/ c.row # 10239 \/ c.col # 31 THEN m
  ELSE IF SwitchBanks \subseteq seen THEN [m EXCEPT !.now = "HAB", !.abmr = {}]
  ELSE [m EXCEPT !.abmr = seen]
AfterPrecharge(m, c) ==
  LET seen == m.sbmr \cup ({c.bank} \cap {0, 1}) IN
  IF m.now # "HAB" \/ c.row # 12287 THEN m
  ELSE IF seen = {0, 1} THEN [m EXCEPT !.now = "SB", !.sbmr = {}]
  ELSE [m EXCEPT !.sbmr = seen]
\* controlPIM: the register's PIM bit is the value written.
AfterWrite(m, c) ==
  IF m.now = "SB" \/ c.row # 16383 \/ c.col # 0 THEN m
  ELSE [m EXCEPT !.now = IF c.val = 1 THEN "HAB_PIM" ELSE "HAB"]

ModeAfter(m, c) ==
  CASE c.op = "ACTIVATE"  -> AfterActivate(m, c)
    [] c.op = "PRECHARGE" -> AfterPrecharge(m, c)
    [] c.op = "WRITE"     -> AfterWrite(m, c)
    [] OTHER              -> m

Found(p) == [loc |-> LocationOf(p), want |-> p.val, got |-> store[LocationOf(p)]]

CommandArrives ==
  /\ mc' = [r \in Ranks |-> [b \in Banks |-> SettleBank(mc[r][b])]]
  /\ rk' = [r \in Ranks |-> [b \in Banks |->
               IF Checked(bus) /\ bus.rank = r /\ ~Rejected
               THEN RankBank(Mode(r), rk[r][b], bus, b) ELSE rk[r][b]]]
  /\ rdRet' = [r \in Ranks |-> Rest(rdRet[r]) \o
                  IF IsRead(bus) /\ bus.rank = r
                  THEN <<[pkt |-> Found(bus), left |-> RL]>> ELSE <<>>]
  /\ modes' = IF bus = NoCmd THEN modes ELSE [modes EXCEPT ![bus.rank] = ModeAfter(@, bus)]
  /\ store' = IF bus # NoCmd /\ bus.op = "WRITE" /\ ~IsReservedRA(bus.row) /\ Mode(bus.rank) = "SB"
              THEN [store EXCEPT ![LocationOf(bus)] = bus.val] ELSE store
  /\ bus' = NoCmd

WriteBusBusy == BusAfter(wrBus) # None
WriteData ==
  /\ wrData' = Rest(wrData)
  /\ wrBus' = IF Due(wrData) THEN [left |-> Burst] ELSE BusAfter(wrBus)

\* needRefresh has room for one rank: a refresh still waiting is replaced.
UpdateRefresh ==
  LET r == refresh.rank IN
  IF refresh.count[r] = 0
  THEN /\ cq' = [cq EXCEPT !.waiting = TRUE, !.rank = r]
       /\ refresh' = [rank |-> (r + 1) % NumRanks, count |-> [refresh.count EXCEPT ![r] = tREFI]]
  ELSE UNCHANGED <<cq, refresh>>

\* The run loops call update for as long as hasPendingTransactions() is not 0.
Running == error = "none" /\ (pc = "deliver" /\ Batch => onFly > 0)

Deliver ==
  /\ pc = "deliver" /\ Running
  /\ RanksUpdate /\ AcceptOne /\ CommandArrives /\ WriteData /\ UpdateRefresh
  /\ onFly' = onFly + (IF Accepting THEN 1 ELSE 0)
                    - (IF wrBus.left = 1 THEN 1 ELSE 0)
  /\ error' = IF Rejected THEN "rank"
              ELSE IF Due(wrData) /\ WriteBusBusy THEN "dataBus" ELSE "none"
  /\ adding' = FALSE /\ pc' = "issue"
  /\ UNCHANGED <<added, golden, epoch, pendRd, cmdQ, issued>>

-----------------------------------------------------------------------------
(* Issue: what CommandQueue::pop finds, in its order, and updateCommandQueue.   *)

Refreshing == RefreshCommands(cq.waiting, cq.rank, Mode(cq.rank), mc[cq.rank])
Serving == {r \in Ranks : Servable(cmdQ[r], Mode(r), mc[r])}
Closing == {s \in Slots :
              Closable(cmdQ[SlotRank(s)], Mode(SlotRank(s)), mc[SlotRank(s)], SlotRank(s), SlotBank(s))}

Record(c) ==
  /\ pc = "issue" /\ error = "none"
  /\ mc' = [r \in Ranks |-> [b \in Banks |-> McBank(mc[r][b], c, r, b)]]
  /\ bus' = c /\ pc' = "step"
  /\ UNCHANGED <<clientVars, frontVars, refresh, wrBus, rdRet, rdBus, retQ, modes, store,
                 rk, onFly, error>>

IssueForRefresh ==
  /\ \E c \in Refreshing :
       /\ Record(c)
       /\ cq' = IF c.op = "REF" THEN [cq EXCEPT !.waiting = FALSE] ELSE cq
  /\ UNCHANGED <<cmdQ, wrData, issued>>

\* nextRank stays at the rank that was served.
IssueColumn ==
  /\ Refreshing = {} /\ Serving # {}
  /\ LET r == FirstFrom(cq.nextRank, NumRanks, Serving)
         able == Ready(cmdQ[r], Mode(r), mc[r])
         p == cmdQ[r][Min(able)]
     IN /\ able # {}
        /\ Record(p)
        /\ cmdQ' = [cmdQ EXCEPT ![r] = RemoveAt(@, Min(able))]
        /\ cq' = [cq EXCEPT !.nextRank = r]
        /\ wrData' = IF p.op = "WRITE" THEN Append(wrData, [left |-> WL]) ELSE wrData
        /\ issued' = [issued EXCEPT ![r] = Later(@, p.epoch)]

IssueActivate ==
  /\ Refreshing = {} /\ Serving # {}
  /\ LET r == FirstFrom(cq.nextRank, NumRanks, Serving)
     IN /\ Ready(cmdQ[r], Mode(r), mc[r]) = {}
        /\ Record(ActivateFor(cmdQ[r][Min(Openers(cmdQ[r], Mode(r), mc[r]))]))
        /\ cq' = [cq EXCEPT !.nextRank = r]
  /\ UNCHANGED <<cmdQ, wrData, issued>>

IssuePrecharge ==
  /\ Refreshing = {} /\ Serving = {} /\ Closing # {}
  /\ LET s == FirstFrom(cq.nextPRE, NumRanks * NumBanks, Closing)
     IN /\ Record(PrechargeOf(mc[SlotRank(s)], SlotRank(s), SlotBank(s)))
        /\ cq' = [cq EXCEPT !.nextPRE = s]
  /\ UNCHANGED <<cmdQ, wrData, issued>>

IssueNothing ==
  /\ pc = "issue" /\ error = "none"
  /\ Refreshing = {} /\ Serving = {} /\ Closing = {}
  /\ pc' = "step"
  /\ UNCHANGED <<clientVars, frontVars, queueVars, dataVars, mc, rk, bus, onFly, error>>

-----------------------------------------------------------------------------
(* Retire: the first transaction whose rank has room becomes a command, one      *)
(* returned read is stapled back onto its transaction, and the clock steps.       *)

Movable == {i \in DOMAIN transQ : HasRoom(cmdQ[transQ[i].rank])}

UpdateTransactionQueue ==
  IF Movable = {} THEN UNCHANGED <<transQ, cmdQ>>
  ELSE LET p == transQ[Min(Movable)] IN
       /\ transQ' = RemoveAt(transQ, Min(Movable))
       /\ cmdQ' = [cmdQ EXCEPT ![p.rank] = Append(@, p)]

\* A slip: the read is not remembered in pendingReadTransactions.
PendingForgotten == pendRd

\* The read the command queue has just been given is already pending here.
PendingNow ==
  IF Movable # {} /\ transQ[Min(Movable)].op = "READ"
  THEN Append(pendRd, LocationOf(transQ[Min(Movable)])) ELSE pendRd
Matching == {i \in DOMAIN PendingNow : PendingNow[i] = Head(retQ).loc}

ReturnRead ==
  IF retQ = <<>> THEN pendRd' = PendingNow /\ UNCHANGED <<retQ, onFly, error>>
  ELSE IF Matching = {}
       THEN error' = "noMatch" /\ pendRd' = PendingNow /\ UNCHANGED <<retQ, onFly>>
       ELSE /\ pendRd' = RemoveAt(PendingNow, Min(Matching))
            /\ retQ' = Tail(retQ) /\ onFly' = onFly - 1 /\ error' = error

Aged(banks) == [r \in Ranks |-> [b \in Banks |-> AgeBank(banks[r][b])]]

Retire ==
  /\ pc = "step" /\ error = "none"
  /\ UpdateTransactionQueue /\ ReturnRead
  /\ refresh' = [refresh EXCEPT !.count = [r \in Ranks |-> @[r] - 1]]
  /\ mc' = Aged(mc) /\ rk' = Aged(rk)
  /\ pc' = "deliver"
  /\ UNCHANGED <<clientVars, pending, cq, issued, wrData, wrBus, rdRet, rdBus, modes, store, bus>>

Clock ==
  \/ Deliver
  \/ IssueForRefresh \/ IssueColumn \/ IssueActivate \/ IssuePrecharge \/ IssueNothing
  \/ Retire

Next ==
  \/ \E o \in {"READ", "WRITE"}, l \in Locations : AddTransaction(o, l)
  \/ AddBarrier
  \/ Clock

Spec == Init /\ [][Next]_vars

\* An update is called again while the run loop lasts, and runs to its end.  Tick
\* is what every Clock step, and no other, does to pc; unlike ENABLED Clock, TLC evaluates ENABLED Tick at a glance.
Follows == [deliver |-> "issue", issue |-> "step", step |-> "deliver"]
Tick == Running /\ pc' = Follows[pc]
FairSpec == Spec /\ WF_pc(Tick)

-----------------------------------------------------------------------------
(* What a channel promises. *)

TypeOK ==
  /\ pending \in Seq(Packets) /\ transQ \in Seq(Packets)
  /\ Len(transQ) <= TransQueueDepth
  /\ pendRd \in Seq(Locations)
  /\ \A r \in Ranks : cmdQ[r] \in Seq(Packets) /\ Len(cmdQ[r]) <= CmdQueueDepth
  /\ cq \in [nextRank : Ranks, nextPRE : Slots, waiting : BOOLEAN, rank : Ranks]
  /\ refresh \in [rank : Ranks, count : [Ranks -> Nat]]
  /\ mc \in [Ranks -> [Banks -> BankStateType]]
  /\ rk \in [Ranks -> [Banks -> BankStateType]]
  /\ bus = NoCmd \/ bus \in Packets \/ CommandOf(bus) \in Commands
  /\ modes \in [Ranks -> [now : {"SB", "HAB", "HAB_PIM"}, abmr : SUBSET Banks, sbmr : SUBSET {0, 1}]]
  /\ wrData \in Seq([left : 1 .. WL]) /\ wrBus \in [left : 0 .. Burst]
  /\ \A r \in Ranks : \A i \in DOMAIN rdRet[r] : rdRet[r][i].left \in 1 .. RL
  /\ \A r \in Ranks : rdBus[r].left \in 0 .. Burst
  /\ onFly \in Nat /\ store \in [Locations -> Values] /\ golden \in [Locations -> Values]
  /\ pc \in {"deliver", "issue", "step"} /\ error \in {"none", "rank", "dataBus", "noMatch"}
  /\ adding \in BOOLEAN /\ added \in Nat /\ epoch \in Nat /\ issued \in [Ranks -> Nat]

(* NoCheckFails: none of the checks that end the program on the way of a         *)
(* transaction ever does: Rank::check, "Data Bus Collision", "Can't find a        *)
(* matching transaction".                                                         *)
NoCheckFails == error = "none"

ReadsIn(q) == Cardinality({i \in DOMAIN q : q[i].op = "READ"})
Busy(b) == IF b.left > 0 THEN 1 ELSE 0

\* A number per rank, summed.
Total(f) ==
  LET upTo[n \in 0 .. NumRanks] == IF n = 0 THEN 0 ELSE upTo[n - 1] + f[n - 1]
  IN  upTo[NumRanks]

InRanks == Total([r \in Ranks |-> Len(rdRet[r]) + Busy(rdBus[r])])
InFlightReads == InRanks + Len(retQ) + (IF IsRead(bus) THEN 1 ELSE 0)

(* OnFlyExact: hasPendingTransactions() is what the run loops watch; it counts   *)
(* every transaction the controller has accepted, from the transaction queue to    *)
(* the returned read or the written burst, once, wherever it is.                    *)
OnFlyExact ==
  onFly = Len(transQ) + Total([r \in Ranks |-> Len(cmdQ[r])])
          + InFlightReads + Len(wrData) + Busy(wrBus)

(* ReadsAccounted: every read that has left the transaction queue is pending      *)
(* exactly once until its data comes back: no return packet is lost on a rank's     *)
(* data bus, none is returned twice.                                                *)
ReadsAccounted ==
  Len(pendRd) = Total([r \in Ranks |-> ReadsIn(cmdQ[r])]) + InFlightReads

(* DataIntegrity: although the command queue reorders row hits and opens rows     *)
(* early, a read finds the value of the last write its client added to that         *)
(* location before it.                                                              *)
DataIntegrity ==
  \A r \in Ranks : \A i \in DOMAIN rdRet[r] : rdRet[r][i].pkt.got = rdRet[r][i].pkt.want

(* BarrierOrder: once a rank's queue has let go of a packet added after an         *)
(* acknowledged barrier, nothing added for that rank before the barrier is still     *)
(* waiting anywhere.                                                                 *)
Waiting(r) == ToSet(cmdQ[r]) \cup {p \in ToSet(transQ) \cup ToSet(pending) : p.rank = r}
BarrierOrder == \A r \in Ranks : \A p \in Waiting(r) : p.epoch >= issued[r]

(* NoEarlyStop: the run loops stop at hasPendingTransactions() = 0, which does     *)
(* not count pendingTransactions; they never stop over one that still waits.        *)
NoEarlyStop == pc = "deliver" /\ pending # <<>> => onFly > 0

(* Drains: a batch that is run to the end completes, refreshes included.           *)
Drains == onFly > 0 ~> onFly = 0 /\ pending = <<>>

(* RefreshServed: a refresh that is due is issued "else" commands are popped.        *)
RefreshServed == cq.waiting ~> ~cq.waiting

(* ImplementsTiming: the channel's queues and policies only choose among the        *)
(* commands DramTiming allows, so what is proved there of any schedule holds here.   *)
Timing == INSTANCE DramTiming WITH
            Rows <- {l.row : l \in Locations},
            bus <- CommandOf(bus),
            exited <- (error = "rank")
ImplementsTiming == Timing!Spec
=============================================================================
