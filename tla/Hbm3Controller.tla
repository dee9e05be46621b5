-------------------------- MODULE Hbm3Controller --------------------------
(***************************************************************************)
(* The HBM3-PIM memory controller of one channel with its scheduler and its    *)
(* refresh manager, the front end that sends it requests, and the device.      *)
(* A tick is one action: completed reads return, the refresh manager speaks    *)
(* up, a first command is issued and, if a row command can go beside a column  *)
(* command, a second one.                                                     *)
(***************************************************************************)
EXTENDS Hbm3Device, SequencesExt

CONSTANTS
  Programs,     \* the request sequences a front end may send: [type, addr] records
  Eager,        \* those it sends as fast as they are accepted, before every tick
  Stray,        \* what get_command_type makes of a command read in freed memory
  MaxSize,      \* max_size of the request buffers: one more than that fits
  PrioritySize, \* max_size of the priority buffer
  HighMark,     \* floor of wr_high_watermark * max_size
  LowMark       \* ceiling of wr_low_watermark * max_size

Types == {"row", "col", "none"}
RequestTypes ==
  {"Read", "Write", "PIM_MAC_AB", "PIM_MAC_SB", "PIM_MAC_PB", "PIM_WR_GB", "PIM_MV_SB",
   "PIM_MV_GB", "PIM_SFM", "PIM_SET_MODEL", "PIM_SET_HEAD", "PIM_BARRIER", "PIM_VADD",
   "PIM_WR_BK"}
Addresses ==  \* m_addr_vec: the levels of the tree, a row and a column
  {a \in Seq(Nat) : /\ Len(a) = 6
                    /\ a[1] < PseudoChannels /\ a[2] < Ranks /\ a[3] < BankGroups /\ a[4] < Banks}
ASSUME ControllerAssumption ==
  /\ Programs \subseteq Seq([type : RequestTypes, addr : Addresses])
  /\ Eager \subseteq Programs /\ Stray \subseteq Types
  /\ MaxSize \in Nat /\ PrioritySize \in Nat /\ HighMark \in Nat /\ LowMark \in Nat

VARIABLES
  program,   \* the trace of the front end
  sent,      \* m_curr_trace_idx: how many requests have been accepted
  epoch,     \* sent at the last tick: requests of one epoch arrive in one cycle
  buffers,   \* the five request buffers, by name
  pending,   \* reads on their way back: request and cycles left
  writeMode, \* m_is_write_mode
  isPim,     \* is_pim: the last request picked came from the pim buffer
  due,       \* cycles to m_next_refresh_cycle
  thrown,    \* the refresh manager could not queue a refresh
  bus        \* the commands of the last cycle, in order, as plugins see them

ctrlVars == <<program, sent, epoch, buffers, pending, writeMode, isPim, due, thrown, bus>>
vars == <<deviceVars, ctrlVars>>

BufferNames == {"active", "priority", "read", "write", "pim"}
Held == UNION {ToSet(buffers[n]) : n \in BufferNames \ {"priority"}}
BufferFor(type) == CASE type = "Read" -> "read" [] type = "Write" -> "write" [] OTHER -> "pim"
Fits(n) == Len(buffers[n]) <= (IF n = "priority" THEN PrioritySize ELSE MaxSize)

-----------------------------------------------------------------------------
(* The scheduler: the pim buffer's first barrier falls when it is at the head; *)
(* then the ready request goes before the one that is not, the older before    *)
(* the younger, and behind a barrier only opening and closing commands count.  *)
Command(rs, r) == PreqCommand(rs, FinalCommand(r.type), r.addr)
PassBarrier(s) == IF s # <<>> /\ s[1].type = "PIM_BARRIER" THEN Tail(s) ELSE s

\* s is the buffer, full the buffer as it was when the row hits were listed.
Compare(rs, bz, s, full, i, j) ==
  LET ready(k) == CheckReady(bz, Command(rs, s[k]), s[k].addr)
      hit(r) == RowbufferHit(rs, Command(rs, r), r.addr)
      hitBanks == {BankOf(r.addr) : r \in {x \in ToSet(full) : hit(x)}}
      spoils == ~hit(s[j]) /\ BankOf(s[j].addr) \in hitBanks
  IN IF ready(i) # ready(j)
     THEN IF ready(i) \/ spoils THEN i ELSE j
     ELSE IF s[i].arrive <= s[j].arrive THEN i ELSE j
ConsideredAlways(rs, s, j) == TRUE
Considered(rs, s, j) ==
  \/ \A k \in 2 .. j : s[k].type # "PIM_BARRIER"
  \/ Opening(Command(rs, s[j])) \/ Closing(Command(rs, s[j]))
Better(rs, bz, s, full, best, j) ==
  IF Considered(rs, s, j) THEN Compare(rs, bz, s, full, best, j) ELSE best
\* The index of the best request, 0 when the buffer is empty.
BestRequest(rs, bz, full) ==
  LET s == PassBarrier(full)
      upTo[j \in 1 .. Len(s)] ==
        IF j = 1 THEN 1 ELSE Better(rs, bz, s, full, upTo[j - 1], j)
  IN IF s = <<>> THEN 0 ELSE upTo[Len(s)]

-----------------------------------------------------------------------------
(* schedule_request and schedule_sec_request. *)
CommandType(cmd) ==
  CASE cmd \in {"ACT", "PRE", "PREA", "REFab", "ACTAB", "ACTSB", "ACTPB"} -> "row"
    [] cmd \in {"RD", "WR", "MACAB", "MACSB", "MACPB", "WRGB", "MVSB", "MVGB",
                "SFM", "SETM", "SETH"} -> "col"
    [] OTHER -> "none"
Beside(type, cmd) == {type, CommandType(cmd)} = {"row", "col"}

SetWriteModeByLevel(q, wm) ==
  IF wm THEN ~(Len(q.write) < LowMark /\ q.read # <<>>) ELSE Len(q.write) > HighMark
SetWriteMode(q, wm) ==
  IF wm THEN ~(Len(q.write) < LowMark /\ q.read # <<>>)
  ELSE Len(q.write) > HighMark \/ q.read = <<>>

\* No closing command for the very bank of an active request.
Interrupts(q, cmd, addr) ==
  /\ Closing(cmd) /\ Len(addr) >= 4
  /\ \E r \in ToSet(q.active) : BankOf(r.addr) = BankOf(addr)

\* What a slot decides: whether a command goes out, and from which buffer; cmd
\* is what its iterator points at, "END" when that is the end of a buffer.
Schedule(rs, bz, q, wm, pim, allowed) ==
  LET commandAt(n, i) == IF i = 0 THEN "END" ELSE Command(rs, q[n][i])
      ready(n, i) == i # 0 /\ commandAt(n, i) \in allowed
                     /\ CheckReady(bz, commandAt(n, i), q[n][i].addr)
      passed == [q EXCEPT !.pim = PassBarrier(@)]
      wm2 == SetWriteMode(q, wm)
      side == IF wm2 THEN "write" ELSE "read"
      actAt == BestRequest(rs, bz, q.active)
      bestPim == BestRequest(rs, bz, q.pim)
      pimAt == IF bestPim = 0 THEN 0 ELSE bestPim + Len(q.pim) - Len(passed.pim)
      sideAt == BestRequest(rs, bz, q[side])
      pick(n, i, found, newq, newwm, newpim) ==
        [from |-> n, at |-> i - Len(q[n]) + Len(newq[n]), cmd |-> commandAt(n, i),
         found |-> found /\ ~Interrupts(q, commandAt(n, i), q[n][i].addr),
         q |-> newq, wm |-> newwm, pim |-> newpim]
  IN IF ready("active", actAt)
     THEN pick("active", actAt, TRUE, q, wm, pim)
     ELSE IF q.priority # <<>> /\ commandAt("priority", 1) \in allowed
     THEN pick("priority", 1, ready("priority", 1), q, wm, pim /\ ~ready("priority", 1))
     ELSE IF ready("pim", pimAt)
     THEN pick("pim", pimAt, TRUE, passed, wm, TRUE)
     ELSE pick(side, sideAt, ready(side, sideAt), passed, wm2, FALSE)

-----------------------------------------------------------------------------
(* Issuing what a slot has picked.  A request leaves its buffer with its final *)
(* command, and moves to the active buffer with the one that opens its row,    *)
(* whether or not that has room.                                             *)
Picked(s) == s.q[s.from][s.at]
Final(s) == s.cmd = FinalCommand(Picked(s).type)
Moves(s) == ~Final(s) /\ ~s.pim /\ Opening(s.cmd)

AfterIssueFull(s) ==
  LET left == [s.q EXCEPT ![s.from] = RemoveAt(@, s.at)]
  IN IF Final(s) THEN left
     ELSE IF ~Moves(s) THEN s.q
     ELSE IF s.q.active = <<>> THEN [left EXCEPT !.active = Append(@, Picked(s))] ELSE left
AfterIssue(s) ==
  LET left == [s.q EXCEPT ![s.from] = RemoveAt(@, s.at)]
      roomy == Len(s.q.active) <= MaxSize
  IN IF Final(s) THEN left
     ELSE IF ~Moves(s) THEN s.q
     ELSE IF roomy THEN [left EXCEPT !.active = Append(@, Picked(s))] ELSE left
Returning(s) ==
  IF Final(s) /\ Picked(s).type = "Read"
  THEN <<[req |-> Picked(s), left |-> T.nCL + T.nBL]>> ELSE <<>>

\* What a slot leaves behind.
Issue(rs, bz, as, s) ==
  IF ~s.found
  THEN [rows |-> rs, busy |-> bz, acts |-> as, buffers |-> s.q, wm |-> s.wm,
        pim |-> s.pim, cmd |-> s.cmd, gone |-> FALSE, returning |-> <<>>, bus |-> <<>>]
  ELSE LET addr == Picked(s).addr
       IN [rows |-> UpdateStates(rs, s.cmd, addr), busy |-> UpdateTiming(bz, as, s.cmd, addr),
           acts |-> History(as, s.cmd, addr), buffers |-> AfterIssue(s), wm |-> s.wm,
           pim |-> s.pim, cmd |-> s.cmd, gone |-> Final(s) \/ Moves(s),
           returning |-> Returning(s), bus |-> <<[cmd |-> s.cmd, addr |-> addr]>>]

First(rs, bz, as, q, wm, pim) ==
  Issue(rs, bz, as, Schedule(rs, bz, q, wm, pim, Commands))
Second(one, type) ==
  Issue(one.rows, one.busy, one.acts,
        Schedule(one.rows, one.busy, one.buffers, one.wm, one.pim,
                 {cmd \in Commands : Beside(type, cmd)}))

\* The type of first_command.  A request that has left its buffer is read after
\* it was freed, the end of a buffer outside any request.
FirstTypes(one) ==
  {CommandType(one.cmd)} \cup (IF one.cmd = "END" \/ one.gone THEN Stray ELSE {})

-----------------------------------------------------------------------------
(* The front end. *)
Done == sent = Len(program) /\ Held = {} /\ buffers.priority = <<>> /\ pending = <<>>
NextRequest == program[sent + 1]
Forwarded(r) == r.type = "Read" /\ \E w \in ToSet(buffers.write) : w.addr = r.addr
Accepts == sent < Len(program) /\ (Forwarded(NextRequest) \/ Fits(BufferFor(NextRequest.type)))

Send ==
  /\ ~thrown /\ Accepts
  /\ LET r == [id |-> sent + 1, type |-> NextRequest.type, addr |-> NextRequest.addr,
               arrive |-> epoch]
     IN IF Forwarded(r)
        THEN pending' = Append(pending, [req |-> r, left |-> 1]) /\ buffers' = buffers
        ELSE pending' = pending
             /\ buffers' = [buffers EXCEPT ![BufferFor(r.type)] = Append(@, r)]
  /\ sent' = sent + 1
  /\ UNCHANGED <<deviceVars, program, epoch, writeMode, isPim, due, thrown, bus>>

-----------------------------------------------------------------------------
(* tick. *)
Refresh(p) == [id |-> 0, type |-> "REFRESH", addr |-> <<p>>, arrive |-> 0]
RefreshDue == due = 1
AfterRefresh ==
  IF ~RefreshDue THEN buffers
  ELSE [buffers EXCEPT !.priority = @ \o [p \in 1 .. PseudoChannels |-> Refresh(p - 1)]]
RefreshFits == Len(buffers.priority) + PseudoChannels <= PrioritySize + 1

\* serve_completed_reads: the read at the head, if its data is there.
Returned == pending # <<>> /\ pending[1].left <= 1
InFlight ==
  LET older == [i \in DOMAIN pending |-> [pending[i] EXCEPT !.left = IF @ > 0 THEN @ - 1 ELSE 0]]
  IN IF Returned THEN Tail(older) ELSE older

\* When the memory system is ticked: m_clk, as the refresh manager counts it.
Clock ==
  /\ ~thrown /\ ~Done /\ (program \in Eager => ~Accepts)
  /\ due' = IF T.nREFI = 0 THEN due ELSE IF RefreshDue THEN T.nREFI ELSE due - 1

Tick ==
  /\ Clock
  /\ epoch' = sent
  /\ UNCHANGED <<program, sent>>
  /\ IF RefreshDue /\ ~RefreshFits
     THEN /\ thrown' = TRUE /\ pending' = InFlight
          /\ UNCHANGED <<deviceVars, buffers, writeMode, isPim, bus>>
     ELSE
       \E one \in {First(rows, Aged(busy), AgedActs(acts), AfterRefresh, writeMode, isPim)} :
       \E type \in FirstTypes(one) : \E two \in {Second(one, type)} :
         /\ rows' = two.rows /\ busy' = two.busy /\ acts' = two.acts
         /\ buffers' = two.buffers
         /\ pending' = InFlight \o one.returning \o two.returning
         /\ writeMode' = two.wm /\ isPim' = two.pim
         /\ bus' = one.bus \o two.bus
         /\ thrown' = FALSE

-----------------------------------------------------------------------------
Init ==
  /\ DeviceInit
  /\ program \in Programs /\ sent = 0 /\ epoch = 0
  /\ buffers = [n \in BufferNames |-> <<>>]
  /\ pending = <<>> /\ writeMode = FALSE /\ isPim = FALSE
  /\ due = T.nREFI /\ thrown = FALSE /\ bus = <<>>
Next == Send \/ Tick
Spec == Init /\ [][Next]_vars
\* The main loop ticks the front end and the memory system in turn for ever.
\* Only a tick moves the clock of the refreshes (T.nREFI > 1).
FairSpec == Spec /\ WF_vars(Send) /\ WF_due(Clock)

-----------------------------------------------------------------------------
(* Properties. *)
TypeOK ==
  /\ \A n \in BufferNames : Len(buffers[n]) <= (IF n = "priority" THEN PrioritySize ELSE MaxSize) + 1
  /\ sent \in 0 .. Len(program) /\ epoch \in 0 .. sent
  /\ writeMode \in BOOLEAN /\ isPim \in BOOLEAN /\ thrown \in BOOLEAN
  /\ Len(bus) <= 2 /\ due \in 0 .. T.nREFI
  /\ \A k \in DOMAIN busy : busy[k] > 0

\* Every accepted request ends: no two requests, buffers and refreshes wait for
\* each other for ever, and no refresh is turned away.
Drains == <>Done

NeverThrows == ~thrown

\* A request leaves the buffers only by its own command going out, once.
NoneLost ==
  LET left == {r \in Held \ Held' : r.type # "PIM_BARRIER"}
      for(r) == {i \in DOMAIN bus' : bus'[i].cmd = FinalCommand(r.type) /\ bus'[i].addr = r.addr}
  IN /\ \A r \in left : for(r) # {}
     /\ \A r \in left, s \in left : r # s => \E i \in for(r), j \in for(s) : i # j
EveryRequestServed == [][NoneLost]_vars

\* Reads and writes never have two rows of a bank open (an all-bank activate may
\* add its row to one that is open already).
OneRowOpen ==
  (\A i \in DOMAIN program : program[i].type \in {"Read", "Write"})
     => \A b \in BankNodes : Cardinality(rows[b]) <= 1

\* A command goes out only when every node on its way is free for it.
Free(b, i) ==
  LET c == bus'[i]
  IN \A d \in 0 .. Lesser(4, Len(c.addr)) : <<NodeAt(c.addr, d), c.cmd>> \notin DOMAIN b
TimingRespected == [][bus' # <<>> => Free(Aged(busy), 1)]_vars

\* The controller implements MemService: a request is served when no buffer holds
\* it any more and returned when its read is no longer pending.
ServedIds == (1 .. sent) \ {r.id : r \in Held}
ReturnedIds == {i \in ServedIds : program[i].type = "Read"}
                 \ {pending[i].req.id : i \in DOMAIN pending}
Service == INSTANCE MemService WITH
  accepted <- sent, served <- ServedIds, returned <- ReturnedIds
ServesInOrder == Service!Spec

\* No PIM request is served before one it must not pass: with a barrier between
\* them, every older PIM request is served first.
PimInOrder == \A j \in ServedIds : Service!Pim(j) => Service!Before(j) \subseteq ServedIds
=============================================================================
