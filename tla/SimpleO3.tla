------------------------------ MODULE SimpleO3 ------------------------------
(***************************************************************************)
(* The SimpleO3 front end: cores that replay traces through an in-order    *)
(* window, the last-level cache they share, and one channel of the memory  *)
(* as they meet it: buffers that may be full and answers that take their   *)
(* time.                                                                   *)
(***************************************************************************)
EXTENDS SimpleO3Llc

CONSTANTS
  NumCores,
  Ipc,            \* m_ipc
  Depth,          \* m_depth
  Expected,       \* m_num_expected_insts
  TraceSets,      \* the traces a run may be given, one for each core
  BufferSize,     \* max_size of the memory's buffers
  MaxLines        \* bound: lines of its trace a core takes, cyclically

CoreIds == 1 .. NumCores
NoAddr == -1

\* The lines of a trace: non-memory instructions, a load, and a store or none.
Insts == [bubbles : Nat, load : Nat, store : Nat \cup {NoAddr}]

ASSUME O3Assumption ==
  /\ NumCores \in Nat \ {0} /\ Ipc \in Nat \ {0} /\ Depth \in Nat \ {0}
  /\ Expected \in Nat /\ BufferSize \in Nat /\ MaxLines \in Nat
  /\ TraceSets \subseteq [CoreIds -> Seq(Insts) \ {<<>>}]

VARIABLES
  clk,      \* m_clk of the front end modulo 2: that it ticks is all that matters
  traces,   \* m_trace of each core
  core,     \* window, bubbles, load and store left of the current line, lines taken, retired
  llc,      \* the cache
  mem,      \* the buffers of the memory and the reads it is about to answer
  unsaved   \* lines stored to since the memory last took a write of them (not in the code)

vars == <<clk, traces, core, llc, mem, unsaved>>

\* One line of a trace.
Inst(bubbles, load, store) == [bubbles |-> bubbles, load |-> load, store |-> store]

NextInst(c, trace) ==
  LET inst == IF c.taken < MaxLines THEN trace[(c.taken % Len(trace)) + 1] ELSE Inst(0, NoAddr, NoAddr)
  IN  [c EXCEPT !.bubbles = inst.bubbles, !.load = inst.load, !.store = inst.store,
                !.taken = Min({MaxLines, @ + 1})]

-----------------------------------------------------------------------------
(* The memory's side of a request: IMemorySystem::send and the controller.      *)

\* m_read_buffer, m_write_buffer, m_active_buffer; the addresses of pending.
EmptyMem == [reads |-> <<>>, writes |-> <<>>, active |-> <<>>, pending |-> <<>>]
Buffers == {"reads", "writes", "active"}
BufferOf(req) == IF req.op = "READ" THEN "reads" ELSE "writes"

\* A read of what a waiting write holds needs no place; enqueue compares with <=.
Forwards(m, req) == req.op = "READ" /\ \E w \in ToSet(m.writes) : w.addr = req.addr
Takes(m, req) == Forwards(m, req) \/ Len(m[BufferOf(req)]) <= BufferSize
Taken(m, req) ==
  IF Forwards(m, req)
  THEN [m EXCEPT !.pending = Append(@, req.addr)]
  ELSE [m EXCEPT ![BufferOf(req)] = Append(@, [op |-> req.op, addr |-> req.addr])]

-----------------------------------------------------------------------------
Init ==
  /\ clk = 0
  /\ traces \in TraceSets
  /\ core = [id \in CoreIds |->
       NextInst([window |-> <<>>, bubbles |-> 0, load |-> NoAddr, store |-> NoAddr, taken |-> 0, retired |-> 0],
                traces[id])]
  /\ llc = EmptyLlc
  /\ mem = EmptyMem
  /\ unsaved = {}

-----------------------------------------------------------------------------
(* The cache's cycle.  A state is [core, llc, mem, unsaved].                    *)

\* A slip: only the oldest entry with the address is ready.
WokenFirst(cores, reqs) ==
  [id \in CoreIds |->
     [cores[id] EXCEPT !.window = [i \in DOMAIN @ |->
        IF /\ \E r \in ToSet(reqs) : r.core = id /\ r.addr = @[i].addr
           /\ \A h \in 1 .. i - 1 : @[h].addr # @[i].addr
        THEN [@[i] EXCEPT !.ready = TRUE] ELSE @[i]]]]

\* set_ready: every entry of the window with the address is ready.
Woken(cores, reqs) ==
  [id \in CoreIds |->
     [cores[id] EXCEPT !.window = [i \in DOMAIN @ |->
        IF \E r \in ToSet(reqs) : r.core = id /\ r.addr = @[i].addr
        THEN [@[i] EXCEPT !.ready = TRUE] ELSE @[i]]]]

\* SimpleO3::receive, for an answer of the memory or of the cache.
Receive(s, a) ==
  [s EXCEPT !.llc = Cleared(LlcReceive(@, a), a), !.core = Woken(@, WaitingFor(s.llc, a))]

Saved(lines, req) == IF req.op = "WRITE" THEN lines \ {LineOf(req.addr)} ELSE lines

\* Misses and writebacks go to the memory in order; one that is refused lets the
\* later ones pass.
SendMiss(s, req) ==
  IF req.left = 0 /\ Takes(s.mem, req)
  THEN [s EXCEPT !.mem = Taken(@, req), !.unsaved = Saved(@, req)]
  ELSE [s EXCEPT !.llc.misses = Append(@, req)]
SendMisses(s) ==
  LET sent[i \in 0 .. Len(s.llc.misses)] ==
        IF i = 0 THEN [s EXCEPT !.llc.misses = <<>>] ELSE SendMiss(sent[i - 1], s.llc.misses[i])
  IN  sent[Len(s.llc.misses)]

\* The answer of a hit puts its request in place of whatever waits for the address.
AnswerHit(s, hit) ==
  IF hit.left = 0
  THEN Receive([s EXCEPT !.llc.waiting =
                  (hit.addr :> <<[core |-> hit.core, addr |-> hit.addr]>>) @@ @], hit.addr)
  ELSE [s EXCEPT !.llc.hits = Append(@, hit)]
AnswerHits(s) ==
  LET answered[i \in 0 .. Len(s.llc.hits)] ==
        IF i = 0 THEN [s EXCEPT !.llc.hits = <<>>] ELSE AnswerHit(answered[i - 1], s.llc.hits[i])
  IN  answered[Len(s.llc.hits)]

LlcTick(s) == AnswerHits(SendMisses([s EXCEPT !.llc = Aged(@)]))

-----------------------------------------------------------------------------
(* A core's cycle: retire, then non-memory instructions, the load, the store.   *)

ReadyAtTail(w) == Max({n \in 0 .. Ipc : n <= Len(w) /\ \A i \in 1 .. n : w[i].ready})
Retire(c) ==
  [c EXCEPT !.window = SubSeq(@, ReadyAtTail(@) + 1, Len(@)),
            !.retired = Min({Expected, @ + ReadyAtTail(c.window)})]

Bubbles(c) == Min({c.bubbles, Ipc, Depth - Len(c.window)})
IssueBubbles(c) ==
  [c EXCEPT !.window = @ \o [i \in 1 .. Bubbles(c) |-> [ready |-> TRUE, addr |-> NoAddr]],
            !.bubbles = @ - Bubbles(c)]

Put(s, id, c) == [s EXCEPT !.core[id] = c]
Request(a, id, store) == [addr |-> a, core |-> id, store |-> store]

IssueLoad(s, id, c, inserted) ==
  IF inserted = Ipc \/ Len(c.window) = Depth \/ ~Accepts(s.llc, c.load)
  THEN Put(s, id, c)
  ELSE LET d == [c EXCEPT !.window = Append(@, [ready |-> FALSE, addr |-> c.load]), !.load = NoAddr]
       IN  [Put(s, id, IF c.store = NoAddr THEN NextInst(d, traces[id]) ELSE d)
              EXCEPT !.llc = LlcSend(@, Request(c.load, id, FALSE))]

IssueStore(s, id, c) ==
  IF ~Accepts(s.llc, c.store)
  THEN Put(s, id, c)
  ELSE [Put(s, id, NextInst(c, traces[id]))
          EXCEPT !.llc = LlcSend(@, Request(c.store, id, TRUE)), !.unsaved = @ \cup {LineOf(c.store)}]

CoreTick(s, id) ==
  LET c == Retire(s.core[id])
      d == IssueBubbles(c)
  IN  CASE d.bubbles > 0 -> Put(s, id, d)
        [] d.bubbles = 0 /\ d.load # NoAddr -> IssueLoad(s, id, d, Bubbles(c))
        [] d.bubbles = 0 /\ d.load = NoAddr /\ d.store # NoAddr -> IssueStore(s, id, d)
        [] OTHER -> Put(s, id, d)

-----------------------------------------------------------------------------
Become(s) == core' = s.core /\ llc' = s.llc /\ mem' = s.mem /\ unsaved' = s.unsaved
State == [core |-> core, llc |-> llc, mem |-> mem, unsaved |-> unsaved]

Advance == clk' = 1 - clk

\* SimpleO3::tick: the cache, then the cores in their order.
CoreTicks(s) ==
  LET ticked[id \in 0 .. NumCores] == IF id = 0 THEN s ELSE CoreTick(ticked[id - 1], id)
  IN  ticked[NumCores]
Tick ==
  /\ Advance
  /\ Become(CoreTicks(LlcTick(State)))
  /\ UNCHANGED traces

\* The row of a request is opened: the request waits in the active buffer.
Open(b, i) ==
  /\ i \in DOMAIN mem[b] /\ Len(mem.active) <= BufferSize
  /\ mem' = [mem EXCEPT ![b] = RemoveAt(@, i), !.active = Append(@, mem[b][i])]
  /\ UNCHANGED <<clk, traces, core, llc, unsaved>>

\* The last command of a request: a write is done, a read waits for its data.
Serve(b, i) ==
  /\ i \in DOMAIN mem[b]
  /\ mem' = [mem EXCEPT ![b] = RemoveAt(@, i),
                        !.pending = IF mem[b][i].op = "READ" THEN Append(@, mem[b][i].addr) ELSE @]
  /\ UNCHANGED <<clk, traces, core, llc, unsaved>>

\* serve_completed_reads: the callback of the first read.
Answer ==
  /\ mem.pending # <<>>
  /\ Become(Receive([State EXCEPT !.mem.pending = Tail(@)], Head(mem.pending)))
  /\ UNCHANGED <<clk, traces>>

Next ==
  \/ Tick
  \/ \E b \in {"reads", "writes"} : \E i \in 1 .. BufferSize + 1 : Open(b, i)
  \/ \E b \in Buffers : \E i \in 1 .. BufferSize + 1 : Serve(b, i)
  \/ Answer
Spec == Init /\ [][Next]_vars

\* The main loop ticks the front end and the memory for ever, and the memory's
\* scheduler ends every request (Hbm3Controller!Drains).
FairSpec ==
  /\ Spec /\ WF_clk(Advance) /\ WF_vars(Answer)
  /\ \A b \in Buffers : WF_vars(Serve(b, 1))

-----------------------------------------------------------------------------
AllLines(c) == UNION {ToSet(c.sets[i]) : i \in DOMAIN c.sets}

TypeOK ==
  /\ \A id \in CoreIds :
       /\ Len(core[id].window) <= Depth /\ core[id].retired \in 0 .. Expected
       /\ core[id].bubbles \in Nat /\ core[id].taken \in 0 .. MaxLines
  /\ \A i \in DOMAIN llc.sets : Len(llc.sets[i]) <= Associativity
  /\ Cardinality(DOMAIN llc.mshrs) <= NumMshrs
  /\ \A b \in Buffers : Len(mem[b]) <= BufferSize + 1
  /\ \A l \in AllLines(llc) : l.tag = Tag(l.addr) /\ l.dirty \in BOOLEAN /\ l.ready \in BOOLEAN

(* TagOnce: no set has a tag twice, so a miss never finds its tag in the set ("Due to *)
(* MSHR, the program can't reach here", need_eviction in llc.cpp).                     *)
TagOnce ==
  \A i \in DOMAIN llc.sets : \A v, w \in DOMAIN llc.sets[i] :
    v # w => llc.sets[i][v].tag # llc.sets[i][w].tag

(* LinesRegistered: the registers hold exactly the lines in flight and no set has a    *)
(* tag twice.  A register keeps an iterator to its line until the answer comes: a      *)
(* line in flight that is evicted, or allocated again, leaves it dangling.             *)
LinesRegistered ==
  /\ {LineOf(l.addr) : l \in {k \in AllLines(llc) : ~k.ready}} = DOMAIN llc.mshrs
  /\ TagOnce

(* NoneForgotten: a load that is not ready has a request that will wake it: among  *)
(* those that wait for a line under way, or among the hits.                          *)
Owed(id, a) ==
  \/ \E i \in DOMAIN llc.hits : llc.hits[i].core = id /\ llc.hits[i].addr = a
  \/ \E line \in DOMAIN llc.mshrs : [core |-> id, addr |-> a] \in ToSet(WaitingFor(llc, llc.mshrs[line]))
NoneForgotten ==
  \A id \in CoreIds : \A i \in DOMAIN core[id].window :
    ~core[id].window[i].ready => Owed(id, core[id].window[i].addr)

(* StoresKept: what has been stored to a line since the memory last took it is      *)
(* in a dirty line or in a writeback, through hits, merged misses and evictions.      *)
StoresKept ==
  \A line \in unsaved :
    \/ \E l \in AllLines(llc) : LineOf(l.addr) = line /\ l.dirty
    \/ \E m \in ToSet(llc.misses) : m.op = "WRITE" /\ LineOf(m.addr) = line

(* Finishes: every core retires the expected number of instructions, so the front   *)
(* end reports that it has finished.                                                 *)
Finishes == <>(\A id \in CoreIds : core[id].retired = Expected)
=============================================================================
