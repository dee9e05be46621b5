---------------------------- MODULE SimpleO3Llc ----------------------------
(***************************************************************************)
(* The last-level cache of the SimpleO3 front end: sets in LRU order,      *)
(* miss status registers (MSHRs), the requests that wait for a line, and   *)
(* the requests that wait out the latency of the cache.  A cache is a      *)
(* record; the operators say what a request and an answer make of it.      *)
(***************************************************************************)
EXTENDS Integers, Sequences, FiniteSets, TLC, SequencesExt

CONSTANTS
  LineSize,       \* m_linesize_bytes
  NumSets,        \* m_set_size
  Associativity,  \* m_associativity
  NumMshrs,       \* m_num_mshrs
  Latency         \* m_latency

ASSUME LlcAssumption ==
  /\ LineSize \in Nat \ {0} /\ NumSets \in Nat \ {0} /\ Associativity \in Nat \ {0}
  /\ NumMshrs \in Nat \ {0} /\ Latency \in Nat

\* A number as the set of its one bits; calc_log2 counts how often it can be halved.
Bits(n) == {k \in 0 .. n : (n \div 2^k) % 2 = 1}
Log2(n) == Cardinality({k \in 1 .. n : n \div 2^k > 0})
ShiftedRight(a, n) == {k - n : k \in {j \in Bits(a) : j >= n}}

IndexMask == Bits(NumSets - 1)             \* m_index_mask
IndexOffset == Log2(LineSize)              \* m_index_offset
TagOffset == Log2(NumSets) + IndexOffset   \* m_tag_offset

\* get_index, get_tag and align.  The aligned address names the line of an address.
Index(a) == ShiftedRight(a, IndexOffset) \cap IndexMask
Tag(a) == ShiftedRight(a, TagOffset)
LineOf(a) == Bits(a) \ Bits(LineSize - 1)

\* The shapes the masks and shifts are made for: both sizes are powers of two.
PowerOfTwo(n) == Bits(n - 1) = 0 .. Log2(n) - 1
PowersOfTwo == PowerOfTwo(LineSize) /\ PowerOfTwo(NumSets)

\* m_receive_requests is keyed by the exact address of the request that missed; an
\* entry that has been cleared is left out.  Of a request its core and address matter.
EmptyLlc == [sets |-> [i \in SUBSET IndexMask |-> <<>>], mshrs |-> <<>>, waiting |-> <<>>,
             misses |-> <<>>, hits |-> <<>>]

SetOf(c, a) == c.sets[Index(a)]

\* check_set_hit: the first line with the tag, when it is not in flight.
TagWay(set, a) == SelectInSeq(set, LAMBDA l : l.tag = Tag(a))
Hit(c, a) == TagWay(SetOf(c, a), a) # 0 /\ SetOf(c, a)[TagWay(SetOf(c, a), a)].ready

\* check_mshr_hit, over aligned addresses.
Missing(c, a) == LineOf(a) \in DOMAIN c.mshrs

\* The line a register points to: the one in flight that was allocated for it.
FetchWay(c, a) ==
  CHOOSE w \in DOMAIN SetOf(c, a) : LineOf(SetOf(c, a)[w].addr) = LineOf(a) /\ ~SetOf(c, a)[w].ready

\* A slip: a line in flight may be evicted.
VictimInFlight(set) == IF set = <<>> THEN 0 ELSE 1

\* The least recently used line that may be evicted.
Victim(set) == SelectInSeq(set, LAMBDA l : l.ready)
LineAvailable(set) == Len(set) < Associativity \/ Victim(set) # 0

\* A slip: the number of registers is compared with <=.
AcceptsOneMore(c, a) ==
  \/ Hit(c, a)
  \/ Missing(c, a)
  \/ Cardinality(DOMAIN c.mshrs) <= NumMshrs /\ LineAvailable(SetOf(c, a))

\* send() returns false only here.
Accepts(c, a) ==
  \/ Hit(c, a)
  \/ Missing(c, a)
  \/ Cardinality(DOMAIN c.mshrs) < NumMshrs /\ LineAvailable(SetOf(c, a))

-----------------------------------------------------------------------------
\* A slip: the line forgets an earlier store.
TouchedClean(set, w, req) ==
  Append(RemoveAt(set, w), [addr |-> req.addr, tag |-> Tag(req.addr), dirty |-> req.store, ready |-> TRUE])

\* A hit moves the line to the end of its set and is answered after the latency.
Touched(set, w, req) ==
  Append(RemoveAt(set, w), [addr |-> req.addr, tag |-> Tag(req.addr),
                            dirty |-> set[w].dirty \/ req.store, ready |-> TRUE])

OnHit(c, req) ==
  [c EXCEPT !.sets[Index(req.addr)] = Touched(@, TagWay(@, req.addr), req),
            !.hits = Append(@, [left |-> Latency, addr |-> req.addr, core |-> req.core])]

\* The waiting list with one more request under address a.
Joined(waiting, a, req) ==
  [b \in DOMAIN waiting \cup {a} |->
     (IF b \in DOMAIN waiting THEN waiting[b] ELSE <<>>)
     \o (IF b = a THEN <<[core |-> req.core, addr |-> req.addr]>> ELSE <<>>)]

\* A slip: the request waits under its own address.
OnPendingMissOwn(c, req) ==
  [c EXCEPT !.waiting = Joined(@, req.addr, req),
            !.sets[Index(req.addr)][FetchWay(c, req.addr)].dirty = @ \/ req.store]

\* A miss on a line that is being fetched waits with the first request for it.
OnPendingMiss(c, req) ==
  [c EXCEPT !.waiting = Joined(@, c.mshrs[LineOf(req.addr)], req),
            !.sets[Index(req.addr)][FetchWay(c, req.addr)].dirty = @ \/ req.store]

\* need_eviction: a set that holds the tag already is thought to be beyond reach.
NeedsEviction(set, a) == Len(set) >= Associativity /\ TagWay(set, a) = 0

\* A new miss takes a register and a line; a dirty victim is written back first.
Evicted(set, a) == IF NeedsEviction(set, a) THEN RemoveAt(set, Victim(set)) ELSE set
Writebacks(set, a) ==
  IF NeedsEviction(set, a) /\ set[Victim(set)].dirty
  THEN <<[left |-> Latency, op |-> "WRITE", addr |-> set[Victim(set)].addr, core |-> 0]>>
  ELSE <<>>

OnNewMiss(c, req) ==
  LET set == SetOf(c, req.addr)
      line == LineOf(req.addr)
  IN  [c EXCEPT
        !.sets[Index(req.addr)] =
          Append(Evicted(set, req.addr),
                 [addr |-> req.addr, tag |-> Tag(req.addr), dirty |-> req.store, ready |-> FALSE]),
        !.mshrs = [l \in DOMAIN @ \cup {line} |-> IF l = line THEN req.addr ELSE @[l]],
        !.waiting = Restrict(@, DOMAIN @ \ {req.addr}) @@
                    (req.addr :> <<[core |-> req.core, addr |-> req.addr]>>),
        !.misses = @ \o Writebacks(set, req.addr)
                     \o <<[left |-> Latency, op |-> "READ", addr |-> req.addr, core |-> req.core]>>]

LlcSend(c, req) ==
  CASE Hit(c, req.addr) -> OnHit(c, req)
    [] ~Hit(c, req.addr) /\ Missing(c, req.addr) -> OnPendingMiss(c, req)
    [] OTHER -> OnNewMiss(c, req)

-----------------------------------------------------------------------------
\* A slip: the register is not given back.
LlcReceiveReady(c, a) ==
  IF Missing(c, a) THEN [c EXCEPT !.sets[Index(a)][FetchWay(c, a)].ready = TRUE] ELSE c

\* receive(): the line of an answered miss becomes ready and its register is free.
LlcReceive(c, a) ==
  IF Missing(c, a)
  THEN [c EXCEPT !.mshrs = Restrict(@, DOMAIN @ \ {LineOf(a)}),
                 !.sets[Index(a)][FetchWay(c, a)].ready = TRUE]
  ELSE c

\* m_receive_requests[a] of an answer for address a.
WaitingFor(c, a) == IF a \in DOMAIN c.waiting THEN c.waiting[a] ELSE <<>>
Cleared(c, a) == [c EXCEPT !.waiting = Restrict(@, DOMAIN @ \ {a})]

\* One cycle nearer to the memory or to the core.
Older(list) == [i \in DOMAIN list |-> [list[i] EXCEPT !.left = IF @ = 0 THEN 0 ELSE @ - 1]]
Aged(c) == [c EXCEPT !.misses = Older(@), !.hits = Older(@)]
=============================================================================
