------------------------------ MODULE Graphene ------------------------------
(***************************************************************************)
(* The Graphene plugin's tracker of one bank: N entries that count the     *)
(* activates of a row, and a counter for the rows that have none.  Each    *)
(* bank has a tracker of its own and they share only the reset.            *)
(* Two variables are not the plugin's: `exposed` counts what really        *)
(* happened to each row since the tracker was reset or last sent a         *)
(* victim-row refresh for it to the controller, which issues it later;     *)
(* `acts` counts all activates since the reset.                            *)
(***************************************************************************)
EXTENDS Integers, FiniteSets

CONSTANTS
  Rows,        \* rows of the bank
  Dummy,       \* a row number below zero, which no request has
  NumEntries,  \* num_table_entries
  Threshold,   \* activation_threshold
  Period,      \* reset_period_ns, in cycles
  nRC          \* cycles between two activates of the bank

\* The tracker is large enough for the activates that fit into one period.
ASSUME GrapheneAssumption ==
  /\ Dummy \notin Rows
  /\ NumEntries \in Nat \ {0} /\ Threshold \in Nat \ {0}
  /\ Period \in Nat \ {0} /\ nRC \in Nat \ {0}
  /\ Period - 1 + nRC < nRC * ((NumEntries + 1) * Threshold)

VARIABLES
  clk,      \* m_clk within the period
  tracker,  \* m_activation_count_table and m_spillover_counter, with the ghosts
  gap      \* cycles until the bank can be activated again

grapheneVars == <<clk, tracker, gap>>

Entries == 1 .. NumEntries

GrapheneInit ==
  /\ clk = Period - 1 /\ gap = 0
  /\ tracker = [row |-> [e \in Entries |-> Dummy], count |-> [e \in Entries |-> 0], spill |-> 0,
                exposed |-> [r \in Rows |-> 0], acts |-> 0]

\* At the start of a period the counters go to 0; the rows stay in the table.
Reset(g) == [g EXCEPT !.count = [e \in Entries |-> 0], !.spill = 0,
                      !.exposed = [r \in Rows |-> 0], !.acts = 0]

EntriesOf(g, r) == {e \in Entries : g.row[e] = r}
AtSpill(g) == {e \in Entries : g.count[e] = g.spill}

Seen(g, r) == [g EXCEPT !.exposed[r] = @ + 1, !.acts = @ + 1]

\* A slip: take the threshold off the count before the activate.
CountedBelow(g, e, r) ==
  IF g.count[e] + 1 >= Threshold
  THEN [Seen(g, r) EXCEPT !.count[e] = @ - Threshold, !.exposed[r] = 0]
  ELSE [Seen(g, r) EXCEPT !.count[e] = @ + 1]

\* A row with an entry: count, and at the threshold send a victim-row refresh and
\* fall back to the spillover counter.
Counted(g, e, r) ==
  IF g.count[e] + 1 >= Threshold
  THEN [Seen(g, r) EXCEPT !.count[e] = g.spill, !.exposed[r] = 0]
  ELSE [Seen(g, r) EXCEPT !.count[e] = @ + 1]

\* A slip: a row new to the table starts at one.
TakenOverCold(g, e, r) == [Seen(g, r) EXCEPT !.row[e] = r, !.count[e] = 1]

\* A row without one takes over an entry that has sunk to the spillover counter; if
\* there is none, the spillover counter goes up.
TakenOver(g, e, r) == [Seen(g, r) EXCEPT !.row[e] = r, !.count[e] = g.spill + 1]
Spilled(g, r) == [Seen(g, r) EXCEPT !.spill = @ + 1]

\* Which entry is taken depends on the order of an unordered_map.
Activated(g, r) ==
  {Counted(g, e, r) : e \in EntriesOf(g, r)}
  \cup (IF EntriesOf(g, r) = {} THEN {TakenOver(g, e, r) : e \in AtSpill(g)} ELSE {})
  \cup (IF EntriesOf(g, r) \cup AtSpill(g) = {} THEN {Spilled(g, r)} ELSE {})

-----------------------------------------------------------------------------
AtStart(c, g) == IF c = 0 THEN Reset(g) ELSE g

\* update() with no activate in this cycle.
Quiet ==
  /\ clk' = (clk + 1) % Period
  /\ tracker' = AtStart(clk', tracker)
  /\ gap' = IF gap = 0 THEN 0 ELSE gap - 1

\* update() with an activate of row r.
Activate(r) ==
  /\ gap = 0
  /\ clk' = (clk + 1) % Period
  /\ tracker' \in Activated(AtStart(clk', tracker), r)
  /\ gap' = nRC - 1

GrapheneNext == Quiet \/ \E r \in Rows : Activate(r)
GrapheneSpec == GrapheneInit /\ [][GrapheneNext]_grapheneVars

-----------------------------------------------------------------------------
GrapheneTypeOK ==
  /\ clk \in 0 .. Period - 1 /\ gap \in 0 .. nRC - 1
  /\ tracker \in [row : [Entries -> Rows \cup {Dummy}], count : [Entries -> Nat], spill : Nat,
                  exposed : [Rows -> Nat], acts : Nat]

(* GrapheneGuards: no row is activated more often than the threshold between two      *)
(* victim-row refreshes sent for it in one period, although there are fewer entries   *)
(* than rows and entries change hands.  A row that takes over an entry is not         *)
(* compared with the threshold (graphene.cpp:151), which is why it may reach it.      *)
GrapheneGuards == \A r \in Rows : tracker.exposed[r] <= Threshold
=============================================================================
