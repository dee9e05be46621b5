----------------------------- MODULE MemService -----------------------------
(***************************************************************************)
(* What the HBM3-PIM controller of a channel promises whoever sends it         *)
(* requests: each is served once, and some only after others.  It says nothing *)
(* of banks, rows, timing, buffers or refresh.                                *)
(***************************************************************************)
EXTENDS Naturals, Sequences

CONSTANT Programs  \* the request sequences: [type, addr] records

VARIABLES
  program,   \* what the client sends, in order
  accepted,  \* the requests up to this one have been accepted
  served,    \* the requests whose command has gone out, and the barriers passed
  returned   \* the reads whose data has come back

serviceVars == <<program, accepted, served, returned>>

Pim(i) == program[i].type \notin {"Read", "Write"}
Barrier(i) == program[i].type = "PIM_BARRIER"

\* Every PIM request before a barrier is served before it and before every PIM
\* request behind it; writes of one address are served in the order they came.
MustPrecede(i, j) ==
  /\ i < j
  /\ \/ Pim(i) /\ Pim(j) /\ \E b \in i + 1 .. j : Barrier(b)
     \/ /\ program[i].type = "Write" /\ program[j].type = "Write"
        /\ program[i].addr = program[j].addr
Before(j) == {i \in 1 .. j : MustPrecede(i, j)}

-----------------------------------------------------------------------------
\* A read may be answered from a write of its address that still waits.
Answerable(j) ==
  program[j].type = "Read"
    /\ \E i \in 1 .. j - 1 : /\ i \notin served
                             /\ program[i].type = "Write"
                             /\ program[i].addr = program[j].addr
Accept ==
  /\ accepted + 1 \in DOMAIN program
  /\ accepted' = accepted + 1
  /\ \/ served' = served
     \/ Answerable(accepted + 1) /\ served' = served \cup {accepted + 1}
  /\ UNCHANGED <<program, returned>>

\* One cycle: some waiting requests are served and at most one read returns.
Work ==
  /\ \E S \in SUBSET ((1 .. accepted) \ served) :
       /\ \A j \in S : Before(j) \subseteq served \cup S
       /\ served' = served \cup S
  /\ \/ returned' = returned
     \/ \E r \in served \ returned :
          program[r].type = "Read" /\ returned' = returned \cup {r}
  /\ UNCHANGED <<program, accepted>>

Init ==
  /\ program \in Programs /\ accepted = 0 /\ served = {} /\ returned = {}
Next == Accept \/ Work
Spec == Init /\ [][Next]_serviceVars

-----------------------------------------------------------------------------
\* Only what was accepted is served, and only what was served returns.
ServiceTypeOK ==
  /\ program \in Programs
  /\ accepted \in Nat
  /\ served \subseteq 1 .. accepted /\ returned \subseteq served

\* Whatever has been served, everything that must precede it was served too: no
\* request overtakes a barrier, no write an older one of its address.
Ordered == \A j \in served : Before(j) \subseteq served
=============================================================================
