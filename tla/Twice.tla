------------------------------- MODULE Twice -------------------------------
(***************************************************************************)
(* The TWiCe-Ideal plugin's table of one bank: rows with their activates   *)
(* and the number of refresh commands they have stayed for; rows           *)
(* activated too seldom are pruned.                                        *)
(* `hammered` and `refs` are not the plugin's: what really happened to     *)
(* each row since a victim-row refresh was last sent to the controller     *)
(* for it (which issues it later), and how many refresh commands of any    *)
(* rank went by since then.                                                *)
(***************************************************************************)
EXTENDS Integers

CONSTANTS
  TwiceRows,     \* rows of the bank
  RhThreshold,   \* twice_rh_threshold
  PruneRate,     \* twice_pruning_interval_threshold
  MaxRefs        \* bound on the refresh commands of a behaviour

ASSUME TwiceAssumption ==
  RhThreshold \in Nat \ {0, 1} /\ PruneRate \in Nat /\ MaxRefs \in Nat

VARIABLES twice, hammered, refs, refreshes

twiceVars == <<twice, hammered, refs, refreshes>>

Listed == DOMAIN twice

TwiceInit ==
  /\ twice = <<>> /\ refreshes = 0
  /\ hammered = [r \in TwiceRows |-> 0] /\ refs = [r \in TwiceRows |-> 0]

\* A slip: the entry is a refresh old from the start.
InsertAged(r) ==
  /\ r \notin Listed
  /\ twice' = [q \in Listed \cup {r} |-> IF q = r THEN [count |-> 1, life |-> 1] ELSE twice[q]]
  /\ hammered' = [hammered EXCEPT ![r] = @ + 1]
  /\ UNCHANGED <<refs, refreshes>>

Insert(r) ==
  /\ r \notin Listed
  /\ twice' = [q \in Listed \cup {r} |-> IF q = r THEN [count |-> 1, life |-> 0] ELSE twice[q]]
  /\ hammered' = [hammered EXCEPT ![r] = @ + 1]
  /\ UNCHANGED <<refs, refreshes>>

Count(r) ==
  /\ r \in Listed /\ twice[r].count + 1 < RhThreshold
  /\ twice' = [twice EXCEPT ![r].count = @ + 1]
  /\ hammered' = [hammered EXCEPT ![r] = @ + 1]
  /\ UNCHANGED <<refs, refreshes>>

\* At the threshold the victims are refreshed and the entry goes.
RefreshVictims(r) ==
  /\ r \in Listed /\ twice[r].count + 1 >= RhThreshold
  /\ twice' = [q \in Listed \ {r} |-> twice[q]]
  /\ hammered' = [hammered EXCEPT ![r] = 0]
  /\ refs' = [refs EXCEPT ![r] = 0]
  /\ UNCHANGED refreshes

Pruned == {r \in Listed : twice[r].count < twice[r].life * PruneRate}

\* A refresh command, of whichever rank: every bank's table is pruned.
Prune ==
  /\ refreshes < MaxRefs
  /\ twice' = [r \in Listed \ Pruned |-> [twice[r] EXCEPT !.life = @ + 1]]
  /\ refs' = [r \in TwiceRows |-> refs[r] + 1]
  /\ refreshes' = refreshes + 1
  /\ UNCHANGED hammered

TwiceNext == Prune \/ \E r \in TwiceRows : Insert(r) \/ Count(r) \/ RefreshVictims(r)
TwiceSpec == TwiceInit /\ [][TwiceNext]_twiceVars

-----------------------------------------------------------------------------
(* TwiceGuards: pruning forgets activates, but never so many that a row gets further  *)
(* than the threshold and one pruning rate for every refresh command but the first    *)
(* since a victim-row refresh was last sent for it, however often it leaves the table *)
(* and returns to it.                                                                 *)
Later(n) == IF n = 0 THEN 0 ELSE n - 1
TwiceGuards == \A r \in TwiceRows : hammered[r] < RhThreshold + PruneRate * Later(refs[r])
=============================================================================
