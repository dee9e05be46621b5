--------------------------- MODULE MCRowTrackers ---------------------------
(***************************************************************************)
(* The trackers of activated rows under every sequence of commands.  A     *)
(* controller may be given any plugin; they share nothing, so a behaviour  *)
(* runs one of them.                                                       *)
(***************************************************************************)
EXTENDS Graphene, Twice

VARIABLE plugin

Init == plugin \in {"Graphene", "TWiCe"} /\ GrapheneInit /\ TwiceInit

Next ==
  /\ UNCHANGED plugin
  /\ \/ plugin = "Graphene" /\ GrapheneNext /\ UNCHANGED twiceVars
     \/ plugin = "TWiCe" /\ TwiceNext /\ UNCHANGED grapheneVars

Spec == Init /\ [][Next]_<<plugin, grapheneVars, twiceVars>>
=============================================================================
