---------------------------- MODULE MCDramTiming ----------------------------
(* A channel of one rank and three banks, two of them in a bank group, with every     *)
(* timing shrunk to the smallest values that keep the order they have in the    *)
(* ini file.                                                                    *)
EXTENDS DramTiming
=============================================================================
