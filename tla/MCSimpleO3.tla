----------------------------- MODULE MCSimpleO3 -----------------------------
(***************************************************************************)
(* SimpleO3 with short traces over five lines, two words each.             *)
(***************************************************************************)
EXTENDS SimpleO3

\* What PowerOfTwo says of the bits is that the number is a power of two.
ASSUME BitsOfPowers == \A n \in 1 .. 20 : PowerOfTwo(n) <=> \E k \in 0 .. 4 : n = 2^k

\* Two words of one line, lines of one set, stores that merge and stores that evict.
T1 == <<Inst(0, 0, 4), Inst(1, 8, NoAddr)>>
T2 == <<Inst(0, 4, 0), Inst(0, 2, 9)>>
T3 == <<Inst(2, 1, NoAddr), Inst(0, 8, 1)>>
T4 == <<Inst(0, 6, NoAddr), Inst(0, 0, 5)>>
TwoTraces == {<<T1, T3>>, <<T2, T4>>, <<T3, T4>>}
=============================================================================
