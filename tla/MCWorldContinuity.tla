--------------------------- MODULE MCWorldContinuity ---------------------------
(* TLC instance of WorldContinuity: one cycle that may repeat an artifact id,  *)
(* two directors on one checkpoint, three events, one death or damage.         *)
EXTENDS WorldContinuity, TLC

CONSTANTS c1, d1, d2, w1, w2, x

MCCycles == {c1}
MCIdsOf == [c \in {c1} |-> {"ART__FIXED"}]

Symmetry == Permutations(Directors) \cup Permutations(Worlds)
=============================================================================
