---------------------------- MODULE MCTaskClock ----------------------------
(* TaskClock for TLC.  A unit is 25 s; what is not a multiple is rounded so *)
(* that all comparisons come out as they do in seconds.                     *)
EXTENDS TaskClock, TLC
Symmetry == Permutations(Nodes)
=============================================================================
