---------------------------- MODULE MCKeygenTask ----------------------------
(* KeygenTask for TLC: three nodes, the smallest number a task accepts.     *)
EXTENDS KeygenTask, TLC

CONSTANTS k1, k2

OneKey  == {k1}
TwoKeys == {k1, k2}

\* The two keys are interchangeable (the nodes, visited in order, are not).
KeySymmetry == Permutations(TwoKeys)
=============================================================================
