----------------------------- MODULE MCTssRelay -----------------------------
(* TssRelay for TLC: three nodes, two rounds, one node that may fail.       *)
EXTENDS TssRelay

OneNode == {1}
=============================================================================
