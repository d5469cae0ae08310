----------------------------- MODULE MCSignTask -----------------------------
(* SignTask for TLC: three nodes, the smallest wallet, and two signatures   *)
(* to disagree on.  (No symmetry: the run also checks liveness.)            *)
EXTENDS SignTask

CONSTANTS s1, s2

TwoSigs == {s1, s2}
=============================================================================
