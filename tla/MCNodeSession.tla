---------------------------- MODULE MCNodeSession ----------------------------
(* NodeSession for TLC: five messages, one of them with the node's own     *)
(* FromIndex, and buffers of two (of five in the runs about the races).     *)
EXTENDS NodeSession

OneOwn == {2}
=============================================================================
