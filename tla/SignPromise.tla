---------------------------- MODULE SignPromise ----------------------------
(***************************************************************************)
(* What one sign task promises to the caller of SignTransaction: each node *)
(* produces at most one signature, and the call returns once, either an    *)
(* error or the signature that EVERY node of the wallet has produced.  An  *)
(* error does not mean that no signature exists.                           *)
(***************************************************************************)

CONSTANTS Nodes,    \* the nodes of the wallet
          Sigs,     \* the signatures of the message
          NoSig     \* "no signature", not in Sigs

VARIABLES sig,      \* [Nodes -> Sigs \cup {NoSig}]: what each node has produced
          returned  \* "pending", "error", or the signature handed to the caller

vars == <<sig, returned>>

Init ==
    /\ sig = [n \in Nodes |-> NoSig]
    /\ returned = "pending"

Produce(n, s) ==
    /\ sig[n] = NoSig
    /\ sig' = [sig EXCEPT ![n] = s]
    /\ UNCHANGED returned

ReturnSignature(s) ==
    /\ returned = "pending"
    /\ \A n \in Nodes : sig[n] = s
    /\ returned' = s
    /\ UNCHANGED sig

ReturnError ==
    /\ returned = "pending"
    /\ returned' = "error"
    /\ UNCHANGED sig

Next ==
    \/ \E n \in Nodes, s \in Sigs : Produce(n, s)
    \/ \E s \in Sigs : ReturnSignature(s)
    \/ ReturnError

SafeSpec == Init /\ [][Next]_vars
=============================================================================
