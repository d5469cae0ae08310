--------------------------- MODULE WalletPromise ---------------------------
(***************************************************************************)
(* What one keygen task promises to the caller of CliCreateWallet, without *)
(* any of the machinery that keeps the promise: every node stores at most  *)
(* one key share, a wallet is published at most once and only for the key  *)
(* of which EVERY node already stores a share, and the call returns one    *)
(* outcome that never changes.  A failed call may leave shares behind, and *)
(* (a crash between the write and the return) even the wallet.             *)
(***************************************************************************)

CONSTANTS Nodes,    \* the nodes of the task
          Keys,     \* the keys a keygen can produce
          NoKey     \* "no key", not in Keys

VARIABLES share,    \* [Nodes -> Keys \cup {NoKey}]: the share file of each node
          wallet,   \* the key of the wallet file a reader can use, or NoKey
          outcome   \* "pending", "created" or "failed"

vars == <<share, wallet, outcome>>

Init ==
    /\ share = [n \in Nodes |-> NoKey]
    /\ wallet = NoKey
    /\ outcome = "pending"

SaveShare(n, k) ==
    /\ share[n] = NoKey
    /\ share' = [share EXCEPT ![n] = k]
    /\ UNCHANGED <<wallet, outcome>>

Publish(k) ==
    /\ outcome = "pending"
    /\ wallet = NoKey
    /\ \A n \in Nodes : share[n] = k
    /\ wallet' = k
    /\ UNCHANGED <<share, outcome>>

ReturnWallet ==
    /\ outcome = "pending"
    /\ wallet # NoKey
    /\ outcome' = "created"
    /\ UNCHANGED <<share, wallet>>

ReturnError ==
    /\ outcome = "pending"
    /\ outcome' = "failed"
    /\ UNCHANGED <<share, wallet>>

Next ==
    \/ \E n \in Nodes, k \in Keys : SaveShare(n, k)
    \/ \E k \in Keys : Publish(k)
    \/ ReturnWallet
    \/ ReturnError

\* The call returns: either answer will do, but one of them is given.
Fairness == WF_vars(ReturnWallet \/ ReturnError)

SafeSpec == Init /\ [][Next]_vars

Spec == SafeSpec /\ Fairness
=============================================================================
