------------------------------ MODULE TssRelay ------------------------------
(***************************************************************************)
(* The N nodes of one keygen or sign task and the TSS messages they        *)
(* exchange over the coordinator: HandleMpcKeygenStart and its protocol    *)
(* goroutine, the sender goroutine that drains outCh through               *)
(* wsKeygenRouter.Send, the delivery of the pushes, and the clean-up that  *)
(* takes the peers' public keys away (node/mpc_keygen.go), with the        *)
(* forwarding handler handleMpcKeygenMsg (app/mpc_keygen.go).  Signing     *)
(* repeats this code (node/mpc_sign.go, app/mpc_sign.go) but for two       *)
(* things: wsSignRouter.Send ends with an error where a public key is      *)
(* missing, and handleMpcSignMsg answers OK when its push has failed.      *)
(*                                                                         *)
(* Of the TSS library only this is kept: a party goes through R rounds; on *)
(* entering one it emits a message to every peer, and it leaves it when it *)
(* has every peer's message of that round.  Messages may come early.  The  *)
(* queues, capacities and locks of one node are NodeSession's subject; of  *)
(* them this is kept: what comes before the party is handed over by a      *)
(* further message only, and a delivery that finds no session comes to the *)
(* bucket in a second step, before or after registerKeygenSession has      *)
(* emptied it.  Nodes are numbered in PartyIDs order.                      *)
(***************************************************************************)
EXTENDS Naturals

CONSTANTS N,     \* the number of nodes of the task
          R,     \* the number of rounds of the protocol in which messages are sent
          Faulty \* the nodes whose runs and messages may fail (any; a bound for TLC)

ASSUME NAssumption == N \in Nat
ASSUME RAssumption == R \in Nat \ {0}

ASSUME FaultyAssumption == Faulty \subseteq 1 .. N

Nodes  == 1 .. N
Rounds == 1 .. R
Peers(n) == Nodes \ {n}

VARIABLES
    kind,     \* the task: "keygen" or "sign"
    run,      \* per node: "off", "session", "party", "returned", "closed"
    result,   \* per node: what the protocol run returned: "none", "share" (of a key, or a
              \* signature), "error"
    rnd,      \* per node: the round its party is in, 0 before party.Start
    pub,      \* per node: the nodes whose temporary public key is in its cache
    out,      \* per node: what outCh and its sender still have to post, <<round, to>>
    net,      \* messages posted and not yet delivered, <<from, round, to>>
    between,  \* messages whose delivery has found no session and comes to the bucket next
    kept,     \* per node: messages waiting for the party, <<from, round>>
    got,      \* per node: messages party.Update has taken, <<from, round>>
    stranded, \* messages put into a bucket that had been emptied for good
    skipped,  \* messages for which Send found no public key, or that were given up for that
    lost      \* messages whose POST or push failed or was given up for that, or that the
              \* receiver's party refused

vars == <<kind, run, result, rnd, pub, out, net, between, kept, got, stranded, skipped, lost>>

Init ==
    /\ kind \in {"keygen", "sign"}
    /\ run = [n \in Nodes |-> "off"]
    /\ result = [n \in Nodes |-> "none"]
    /\ rnd = [n \in Nodes |-> 0]
    /\ pub = [n \in Nodes |-> {}]
    /\ out = [n \in Nodes |-> {}]
    /\ net = {}
    /\ between = {}
    /\ kept = [n \in Nodes |-> {}]
    /\ got = [n \in Nodes |-> {}]
    /\ stranded = {}
    /\ skipped = {}
    /\ lost = {}

-----------------------------------------------------------------------------

\* HandleMpcKeygenStart: the public keys of the peers (HandleMpcSignStart: of all
\* nodes, its own included) and the session.  registerKeygenSession empties the bucket
\* first and fills the map then; a look-up in between is one before both.
StartNode(n) ==
    /\ run[n] = "off"
    /\ run' = [run EXCEPT ![n] = "session"]
    /\ pub' = [pub EXCEPT ![n] = IF kind = "keygen" THEN Peers(n) ELSE Nodes]
    /\ UNCHANGED <<kind, result, rnd, out, net, between, kept, got, stranded, skipped, lost>>

\* Mutant of Enter: a broadcast goes to the node itself, too.
EnterToAll(n, r) ==
    /\ rnd' = [rnd EXCEPT ![n] = r]
    /\ out' = [out EXCEPT ![n] = @ \cup ({r} \X Nodes)]

\* The party enters round r and emits its messages into outCh.
Enter(n, r) ==
    /\ rnd' = [rnd EXCEPT ![n] = r]
    /\ out' = [out EXCEPT ![n] = @ \cup ({r} \X Peers(n))]

\* router.party = party; party.Start().
StartParty(n) ==
    /\ run[n] = "session"
    /\ run' = [run EXCEPT ![n] = "party"]
    /\ Enter(n, 1)
    /\ UNCHANGED <<kind, result, pub, net, between, kept, got, stranded, skipped, lost>>

\* The party has all it needs of its round.  (External: the library.)
RoundComplete(n) ==
    /\ rnd[n] \in Rounds
    /\ \A m \in Peers(n) : <<m, rnd[n]>> \in got[n]

\* The library, inside Update: on to the next round.  It does so as long as the
\* delivery goroutine feeds it, even when the run has returned an error and the
\* closed queue is being drained.
Advance(n) ==
    /\ run[n] \in {"party", "returned", "closed"}
    /\ rnd[n] < R
    /\ RoundComplete(n)
    /\ Enter(n, rnd[n] + 1)
    /\ UNCHANGED <<kind, run, result, pub, net, between, kept, got, stranded, skipped, lost>>

\* Mutant of Finish: the run returns without waiting for endCh.
FinishAtLastRound(n) ==
    /\ run[n] = "party"
    /\ rnd[n] = R
    /\ run' = [run EXCEPT ![n] = "returned"]
    /\ result' = [result EXCEPT ![n] = "share"]
    /\ UNCHANGED <<kind, rnd, pub, out, net, between, kept, got, stranded, skipped, lost>>

\* endCh delivers; the share is saved and reported.
Finish(n) ==
    /\ run[n] = "party"
    /\ rnd[n] = R
    /\ RoundComplete(n)
    /\ run' = [run EXCEPT ![n] = "returned"]
    /\ result' = [result EXCEPT ![n] = "share"]
    /\ UNCHANGED <<kind, rnd, pub, out, net, between, kept, got, stranded, skipped, lost>>

\* The run ends otherwise: pre-parameters, errCh, the deadline.
Fail(n) ==
    /\ n \in Faulty
    /\ run[n] \in {"session", "party"}
    /\ run' = [run EXCEPT ![n] = "returned"]
    /\ result' = [result EXCEPT ![n] = "error"]
    /\ UNCHANGED <<kind, rnd, pub, out, net, between, kept, got, stranded, skipped, lost>>

-----------------------------------------------------------------------------
(* The routers' Send, in the sender goroutine, which never ends.           *)

\* <<r, m>> is what the sender comes to next: rounds and targets in order.
IsNext(n, r, m) ==
    /\ <<r, m>> \in out[n]
    /\ \A x \in out[n] : r < x[1] \/ (r = x[1] /\ m <= x[2])

\* Mutant of Post: Send returns after the first target of a broadcast.
PostFirstOnly(n, r, m) ==
    /\ IsNext(n, r, m)
    /\ m \in pub[n]
    /\ out' = [out EXCEPT ![n] = {x \in @ : x[1] # r}]
    /\ net' = net \cup {<<n, r, m>>}
    /\ UNCHANGED <<kind, run, result, rnd, pub, between, kept, got, stranded, skipped, lost>>

\* The POST, which handleMpcKeygenMsg answers after it has pushed the message.
Post(n, r, m) ==
    /\ IsNext(n, r, m)
    /\ m \in pub[n]
    /\ out' = [out EXCEPT ![n] = @ \ {<<r, m>>}]
    /\ net' = net \cup {<<n, r, m>>}
    /\ UNCHANGED <<kind, run, result, rnd, pub, between, kept, got, stranded, skipped, lost>>

\* Keygen: "no public key for target, skip".
Skip(n, r, m) ==
    /\ kind = "keygen"
    /\ IsNext(n, r, m)
    /\ m \notin pub[n]
    /\ out' = [out EXCEPT ![n] = @ \ {<<r, m>>}]
    /\ skipped' = skipped \cup {<<n, r, m>>}
    /\ UNCHANGED <<kind, run, result, rnd, pub, net, between, kept, got, stranded, lost>>

\* What goes when Send returns at target m: the other targets of a broadcast,
\* too, or, of a message to one node, that message alone.
Rest(n, r, m) == {{<<r, m>>}, out[n] \cap ({r} \X Nodes)}

\* Signing: without a public key the encryption fails, and Send returns.
NoKey(n, r, m) ==
    /\ kind = "sign"
    /\ IsNext(n, r, m)
    /\ m \notin pub[n]
    /\ \E gone \in Rest(n, r, m) :
          /\ out' = [out EXCEPT ![n] = @ \ gone]
          /\ skipped' = skipped \cup {<<n, x[1], x[2]>> : x \in gone}
    /\ UNCHANGED <<kind, run, result, rnd, pub, net, between, kept, got, stranded, lost>>

\* The POST fails, or keygen's push behind it, or only the answer gets lost: Send
\* returns.
PostFails(n, r, m) ==
    /\ n \in Faulty
    /\ IsNext(n, r, m)
    /\ m \in pub[n]
    /\ \E gone \in Rest(n, r, m) :
          /\ out' = [out EXCEPT ![n] = @ \ gone]
          /\ lost' = lost \cup {<<n, x[1], x[2]>> : x \in gone}
    /\ net' \in {net, net \cup {<<n, r, m>>}}
    /\ UNCHANGED <<kind, run, result, rnd, pub, between, kept, got, stranded, skipped>>

\* Signing: the push fails, the POST is answered OK all the same, and the sender
\* goes on.
PushFails(n, r, m) ==
    /\ kind = "sign"
    /\ n \in Faulty
    /\ IsNext(n, r, m)
    /\ m \in pub[n]
    /\ out' = [out EXCEPT ![n] = @ \ {<<r, m>>}]
    /\ lost' = lost \cup {<<n, r, m>>}
    /\ UNCHANGED <<kind, run, result, rnd, pub, net, between, kept, got, stranded, skipped>>

-----------------------------------------------------------------------------
(* DeliverMpcKeygenMsg and runKeygenDelivery.                               *)

\* The push callback delivers the message next; a node has one delivery at a time.
Arrives(m, r, n) ==
    /\ <<m, r, n>> \in net
    /\ \A x \in between : x[3] # n

\* getKeygenSession finds no session.
FindNoSession(m, r, n) ==
    /\ Arrives(m, r, n)
    /\ run[n] = "off"
    /\ net' = net \ {<<m, r, n>>}
    /\ between' = between \cup {<<m, r, n>>}
    /\ UNCHANGED <<kind, run, result, rnd, pub, out, kept, got, stranded, skipped, lost>>

\* The message goes into the bucket: in time for the registration, or for nobody.
CacheEarly(m, r, n) ==
    /\ <<m, r, n>> \in between
    /\ between' = between \ {<<m, r, n>>}
    /\ \/ /\ run[n] = "off"
          /\ kept' = [kept EXCEPT ![n] = @ \cup {<<m, r>>}]
          /\ UNCHANGED stranded
       \/ /\ run[n] # "off"
          /\ stranded' = stranded \cup {<<m, r, n>>}
          /\ UNCHANGED kept
    /\ UNCHANGED <<kind, run, result, rnd, pub, out, net, got, skipped, lost>>

\* A session, but no party yet: in recvCh or in earlyMsgs.
KeepEarly(m, r, n) ==
    /\ Arrives(m, r, n)
    /\ run[n] = "session" \/ (run[n] = "returned" /\ rnd[n] = 0)
    /\ net' = net \ {<<m, r, n>>}
    /\ kept' = [kept EXCEPT ![n] = @ \cup {<<m, r>>}]
    /\ UNCHANGED <<kind, run, result, rnd, pub, out, between, got, stranded, skipped, lost>>

\* Only a new message replays the ones that were kept.
Update(m, r, n) ==
    /\ Arrives(m, r, n)
    /\ run[n] \in {"party", "returned"}
    /\ rnd[n] > 0
    /\ net' = net \ {<<m, r, n>>}
    /\ got' = [got EXCEPT ![n] = @ \cup kept[n] \cup {<<m, r>>}]
    /\ kept' = [kept EXCEPT ![n] = {}]
    /\ UNCHANGED <<kind, run, result, rnd, pub, out, between, stranded, skipped, lost>>

\* The party refuses the message.  The error goes to the session's errCh, which
\* nobody reads: the run waits on.
Refuse(m, r, n) ==
    /\ m \in Faulty
    /\ Arrives(m, r, n)
    /\ run[n] \in {"party", "returned"}
    /\ rnd[n] > 0
    /\ net' = net \ {<<m, r, n>>}
    /\ got' = [got EXCEPT ![n] = @ \cup kept[n]]
    /\ kept' = [kept EXCEPT ![n] = {}]
    /\ lost' = lost \cup {<<m, r, n>>}
    /\ UNCHANGED <<kind, run, result, rnd, pub, out, between, stranded, skipped>>

\* The session is closed, the private key gone.
DropLate(m, r, n) ==
    /\ Arrives(m, r, n)
    /\ run[n] = "closed"
    /\ net' = net \ {<<m, r, n>>}
    /\ UNCHANGED <<kind, run, result, rnd, pub, out, between, kept, got, stranded, skipped, lost>>

-----------------------------------------------------------------------------
(* The deferred clean-up of HandleMpcKeygenStart.                           *)

\* Mutant of Close: the defer belongs to the handler, not to the goroutine.
CloseAtOnce(n) ==
    /\ run[n] = "party"
    /\ run' = [run EXCEPT ![n] = "closed"]
    /\ UNCHANGED <<kind, result, rnd, pub, out, net, between, kept, got, stranded, skipped, lost>>

\* The result has been reported: close and unregister the session.
Close(n) ==
    /\ run[n] = "returned"
    /\ run' = [run EXCEPT ![n] = "closed"]
    /\ UNCHANGED <<kind, result, rnd, pub, out, net, between, kept, got, stranded, skipped, lost>>

\* Delete the public keys, in the order of NodeIDs.
DeleteKey(n, m) ==
    /\ run[n] = "closed"
    /\ m \in pub[n]
    /\ \A k \in pub[n] : m <= k
    /\ pub' = [pub EXCEPT ![n] = @ \ {m}]
    /\ UNCHANGED <<kind, run, result, rnd, out, net, between, kept, got, stranded, skipped, lost>>

-----------------------------------------------------------------------------

Protocol(n) == StartNode(n) \/ StartParty(n) \/ Advance(n) \/ Finish(n)

Sender(n) ==
    \E r \in Rounds, m \in Nodes :
        /\ <<r, m>> \in out[n]
        /\ \/ Post(n, r, m)
           \/ Skip(n, r, m)
           \/ NoKey(n, r, m)
           \/ PostFails(n, r, m)
           \/ PushFails(n, r, m)

Deliver(n) ==
    \E m \in Nodes, r \in Rounds :
        /\ <<m, r, n>> \in net \cup between
        /\ \/ FindNoSession(m, r, n)
           \/ CacheEarly(m, r, n)
           \/ KeepEarly(m, r, n)
           \/ Update(m, r, n)
           \/ Refuse(m, r, n)
           \/ DropLate(m, r, n)

CleanUp(n) == Close(n) \/ \E m \in Nodes : DeleteKey(n, m)

Progress(n) == Protocol(n) \/ Sender(n) \/ Deliver(n) \/ CleanUp(n)

Next == \E n \in Nodes : Progress(n) \/ Fail(n)

Spec == Init /\ [][Next]_vars

\* Every start is pushed and every goroutine runs on, so some goroutine does while one
\* can; as no run has infinitely many steps, that is all fairness can say here.  That a
\* run is given up is not fair: TaskCompletes is about the runs that are not.
FairSpec == Spec /\ WF_vars(\E n \in Nodes : Progress(n))

-----------------------------------------------------------------------------
(* Properties.                                                             *)

\* The type of every variable; nothing is sent to oneself.
TypeOK ==
    /\ kind \in {"keygen", "sign"}
    /\ run \in [Nodes -> {"off", "session", "party", "returned", "closed"}]
    /\ result \in [Nodes -> {"none", "share", "error"}]
    /\ rnd \in [Nodes -> 0 .. R]
    /\ pub \in [Nodes -> SUBSET Nodes]
    /\ out \in [Nodes -> SUBSET (Rounds \X Nodes)]
    /\ \A n \in Nodes : out[n] \subseteq Rounds \X Peers(n)
    /\ net \cup between \subseteq Nodes \X Rounds \X Nodes
    /\ kept \in [Nodes -> SUBSET (Nodes \X Rounds)]
    /\ got \in [Nodes -> SUBSET (Nodes \X Rounds)]
    /\ stranded \cup skipped \cup lost \subseteq Nodes \X Rounds \X Nodes

\* A share or a signature is there only when every node is in the last round: no
\* node saves a share of a key in whose making another node has no part (yet).
ShareNeedsEveryNode ==
    \A n \in Nodes : result[n] = "share" => \A m \in Nodes : rnd[m] = R

\* The clean-up of a node that got its share can hurt only its last messages: a
\* message that the sender skips for want of a public key is of the last
\* round, unless the sender's own run had failed.
SkipsOnlyLastRound ==
    \A x \in skipped : result[x[1]] = "error" \/ x[2] = R

\* Early messages are replayed only when a further one arrives
\* (node/mpc_keygen.go:161-169).  Nobody waits for ever because of that: when
\* no POST fails, no run is given up, no message is skipped and none is stranded
\* (which the code allows, NodeSession: NothingStranded), every node gets its share.
TaskCompletes ==
    <>(\/ \A n \in Nodes : result[n] = "share"
       \/ \E n \in Nodes : result[n] = "error"
       \/ lost \cup skipped \cup stranded # {})

\* A message of an early round that is stranded, given up, refused, or whose push
\* failed though the coordinator answered OK (app/mpc_sign.go:263), stops everybody: no
\* node comes to a result without it, however the others' messages arrive.
LostMessageNoResult ==
    \A x \in lost \cup skipped \cup stranded :
        x[2] < R /\ <<x[1], x[2]>> \notin got[x[3]] => \A n \in Nodes : result[n] # "share"
=============================================================================
