------------------------------ MODULE SignTask ------------------------------
(***************************************************************************)
(* One sign task of the coordinator: createMPCSignTaskECDSA                *)
(* (app/mpc_sign.go) in the goroutine of its caller, the handlers of the   *)
(* nodes' POSTs in others, the timer that unregisters the collector, and   *)
(* the nodes as far as the coordinator sees them (node/mpc_sign.go).       *)
(*                                                                         *)
(* Against KeygenTask: no record of the node exists beforehand, a report   *)
(* is put into the cache whatever is there and whether or not the task     *)
(* (still) exists; a node reports once, a signature or an error, and does  *)
(* not care for the answer; nothing is written to disk.                    *)
(***************************************************************************)
EXTENDS Naturals

CONSTANTS N,      \* the number of nodes in the wallet's KeyMeta file
          Sigs    \* the signatures of the message the nodes can produce

NoSig == "no signature"
Error == "error"

ASSUME NAssumption    == N \in Nat \ {0}
ASSUME SigsAssumption == {NoSig, Error, "pending"} \cap Sigs = {}

Nodes   == 1 .. N
Reports == Sigs \cup {Error}     \* what a POST mpcSignResult carries

VARIABLES
    pc,        \* where createMPCSignTaskECDSA is
    cur,       \* the node its current loop is at
    slow,      \* have the pushes taken more than the 5 s between the wait and the timer?
    pubReg,    \* is the PubkeyCollector registered?
    pubCache,  \* nodes whose temporary public key is in keyCache
    pubSub,    \* PubkeyCollector.submitted
    pubH,      \* per node: its temporary public key's way to the collector
    meta,      \* is the task's signMeta in keyCache?
    resReg,    \* is the SignResultCollector registered?
    resCache,  \* per node: its report in keyCache, or NoSig
    resSub,    \* per node: SignResultCollector.submitted, or NoSig
    srv,       \* per node: the report that handleMpcSignResult has put, or NoSig
    net,       \* reports on their way to the coordinator: <<node, report>>
    node,      \* per node: "off", "pushed", "run", "end"
    sig,       \* per node: the signature its party has produced, or NoSig
    returned   \* what the call has returned: "pending", "error" or a signature

coordVars == <<pc, cur, slow, meta, returned>>
pubVars   == <<pubReg, pubCache, pubSub, pubH>>
resVars   == <<resReg, resCache, resSub, srv>>
nodeVars  == <<net, node, sig>>
vars      == <<coordVars, pubVars, resVars, nodeVars>>

None == [n \in Nodes |-> NoSig]

Init ==
    /\ pc = "begin" /\ cur = 1 /\ slow = FALSE /\ meta = FALSE /\ returned = "pending"
    /\ pubReg = FALSE /\ pubCache = {} /\ pubSub = {}
    /\ pubH = [n \in Nodes |-> "idle"]
    /\ resReg = FALSE /\ resCache = None /\ resSub = None /\ srv = None
    /\ net = {}
    /\ node = [n \in Nodes |-> "off"]
    /\ sig = None

-----------------------------------------------------------------------------
(* The coordinator.                                                        *)

\* Mutant of Loop: the bound is off by one.
LoopPastEnd(l) ==
    IF cur <= N THEN cur' = cur + 1 /\ UNCHANGED pc
                ELSE cur' = 1 /\ pc' = l

\* The loop "for _, subject := range signNodeIDs": the next node, or on to pc l.
Loop(l) ==
    IF cur < N THEN cur' = cur + 1 /\ UNCHANGED pc
               ELSE cur' = 1 /\ pc' = l

\* Any return runs the deferred unregisters and gives the collectors up.
Return(x) ==
    /\ pc' = "returned" /\ cur' = 1 /\ returned' = x
    /\ pubReg' = FALSE /\ pubSub' = {}
    /\ resReg' = FALSE /\ resSub' = None

\* An error return leaves the cache as it is.
Fail ==
    /\ Return("error")
    /\ UNCHANGED <<slow, meta, pubCache, pubH, resCache, srv, nodeVars>>

\* KeyMeta readable, hash well-formed, every node online; or not.
Begin ==
    /\ pc = "begin"
    /\ pubReg' = TRUE
    /\ pc' = "pushTemp"
    /\ UNCHANGED <<cur, slow, meta, returned, pubCache, pubSub, pubH, resVars, nodeVars>>

Refuse == pc = "begin" /\ Fail

\* SendToSubject(subject, "mpcTempPublicKey"): pushed sooner or later, or it fails.
PushTemp ==
    /\ pc = "pushTemp"
    /\ pubH' = [pubH EXCEPT ![cur] = "asked"]
    /\ slow' \in {slow, TRUE}
    /\ Loop("replayPub")
    /\ UNCHANGED <<meta, returned, pubReg, pubCache, pubSub, resVars, nodeVars>>

PushTempFails == pc = "pushTemp" /\ Fail

\* The timer of registerPubkeyCollector, 35 s after the registration.  The wait
\* lasts 30 s: the timer is too early only when the pushes were slow.
TimerUnregisters ==
    /\ pubReg
    /\ slow
    /\ pubReg' = FALSE
    /\ UNCHANGED <<coordVars, pubCache, pubSub, pubH, resVars, nodeVars>>

ReplayPub ==
    /\ pc = "replayPub"
    /\ pubSub' = pubSub \cup ({cur} \cap pubCache)
    /\ Loop("waitPub")
    /\ UNCHANGED <<slow, meta, returned, pubReg, pubCache, pubH, resVars, nodeVars>>

\* PubkeyCollector.Wait returns, and signMeta is put into the cache.
PubReady ==
    /\ pc = "waitPub"
    /\ pubSub = Nodes
    /\ meta' = TRUE
    /\ pc' = "pushStart"
    /\ UNCHANGED <<cur, slow, returned, pubVars, resVars, nodeVars>>

\* The context is done first (Wait does not look at it when the set is complete
\* on entry, but a context done by then is 30 s old).
PubTimeout == pc = "waitPub" /\ Fail

PushStart ==
    /\ pc = "pushStart"
    /\ node' = [node EXCEPT ![cur] = "pushed"]
    /\ Loop("regResult")
    /\ UNCHANGED <<slow, meta, returned, pubVars, resVars, net, sig>>

PushStartFails == pc = "pushStart" /\ Fail

\* Mutant of RegisterResult: no cache replay after the registration.
RegisterResultOnly ==
    /\ pc = "regResult"
    /\ resReg' = TRUE
    /\ pc' = "waitResult"
    /\ UNCHANGED <<cur, slow, meta, returned, pubVars, resCache, resSub, srv, nodeVars>>

RegisterResult ==
    /\ pc = "regResult"
    /\ resReg' = TRUE
    /\ pc' = "replayResult"
    /\ UNCHANGED <<cur, slow, meta, returned, pubVars, resCache, resSub, srv, nodeVars>>

\* SignResultCollector.submitted after Submit: once complete it is not changed.
Submitted(n, x) ==
    IF \A m \in Nodes : resSub[m] # NoSig THEN resSub ELSE [resSub EXCEPT ![n] = x]

ReplayResult ==
    /\ pc = "replayResult"
    /\ resSub' = IF resCache[cur] = NoSig THEN resSub ELSE Submitted(cur, resCache[cur])
    /\ Loop("waitResult")
    /\ UNCHANGED <<slow, meta, returned, pubVars, resReg, resCache, srv, nodeVars>>

\* SignResultCollector.Wait.
ResultReady ==
    /\ pc = "waitResult"
    /\ \A n \in Nodes : resSub[n] # NoSig
    /\ pc' = "check"
    /\ UNCHANGED <<cur, slow, meta, returned, pubVars, resVars, nodeVars>>

\* Mutant of ResultTimeout: Wait ignores the context.
ResultTimeoutNever == FALSE /\ Fail

ResultTimeout == pc = "waitResult" /\ Fail

\* Mutant of Agreed: the first signature is taken for everybody's.
AgreedOnFirst(s) == resSub[1] = s /\ \A n \in Nodes : resSub[n] # Error

\* The loop over the results: no Err, and one signature.
Agreed(s) == \A n \in Nodes : resSub[n] = s

CheckResults ==
    /\ pc = "check"
    /\ \/ /\ \E s \in Sigs : Agreed(s)
          /\ pc' = "clean"
          /\ UNCHANGED <<cur, slow, meta, returned, pubVars, resVars, nodeVars>>
       \/ /\ \A s \in Sigs : ~Agreed(s)
          /\ Fail

\* Mutant of CleanUp: the reports stay in the cache.
CleanUpKeysOnly ==
    /\ pc = "clean"
    /\ pubCache' = pubCache \ {cur}
    /\ \/ /\ cur < N
          /\ cur' = cur + 1
          /\ UNCHANGED <<pc, meta, returned, pubReg, pubSub, resReg, resSub>>
       \/ /\ cur = N
          /\ meta' = FALSE
          /\ Return(resSub[1])
    /\ UNCHANGED <<slow, pubH, resCache, srv, nodeVars>>

\* Success deletes the task's cache entries, node after node, and signMeta.
CleanUp ==
    /\ pc = "clean"
    /\ resCache' = [resCache EXCEPT ![cur] = NoSig]
    /\ pubCache' = pubCache \ {cur}
    /\ \/ /\ cur < N
          /\ cur' = cur + 1
          /\ UNCHANGED <<pc, meta, returned, pubReg, pubSub, resReg, resSub>>
       \/ /\ cur = N
          /\ meta' = FALSE
          /\ Return(resSub[1])
    /\ UNCHANGED <<slow, pubH, srv, nodeVars>>

-----------------------------------------------------------------------------
(* The handlers of the nodes' POSTs, each in its own goroutine.            *)

\* handleTempPublicKey: into the cache, and to the collector if one is registered.
\* (Between the two the coordinator can only submit the same key itself, and the
\* timer can only do what it could have done before.)
ReceivePub(n) ==
    /\ pubH[n] = "asked"
    /\ pubH' = [pubH EXCEPT ![n] = "done"]
    /\ pubCache' = pubCache \cup {n}
    /\ pubSub' = IF pubReg /\ pubSub # Nodes THEN pubSub \cup {n} ELSE pubSub
    /\ UNCHANGED <<coordVars, pubReg, resVars, nodeVars>>

\* handleMpcSignResult: the report is put into the cache, whatever is there ...
ReceiveResult(n, x) ==
    /\ <<n, x>> \in net
    /\ srv[n] = NoSig
    /\ net' = net \ {<<n, x>>}
    /\ resCache' = [resCache EXCEPT ![n] = x]
    /\ srv' = [srv EXCEPT ![n] = x]
    /\ UNCHANGED <<coordVars, pubVars, resReg, resSub, node, sig>>

\* ... and submitted to the collector, if one is registered.
SubmitResult(n) ==
    /\ srv[n] # NoSig
    /\ srv' = [srv EXCEPT ![n] = NoSig]
    /\ resSub' = IF resReg THEN Submitted(n, srv[n]) ELSE resSub
    /\ UNCHANGED <<coordVars, pubVars, resReg, resCache, nodeVars>>

\* The 300 s of a cached report are over.  The task has returned by then: at most
\* 30 s of waiting come after the pushes of mpcSignStart that cause a report.
ExpireResult(n) ==
    /\ pc = "returned"
    /\ resCache[n] # NoSig
    /\ resCache' = [resCache EXCEPT ![n] = NoSig]
    /\ UNCHANGED <<coordVars, pubVars, resReg, resSub, srv, nodeVars>>

-----------------------------------------------------------------------------
(* The nodes, as the coordinator sees them.                                *)

\* HandleMpcSignStart passed its checks (else the node stays silent).
StartSign(n) ==
    /\ node[n] = "pushed"
    /\ node' = [node EXCEPT ![n] = "run"]
    /\ UNCHANGED <<coordVars, pubVars, resVars, net, sig>>

\* endCh delivers, which takes messages of every node; the signature is POSTed,
\* and the node is done whatever becomes of the POST.
FinishSign(n, s) ==
    /\ node[n] = "run"
    /\ \A m \in Nodes : node[m] \notin {"off", "pushed"}
    /\ sig' = [sig EXCEPT ![n] = s]
    /\ net' = net \cup {<<n, s>>}
    /\ node' = [node EXCEPT ![n] = "end"]
    /\ UNCHANGED <<coordVars, pubVars, resVars>>

\* The path, the share file, the protocol or the two minutes: an error is POSTed.
FailSign(n) ==
    /\ node[n] = "run"
    /\ net' = net \cup {<<n, Error>>}
    /\ node' = [node EXCEPT ![n] = "end"]
    /\ UNCHANGED <<coordVars, pubVars, resVars, sig>>

-----------------------------------------------------------------------------

Coordinator ==
    \/ Begin \/ Refuse \/ PushTemp \/ PushTempFails \/ ReplayPub \/ PubReady \/ PubTimeout
    \/ PushStart \/ PushStartFails \/ RegisterResult \/ ReplayResult
    \/ ResultReady \/ ResultTimeout \/ CheckResults \/ CleanUp

Handler(n) ==
    \/ ReceivePub(n)
    \/ \E x \in Reports : ReceiveResult(n, x)
    \/ SubmitResult(n)

Node(n) == StartSign(n) \/ FailSign(n) \/ \E s \in Sigs : FinishSign(n, s)

Next ==
    \/ Coordinator
    \/ TimerUnregisters
    \/ \E n \in Nodes : Handler(n) \/ ExpireResult(n) \/ Node(n)

\* The coordinator's goroutine runs on and its waits end by their contexts; a
\* handler that began goes on; a node's run ends by its deadline.
Fairness ==
    /\ WF_vars(Coordinator)
    /\ \A n \in Nodes : WF_vars(SubmitResult(n)) /\ WF_vars(FailSign(n))

Spec == Init /\ [][Next]_vars

FairSpec == Spec /\ Fairness

-----------------------------------------------------------------------------
(* Properties.                                                             *)

\* The type of every variable.
TypeOK ==
    /\ pc \in {"begin", "pushTemp", "replayPub", "waitPub", "pushStart", "regResult",
              "replayResult", "waitResult", "check", "clean", "returned"}
    /\ cur \in Nodes
    /\ slow \in BOOLEAN /\ meta \in BOOLEAN
    /\ returned \in Sigs \cup {"pending", "error"}
    /\ pubReg \in BOOLEAN /\ pubCache \subseteq Nodes /\ pubSub \subseteq Nodes
    /\ pubH \in [Nodes -> {"idle", "asked", "done"}]
    /\ resReg \in BOOLEAN
    /\ resCache \in [Nodes -> Reports \cup {NoSig}]
    /\ resSub \in [Nodes -> Reports \cup {NoSig}]
    /\ srv \in [Nodes -> Reports \cup {NoSig}]
    /\ net \subseteq Nodes \X Reports
    /\ node \in [Nodes -> {"off", "pushed", "run", "end"}]
    /\ sig \in [Nodes -> Sigs \cup {NoSig}]

\* While the coordinator waits, every POST that has been handled is in its
\* collector: a report whether the handler ran before, during or after the
\* registration and replay (app/mpc_sign.go:182: no event gets lost); a key as long as
\* the pushes were fast enough for the collector's timer.  After slow pushes a key may
\* stay in the cache only, against the comment at app/mpc_sign.go:105.
NoLostEvent ==
    /\ pc = "waitResult" =>
          \A n \in Nodes : resCache[n] # NoSig /\ srv[n] = NoSig => resSub[n] = resCache[n]
    /\ pc = "waitPub" /\ ~slow =>
          \A n \in Nodes : pubH[n] = "done" => n \in pubSub

\* After a success nothing of the task stays in the cache, or comes back: no
\* handler of this task is still to put a key or a report.
SuccessLeavesNothing ==
    pc = "returned" /\ returned \in Sigs =>
        pubCache = {} /\ resCache = None /\ ~meta /\ net = {}

\* The task returns and every node that began comes to rest, even if no POST is
\* ever handled.
TaskSettles ==
    <>[](pc = "returned" /\ \A n \in Nodes : node[n] # "run" /\ srv[n] = NoSig)

\* The task keeps the promise of SignPromise: a signature is returned only when
\* every node has produced exactly that one, and the answer is given once.
Promise == INSTANCE SignPromise

KeepsPromise == Promise!SafeSpec
=============================================================================
