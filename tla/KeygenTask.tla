----------------------------- MODULE KeygenTask -----------------------------
(***************************************************************************)
(* One keygen task of the coordinator (app/mpc_keygen.go with the          *)
(* collectors of app/mpc_collector.go): createMPCKeygenTaskECDSA runs in   *)
(* one goroutine, the handlers of the nodes' POSTs run in others, and they *)
(* meet in keyCache, in the collector registries and in the                *)
(* MpcKeygenNodeResult records, whose pointers the cache hands out and     *)
(* nobody locks.  The nodes are reduced to what the coordinator can see of *)
(* HandleMpcKeygenStart and SubmitKeygenResult (node/mpc_keygen.go).       *)
(*                                                                         *)
(* A node is named by its place in alg_ecdsa.PartyIDs order, the order in  *)
(* which all loops over nodeIDs run.  A key stands for KeyID and           *)
(* RootPubHex, which both are functions of the same public key.            *)
(***************************************************************************)
EXTENDS Naturals

CONSTANTS N,      \* the number of online subjects when the task is created
          Keys    \* the keys (KeyID, RootPubHex) a keygen can produce

NoKey == "no key"
Error == "error"

ASSUME NAssumption    == N \in Nat
ASSUME KeysAssumption == {NoKey, Error, "none", "fresh"} \cap Keys = {}

Nodes   == 1 .. N
Reports == Keys \cup {Error}     \* what a POST mpcKeygenResult carries

VARIABLES
    pc,        \* where createMPCKeygenTaskECDSA is
    cur,       \* the node its current loop is at
    slow,      \* have the pushes taken more than the 5 s between the wait and the timer?
    pubCache,  \* nodes whose temporary public key is in keyCache
    pubReg,    \* is the PubkeyCollector registered?
    pubSub,    \* PubkeyCollector.submitted
    pubH,      \* per node: its temporary public key's way to the collector
    rec,       \* per node: its MpcKeygenNodeResult ("none", "fresh" = Status 10, or a report)
    cached,    \* nodes whose record keyCache still holds
    srv,       \* per node: handleMpcKeygenResult ("idle", "fill", "put")
    resReg,    \* is the KeygenResultCollector registered?
    resSub,    \* KeygenResultCollector.submitted (the records are shared: rec)
    net,       \* reports on their way to the coordinator: <<node, report>>
    node,      \* per node: where its keygen is
    share,     \* per node: the key of the share file it has saved, or NoKey
    keyID,     \* the key the coordinator found all nodes to agree on
    meta       \* the KeyMeta file: "none", "partial" (being written), "whole"

coordVars == <<pc, cur, keyID, meta>>
pubVars   == <<slow, pubCache, pubReg, pubSub, pubH>>
resVars   == <<rec, cached, srv, resReg, resSub>>
nodeVars  == <<net, node, share>>
vars      == <<coordVars, pubVars, resVars, nodeVars>>

Returned == {"done", "failed", "crashed"}

Init ==
    /\ pc = "begin" /\ cur = 1 /\ keyID = NoKey /\ meta = "none"
    /\ slow = FALSE /\ pubCache = {} /\ pubReg = FALSE /\ pubSub = {}
    /\ pubH = [n \in Nodes |-> "idle"]
    /\ rec = [n \in Nodes |-> "none"] /\ cached = {}
    /\ srv = [n \in Nodes |-> "idle"]
    /\ resReg = FALSE /\ resSub = {}
    /\ net = {}
    /\ node = [n \in Nodes |-> "off"]
    /\ share = [n \in Nodes |-> NoKey]

-----------------------------------------------------------------------------
(* The coordinator.                                                        *)

\* Mutant of Loop: the bound is off by one.
LoopPastEnd(l) ==
    IF cur <= N THEN cur' = cur + 1 /\ UNCHANGED pc
                ELSE cur' = 1 /\ pc' = l

\* The loop "for _, subject := range nodeIDs": the next node, or on to pc l.
Loop(l) ==
    IF cur < N THEN cur' = cur + 1 /\ UNCHANGED pc
               ELSE cur' = 1 /\ pc' = l

\* Any return runs the deferred unregisters; the locals and, once no registry
\* holds them, the collectors are gone.
Return(l) ==
    /\ pc' = l /\ cur' = 1
    /\ pubReg' = FALSE /\ pubSub' = {}
    /\ resReg' = FALSE /\ resSub' = {}

\* An error return cleans nothing else up.
Fail ==
    /\ Return("failed")
    /\ UNCHANGED <<keyID, meta, slow, pubCache, pubH, rec, cached, srv, nodeVars>>

Begin ==
    /\ pc = "begin"
    /\ \/ /\ N \in {3, 5}
          /\ pubReg' = TRUE
          /\ pc' = "pushTemp"
       \/ /\ N \notin {3, 5}
          /\ pc' = "failed"
          /\ UNCHANGED pubReg
    /\ UNCHANGED <<cur, keyID, meta, slow, pubCache, pubSub, pubH, resVars, nodeVars>>

\* SendToSubject(subject, "mpcTempPublicKey"): pushed sooner or later, or it fails.
PushTemp ==
    /\ pc = "pushTemp"
    /\ pubH' = [pubH EXCEPT ![cur] = "asked"]
    /\ slow' \in {slow, TRUE}
    /\ Loop("replayPub")
    /\ UNCHANGED <<keyID, meta, pubCache, pubReg, pubSub, resVars, nodeVars>>

PushTempFails == pc = "pushTemp" /\ Fail

\* The timer of registerPubkeyCollector, 130 s after the registration.  The wait lasts
\* 125 s from the last push on: only after slow pushes is the timer the earlier one
\* (after the wait nobody has a key to submit).
TimerUnregisters ==
    /\ pubReg
    /\ slow
    /\ pubReg' = FALSE
    /\ UNCHANGED <<coordVars, slow, pubCache, pubSub, pubH, resVars, nodeVars>>

\* The cache replay: a key that arrived already is submitted here (too).
ReplayPub ==
    /\ pc = "replayPub"
    /\ pubSub' = pubSub \cup ({cur} \cap pubCache)
    /\ Loop("enterPub")
    /\ UNCHANGED <<keyID, meta, slow, pubCache, pubReg, pubH, resVars, nodeVars>>

\* PubkeyCollector.Wait: completed on entry, or the select on channel and timeout.
BlockPub ==
    /\ pc = "enterPub"
    /\ pubSub # Nodes
    /\ pc' = "waitPub"
    /\ UNCHANGED <<cur, keyID, meta, pubVars, resVars, nodeVars>>

PubReady ==
    /\ pc \in {"enterPub", "waitPub"}
    /\ pubSub = Nodes
    /\ pc' = "pushStart"
    /\ UNCHANGED <<cur, keyID, meta, pubVars, resVars, nodeVars>>

PubTimeout == pc = "waitPub" /\ Fail

\* Encrypt and push mpcKeygenStart; only then is the node's record put.
PushStart ==
    /\ pc = "pushStart"
    /\ node' = [node EXCEPT ![cur] = "pushed"]
    /\ pc' = "putRecord"
    /\ UNCHANGED <<cur, keyID, meta, pubVars, resVars, net, share>>

PushStartFails == pc = "pushStart" /\ Fail

PutRecord ==
    /\ pc = "putRecord"
    /\ rec' = [rec EXCEPT ![cur] = "fresh"]
    /\ cached' = cached \cup {cur}
    /\ IF cur < N THEN cur' = cur + 1 /\ pc' = "pushStart"
                  ELSE cur' = 1 /\ pc' = "regResult"
    /\ UNCHANGED <<keyID, meta, pubVars, srv, resReg, resSub, nodeVars>>

\* Mutant of RegisterResult: no cache replay after the registration.
RegisterResultOnly ==
    /\ pc = "regResult"
    /\ resReg' = TRUE
    /\ pc' = "enterResult"
    /\ UNCHANGED <<cur, keyID, meta, pubVars, rec, cached, srv, resSub, nodeVars>>

RegisterResult ==
    /\ pc = "regResult"
    /\ resReg' = TRUE
    /\ pc' = "replayResult"
    /\ UNCHANGED <<cur, keyID, meta, pubVars, rec, cached, srv, resSub, nodeVars>>

\* Submit takes a record only with Status 40.  While the handler fills the
\* record in, the unsynchronised read of Status may return 10 or 40.
ReplayResult ==
    /\ pc = "replayResult"
    /\ \/ /\ cur \in cached
          /\ rec[cur] \in Reports
          /\ resSub' = resSub \cup {cur}
       \/ /\ ~(cur \in cached /\ rec[cur] \in Reports /\ srv[cur] # "fill")
          /\ UNCHANGED resSub
    /\ Loop("enterResult")
    /\ UNCHANGED <<keyID, meta, pubVars, rec, cached, srv, resReg, nodeVars>>

BlockResult ==
    /\ pc = "enterResult"
    /\ resSub # Nodes
    /\ pc' = "waitResult"
    /\ UNCHANGED <<cur, keyID, meta, pubVars, resVars, nodeVars>>

ResultReady ==
    /\ pc \in {"enterResult", "waitResult"}
    /\ resSub = Nodes
    /\ pc' = "check"
    /\ UNCHANGED <<cur, keyID, meta, pubVars, resVars, nodeVars>>

\* Mutant of ResultTimeout: Wait ignores the context.
ResultTimeoutNever == pc = "waitResult" /\ resSub = Nodes /\ Fail

ResultTimeout == pc = "waitResult" /\ Fail

\* The values an unlocked read of a field of node n's record can return: the
\* one reported or, while the handler still fills the record in, the old one.
KeyReads(n) ==
    {IF rec[n] \in Keys THEN rec[n] ELSE NoKey}
        \cup (IF srv[n] = "fill" THEN {NoKey} ELSE {})
ErrReads(n) ==
    {rec[n] = Error} \cup (IF srv[n] = "fill" THEN {FALSE} ELSE {})

Reads(field(_), vals) == {f \in [Nodes -> vals] : \A n \in Nodes : f[n] \in field(n)}

\* Mutants of Agree: without the second loop, the check of the root public keys;
\* and with a second loop that skips empty values as the first one does.
AgreeOnKeyID(err, key, root, k) ==
    /\ \A n \in Nodes : ~err[n]
    /\ \E m \in Nodes : \A n \in Nodes : key[n] = IF n < m THEN NoKey ELSE k

AgreeSkippingEmpty(err, key, root, k) ==
    /\ AgreeOnKeyID(err, key, root, k)
    /\ \E m \in Nodes : \A n \in Nodes : root[n] = IF n < m THEN NoKey ELSE root[m]

\* The two loops over the results: no Err; from the first non-empty KeyID k on,
\* every KeyID is k (empty ones before it are skipped); and no RootPubHex is
\* empty or differs from another.
Agree(err, key, root, k) ==
    /\ \A n \in Nodes : ~err[n]
    /\ \E m \in Nodes : \A n \in Nodes : key[n] = IF n < m THEN NoKey ELSE k
    /\ \A n \in Nodes : root[n] # NoKey
    /\ \A m, n \in Nodes : root[m] = root[n]

CheckResults ==
    /\ pc = "check"
    /\ \E err \in Reads(ErrReads, BOOLEAN),
          key, root \in Reads(KeyReads, Keys \cup {NoKey}) :
          \/ /\ \A k \in Keys : ~Agree(err, key, root, k)
             /\ Fail
          \/ \E k \in Keys :
                /\ Agree(err, key, root, k)
                /\ keyID' = k
                /\ pc' = "create"
                /\ UNCHANGED <<cur, meta, pubVars, resVars, nodeVars>>

\* os.WriteFile: the file is created empty, then written; either can fail.
CreateMeta ==
    /\ pc = "create"
    /\ meta' = "partial"
    /\ pc' = "write"
    /\ UNCHANGED <<cur, keyID, pubVars, resVars, nodeVars>>

WriteMeta ==
    /\ pc = "write"
    /\ meta' = "whole"
    /\ pc' = "clean"
    /\ UNCHANGED <<cur, keyID, pubVars, resVars, nodeVars>>

WriteFails == pc \in {"create", "write"} /\ Fail

\* Success deletes the task's cache entries, node after node, and returns.
CleanUp ==
    /\ pc = "clean"
    /\ cached' = cached \ {cur}
    /\ pubCache' = pubCache \ {cur}
    /\ \/ /\ cur < N
          /\ cur' = cur + 1
          /\ UNCHANGED <<pc, pubReg, pubSub, resReg, resSub>>
       \/ cur = N /\ Return("done")
    /\ UNCHANGED <<keyID, meta, slow, pubH, rec, srv, nodeVars>>

\* The process dies: memory and the running handlers are gone, the KeyMeta file
\* stays as it is.  The restarted server knows nothing of the task.
Crash ==
    /\ pc \notin Returned
    /\ Return("crashed")
    /\ pubCache' = {} /\ cached' = {}
    /\ srv' = [n \in Nodes |-> "idle"]
    /\ UNCHANGED <<keyID, meta, slow, pubH, rec, nodeVars>>

-----------------------------------------------------------------------------
(* The handlers of the nodes' POSTs, each in its own goroutine.  A node's   *)
(* second POST follows the answer to the first, its 30 s or a reconnect:    *)
(* the handlers of one node's POSTs (srv) do not overlap.                   *)

\* handleTempPublicKey: into the cache, and to the collector if one is registered.  It
\* is from before the first push until the timer or a return.  A timer between the two
\* is as good as one before both or, if the replay has found the key by then, after both.
ReceivePub(n) ==
    /\ pubH[n] = "asked"
    /\ pubH' = [pubH EXCEPT ![n] = "done"]
    /\ pubCache' = pubCache \cup {n}
    /\ pubSub' = IF pubReg THEN pubSub \cup {n} ELSE pubSub
    /\ UNCHANGED <<coordVars, slow, pubReg, resVars, nodeVars>>

\* The answer to a POST of mpcKeygenResult reaches the node that waits for it
\* (of an error report the node ignores the answer), or it is lost.
Answer(n, x, ok) ==
    \/ UNCHANGED node
    \/ /\ node[n] = "wait"
       /\ x # Error
       /\ node' = [node EXCEPT ![n] = IF ok THEN "end" ELSE "fail"]

\* handleMpcKeygenResult, "task not found or expired".
RejectReport(n, x) ==
    /\ <<n, x>> \in net
    /\ srv[n] = "idle"
    /\ n \notin cached
    /\ net' = net \ {<<n, x>>}
    /\ Answer(n, x, FALSE)
    /\ UNCHANGED <<coordVars, pubVars, resVars, share>>

\* handleMpcKeygenResult, Status is 40 already: OK, and nothing changes.
RepeatReport(n, x) ==
    /\ <<n, x>> \in net
    /\ srv[n] = "idle"
    /\ n \in cached
    /\ rec[n] \in Reports
    /\ net' = net \ {<<n, x>>}
    /\ Answer(n, x, TRUE)
    /\ UNCHANGED <<coordVars, pubVars, resVars, share>>

\* Mutant of RecordReport: no test of Status, the last report wins.
RecordAnyReport(n, x) ==
    /\ <<n, x>> \in net
    /\ srv[n] = "idle"
    /\ n \in cached
    /\ net' = net \ {<<n, x>>}
    /\ rec' = [rec EXCEPT ![n] = x]
    /\ srv' = [srv EXCEPT ![n] = "fill"]
    /\ UNCHANGED <<coordVars, pubVars, cached, resReg, resSub, node, share>>

\* handleMpcKeygenResult, the first report: the shared record is filled in ...
RecordReport(n, x) ==
    /\ <<n, x>> \in net
    /\ srv[n] = "idle"
    /\ n \in cached
    /\ rec[n] = "fresh"
    /\ net' = net \ {<<n, x>>}
    /\ rec' = [rec EXCEPT ![n] = x]
    /\ srv' = [srv EXCEPT ![n] = "fill"]
    /\ UNCHANGED <<coordVars, pubVars, cached, resReg, resSub, node, share>>

\* ... put back into the cache ...
CacheReport(n) ==
    /\ srv[n] = "fill"
    /\ srv' = [srv EXCEPT ![n] = "put"]
    /\ cached' = cached \cup {n}
    /\ UNCHANGED <<coordVars, pubVars, rec, resReg, resSub, nodeVars>>

\* ... and submitted to the collector if one is registered.
SubmitReport(n) ==
    /\ srv[n] = "put"
    /\ srv' = [srv EXCEPT ![n] = "idle"]
    /\ resSub' = IF resReg THEN resSub \cup {n} ELSE resSub
    /\ Answer(n, rec[n], TRUE)
    /\ UNCHANGED <<coordVars, pubVars, rec, cached, resReg, net, share>>

\* The record's 300 s are over.  The coordinator's two waits take at most 125 s
\* each and the record is put between them, so it has returned by then.
ExpireRecord(n) ==
    /\ pc \in Returned
    /\ n \in cached
    /\ cached' = cached \ {n}
    /\ UNCHANGED <<coordVars, pubVars, rec, srv, resReg, resSub, nodeVars>>

-----------------------------------------------------------------------------
(* The nodes, as the coordinator sees them.                                *)

\* HandleMpcKeygenStart passed its checks (else the node stays silent).
StartKeygen(n) ==
    /\ node[n] = "pushed"
    /\ node' = [node EXCEPT ![n] = "run"]
    /\ UNCHANGED <<coordVars, pubVars, resVars, net, share>>

\* endCh delivers (the protocol needs every node's messages for that), and
\* FileKeyStore.Save writes the share file.
FinishKeygen(n, k) ==
    /\ node[n] = "run"
    /\ \A m \in Nodes : node[m] \notin {"off", "pushed"}
    /\ share' = [share EXCEPT ![n] = k]
    /\ node' = [node EXCEPT ![n] = "saved"]
    /\ UNCHANGED <<coordVars, pubVars, resVars, net>>

\* The protocol, its deadline or Save fails.
FailKeygen(n) ==
    /\ node[n] = "run"
    /\ node' = [node EXCEPT ![n] = "fail"]
    /\ UNCHANGED <<coordVars, pubVars, resVars, net, share>>

\* SubmitKeygenResult: POST the key, wait for the answer at most 30 s.
SendResult(n) ==
    /\ node[n] = "saved"
    /\ node' = [node EXCEPT ![n] = "wait"]
    /\ net' = net \cup {<<n, share[n]>>}
    /\ UNCHANGED <<coordVars, pubVars, resVars, share>>

\* The POST fails: no connection, no answer in 30 s, or the answer got lost.  The
\* few assignments of "fill" have no blocking call and are over by then.
GiveUp(n) ==
    /\ node[n] = "wait"
    /\ srv[n] # "fill"
    /\ node' = [node EXCEPT ![n] = "fail"]
    /\ UNCHANGED <<coordVars, pubVars, resVars, net, share>>

\* submitKeygenResultErr: sent once, whatever the answer.
SendError(n) ==
    /\ node[n] = "fail"
    /\ node' = [node EXCEPT ![n] = "end"]
    /\ net' = net \cup {<<n, Error>>}
    /\ UNCHANGED <<coordVars, pubVars, resVars, share>>

-----------------------------------------------------------------------------

Coordinator ==
    \/ Begin \/ PushTemp \/ PushTempFails \/ ReplayPub
    \/ BlockPub \/ PubReady \/ PubTimeout
    \/ PushStart \/ PushStartFails \/ PutRecord \/ RegisterResult \/ ReplayResult
    \/ BlockResult \/ ResultReady \/ ResultTimeout
    \/ CheckResults \/ CreateMeta \/ WriteMeta \/ WriteFails \/ CleanUp

Handler(n) ==
    \/ ReceivePub(n)
    \/ \E x \in Reports : RejectReport(n, x) \/ RepeatReport(n, x) \/ RecordReport(n, x)
    \/ CacheReport(n) \/ SubmitReport(n)

Node(n) ==
    \/ StartKeygen(n) \/ FailKeygen(n) \/ SendResult(n) \/ GiveUp(n) \/ SendError(n)
    \/ \E k \in Keys : FinishKeygen(n, k)

Next ==
    \/ Coordinator
    \/ TimerUnregisters
    \/ Crash
    \/ \E n \in Nodes : Handler(n) \/ ExpireRecord(n) \/ Node(n)

\* The coordinator's goroutine runs on, its waits end by their timeouts; a
\* node's keygen and its POST end by their deadlines.  No network step is fair.
Fairness ==
    /\ WF_vars(Coordinator)
    /\ \A n \in Nodes :
          /\ WF_vars(CacheReport(n) \/ SubmitReport(n))
          /\ WF_vars(FailKeygen(n) \/ SendResult(n) \/ GiveUp(n) \/ SendError(n))

Spec == Init /\ [][Next]_vars

FairSpec == Spec /\ Fairness

-----------------------------------------------------------------------------
(* Properties.                                                             *)

\* The type of every variable.
TypeOK ==
    /\ pc \in {"begin", "pushTemp", "replayPub", "enterPub", "waitPub", "pushStart",
              "putRecord", "regResult", "replayResult", "enterResult", "waitResult",
              "check", "create", "write", "clean"} \cup Returned
    /\ cur \in Nodes \cup {1}
    /\ keyID \in Keys \cup {NoKey}
    /\ meta \in {"none", "partial", "whole"}
    /\ slow \in BOOLEAN /\ pubCache \subseteq Nodes /\ pubReg \in BOOLEAN /\ pubSub \subseteq Nodes
    /\ pubH \in [Nodes -> {"idle", "asked", "done"}]
    /\ rec \in [Nodes -> Reports \cup {"none", "fresh"}]
    /\ cached \subseteq Nodes
    /\ srv \in [Nodes -> {"idle", "fill", "put"}]
    /\ resReg \in BOOLEAN /\ resSub \subseteq Nodes
    /\ net \subseteq Nodes \X Reports
    /\ node \in [Nodes -> {"off", "pushed", "run", "saved", "wait", "fail", "end"}]
    /\ share \in [Nodes -> Keys \cup {NoKey}]

\* A KeyMeta file is begun only for a key of which every node of the task has
\* saved its share on disk and has reported exactly that key: no report that was
\* torn, doubled, late, or of a failure can slip into a wallet.
WalletAgreement ==
    meta # "none" =>
        /\ keyID \in Keys
        /\ \A n \in Nodes : share[n] = keyID /\ rec[n] = keyID

\* No event is lost between the cache and the collectors: once the coordinator
\* waits, a node whose POST has been handled is in the collector, whether the
\* handler ran before, during or after registration and cache replay.  The one
\* exception: after slow pushes the collector's timer comes before the end of the wait,
\* and a key that arrives then stays in the cache, against app/mpc_keygen.go:140.
NoLostEvent ==
    /\ pc \in {"enterPub", "waitPub"} =>
          \A n \in Nodes : pubH[n] = "done" => n \in pubSub \/ (slow /\ ~pubReg)
    /\ pc \in {"enterResult", "waitResult"} =>
          \A n \in Nodes : rec[n] \in Reports /\ srv[n] = "idle" => n \in resSub

\* The first report of a node stands: a repeated POST (after a lost answer, say)
\* never changes what the coordinator reads, in particular never turns the key
\* of a node into a failure or the other way round.
FirstReportWins ==
    [][\A n \in Nodes : rec[n] \in Reports => rec'[n] = rec[n]]_vars

\* createMPCKeygenTaskECDSA returns (or the process dies) and every node that
\* began the keygen comes to rest, whatever the nodes do, even when no POST is ever
\* answered: nobody waits for anybody for ever.
TaskSettles ==
    <>[](/\ pc \in Returned
         /\ \A n \in Nodes : node[n] \in {"off", "pushed", "end"})

\* The comment on the replay (app/mpc_keygen.go:213) promises that no report is
\* lost: as long as the task runs, a report of one of its nodes that reaches the
\* server is recorded.
RunningTaskRecords ==
    [][pc \notin Returned =>
          \A n \in Nodes, x \in Reports :
              <<n, x>> \in net /\ <<n, x>> \notin net' => rec'[n] \in Reports]_vars

\* The task keeps the promise of WalletPromise.
Promise == INSTANCE WalletPromise WITH
    wallet  <- IF meta = "whole" THEN keyID ELSE NoKey,
    outcome <- CASE pc = "done" -> "created"
                 [] pc \in {"failed", "crashed"} -> "failed"
                 [] OTHER -> "pending"

\* Every step of the task is a step of the promise, or one the caller cannot see.
KeepsPromise == Promise!SafeSpec
=============================================================================
