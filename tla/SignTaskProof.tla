--------------------------- MODULE SignTaskProof ---------------------------
(***************************************************************************)
(* Theorems about SignTask, for any number of nodes and any signatures:    *)
(* its types, what a success leaves behind, and that it implements         *)
(* SignPromise.                                                            *)
(***************************************************************************)
EXTENDS SignTask, TLAPS

\* A temporary public key is in the cache or the collector only after its POST, and
\* a node that is still to be asked has not been asked.
KeyInv ==
    /\ \A n \in Nodes : n \in pubCache \cup pubSub => pubH[n] = "done"
    /\ pc \in {"begin", "pushTemp"} => \A n \in Nodes : n >= cur => pubH[n] = "idle"

\* A node that is still to be started has not been started.
StartInv ==
    /\ pc \in {"begin", "pushTemp", "replayPub", "waitPub"} => \A n \in Nodes : node[n] = "off"
    /\ pc = "pushStart" => \A n \in Nodes : n >= cur => node[n] = "off"

\* A report of a signature, wherever it is, is of the signature its node has produced.
TrueInv ==
    /\ \A n \in Nodes, s \in Sigs :
          <<n, s>> \in net \/ srv[n] = s \/ resCache[n] = s \/ resSub[n] = s => sig[n] = s
    /\ \A n \in Nodes : node[n] # "end" => sig[n] = NoSig

\* A node reports once: before its end nothing of its report is anywhere, and while
\* the report is on its way it is nowhere else.
OnceInv ==
    \A n \in Nodes, x \in Reports :
        /\ node[n] # "end" => <<n, x>> \notin net
        /\ node[n] # "end" \/ <<n, x>> \in net =>
              srv[n] = NoSig /\ resCache[n] = NoSig /\ resSub[n] = NoSig
        /\ \A y \in Reports : <<n, x>> \in net /\ <<n, y>> \in net => x = y

\* What the coordinator has achieved at each place of the code.
PlaceInv ==
    /\ pc = "returned" <=> returned # "pending"
    /\ pc \in {"pushStart", "regResult", "replayResult", "waitResult", "check", "clean"} =>
          pubSub = Nodes
    /\ pc \in {"waitResult", "check"} => cur = 1
    /\ pc = "clean" =>
          /\ \E s \in Sigs : Agreed(s)
          /\ \A n \in Nodes : n < cur => n \notin pubCache /\ resCache[n] = NoSig
    /\ returned \in Sigs =>
          /\ \A n \in Nodes : node[n] = "end" /\ pubH[n] = "done"
          /\ pubCache = {} /\ resCache = None /\ ~meta /\ net = {}

IInv == TypeOK /\ KeyInv /\ StartInv /\ TrueInv /\ OnceInv /\ PlaceInv

-----------------------------------------------------------------------------

\* The constants are kept apart from each other.
LEMMA Distinct ==
    /\ NoSig \notin Reports /\ NoSig \notin Sigs /\ Error \notin Sigs
    /\ "pending" \notin Sigs /\ "error" \notin Sigs
BY SigsAssumption DEF NoSig, Error, Reports

\* A loop stays inside the nodes.
LEMMA LoopStep ==
    ASSUME cur \in Nodes, NEW l, Loop(l)
    PROVE  cur' \in Nodes /\ pc' \in {pc, l}
BY NAssumption DEF Loop, Nodes

\* The handlers and the nodes touch nothing of the coordinator's, and of the shared
\* state only what the handler or node n itself owns.
LEMMA OtherStep ==
    ASSUME NEW n \in Nodes, Handler(n) \/ ExpireResult(n) \/ Node(n)
    PROVE  /\ UNCHANGED <<coordVars, pubReg, resReg>>
           /\ \/ ReceivePub(n) \/ SubmitResult(n) \/ ExpireResult(n) \/ StartSign(n)
              \/ FailSign(n)
              \/ \E x \in Reports : ReceiveResult(n, x)
              \/ \E s \in Sigs : FinishSign(n, s)
<1> USE DEF coordVars, nodeVars, pubVars, resVars
<1>1. CASE Handler(n)
  BY <1>1 DEF Handler, ReceivePub, ReceiveResult, SubmitResult
<1>2. CASE ExpireResult(n)
  BY <1>2 DEF ExpireResult
<1>3. CASE Node(n)
  BY <1>3 DEF Node, StartSign, FinishSign, FailSign
<1>4. QED
  BY <1>1, <1>2, <1>3

\* The types hold throughout.
LEMMA TypeStep ==
    ASSUME IInv, [Next]_vars
    PROVE  TypeOK'
<1> USE DEF IInv, TypeOK, pubVars, resVars, nodeVars, coordVars
<1>0. 1 \in Nodes /\ None \in [Nodes -> Reports \cup {NoSig}]
  BY NAssumption DEF Nodes, None
<1>1. CASE Fail
  BY <1>1, <1>0 DEF Fail, Return
<1>2. CASE PushTemp
  <2>1. cur' \in Nodes /\ pc' \in {pc, "replayPub"}
    BY <1>2, LoopStep DEF PushTemp
  <2>2. QED
    BY <1>2, <2>1 DEF PushTemp
<1>3. CASE ReplayPub
  BY <1>3, LoopStep DEF ReplayPub
<1>4. CASE PushStart
  BY <1>4, LoopStep DEF PushStart
<1>5. CASE ReplayResult
  <2>1. cur' \in Nodes /\ pc' \in {pc, "waitResult"}
    BY <1>5, LoopStep DEF ReplayResult
  <2>2. resSub' \in [Nodes -> Reports \cup {NoSig}]
    BY <1>5 DEF ReplayResult, Submitted
  <2>3. QED
    BY <1>5, <2>1, <2>2 DEF ReplayResult
<1>6. CASE Begin \/ PubReady \/ RegisterResult \/ ResultReady \/ TimerUnregisters
  BY <1>6 DEF Begin, PubReady, RegisterResult, ResultReady, TimerUnregisters
<1>7. CASE CheckResults
  BY <1>7, <1>1 DEF CheckResults
<1>8. CASE CleanUp
  <2>1. cur < N => cur + 1 \in Nodes
    BY NAssumption DEF Nodes
  <2>2. resSub[1] \in Sigs
    BY <1>8, <1>0 DEF CleanUp, PlaceInv, Agreed
  <2>3. QED
    BY <1>8, <1>0, <2>1, <2>2 DEF CleanUp, Return
<1>9. ASSUME NEW n \in Nodes, Handler(n) \/ ExpireResult(n) \/ Node(n)
      PROVE  TypeOK'
  <2>1. CASE ReceivePub(n) \/ ExpireResult(n) \/ StartSign(n) \/ FailSign(n)
    BY <2>1 DEF ReceivePub, ExpireResult, StartSign, FailSign, Reports
  <2>2. CASE SubmitResult(n)
    BY <2>2 DEF SubmitResult, Submitted
  <2>3. ASSUME NEW x \in Reports, ReceiveResult(n, x)
        PROVE  TypeOK'
    BY <2>3 DEF ReceiveResult
  <2>4. ASSUME NEW s \in Sigs, FinishSign(n, s)
        PROVE  TypeOK'
    BY <2>4 DEF FinishSign, Reports
  <2>5. QED
    BY <1>9, <2>1, <2>2, <2>3, <2>4, OtherStep
<1>10. CASE UNCHANGED vars
  BY <1>10 DEF vars
<1>11. QED
  BY <1>1, <1>2, <1>3, <1>4, <1>5, <1>6, <1>7, <1>8, <1>9, <1>10
  DEF Next, Coordinator, Refuse, PushTempFails, PubTimeout, PushStartFails, ResultTimeout

\* Keys come from nodes that have been asked.
LEMMA KeyStep ==
    ASSUME IInv, [Next]_vars
    PROVE  KeyInv'
<1> USE DEF IInv, KeyInv, pubVars, resVars, nodeVars, coordVars
<1>1. CASE Fail
  BY <1>1 DEF Fail, Return
<1>2. CASE PushTemp
  <2>1. \A n \in Nodes : pubH'[n] = IF n = cur THEN "asked" ELSE pubH[n]
    BY <1>2 DEF PushTemp, TypeOK
  <2>2. pubH[cur] = "idle"
    BY <1>2 DEF PushTemp, TypeOK, Nodes
  <2>3. \A n \in Nodes : n \in pubCache' \cup pubSub' => pubH'[n] = "done"
    BY <1>2, <2>1, <2>2 DEF PushTemp
  <2>4. pc' \in {"begin", "pushTemp"} => \A n \in Nodes : n >= cur' => pubH'[n] = "idle"
    BY <1>2, <2>1 DEF PushTemp, Loop, TypeOK, Nodes
  <2>5. QED
    BY <2>3, <2>4
<1>3. CASE ReplayPub \/ PushStart \/ ReplayResult
  BY <1>3 DEF ReplayPub, PushStart, ReplayResult, Loop
<1>4. CASE Begin \/ PubReady \/ RegisterResult \/ ResultReady \/ TimerUnregisters
  BY <1>4 DEF Begin, PubReady, RegisterResult, ResultReady, TimerUnregisters
<1>5. CASE CheckResults
  BY <1>5, <1>1 DEF CheckResults
<1>6. CASE CleanUp
  BY <1>6 DEF CleanUp, Return
<1>7. ASSUME NEW n \in Nodes, Handler(n) \/ ExpireResult(n) \/ Node(n)
      PROVE  KeyInv'
  <2>1. CASE ReceivePub(n)
    BY <2>1 DEF ReceivePub, TypeOK
  <2>2. CASE ~ReceivePub(n)
    BY <1>7, <2>2, OtherStep
    DEF SubmitResult, ExpireResult, StartSign, FailSign, ReceiveResult, FinishSign
  <2>3. QED
    BY <2>1, <2>2
<1>8. CASE UNCHANGED vars
  BY <1>8 DEF vars
<1>9. QED
  BY <1>1, <1>2, <1>3, <1>4, <1>5, <1>6, <1>7, <1>8
  DEF Next, Coordinator, Refuse, PushTempFails, PubTimeout, PushStartFails, ResultTimeout

\* The steps of the coordinator and its timer move reports only by copying one from
\* the cache to the collector, and forgetting them.
LEMMA CoordinatorStep ==
    ASSUME TypeOK, Coordinator \/ TimerUnregisters
    PROVE  /\ UNCHANGED <<net, sig, srv>>
           /\ \A n \in Nodes : /\ node'[n] = node[n] \/ node'[n] = "pushed"
                               /\ node'[n] # node[n] => PushStart /\ n = cur
                               /\ resCache'[n] \in {resCache[n], NoSig}
                               /\ resSub'[n] \in {resSub[n], resCache[n], NoSig}
<1> USE DEF pubVars, resVars, nodeVars, coordVars, TypeOK
<1>1. CASE Fail
  BY <1>1 DEF Fail, Return, None
<1>2. CASE PushTemp \/ ReplayPub \/ Begin \/ PubReady \/ RegisterResult \/ ResultReady
           \/ TimerUnregisters
  BY <1>2 DEF PushTemp, ReplayPub, Begin, PubReady, RegisterResult, ResultReady,
              TimerUnregisters
<1>3. CASE PushStart
  BY <1>3 DEF PushStart
<1>4. CASE ReplayResult
  BY <1>4 DEF ReplayResult, Submitted
<1>5. CASE CheckResults
  BY <1>5, <1>1 DEF CheckResults
<1>6. CASE CleanUp
  BY <1>6 DEF CleanUp, Return, None
<1>7. QED
  BY <1>1, <1>2, <1>3, <1>4, <1>5, <1>6
  DEF Coordinator, Refuse, PushTempFails, PubTimeout, PushStartFails, ResultTimeout

\* Every node is started at most once.
LEMMA StartStep ==
    ASSUME IInv, [Next]_vars
    PROVE  StartInv'
<1> USE DEF IInv, StartInv, pubVars, resVars, nodeVars, coordVars
<1>1. CASE Fail
  BY <1>1 DEF Fail, Return
<1>2. CASE PushStart
  <2>1. \A n \in Nodes : node'[n] = IF n = cur THEN "pushed" ELSE node[n]
    BY <1>2 DEF PushStart, TypeOK
  <2>2. QED
    BY <1>2, <2>1 DEF PushStart, Loop, TypeOK, Nodes
<1>3. CASE PushTemp \/ ReplayPub \/ ReplayResult
  BY <1>3 DEF PushTemp, ReplayPub, ReplayResult, Loop
<1>4. CASE Begin \/ PubReady \/ RegisterResult \/ ResultReady \/ TimerUnregisters
  BY <1>4 DEF Begin, PubReady, RegisterResult, ResultReady, TimerUnregisters
<1>5. CASE CheckResults
  BY <1>5, <1>1 DEF CheckResults
<1>6. CASE CleanUp
  BY <1>6 DEF CleanUp, Return
<1>7. ASSUME NEW n \in Nodes, Handler(n) \/ ExpireResult(n) \/ Node(n)
      PROVE  StartInv'
  <2>1. UNCHANGED <<pc, cur>> /\ \A m \in Nodes : node[m] = "off" => node'[m] = "off"
    BY <1>7, OtherStep
    DEF TypeOK, ReceivePub, SubmitResult, ExpireResult, StartSign, FailSign, ReceiveResult,
        FinishSign
  <2>2. QED
    BY <2>1
<1>8. CASE UNCHANGED vars
  BY <1>8 DEF vars
<1>9. QED
  BY <1>1, <1>2, <1>3, <1>4, <1>5, <1>6, <1>7, <1>8
  DEF Next, Coordinator, Refuse, PushTempFails, PubTimeout, PushStartFails, ResultTimeout

\* A start goes to a node that is off.
LEMMA PushedOnce ==
    ASSUME IInv, Coordinator \/ TimerUnregisters, NEW n \in Nodes
    PROVE  node'[n] = node[n] \/ (node[n] = "off" /\ node'[n] = "pushed")
<1>1. node'[n] = node[n] \/ (node'[n] = "pushed" /\ PushStart /\ n = cur)
  BY CoordinatorStep DEF IInv
<1>2. PushStart /\ n = cur => node[n] = "off"
  BY DEF PushStart, IInv, StartInv, Nodes
<1>3. QED
  BY <1>1, <1>2

\* Only what a node has produced is reported.
LEMMA TrueStep ==
    ASSUME IInv, [Next]_vars
    PROVE  TrueInv'
<1> USE DEF IInv, TrueInv
<1>1. CASE Coordinator \/ TimerUnregisters
  <2>1. /\ UNCHANGED <<net, sig, srv>>
        /\ \A n \in Nodes : /\ resCache'[n] \in {resCache[n], NoSig}
                            /\ resSub'[n] \in {resSub[n], resCache[n], NoSig}
                            /\ node'[n] # "end" => node[n] # "end"
    BY <1>1, CoordinatorStep, PushedOnce
  <2>2. QED
    BY <2>1, Distinct
<1>2. ASSUME NEW n \in Nodes, Handler(n) \/ ExpireResult(n) \/ Node(n)
      PROVE  TrueInv'
  <2>1. CASE ReceivePub(n)
    BY <2>1 DEF ReceivePub, resVars, nodeVars
  <2>2. CASE SubmitResult(n)
    BY <2>2, Distinct DEF SubmitResult, Submitted, TypeOK, nodeVars
  <2>3. CASE ExpireResult(n)
    BY <2>3, Distinct DEF ExpireResult, TypeOK, nodeVars
  <2>4. CASE StartSign(n) \/ FailSign(n)
    BY <2>4, Distinct DEF StartSign, FailSign, TypeOK, resVars
  <2>5. ASSUME NEW x \in Reports, ReceiveResult(n, x)
        PROVE  TrueInv'
    BY <2>5 DEF ReceiveResult, TypeOK
  <2>6. ASSUME NEW s \in Sigs, FinishSign(n, s)
        PROVE  TrueInv'
    <3>1. \A t \in Sigs : t \in Reports
      BY DEF Reports
    <3>2. node[n] # "end"
      BY <2>6 DEF FinishSign
    <3>3. \A t \in Sigs : /\ <<n, t>> \notin net
                          /\ srv[n] # t /\ resCache[n] # t /\ resSub[n] # t
      BY <3>1, <3>2, Distinct DEF OnceInv
    <3>4. sig' = [sig EXCEPT ![n] = s] /\ net' = net \cup {<<n, s>>}
          /\ UNCHANGED <<srv, resCache, resSub>>
      BY <2>6 DEF FinishSign, resVars
    <3>5. node' = [node EXCEPT ![n] = "end"]
      BY <2>6 DEF FinishSign
    <3>6. QED
      BY <3>3, <3>4, <3>5 DEF TypeOK
  <2>7. QED
    BY <1>2, <2>1, <2>2, <2>3, <2>4, <2>5, <2>6, OtherStep
<1>3. CASE UNCHANGED vars
  BY <1>3 DEF vars, resVars, nodeVars
<1>4. QED
  BY <1>1, <1>2, <1>3 DEF Next

\* A report is in one place of its way.
LEMMA OnceStep ==
    ASSUME IInv, [Next]_vars
    PROVE  OnceInv'
<1> USE DEF IInv, OnceInv
<1>1. CASE Coordinator \/ TimerUnregisters
  <2>1. /\ UNCHANGED <<net, sig, srv>>
        /\ \A n \in Nodes : /\ resCache'[n] \in {resCache[n], NoSig}
                            /\ resSub'[n] \in {resSub[n], resCache[n], NoSig}
                            /\ node'[n] # "end" => node[n] # "end"
    BY <1>1, CoordinatorStep, PushedOnce
  <2>2. QED
    BY <2>1
<1>2. ASSUME NEW n \in Nodes, Handler(n) \/ ExpireResult(n) \/ Node(n)
      PROVE  OnceInv'
  <2>1. CASE ReceivePub(n)
    BY <2>1 DEF ReceivePub, resVars, nodeVars
  <2>2. CASE SubmitResult(n)
    <3>1. srv[n] # NoSig /\ UNCHANGED <<net, node, resCache>>
      BY <2>2 DEF SubmitResult, nodeVars
    <3>2. \A m \in Nodes : m # n => srv'[m] = srv[m] /\ resSub'[m] = resSub[m]
      BY <2>2 DEF SubmitResult, Submitted, TypeOK
    <3>3. node[n] = "end" /\ \A x \in Reports : <<n, x>> \notin net
      BY <3>1 DEF Reports
    <3>4. QED
      BY <3>1, <3>2, <3>3
  <2>3. CASE ExpireResult(n)
    BY <2>3 DEF ExpireResult, TypeOK, nodeVars
  <2>4. CASE StartSign(n)
    BY <2>4 DEF StartSign, TypeOK, resVars
  <2>5. ASSUME NEW x \in Reports, ReceiveResult(n, x)
        PROVE  OnceInv'
    <3>1. /\ <<n, x>> \in net /\ net' = net \ {<<n, x>>}
          /\ UNCHANGED <<node, resSub>>
      BY <2>5 DEF ReceiveResult
    <3>2. \A m \in Nodes : m # n => srv'[m] = srv[m] /\ resCache'[m] = resCache[m]
      BY <2>5 DEF ReceiveResult, TypeOK
    <3>3. node[n] = "end" /\ \A y \in Reports : <<n, y>> \notin net'
      BY <3>1
    <3>4. QED
      BY <3>1, <3>2, <3>3
  <2>6. ASSUME NEW x \in Reports, node[n] # "end", net' = net \cup {<<n, x>>},
               node' = [node EXCEPT ![n] = "end"], UNCHANGED <<srv, resCache, resSub>>
        PROVE  OnceInv'
    BY <2>6 DEF TypeOK
  <2>7. CASE FailSign(n)
    BY <2>6, <2>7 DEF FailSign, Reports, resVars
  <2>8. ASSUME NEW s \in Sigs, FinishSign(n, s)
        PROVE  OnceInv'
    BY <2>6, <2>8 DEF FinishSign, Reports, resVars
  <2>9. QED
    BY <1>2, <2>1, <2>2, <2>3, <2>4, <2>5, <2>7, <2>8, OtherStep
<1>3. CASE UNCHANGED vars
  BY <1>3 DEF vars, resVars, nodeVars
<1>4. QED
  BY <1>1, <1>2, <1>3 DEF Next

\* When the collector is complete, every node has reported and is done, and no report
\* is on its way.
LEMMA CompleteIsLast ==
    ASSUME IInv, \A n \in Nodes : resSub[n] # NoSig
    PROVE  net = {} /\ \A n \in Nodes : node[n] = "end"
<1>1. \A n \in Nodes, x \in Reports : node[n] = "end" /\ <<n, x>> \notin net
  BY DEF IInv, OnceInv
<1>2. Error \in Reports
  BY DEF Reports
<1>3. ASSUME NEW y \in net
      PROVE  FALSE
  <2>1. PICK n \in Nodes, x \in Reports : y = <<n, x>>
    BY DEF IInv, TypeOK
  <2>2. QED
    BY <1>1, <2>1
<1>4. QED
  BY <1>1, <1>2, <1>3

\* The coordinator's last step of a success finds nothing more to come.
LEMMA CleanStep ==
    ASSUME IInv, CleanUp
    PROVE  PlaceInv'
<1> USE DEF IInv
<1>1. PICK s \in Sigs : Agreed(s)
  BY DEF CleanUp, PlaceInv
<1>2. \A n \in Nodes : resSub[n] = s /\ resSub[n] # NoSig
  BY <1>1, Distinct DEF Agreed
<1>3. net = {} /\ \A n \in Nodes : node[n] = "end"
  BY <1>2, CompleteIsLast
<1>4. pubSub = Nodes /\ \A n \in Nodes : pubH[n] = "done"
  BY DEF CleanUp, PlaceInv, KeyInv
<1>5. \A n \in Nodes : n <= cur => n \notin pubCache' /\ resCache'[n] = NoSig
  BY DEF CleanUp, PlaceInv, TypeOK, Nodes
<1>6. UNCHANGED <<net, node, pubH>>
  BY DEF CleanUp, nodeVars
<1>7. CASE cur < N /\ cur' = cur + 1 /\ UNCHANGED <<pc, returned, pubSub, resSub>>
  <2>1. \A n \in Nodes : n < cur' => n <= cur
    BY <1>7 DEF TypeOK, Nodes
  <2>2. returned \notin Sigs
    BY Distinct DEF CleanUp, PlaceInv
  <2>3. QED
    BY <1>1, <1>4, <1>5, <1>7, <2>1, <2>2 DEF PlaceInv, CleanUp, Agreed
<1>8. CASE cur = N /\ meta' = FALSE /\ Return(resSub[1])
  <2>1. \A n \in Nodes : n <= cur
    BY <1>8 DEF Nodes
  <2>2. pubCache' = {} /\ resCache' = None
    BY <1>5, <2>1 DEF TypeOK, CleanUp, None
  <2>3. returned' = s
    BY <1>2, <1>8, NAssumption DEF Return, Nodes
  <2>4. returned' # "pending" /\ pc' = "returned"
    BY <1>8, <2>3, Distinct DEF Return
  <2>5. QED
    BY <1>3, <1>4, <1>6, <1>8, <2>2, <2>4 DEF PlaceInv
<1>9. QED
  BY <1>7, <1>8 DEF CleanUp

\* What the coordinator has achieved stays achieved.
LEMMA PlaceStep ==
    ASSUME IInv, [Next]_vars
    PROVE  PlaceInv'
<1> USE DEF IInv, PlaceInv, pubVars, resVars, nodeVars, coordVars
<1>1. CASE Fail /\ pc # "returned"
  BY <1>1, Distinct DEF Fail, Return
<1>2. CASE PushTemp \/ ReplayPub \/ PushStart \/ ReplayResult
  <2>1. returned = "pending" /\ returned' = "pending" /\ pc' # "clean" /\ pc' # "returned"
    BY <1>2 DEF PushTemp, ReplayPub, PushStart, ReplayResult, Loop
  <2>2. pc' \in {"pushStart", "regResult", "replayResult", "waitResult"} => pubSub' = Nodes
    BY <1>2 DEF PushTemp, ReplayPub, PushStart, ReplayResult, Loop
  <2>3. pc' # "check"
    BY <1>2 DEF PushTemp, ReplayPub, PushStart, ReplayResult, Loop
  <2>4. pc' = "waitResult" => cur' = 1
    BY <1>2 DEF PushTemp, ReplayPub, PushStart, ReplayResult, Loop
  <2>5. QED
    BY <2>1, <2>2, <2>3, <2>4, Distinct
<1>3. CASE Begin \/ PubReady \/ RegisterResult \/ ResultReady
  BY <1>3, Distinct DEF Begin, PubReady, RegisterResult, ResultReady
<1>4. CASE TimerUnregisters
  BY <1>4 DEF TimerUnregisters, Agreed
<1>5. CASE CheckResults
  <2>1. CASE Fail
    BY <1>1, <1>5, <2>1 DEF CheckResults
  <2>2. ASSUME NEW s \in Sigs, Agreed(s), pc' = "clean",
               UNCHANGED <<cur, returned, pubVars, resVars, nodeVars, meta>>
        PROVE  PlaceInv'
    <3>1. cur = 1 /\ \A n \in Nodes : ~(n < cur)
      BY <1>5 DEF CheckResults, Nodes
    <3>2. pubSub = Nodes /\ returned = "pending"
      BY <1>5, Distinct DEF CheckResults, TypeOK
    <3>3. QED
      BY <2>2, <3>1, <3>2, Distinct DEF Agreed
  <2>3. QED
    BY <1>5, <2>1, <2>2 DEF CheckResults
<1>6. CASE CleanUp
  BY <1>6, CleanStep
<1>7. ASSUME NEW n \in Nodes, Handler(n) \/ ExpireResult(n) \/ Node(n)
      PROVE  PlaceInv'
  <2>1. UNCHANGED <<pc, cur, returned, meta>>
    BY <1>7, OtherStep
  <2>2. pubSub = Nodes => pubSub' = Nodes
    BY <1>7, OtherStep
    DEF ReceivePub, SubmitResult, ExpireResult, StartSign, FailSign, ReceiveResult, FinishSign
  <2>3. (\A m \in Nodes : resSub[m] # NoSig) => resSub' = resSub
    BY <1>7, OtherStep
    DEF ReceivePub, SubmitResult, Submitted, ExpireResult, StartSign, FailSign, ReceiveResult,
        FinishSign
  <2>4. CASE pc = "clean"
    <3>1. net = {} /\ \A m \in Nodes : node[m] = "end" /\ resSub[m] # NoSig
      BY <2>4, CompleteIsLast, Distinct DEF Agreed
    <3>2. \A m \in Nodes : pubH[m] = "done"
      BY <2>4 DEF KeyInv
    <3>3. SubmitResult(n)
      BY <1>7, <2>4, <3>1, <3>2, OtherStep
      DEF ReceivePub, ExpireResult, StartSign, FailSign, ReceiveResult, FinishSign
    <3>4. UNCHANGED <<resCache, pubVars, resSub>>
      BY <2>3, <3>1, <3>3 DEF SubmitResult
    <3>5. returned \notin Sigs
      BY <2>4, Distinct
    <3>6. QED
      BY <2>1, <2>4, <3>4, <3>5 DEF Agreed
  <2>5. CASE returned \in Sigs
    <3>1. SubmitResult(n)
      BY <1>7, <2>5, OtherStep, Distinct
      DEF ReceivePub, ExpireResult, StartSign, FailSign, ReceiveResult, FinishSign, None
    <3>2. UNCHANGED <<resCache, pubVars, nodeVars>>
      BY <3>1 DEF SubmitResult
    <3>3. pc = "returned"
      BY <2>5, Distinct
    <3>4. QED
      BY <2>1, <2>5, <3>2, <3>3
  <2>6. CASE pc # "clean" /\ returned \notin Sigs
    BY <2>1, <2>2, <2>6
  <2>7. QED
    BY <2>4, <2>5, <2>6
<1>8. CASE UNCHANGED vars
  BY <1>8 DEF vars, Agreed
<1>9. QED
  BY <1>1, <1>2, <1>3, <1>4, <1>5, <1>6, <1>7, <1>8
  DEF Next, Coordinator, Refuse, PushTempFails, PubTimeout, PushStartFails, ResultTimeout

\* The invariant holds throughout.
LEMMA Invariant == Spec => []IInv
<1>1. Init => IInv
  <2>1. 1 \in Nodes /\ None \in [Nodes -> Reports \cup {NoSig}]
    BY NAssumption DEF Nodes, None
  <2>2. None \in [Nodes -> Sigs \cup {NoSig}]
    BY DEF None
  <2> SUFFICES ASSUME Init PROVE IInv
    OBVIOUS
  <2>4. TypeOK
    BY <2>1, <2>2, NAssumption DEF Init, TypeOK
  <2>5. \A n \in Nodes : srv[n] = NoSig /\ resCache[n] = NoSig /\ resSub[n] = NoSig
                         /\ sig[n] = NoSig /\ node[n] = "off" /\ pubH[n] = "idle"
    BY DEF Init, None
  <2>6. KeyInv /\ StartInv /\ OnceInv
    BY <2>5 DEF Init, KeyInv, StartInv, OnceInv
  <2>7. TrueInv
    BY <2>5, Distinct DEF Init, TrueInv
  <2>8. PlaceInv
    BY Distinct DEF Init, PlaceInv
  <2>9. QED
    BY <2>4, <2>6, <2>7, <2>8 DEF IInv
<1>2. IInv /\ [Next]_vars => IInv'
  BY TypeStep, KeyStep, StartStep, TrueStep, OnceStep, PlaceStep DEF IInv
<1>3. QED
  BY <1>1, <1>2, PTL DEF Spec

\* The types.
THEOREM TypeCorrect == Spec => []TypeOK
BY Invariant, PTL DEF IInv

\* A success leaves nothing of the task in the cache, and no handler is still to put
\* anything there: each node's one report has been handled before.
THEOREM SuccessLeavesNothingCorrect == Spec => []SuccessLeavesNothing
<1>1. IInv => SuccessLeavesNothing
  BY DEF IInv, PlaceInv, SuccessLeavesNothing
<1>2. QED
  BY <1>1, Invariant, PTL

-----------------------------------------------------------------------------

\* Every step of the task is a step of the promise, or one that the caller of
\* SignTransaction cannot see.
LEMMA PromiseStep ==
    ASSUME IInv, [Next]_vars
    PROVE  [Promise!Next]_(Promise!vars)
<1> USE DEF IInv, Promise!vars
<1>1. CASE Fail /\ pc # "returned"
  BY <1>1 DEF Fail, Return, nodeVars, PlaceInv, Promise!Next, Promise!ReturnError
<1>2. CASE PushTemp \/ ReplayPub \/ PushStart \/ ReplayResult \/ Begin \/ PubReady
           \/ RegisterResult \/ ResultReady \/ TimerUnregisters
  BY <1>2 DEF PushTemp, ReplayPub, PushStart, ReplayResult, Begin, PubReady, RegisterResult,
              ResultReady, TimerUnregisters, coordVars, nodeVars
<1>3. CASE CheckResults
  BY <1>1, <1>3 DEF CheckResults, nodeVars
<1>4. CASE CleanUp
  <2>1. PICK s \in Sigs : Agreed(s)
    BY <1>4 DEF CleanUp, PlaceInv
  <2>2. \A n \in Nodes : sig[n] = s
    BY <2>1 DEF Agreed, TrueInv
  <2>3. UNCHANGED sig /\ returned = "pending"
    BY <1>4 DEF CleanUp, nodeVars, PlaceInv
  <2>4. returned' = returned \/ returned' = s
    BY <1>4, <2>1, NAssumption DEF CleanUp, Return, Agreed, Nodes
  <2>5. QED
    BY <2>2, <2>3, <2>4 DEF Promise!Next, Promise!ReturnSignature
<1>5. ASSUME NEW n \in Nodes, Handler(n) \/ ExpireResult(n) \/ Node(n)
      PROVE  [Promise!Next]_(Promise!vars)
  <2>1. UNCHANGED returned
    BY <1>5, OtherStep DEF coordVars
  <2>2. CASE UNCHANGED sig
    BY <2>1, <2>2
  <2>3. ASSUME NEW s \in Sigs, FinishSign(n, s)
        PROVE  Promise!Next
    <3>1. sig[n] = NoSig
      BY <2>3 DEF FinishSign, TrueInv
    <3>2. Promise!Produce(n, s)
      BY <2>1, <2>3, <3>1 DEF FinishSign, Promise!Produce
    <3>3. QED
      BY <3>2 DEF Promise!Next
  <2>4. QED
    BY <1>5, <2>2, <2>3, OtherStep
    DEF ReceivePub, SubmitResult, ExpireResult, StartSign, FailSign, ReceiveResult, resVars,
        nodeVars
<1>6. CASE UNCHANGED vars
  BY <1>6 DEF vars, coordVars, nodeVars
<1>7. QED
  BY <1>1, <1>2, <1>3, <1>4, <1>5, <1>6
  DEF Next, Coordinator, Refuse, PushTempFails, PubTimeout, PushStartFails, ResultTimeout

\* SignTask implements SignPromise: a signature is returned once, and only if every
\* node of the wallet has produced exactly that one.
THEOREM KeepsPromiseCorrect == Spec => KeepsPromise
<1>1. Init => Promise!Init
  BY DEF Init, None, Promise!Init
<1>2. IInv /\ [Next]_vars => [Promise!Next]_(Promise!vars)
  BY PromiseStep
<1>3. QED
  BY <1>1, <1>2, Invariant, PTL DEF Spec, KeepsPromise, Promise!SafeSpec

-----------------------------------------------------------------------------

\* The key collector is registered and holds every key handled, as long as its timer is
\* not too early.
KeyEventInv ==
    /\ pc = "begin" => cur = 1
    /\ pc \in {"pushTemp", "replayPub", "waitPub"} /\ ~slow =>
          pubReg /\ \A n \in Nodes : pubH[n] = "done" => n \in pubSub

\* Until the clean-up, what a handler still has to submit and what the collector holds is
\* what the cache holds.
SameReportInv ==
    pc \notin {"clean", "returned"} =>
        \A n \in Nodes : /\ srv[n] # NoSig => srv[n] = resCache[n]
                         /\ resSub[n] # NoSig => resSub[n] = resCache[n]

\* Behind the loop of the replay the collector holds every report that was handled.
ReplayedInv ==
    /\ pc = "regResult" => cur = 1
    /\ pc \in {"replayResult", "waitResult"} => resReg
    /\ \A n \in Nodes :
          /\ pc = "waitResult" \/ (pc = "replayResult" /\ n < cur)
          /\ resCache[n] # NoSig /\ srv[n] = NoSig
          => resSub[n] = resCache[n]

EventInv == KeyEventInv /\ SameReportInv /\ ReplayedInv

LEMMA EventStep ==
    ASSUME IInv, EventInv, [Next]_vars
    PROVE  EventInv'
<1> USE DEF IInv, EventInv, KeyEventInv, SameReportInv, ReplayedInv,
            pubVars, resVars, nodeVars, coordVars
<1>1. CASE Fail
  BY <1>1 DEF Fail, Return
<1>2. CASE PushTemp
  <2>1. \A n \in Nodes : pubH'[n] = "done" => pubH[n] = "done"
    BY <1>2 DEF PushTemp, TypeOK
  <2>2. (~slow' => ~slow) /\ pc' \in {"pushTemp", "replayPub"}
    <3>1. slow' = slow \/ slow' = TRUE
      BY <1>2 DEF PushTemp
    <3>2. pc = "pushTemp" /\ Loop("replayPub")
      BY <1>2 DEF PushTemp
    <3>3. pc' \in {"pushTemp", "replayPub"}
      BY <3>2 DEF Loop
    <3> QED
      BY <3>1, <3>3
  <2>3. UNCHANGED <<pubReg, pubSub, resCache, resSub, srv>> /\ pc = "pushTemp"
    BY <1>2 DEF PushTemp
  <2> QED
    BY <2>1, <2>2, <2>3
<1>3. CASE ReplayPub
  <2>1. pc = "replayPub" /\ pc' \in {"replayPub", "waitPub"} /\ pubSub \subseteq pubSub'
    BY <1>3 DEF ReplayPub, Loop
  <2>2. UNCHANGED <<slow, pubReg, pubH, resCache, resSub, srv>>
    BY <1>3 DEF ReplayPub
  <2> QED
    BY <2>1, <2>2
<1>4. CASE PushStart
  <2>1. pc = "pushStart" /\ pc' \in {"pushStart", "regResult"} /\ (pc' = "regResult" => cur' = 1)
    BY <1>4 DEF PushStart, Loop
  <2>2. UNCHANGED <<resCache, resSub, srv>>
    BY <1>4 DEF PushStart
  <2> QED
    BY <2>1, <2>2
<1>5. CASE RegisterResult
  BY <1>5 DEF RegisterResult, TypeOK, Nodes
<1>6. CASE ReplayResult
  <2>1. /\ pc = "replayResult" /\ UNCHANGED <<resReg, resCache, srv>>
        /\ \/ pc' = "replayResult" /\ cur' = cur + 1
           \/ pc' = "waitResult" /\ cur = N
    <3>1. pc = "replayResult" /\ UNCHANGED <<resReg, resCache, srv>> /\ Loop("waitResult")
      BY <1>6 DEF ReplayResult
    <3>2. cur \in Nat /\ N \in Nat /\ cur <= N
      BY NAssumption DEF TypeOK, Nodes
    <3> QED
      BY <3>1, <3>2 DEF Loop
  <2>2. ASSUME NEW n \in Nodes
        PROVE  resSub'[n] \in {resSub[n], resCache[n]}
    BY <1>6 DEF ReplayResult, Submitted, TypeOK
  <2>3. resCache[cur] # NoSig => resSub'[cur] = resCache[cur]
    BY <1>6 DEF ReplayResult, Submitted, TypeOK
  <2>4. ASSUME NEW n \in Nodes, pc' = "waitResult" \/ n < cur'
        PROVE  n < cur \/ n = cur
    BY <2>1, <2>4 DEF TypeOK, Nodes
  <2> QED
    BY <2>1, <2>2, <2>3, <2>4
<1>7. CASE Begin
  <2>1. pc = "begin" /\ \A n \in Nodes : pubH[n] # "done"
    BY <1>7 DEF Begin, KeyInv, Nodes
  <2> QED
    BY <1>7, <2>1 DEF Begin
<1>8. CASE PubReady \/ ResultReady
  BY <1>8 DEF PubReady, ResultReady
<1>9. CASE TimerUnregisters
  BY <1>9 DEF TimerUnregisters
<1>10. CASE CheckResults
  BY <1>1, <1>10 DEF CheckResults
<1>11. CASE CleanUp
  BY <1>11 DEF CleanUp, Return
<1>12. ASSUME NEW n \in Nodes, Handler(n) \/ ExpireResult(n) \/ Node(n)
       PROVE  EventInv'
  <2>1. UNCHANGED <<pc, cur, slow, pubReg, resReg>>
    BY <1>12, OtherStep
  <2>2. CASE ReceivePub(n)
    <3>1. UNCHANGED <<resCache, resSub, srv>> /\ \A m \in Nodes : m # n => pubH'[m] = pubH[m]
      BY <2>2 DEF ReceivePub, TypeOK
    <3>2. pubSub \subseteq pubSub' /\ (pubReg => n \in pubSub')
      BY <2>2 DEF ReceivePub
    <3> QED
      BY <2>1, <3>1, <3>2
  <2>3. CASE SubmitResult(n)
    <3>1. srv[n] # NoSig /\ UNCHANGED <<pubVars, resCache>> /\ srv' = [srv EXCEPT ![n] = NoSig]
      BY <2>3 DEF SubmitResult
    <3>2. \A m \in Nodes : m # n => resSub'[m] = resSub[m]
      BY <2>3 DEF SubmitResult, Submitted, TypeOK
    <3>3. resSub'[n] \in {resSub[n], srv[n]}
      BY <2>3 DEF SubmitResult, Submitted, TypeOK
    <3>4. resReg => resSub'[n] = srv[n] \/ (resSub[n] # NoSig /\ resSub'[n] = resSub[n])
      BY <2>3 DEF SubmitResult, Submitted, TypeOK
    <3>5. \A m \in Nodes : srv'[m] = IF m = n THEN NoSig ELSE srv[m]
      BY <3>1 DEF TypeOK
    <3> QED
      BY <2>1, <3>1, <3>2, <3>3, <3>4, <3>5
  <2>4. ASSUME NEW x \in Reports, ReceiveResult(n, x)
        PROVE  EventInv'
    <3>1. resSub[n] = NoSig /\ UNCHANGED <<pubVars, resSub>> /\ x # NoSig
      BY <2>4, Distinct DEF ReceiveResult, OnceInv
    <3>2. \A m \in Nodes : /\ srv'[m] = IF m = n THEN x ELSE srv[m]
                           /\ resCache'[m] = IF m = n THEN x ELSE resCache[m]
      BY <2>4 DEF ReceiveResult, TypeOK
    <3> QED
      BY <2>1, <3>1, <3>2
  <2>5. CASE ExpireResult(n)
    BY <2>1, <2>5 DEF ExpireResult
  <2>6. CASE UNCHANGED <<pubVars, resVars>>
    BY <2>1, <2>6
  <2> QED
    BY <1>12, <2>2, <2>3, <2>4, <2>5, <2>6, OtherStep DEF StartSign, FailSign, FinishSign
<1>13. CASE UNCHANGED vars
  BY <1>13 DEF vars
<1> QED
  BY <1>1, <1>2, <1>3, <1>4, <1>5, <1>6, <1>7, <1>8, <1>9, <1>10, <1>11, <1>12, <1>13
  DEF Next, Coordinator, Refuse, PushTempFails, PubTimeout, PushStartFails, ResultTimeout

\* While the coordinator waits, every POST that has been handled is in its collector: a
\* report whenever its handler ran, a key as long as the pushes were not slow.
THEOREM NoLostEventCorrect == Spec => []NoLostEvent
<1>1. Init => EventInv
  BY DEF Init, EventInv, KeyEventInv, SameReportInv, ReplayedInv, None
<1>2. IInv /\ EventInv /\ [Next]_vars => EventInv'
  BY EventStep
<1>3. EventInv => NoLostEvent
  BY DEF EventInv, KeyEventInv, ReplayedInv, NoLostEvent
<1> QED
  BY <1>1, <1>2, <1>3, Invariant, PTL DEF Spec
=============================================================================
