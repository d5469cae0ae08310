--------------------------- MODULE KeygenTaskProof ---------------------------
(***************************************************************************)
(* Proofs about KeygenTask, for any number of online nodes and any set of  *)
(* keys.  The inductive invariants are TypeInv (the types, with the ranges *)
(* of the loops), AgreementInv (where a report comes from: a share on      *)
(* disk, then the net, then the record) and EventInv (what the cache holds *)
(* while the coordinator still has to look, and which collectors are       *)
(* registered where).                                                      *)
(***************************************************************************)
EXTENDS KeygenTask, TLAPS

Running == pc \notin {"begin"} \cup Returned

\* The task got past the check of the number of nodes.
SizeInv == Running => N \in {3, 5}

\* A node reports a key only when it has saved a share ...
SavedInv == \A n \in Nodes : node[n] \in {"saved", "wait"} => share[n] \in Keys

TypeInv == TypeOK /\ SizeInv /\ SavedInv

\* ... and saves once: a node is pushed mpcKeygenStart once, and not running before.
UnsavedInv ==
    /\ \A n \in Nodes : node[n] \in {"off", "pushed", "run"} => share[n] = NoKey
    /\ pc \in {"begin", "pushTemp", "replayPub", "enterPub", "waitPub"} =>
          \A n \in Nodes : node[n] = "off"
    /\ pc = "pushStart" => \A n \in Nodes : n >= cur => node[n] = "off"
    /\ pc = "putRecord" => \A n \in Nodes : n > cur => node[n] = "off"

\* A key on the wire or in a record is the key of that node's share.
ReportInv ==
    \A n \in Nodes, k \in Keys :
        /\ <<n, k>> \in net => share[n] = k
        /\ rec[n] = k => share[n] = k

\* From the check of the results on, all nodes agree on keyID.
AgreedInv ==
    pc \in {"create", "write", "clean", "done"} =>
        /\ keyID \in Keys
        /\ \A n \in Nodes : share[n] = keyID /\ rec[n] = keyID

MetaInv == meta # "none" => pc \in {"write", "clean"} \cup Returned

AgreementInv == UnsavedInv /\ ReportInv /\ AgreedInv /\ MetaInv /\ WalletAgreement

\* A node's record is put once: until then it does not exist.
NoRecordInv ==
    /\ pc \in {"begin", "pushTemp", "replayPub", "enterPub", "waitPub"} =>
          \A n \in Nodes : rec[n] = "none"
    /\ pc \in {"pushStart", "putRecord"} =>
          \A n \in Nodes : n >= cur => rec[n] = "none"

\* The result records are in the cache when the replay looks for them.
CachedInv ==
    /\ pc \in {"pushStart", "putRecord"} => \A m \in Nodes : m < cur => m \in cached
    /\ pc \in {"regResult", "replayResult"} => cached = Nodes

\* The collectors are registered while the coordinator needs them, unless the pushes
\* were slow.
RegisteredInv ==
    /\ Running => pubReg \/ slow
    /\ pc \in {"replayResult", "enterResult", "waitResult"} => resReg

\* A handled event is in the collector, or the replay has yet to come to it, or the
\* key collector's timer was too early.
CollectedInv ==
    /\ pc = "begin" => \A n \in Nodes : pubH[n] = "idle"
    /\ Running /\ pubReg => \A n \in Nodes : pubH[n] = "done" => n \in pubSub
    /\ pc = "replayResult" =>
          \A n \in Nodes : n < cur /\ rec[n] \in Reports /\ srv[n] = "idle" => n \in resSub
    /\ pc \in {"enterResult", "waitResult"} =>
          \A n \in Nodes : rec[n] \in Reports /\ srv[n] = "idle" => n \in resSub

\* A loop starts at the first node.
CursorInv ==
    pc \in {"enterPub", "waitPub", "regResult"} => cur = 1

EventInv == NoRecordInv /\ CursorInv /\ CachedInv /\ RegisteredInv /\ CollectedInv

-----------------------------------------------------------------------------
\* Every step of the coordinator, a handler or a node keeps the type invariant.
LEMMA TypeStep ==
    ASSUME TypeInv, [Next]_vars
    PROVE  TypeInv'
<1> USE NAssumption DEF TypeInv, TypeOK, SizeInv, SavedInv, Running, Returned,
                        Nodes, Reports, coordVars, pubVars, resVars, nodeVars
<1>1. CASE Begin
  BY <1>1 DEF Begin
<1>2. CASE PushTemp
  <2>1. slow' \in BOOLEAN
    BY <1>2 DEF PushTemp
  <2>2. /\ pc' \in {"pushTemp", "replayPub"} /\ cur' \in Nodes \cup {1} /\ pc = "pushTemp"
        /\ pubH' \in [Nodes -> {"idle", "asked", "done"}]
        /\ UNCHANGED <<keyID, meta, pubCache, pubReg, pubSub, resVars, nodeVars>>
    BY <1>2 DEF PushTemp, Loop
  <2>3. QED
    BY <2>1, <2>2
<1>3. CASE PushTempFails
  BY <1>3 DEF PushTempFails, Fail, Return
<1>4. CASE ReplayPub
  BY <1>4 DEF ReplayPub, Loop
<1>5. CASE BlockPub
  BY <1>5 DEF BlockPub
<1>6. CASE PubReady
  BY <1>6 DEF PubReady
<1>7. CASE PubTimeout
  BY <1>7 DEF PubTimeout, Fail, Return
<1>8. CASE PushStart
  BY <1>8 DEF PushStart
<1>9. CASE PushStartFails
  BY <1>9 DEF PushStartFails, Fail, Return
<1>10. CASE PutRecord
  BY <1>10 DEF PutRecord
<1>11. CASE RegisterResult
  BY <1>11 DEF RegisterResult
<1>12. CASE ReplayResult
  <2>1. resSub' \in {resSub, resSub \cup {cur}}
    BY <1>12 DEF ReplayResult
  <2>0. cur \in cached \/ resSub' = resSub
    BY <1>12 DEF ReplayResult
  <2>2. QED
    BY <1>12, <2>1, <2>0 DEF ReplayResult, Loop
<1>13. CASE BlockResult
  BY <1>13 DEF BlockResult
<1>14. CASE ResultReady
  BY <1>14 DEF ResultReady
<1>15. CASE ResultTimeout
  BY <1>15 DEF ResultTimeout, Fail, Return
<1>16. CASE CheckResults
  <2>1. \/ Fail /\ pc = "check"
        \/ /\ keyID' \in Keys
           /\ pc = "check" /\ pc' = "create"
           /\ UNCHANGED <<cur, meta, pubVars, resVars, nodeVars>>
    BY <1>16 DEF CheckResults
  <2>2. QED
    BY <2>1 DEF Fail, Return
<1>17. CASE CreateMeta
  BY <1>17 DEF CreateMeta
<1>18. CASE WriteMeta
  BY <1>18 DEF WriteMeta
<1>19. CASE WriteFails
  BY <1>19 DEF WriteFails, Fail, Return
<1>20. CASE CleanUp
  <2>1. cached' \subseteq Nodes /\ pubCache' \subseteq Nodes
    BY <1>20 DEF CleanUp
  <2>2. cur' \in Nodes \cup {1} /\ pc' \in {"clean", "done"}
    BY <1>20 DEF CleanUp, Return
  <2>3. /\ pubReg' \in BOOLEAN /\ pubSub' \subseteq Nodes
        /\ resReg' \in BOOLEAN /\ resSub' \subseteq Nodes
    BY <1>20 DEF CleanUp, Return
  <2>4. pc = "clean" /\ UNCHANGED <<keyID, meta, slow, pubH, rec, srv, nodeVars>>
    BY <1>20 DEF CleanUp
  <2>5. QED
    BY <2>1, <2>2, <2>3, <2>4
<1>21. CASE Crash
  BY <1>21 DEF Crash, Return
<1>22. ASSUME NEW n \in Nodes, ReceivePub(n) PROVE TypeInv'
  BY <1>22 DEF ReceivePub
<1>23. ASSUME NEW n \in Nodes, CacheReport(n) PROVE TypeInv'
  BY <1>23 DEF CacheReport
<1>24. ASSUME NEW n \in Nodes, SubmitReport(n) PROVE TypeInv'
  BY <1>24 DEF SubmitReport, Answer
<1>25. ASSUME NEW n \in Nodes, ExpireRecord(n) PROVE TypeInv'
  BY <1>25 DEF ExpireRecord
<1>26. ASSUME NEW n \in Nodes, StartKeygen(n) PROVE TypeInv'
  BY <1>26 DEF StartKeygen
<1>27. ASSUME NEW n \in Nodes, FailKeygen(n) PROVE TypeInv'
  BY <1>27 DEF FailKeygen
<1>28. ASSUME NEW n \in Nodes, SendResult(n) PROVE TypeInv'
  BY <1>28 DEF SendResult
<1>29. ASSUME NEW n \in Nodes, GiveUp(n) PROVE TypeInv'
  BY <1>29 DEF GiveUp
<1>30. ASSUME NEW n \in Nodes, SendError(n) PROVE TypeInv'
  BY <1>30 DEF SendError
<1>31. ASSUME NEW n \in Nodes, NEW x \in Reports, RejectReport(n, x) PROVE TypeInv'
  BY <1>31 DEF RejectReport, Answer
<1>32. ASSUME NEW n \in Nodes, NEW x \in Reports, RepeatReport(n, x) PROVE TypeInv'
  BY <1>32 DEF RepeatReport, Answer
<1>33. ASSUME NEW n \in Nodes, NEW x \in Reports, RecordReport(n, x) PROVE TypeInv'
  BY <1>33 DEF RecordReport
<1>34. ASSUME NEW n \in Nodes, NEW k \in Keys, FinishKeygen(n, k) PROVE TypeInv'
  BY <1>34 DEF FinishKeygen
<1>35. CASE TimerUnregisters
  BY <1>35 DEF TimerUnregisters
<1>36. CASE UNCHANGED vars
  BY <1>36 DEF vars
<1>37. QED
  BY <1>1, <1>2, <1>3, <1>4, <1>5, <1>6, <1>7, <1>8, <1>9, <1>10, <1>11, <1>12,
     <1>13, <1>14, <1>15, <1>16, <1>17, <1>18, <1>19, <1>20, <1>21, <1>22, <1>23, <1>24,
     <1>25, <1>26, <1>27, <1>28, <1>29, <1>30, <1>31, <1>32, <1>33, <1>34, <1>35,
     <1>36
  DEF Next, Coordinator, Handler, Node

\* No key is one of the words a record can hold instead of a key.
LEMMA Distinct == NoKey \notin Keys /\ Error \notin Keys /\ "fresh" \notin Keys
BY KeysAssumption

\* Only PutRecord and RecordReport write a record; all other code leaves rec alone.
LEMMA RecordFrame ==
    ASSUME [Next]_vars
    PROVE  \/ PutRecord
           \/ \E n \in Nodes, x \in Reports : RecordReport(n, x)
           \/ UNCHANGED rec
<1> USE DEF resVars
<1>1. CASE Coordinator
  <2>1. Fail => UNCHANGED rec
    BY DEF Fail
  <2>2. QED
    BY <1>1, <2>1
    DEF Coordinator, Begin, PushTemp, PushTempFails, ReplayPub, BlockPub, PubReady, PubTimeout,
        PushStart, PushStartFails, RegisterResult, ReplayResult, BlockResult, ResultReady,
        ResultTimeout, CheckResults, CreateMeta, WriteMeta, WriteFails, CleanUp
<1>2. CASE Crash
  BY <1>2 DEF Crash
<1>3. ASSUME NEW n \in Nodes, Handler(n)
      PROVE  (\E x \in Reports : RecordReport(n, x)) \/ UNCHANGED rec
  BY <1>3 DEF Handler, ReceivePub, RejectReport, RepeatReport, CacheReport, SubmitReport
<1>4. ASSUME NEW n \in Nodes, ExpireRecord(n) \/ Node(n)
      PROVE  UNCHANGED rec
  BY <1>4 DEF ExpireRecord, Node, StartKeygen, FinishKeygen, FailKeygen, SendResult, GiveUp,
              SendError
<1>5. CASE TimerUnregisters
  BY <1>5 DEF TimerUnregisters
<1>6. CASE UNCHANGED vars
  BY <1>6 DEF vars
<1>7. QED
  BY <1>1, <1>2, <1>3, <1>4, <1>5, <1>6 DEF Next

\* What the two loops over the results let pass is the key every record really
\* holds, although each field is read without a lock while a handler may be
\* filling the record in: a torn read shows up as an empty field.
LEMMA CheckedKey ==
    ASSUME CheckResults
    PROVE  \/ Fail /\ pc = "check"
           \/ \E k \in Keys :
                 /\ keyID' = k
                 /\ pc = "check" /\ pc' = "create"
                 /\ UNCHANGED <<cur, meta, pubVars, resVars, nodeVars>>
                 /\ \A n \in Nodes : rec[n] = k
<1>1. CASE Fail
  BY <1>1 DEF CheckResults
<1>2. CASE ~Fail
  <2>1. PICK err \in Reads(ErrReads, BOOLEAN),
             key \in Reads(KeyReads, Keys \cup {NoKey}),
             root \in Reads(KeyReads, Keys \cup {NoKey}), k \in Keys :
               /\ Agree(err, key, root, k)
               /\ keyID' = k
               /\ pc' = "create"
               /\ UNCHANGED <<cur, meta, pubVars, resVars, nodeVars>>
    BY <1>2 DEF CheckResults
  <2>2. \A n \in Nodes : root[n] = rec[n]
    BY <2>1 DEF Agree, Reads, KeyReads
  <2>3. PICK m \in Nodes : key[m] = k
    BY <2>1 DEF Agree, Nodes
  <2>4. rec[m] = k
    BY <2>1, <2>3, Distinct DEF Reads, KeyReads
  <2>5. \A n \in Nodes : rec[n] = k
    BY <2>1, <2>2, <2>4 DEF Agree
  <2>6. QED
    BY <2>1, <2>5 DEF CheckResults
<1>3. QED
  BY <1>1, <1>2

\* A node reports a key only after its share of that key is on its disk.
LEMMA ReportedSaved ==
    ASSUME AgreementInv, NEW k \in Keys, \A n \in Nodes : rec[n] = k
    PROVE  \A n \in Nodes : share[n] = k
BY DEF AgreementInv, ReportInv

\* Every step keeps the invariant behind WalletAgreement.
LEMMA AgreementStep ==
    ASSUME TypeInv, TypeInv', AgreementInv, [Next]_vars
    PROVE  AgreementInv'
<1> USE NAssumption, Distinct
    DEF TypeInv, TypeOK, AgreementInv, UnsavedInv, ReportInv, AgreedInv, MetaInv,
        WalletAgreement, Returned, Nodes, Reports,
        coordVars, pubVars, resVars, nodeVars
<1>1. CASE Begin
  BY <1>1 DEF Begin
<1>2. CASE PushTemp
  BY <1>2 DEF PushTemp, Loop
<1>3. CASE PushTempFails
  BY <1>3 DEF PushTempFails, Fail, Return
<1>4. CASE ReplayPub
  BY <1>4 DEF ReplayPub, Loop
<1>5. CASE BlockPub
  BY <1>5 DEF BlockPub
<1>6. CASE PubReady
  BY <1>6 DEF PubReady
<1>7. CASE PubTimeout
  BY <1>7 DEF PubTimeout, Fail, Return
<1>8. CASE PushStart
  BY <1>8 DEF PushStart
<1>9. CASE PushStartFails
  BY <1>9 DEF PushStartFails, Fail, Return
<1>10. CASE PutRecord
  BY <1>10 DEF PutRecord
<1>11. CASE RegisterResult
  BY <1>11 DEF RegisterResult
<1>12. CASE ReplayResult
  BY <1>12 DEF ReplayResult, Loop
<1>13. CASE BlockResult
  BY <1>13 DEF BlockResult
<1>14. CASE ResultReady
  BY <1>14 DEF ResultReady
<1>15. CASE ResultTimeout
  BY <1>15 DEF ResultTimeout, Fail, Return
<1>16. CASE CheckResults
  <2>1. CASE Fail /\ pc = "check"
    BY <2>1 DEF Fail, Return
  <2>2. CASE \E k \in Keys : /\ keyID' = k
                            /\ pc = "check" /\ pc' = "create"
                            /\ UNCHANGED <<cur, meta, pubVars, resVars, nodeVars>>
                            /\ \A n \in Nodes : rec[n] = k
    <3>1. PICK k \in Keys : keyID' = k /\ \A n \in Nodes : rec[n] = k
      BY <2>2
    <3>2. /\ pc = "check" /\ pc' = "create"
          /\ UNCHANGED <<meta, rec, net, node, share>>
      BY <2>2
    <3>3. \A n \in Nodes : share[n] = k
      BY <3>1, ReportedSaved
    <3>4. QED
      BY <3>1, <3>2, <3>3
  <2>3. QED
    BY <1>16, <2>1, <2>2, CheckedKey
<1>17. CASE CreateMeta
  BY <1>17 DEF CreateMeta
<1>18. CASE WriteMeta
  BY <1>18 DEF WriteMeta
<1>19. CASE WriteFails
  BY <1>19 DEF WriteFails, Fail, Return
<1>20. CASE CleanUp
  BY <1>20 DEF CleanUp, Return
<1>21. CASE Crash
  BY <1>21 DEF Crash, Return
<1>22. ASSUME NEW n \in Nodes, ReceivePub(n) PROVE AgreementInv'
  BY <1>22 DEF ReceivePub
<1>23. ASSUME NEW n \in Nodes, CacheReport(n) PROVE AgreementInv'
  BY <1>23 DEF CacheReport
<1>24. ASSUME NEW n \in Nodes, SubmitReport(n) PROVE AgreementInv'
  BY <1>24 DEF SubmitReport, Answer
<1>25. ASSUME NEW n \in Nodes, ExpireRecord(n) PROVE AgreementInv'
  BY <1>25 DEF ExpireRecord
<1>26. ASSUME NEW n \in Nodes, StartKeygen(n) PROVE AgreementInv'
  BY <1>26 DEF StartKeygen
<1>27. ASSUME NEW n \in Nodes, FailKeygen(n) PROVE AgreementInv'
  BY <1>27 DEF FailKeygen
<1>28. ASSUME NEW n \in Nodes, SendResult(n) PROVE AgreementInv'
  BY <1>28 DEF SendResult
<1>29. ASSUME NEW n \in Nodes, GiveUp(n) PROVE AgreementInv'
  BY <1>29 DEF GiveUp
<1>30. ASSUME NEW n \in Nodes, SendError(n) PROVE AgreementInv'
  BY <1>30 DEF SendError
<1>31. ASSUME NEW n \in Nodes, NEW x \in Reports, RejectReport(n, x) PROVE AgreementInv'
  BY <1>31 DEF RejectReport, Answer
<1>32. ASSUME NEW n \in Nodes, NEW x \in Reports, RepeatReport(n, x) PROVE AgreementInv'
  BY <1>32 DEF RepeatReport, Answer
<1>33. ASSUME NEW n \in Nodes, NEW x \in Reports, RecordReport(n, x) PROVE AgreementInv'
  BY <1>33 DEF RecordReport
<1>34. ASSUME NEW n \in Nodes, NEW k \in Keys, FinishKeygen(n, k) PROVE AgreementInv'
  BY <1>34 DEF FinishKeygen
<1>35. CASE TimerUnregisters
  BY <1>35 DEF TimerUnregisters
<1>36. CASE UNCHANGED vars
  BY <1>36 DEF vars
<1>37. QED
  BY <1>1, <1>2, <1>3, <1>4, <1>5, <1>6, <1>7, <1>8, <1>9, <1>10, <1>11, <1>12,
     <1>13, <1>14, <1>15, <1>16, <1>17, <1>18, <1>19, <1>20, <1>21, <1>22, <1>23, <1>24,
     <1>25, <1>26, <1>27, <1>28, <1>29, <1>30, <1>31, <1>32, <1>33, <1>34, <1>35,
     <1>36
  DEF Next, Coordinator, Handler, Node

\* Every step keeps the invariant behind NoLostEvent: registration, replay and
\* submission overlap so that a handled report is always on one of the two ways.
LEMMA EventStep ==
    ASSUME TypeInv, TypeInv', EventInv, [Next]_vars
    PROVE  EventInv'
<1> USE NAssumption
    DEF TypeInv, TypeOK, SizeInv, EventInv, NoRecordInv, CursorInv, CachedInv, RegisteredInv, CollectedInv,
        Running, Returned, Nodes, Reports, coordVars, pubVars, resVars, nodeVars
<1>1. CASE Begin
  BY <1>1 DEF Begin
<1>2. CASE PushTemp
  <2>1. slow => slow'
    BY <1>2 DEF PushTemp
  <2>2. \A n \in Nodes : pubH'[n] = "done" => pubH[n] = "done"
    BY <1>2 DEF PushTemp
  <2>3. /\ pc = "pushTemp" /\ pc' \in {"pushTemp", "replayPub"}
        /\ UNCHANGED <<pubReg, pubSub, resVars>>
    BY <1>2 DEF PushTemp, Loop
  <2>4. QED
    BY <2>1, <2>2, <2>3
<1>3. CASE PushTempFails
  BY <1>3 DEF PushTempFails, Fail, Return
<1>4. CASE ReplayPub
  BY <1>4 DEF ReplayPub, Loop
<1>5. CASE BlockPub
  BY <1>5 DEF BlockPub
<1>6. CASE PubReady
  BY <1>6 DEF PubReady
<1>7. CASE PubTimeout
  BY <1>7 DEF PubTimeout, Fail, Return
<1>8. CASE PushStart
  BY <1>8 DEF PushStart
<1>9. CASE PushStartFails
  BY <1>9 DEF PushStartFails, Fail, Return
<1>10. CASE PutRecord
  <2>1. CASE cur < N
    BY <1>10, <2>1 DEF PutRecord
  <2>2. CASE ~(cur < N)
    <3>1. cur = N /\ N \in Nodes
      BY <1>10, <2>2 DEF PutRecord
    <3>2. cached' = Nodes
      <4>1. \A m \in Nodes : m < N => m \in cached
        BY <1>10, <3>1 DEF PutRecord
      <4>2. \A m \in Nodes : m < N \/ m = N
        OBVIOUS
      <4>3. cached' = cached \cup {N}
        BY <1>10, <3>1 DEF PutRecord
      <4>4. QED
        BY <3>1, <4>1, <4>2, <4>3
    <3>3. QED
      BY <1>10, <2>2, <3>2 DEF PutRecord
  <2>3. QED
    BY <2>1, <2>2
<1>11. CASE RegisterResult
  BY <1>11 DEF RegisterResult
<1>12. CASE ReplayResult
  BY <1>12 DEF ReplayResult, Loop
<1>13. CASE BlockResult
  BY <1>13 DEF BlockResult
<1>14. CASE ResultReady
  BY <1>14 DEF ResultReady
<1>15. CASE ResultTimeout
  BY <1>15 DEF ResultTimeout, Fail, Return
<1>16. CASE CheckResults
  <2>1. \/ Fail /\ pc = "check"
        \/ /\ pc = "check" /\ pc' = "create"
           /\ UNCHANGED <<cur, meta, pubVars, resVars, nodeVars>>
    BY <1>16, CheckedKey
  <2>2. QED
    BY <2>1 DEF Fail, Return
<1>17. CASE CreateMeta
  BY <1>17 DEF CreateMeta
<1>18. CASE WriteMeta
  BY <1>18 DEF WriteMeta
<1>19. CASE WriteFails
  BY <1>19 DEF WriteFails, Fail, Return
<1>20. CASE CleanUp
  BY <1>20 DEF CleanUp, Return
<1>21. CASE Crash
  BY <1>21 DEF Crash, Return
<1>22. ASSUME NEW n \in Nodes, ReceivePub(n) PROVE EventInv'
  BY <1>22 DEF ReceivePub
<1>23. ASSUME NEW n \in Nodes, CacheReport(n) PROVE EventInv'
  BY <1>23 DEF CacheReport
<1>24. ASSUME NEW n \in Nodes, SubmitReport(n) PROVE EventInv'
  BY <1>24 DEF SubmitReport, Answer
<1>25. ASSUME NEW n \in Nodes, ExpireRecord(n) PROVE EventInv'
  BY <1>25 DEF ExpireRecord
<1>26. ASSUME NEW n \in Nodes, StartKeygen(n) PROVE EventInv'
  BY <1>26 DEF StartKeygen
<1>27. ASSUME NEW n \in Nodes, FailKeygen(n) PROVE EventInv'
  BY <1>27 DEF FailKeygen
<1>28. ASSUME NEW n \in Nodes, SendResult(n) PROVE EventInv'
  BY <1>28 DEF SendResult
<1>29. ASSUME NEW n \in Nodes, GiveUp(n) PROVE EventInv'
  BY <1>29 DEF GiveUp
<1>30. ASSUME NEW n \in Nodes, SendError(n) PROVE EventInv'
  BY <1>30 DEF SendError
<1>31. ASSUME NEW n \in Nodes, NEW x \in Reports, RejectReport(n, x) PROVE EventInv'
  BY <1>31 DEF RejectReport, Answer
<1>32. ASSUME NEW n \in Nodes, NEW x \in Reports, RepeatReport(n, x) PROVE EventInv'
  BY <1>32 DEF RepeatReport, Answer
<1>33. ASSUME NEW n \in Nodes, NEW x \in Reports, RecordReport(n, x) PROVE EventInv'
  BY <1>33 DEF RecordReport
<1>34. ASSUME NEW n \in Nodes, NEW k \in Keys, FinishKeygen(n, k) PROVE EventInv'
  BY <1>34 DEF FinishKeygen
<1>35. CASE TimerUnregisters
  BY <1>35 DEF TimerUnregisters
<1>36. CASE UNCHANGED vars
  BY <1>36 DEF vars
<1>37. QED
  BY <1>1, <1>2, <1>3, <1>4, <1>5, <1>6, <1>7, <1>8, <1>9, <1>10, <1>11, <1>12,
     <1>13, <1>14, <1>15, <1>16, <1>17, <1>18, <1>19, <1>20, <1>21, <1>22, <1>23, <1>24,
     <1>25, <1>26, <1>27, <1>28, <1>29, <1>30, <1>31, <1>32, <1>33, <1>34, <1>35,
     <1>36
  DEF Next, Coordinator, Handler, Node

\* The type invariant, with the ranges of the loops, holds throughout.
LEMMA TypeInvariant == Spec => []TypeInv
<1>1. Init => TypeInv
  <2>1. Init => TypeOK
    <3> SUFFICES ASSUME Init PROVE TypeOK
      OBVIOUS
    <3>1. /\ pubH \in [Nodes -> {"idle", "asked", "done"}]
          /\ rec \in [Nodes -> Reports \cup {"none", "fresh"}]
          /\ srv \in [Nodes -> {"idle", "fill", "put"}]
          /\ node \in [Nodes -> {"off", "pushed", "run", "saved", "wait", "fail", "end"}]
          /\ share \in [Nodes -> Keys \cup {NoKey}]
      BY DEF Init
    <3>2. QED
      BY <3>1 DEF Init, TypeOK
  <2>2. Init => SizeInv /\ SavedInv
    BY DEF Init, SizeInv, SavedInv, Running
  <2>3. QED
    BY <2>1, <2>2 DEF TypeInv
<1>2. TypeInv /\ [Next]_vars => TypeInv'
  BY TypeStep
<1>3. QED
  BY <1>1, <1>2, PTL DEF Spec

\* Every variable keeps its type.
THEOREM TypeCorrect == Spec => []TypeOK
BY TypeInvariant, PTL DEF TypeInv

\* The invariant behind WalletAgreement holds throughout.
LEMMA AgreementInvariant == Spec => []AgreementInv
<1>1. Init => AgreementInv
  <2>1. Init => UnsavedInv
    BY DEF Init, UnsavedInv
  <2>2. Init => ReportInv
    BY KeysAssumption DEF Init, ReportInv
  <2>3. Init => AgreedInv /\ MetaInv /\ WalletAgreement
    BY DEF Init, AgreedInv, MetaInv, WalletAgreement
  <2>4. QED
    BY <2>1, <2>2, <2>3 DEF AgreementInv
<1>2. TypeInv /\ TypeInv' /\ AgreementInv /\ [Next]_vars => AgreementInv'
  BY AgreementStep
<1>3. QED
  BY <1>1, <1>2, TypeInvariant, PTL DEF Spec

\* The invariant behind NoLostEvent holds throughout.
LEMMA EventInvariant == Spec => []EventInv
<1>1. Init => EventInv
  BY DEF Init, EventInv, NoRecordInv, CursorInv, CachedInv, RegisteredInv, CollectedInv, Running, Returned
<1>2. TypeInv /\ TypeInv' /\ EventInv /\ [Next]_vars => EventInv'
  BY EventStep
<1>3. QED
  BY <1>1, <1>2, TypeInvariant, PTL DEF Spec

\* No KeyMeta file is begun before every node has saved its share of that very
\* key and reported it: for any number of nodes, of keys, and any interleaving.
THEOREM WalletAgreementCorrect == Spec => []WalletAgreement
BY AgreementInvariant, PTL DEF AgreementInv

\* No handled POST is missing from its collector while the coordinator waits, but for a
\* key that comes after the collector's timer, which only slow pushes let be too early.
THEOREM NoLostEventCorrect == Spec => []NoLostEvent
<1>1. EventInv => NoLostEvent
  BY DEF EventInv, RegisteredInv, CollectedInv, NoLostEvent, Running, Returned
<1>2. QED
  BY <1>1, EventInvariant, PTL

\* The first report of a node is never changed by a later one.
THEOREM FirstReportWinsCorrect == Spec => FirstReportWins
<1> DEFINE Kept == \A n \in Nodes : rec[n] \in Reports => rec'[n] = rec[n]
<1>1. ASSUME TypeInv, EventInv, [Next]_vars
      PROVE  [Kept]_vars
  <2>1. CASE PutRecord
    <3>1. "none" \notin Reports
      BY KeysAssumption DEF Reports, Error
    <3>2. \A n \in Nodes : n = cur => rec[n] = "none"
      BY <2>1, <1>1, NAssumption DEF PutRecord, EventInv, NoRecordInv, Nodes
    <3>3. \A n \in Nodes : n # cur => rec'[n] = rec[n]
      BY <2>1, <1>1 DEF PutRecord, TypeInv, TypeOK
    <3>4. QED
      BY <3>1, <3>2, <3>3
  <2>2. CASE \E n \in Nodes, x \in Reports : RecordReport(n, x)
    BY <2>2, <1>1, KeysAssumption DEF RecordReport, TypeInv, TypeOK, Reports, Error
  <2>3. CASE UNCHANGED rec
    BY <2>3
  <2>4. QED
    BY <1>1, <2>1, <2>2, <2>3, RecordFrame
<1>2. QED
  BY <1>1, TypeInvariant, EventInvariant, PTL DEF Spec, FirstReportWins
=============================================================================
