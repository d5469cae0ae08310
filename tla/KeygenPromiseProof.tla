------------------------- MODULE KeygenPromiseProof -------------------------
(***************************************************************************)
(* KeygenTask implements WalletPromise, for any number of nodes and any    *)
(* keys: the file counts as the wallet once it is whole, the return of     *)
(* createMPCKeygenTaskECDSA (or the death of the process) as the outcome.  *)
(***************************************************************************)
EXTENDS KeygenTaskProof

\* How far the KeyMeta file is at each place of the code.
FileInv ==
    /\ pc \notin {"write", "clean"} \cup Returned => meta = "none"
    /\ pc = "write" => meta = "partial"
    /\ pc \in {"clean", "done"} => meta = "whole"

\* The coordinator's steps that neither touch the file nor return.
Busy ==
    /\ pc \notin {"create", "write", "clean"} \cup Returned
    /\ pc' \notin {"write", "clean"} \cup Returned
    /\ UNCHANGED <<meta, share>>
-----------------------------------------------------------------------------
\* Every step of the coordinator is internal, an error return, or one of four
\* steps at the end of a task; none of them saves a share.
LEMMA CoordinatorStep ==
    ASSUME TypeInv, Coordinator
    PROVE  \/ Busy
           \/ CreateMeta \/ WriteMeta \/ CleanUp
           \/ /\ pc \notin Returned /\ pc' = "failed" /\ UNCHANGED <<meta, keyID, share>>
<1> USE DEF Busy, Returned, coordVars, nodeVars
<1>1. CASE Begin
  BY <1>1 DEF Begin
<1>2. CASE PushTemp \/ ReplayPub \/ ReplayResult
  BY <1>2 DEF PushTemp, ReplayPub, ReplayResult, Loop
<1>3. CASE BlockPub \/ PubReady \/ PushStart \/ PutRecord \/ RegisterResult \/ BlockResult
           \/ ResultReady
  BY <1>3 DEF BlockPub, PubReady, PushStart, PutRecord, RegisterResult, BlockResult, ResultReady
<1>4. CASE PushTempFails \/ PubTimeout \/ PushStartFails \/ ResultTimeout \/ WriteFails
  BY <1>4 DEF PushTempFails, PubTimeout, PushStartFails, ResultTimeout, WriteFails, Fail, Return
<1>5. CASE CheckResults
  <2>1. pc = "check"
    BY <1>5 DEF CheckResults
  <2>2. Fail \/ (pc' = "create" /\ UNCHANGED <<meta, share>>)
    BY <1>5 DEF CheckResults
  <2>3. QED
    BY <2>1, <2>2 DEF Fail, Return
<1>6. QED
  BY <1>1, <1>2, <1>3, <1>4, <1>5 DEF Coordinator

\* The handlers and the nodes leave the coordinator's place, key and file alone, and
\* only FinishKeygen saves a share.
LEMMA OtherStep ==
    ASSUME NEW n \in Nodes, Handler(n) \/ ExpireRecord(n) \/ Node(n)
    PROVE  /\ UNCHANGED <<pc, meta, keyID>>
           /\ UNCHANGED share \/ \E k \in Keys : FinishKeygen(n, k)
<1> USE DEF coordVars, nodeVars
<1>1. CASE Handler(n)
  BY <1>1 DEF Handler, ReceivePub, RejectReport, RepeatReport, RecordReport, CacheReport,
              SubmitReport
<1>2. CASE ExpireRecord(n)
  BY <1>2 DEF ExpireRecord
<1>3. CASE Node(n)
  BY <1>3 DEF Node, StartKeygen, FinishKeygen, FailKeygen, SendResult, GiveUp, SendError
<1>4. QED
  BY <1>1, <1>2, <1>3

\* Every step keeps FileInv.
LEMMA FileStep ==
    ASSUME TypeInv, FileInv, [Next]_vars
    PROVE  FileInv'
<1> USE DEF FileInv, Returned
<1>1. CASE Coordinator
  <2>1. CASE Busy
    BY <2>1 DEF Busy
  <2>2. CASE CreateMeta \/ WriteMeta
    BY <2>2 DEF CreateMeta, WriteMeta
  <2>3. CASE CleanUp
    BY <2>3 DEF CleanUp, Return
  <2>4. CASE pc \notin Returned /\ pc' = "failed" /\ UNCHANGED <<meta, keyID, share>>
    BY <2>4
  <2>5. QED
    BY <1>1, <2>1, <2>2, <2>3, <2>4, CoordinatorStep
<1>2. CASE Crash
  BY <1>2 DEF Crash, Return
<1>3. CASE \E n \in Nodes : Handler(n) \/ ExpireRecord(n) \/ Node(n)
  BY <1>3, OtherStep
<1>4. CASE TimerUnregisters
  BY <1>4 DEF TimerUnregisters, coordVars
<1>5. CASE UNCHANGED vars
  BY <1>5 DEF vars, coordVars
<1>6. QED
  BY <1>1, <1>2, <1>3, <1>4, <1>5 DEF Next

\* A task begins as the promise does.
LEMMA PromiseInit == Init => Promise!Init
BY DEF Init, Promise!Init

\* Every step of the task is a step of the promise, or one that the caller of
\* CliCreateWallet cannot see.
LEMMA PromiseStep ==
    ASSUME TypeInv, AgreementInv, FileInv, [Next]_vars
    PROVE  [Promise!Next]_(Promise!vars)
<1> USE DEF FileInv, Returned
<1>1. CASE Coordinator
  <2>1. CASE Busy
    BY <2>1 DEF Busy, Promise!vars
  <2>2. CASE CreateMeta
    BY <2>2 DEF CreateMeta, nodeVars, Promise!vars
  <2>3. CASE WriteMeta
    <3>1. pc = "write" /\ pc' = "clean" /\ meta = "partial" /\ meta' = "whole"
      BY <2>3 DEF WriteMeta
    <3>2. UNCHANGED <<keyID, share>>
      BY <2>3 DEF WriteMeta, nodeVars
    <3>3. keyID \in Keys /\ \A n \in Nodes : share[n] = keyID
      BY <3>1 DEF AgreementInv, AgreedInv
    <3>4. Promise!Publish(keyID)
      BY <3>1, <3>2, <3>3 DEF Promise!Publish
    <3>5. QED
      BY <3>3, <3>4 DEF Promise!Next
  <2>4. CASE CleanUp
    <3>1. pc = "clean" /\ meta = "whole" /\ UNCHANGED <<meta, keyID, share>>
      BY <2>4 DEF CleanUp, nodeVars
    <3>2. CASE pc' = pc
      BY <3>1, <3>2 DEF Promise!vars
    <3>3. CASE pc' = "done"
      <4>1. keyID \in Keys /\ keyID # NoKey
        BY <3>1, Distinct DEF AgreementInv, AgreedInv
      <4>2. Promise!ReturnWallet
        BY <3>1, <3>3, <4>1 DEF Promise!ReturnWallet
      <4>3. QED
        BY <4>2 DEF Promise!Next
    <3>4. QED
      BY <2>4, <3>2, <3>3 DEF CleanUp, Return
  <2>5. CASE pc \notin Returned /\ pc' = "failed" /\ UNCHANGED <<meta, keyID, share>>
    BY <2>5 DEF Promise!Next, Promise!ReturnError
  <2>6. QED
    BY <1>1, <2>1, <2>2, <2>3, <2>4, <2>5, CoordinatorStep
<1>2. CASE Crash
  BY <1>2 DEF Crash, Return, nodeVars, Promise!Next, Promise!ReturnError
<1>3. ASSUME NEW n \in Nodes, Handler(n) \/ ExpireRecord(n) \/ Node(n)
      PROVE  [Promise!Next]_(Promise!vars)
  <2>1. UNCHANGED <<pc, meta, keyID>>
    BY <1>3, OtherStep
  <2>2. CASE UNCHANGED share
    BY <2>1, <2>2 DEF Promise!vars
  <2>3. ASSUME NEW k \in Keys, FinishKeygen(n, k)
        PROVE  Promise!Next
    <3>1. share[n] = NoKey
      BY <2>3 DEF FinishKeygen, AgreementInv, UnsavedInv
    <3>2. Promise!SaveShare(n, k)
      BY <2>1, <2>3, <3>1 DEF FinishKeygen, Promise!SaveShare
    <3>3. QED
      BY <3>2 DEF Promise!Next
  <2>4. QED
    BY <1>3, <2>2, <2>3, OtherStep
<1>4. CASE TimerUnregisters
  BY <1>4 DEF TimerUnregisters, coordVars, nodeVars, Promise!vars
<1>5. CASE UNCHANGED vars
  BY <1>5 DEF vars, coordVars, nodeVars, Promise!vars
<1>6. QED
  BY <1>1, <1>2, <1>3, <1>4, <1>5 DEF Next

\* KeygenTask implements WalletPromise (without its liveness, which stays with TLC):
\* shares are saved once, a wallet is published once and only for the key of which
\* every node stores a share, and the call has one outcome.
THEOREM KeepsPromiseCorrect == Spec => KeepsPromise
<1>1. Init => FileInv
  BY DEF Init, FileInv, Returned
<1>2. TypeInv /\ FileInv /\ [Next]_vars => FileInv'
  BY FileStep
<1>3. TypeInv /\ AgreementInv /\ FileInv /\ [Next]_vars => [Promise!Next]_(Promise!vars)
  BY PromiseStep
<1>4. QED
  BY <1>1, <1>2, <1>3, PromiseInit, TypeInvariant, AgreementInvariant, PTL
  DEF Spec, KeepsPromise, Promise!SafeSpec
=============================================================================
