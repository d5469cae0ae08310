-------------------------- MODULE NodeSessionProof --------------------------
(***************************************************************************)
(* Proofs about NodeSession, for any messages and any capacity.            *)
(***************************************************************************)
EXTENDS NodeSession, TLAPS

-----------------------------------------------------------------------------
(* Sequences without repetition.                                            *)

LEMMA AppendDistinct ==
    ASSUME NEW S, NEW s \in Seq(S), NEW x \in S
    PROVE  /\ ToSet(Append(s, x)) = ToSet(s) \cup {x}
           /\ IsInjective(s) /\ x \notin ToSet(s) => IsInjective(Append(s, x))
BY DEF ToSet, IsInjective

LEMMA TailDistinct ==
    ASSUME NEW S, NEW s \in Seq(S), s # <<>>
    PROVE  /\ Head(s) \in ToSet(s)
           /\ ToSet(s) = {Head(s)} \cup ToSet(Tail(s))
           /\ IsInjective(s) => IsInjective(Tail(s)) /\ Head(s) \notin ToSet(Tail(s))
<1> DEFINE t == Tail(s)
<1>1. /\ Len(s) \in Nat \ {0} /\ Head(s) = s[1]
      /\ DOMAIN s = 1 .. Len(s) /\ DOMAIN t = 1 .. Len(s) - 1
      /\ \A i \in 1 .. Len(s) - 1 : t[i] = s[i + 1]
  OBVIOUS
<1> HIDE DEF t
<1>2. Head(s) \in ToSet(s)
  BY <1>1 DEF ToSet
<1>3. ToSet(s) = {Head(s)} \cup ToSet(t)
  <2>1. ASSUME NEW i \in DOMAIN s
        PROVE  s[i] = Head(s) \/ \E j \in DOMAIN t : s[i] = t[j]
    <3>1. CASE i = 1
      BY <1>1, <3>1
    <3>2. CASE i # 1
      <4>1. i - 1 \in DOMAIN t /\ t[i - 1] = s[i]
        BY <1>1, <3>2
      <4> QED
        BY <4>1
    <3> QED
      BY <3>1, <3>2
  <2>2. \A j \in DOMAIN t : j + 1 \in DOMAIN s /\ t[j] = s[j + 1]
    BY <1>1
  <2> QED
    BY <1>2, <2>1, <2>2 DEF ToSet
<1>4. ASSUME IsInjective(s)
      PROVE  IsInjective(t) /\ Head(s) \notin ToSet(t)
  <2>1. \A i \in DOMAIN t : i + 1 \in DOMAIN s /\ t[i] = s[i + 1] /\ i \in Int /\ i # 0
    BY <1>1
  <2>2. 1 \in DOMAIN s
    BY <1>1
  <2>3. \A a, b \in DOMAIN s : s[a] = s[b] => a = b
    BY <1>4 DEF IsInjective
  <2>4. \A i, j \in DOMAIN t : t[i] = t[j] => i = j
    BY <2>1, <2>3
  <2>5. \A i \in DOMAIN t : t[i] # Head(s)
    <3> SUFFICES ASSUME NEW i \in DOMAIN t, t[i] = Head(s)
                 PROVE  FALSE
      OBVIOUS
    <3>1. s[i + 1] = s[1] /\ i + 1 \in DOMAIN s
      BY <1>1, <2>1
    <3>2. i + 1 = 1
      BY <2>2, <2>3, <3>1
    <3> QED
      BY <2>1, <3>2
  <2> QED
    BY <2>4, <2>5 DEF ToSet, IsInjective
<1> QED
  BY <1>2, <1>3, <1>4 DEF t

LEMMA ConcatDistinct ==
    ASSUME NEW S, NEW s \in Seq(S), NEW t \in Seq(S)
    PROVE  /\ ToSet(s \o t) = ToSet(s) \cup ToSet(t)
           /\ IsInjective(s) /\ IsInjective(t) /\ ToSet(s) \cap ToSet(t) = {} => IsInjective(s \o t)
<1> DEFINE u == s \o t
<1>1. /\ Len(s) \in Nat /\ Len(t) \in Nat
      /\ DOMAIN s = 1 .. Len(s) /\ DOMAIN t = 1 .. Len(t) /\ DOMAIN u = 1 .. Len(s) + Len(t)
      /\ \A i \in 1 .. Len(s) + Len(t) : u[i] = IF i <= Len(s) THEN s[i] ELSE t[i - Len(s)]
  OBVIOUS
<1> HIDE DEF u
<1>2. ToSet(u) = ToSet(s) \cup ToSet(t)
  <2>1. \A i \in DOMAIN s : i \in DOMAIN u /\ u[i] = s[i]
    BY <1>1
  <2>2. \A i \in DOMAIN t : i + Len(s) \in DOMAIN u /\ u[i + Len(s)] = t[i]
    BY <1>1
  <2>3. \A i \in DOMAIN u : \/ i \in DOMAIN s /\ u[i] = s[i]
                           \/ \E j \in DOMAIN t : u[i] = t[j]
    <3> TAKE i \in DOMAIN u
    <3>1. CASE i <= Len(s)
      BY <1>1, <3>1
    <3>2. CASE i > Len(s)
      <4>1. i - Len(s) \in DOMAIN t /\ u[i] = t[i - Len(s)]
        BY <1>1, <3>2
      <4> QED
        BY <4>1
    <3> QED
      BY <1>1, <3>1, <3>2
  <2>4. ToSet(u) \subseteq ToSet(s) \cup ToSet(t)
    BY <2>3 DEF ToSet
  <2>5. ToSet(s) \cup ToSet(t) \subseteq ToSet(u)
    BY <2>1, <2>2 DEF ToSet
  <2> QED
    BY <2>4, <2>5
<1>3. ASSUME IsInjective(s), IsInjective(t), ToSet(s) \cap ToSet(t) = {}
      PROVE  IsInjective(u)
  <2> SUFFICES ASSUME NEW a \in DOMAIN u, NEW b \in DOMAIN u, u[a] = u[b]
               PROVE  a = b
    BY DEF IsInjective
  <2>1. \A i \in DOMAIN s, j \in DOMAIN t : s[i] # t[j]
    BY <1>3 DEF ToSet
  <2>2. CASE a <= Len(s) /\ b <= Len(s)
    BY <1>1, <1>3, <2>2 DEF IsInjective
  <2>3. CASE a > Len(s) /\ b > Len(s)
    <3>1. a - Len(s) \in DOMAIN t /\ b - Len(s) \in DOMAIN t /\ t[a - Len(s)] = t[b - Len(s)]
      BY <1>1, <2>3
    <3>2. a - Len(s) = b - Len(s)
      BY <1>3, <3>1 DEF IsInjective
    <3> QED
      BY <1>1, <3>2
  <2>4. CASE (a <= Len(s)) # (b <= Len(s))
    BY <1>1, <2>1, <2>4
  <2> QED
    BY <1>1, <2>2, <2>3, <2>4
<1> QED
  BY <1>2, <1>3 DEF u

LEMMA EmptyDistinct == ToSet(<<>>) = {} /\ IsInjective(<<>>)
BY DEF ToSet, IsInjective

LEMMA OneMore ==
    ASSUME NEW n \in Nat \ {0}
    PROVE  1 .. (n + 1) - 1 = (1 .. n - 1) \cup {n} /\ n \notin 1 .. n - 1
OBVIOUS

-----------------------------------------------------------------------------
(* Types.                                                                   *)

\* A delivery that is under way is of a message that was pushed, and only a
\* registration that is under way holds messages to replay.
UnderWayInv ==
    /\ dl # "idle" => next <= M
    /\ replay # <<>> => start \in {"taken", "replay"}

TypeInv == TypeOK /\ UnderWayInv

LEMMA Sequences ==
    ASSUME TypeOK
    PROVE  /\ bucket \in Seq(Items) /\ Len(bucket) <= Cap /\ replay \in Seq(Items) /\ Len(replay) <= Cap
           /\ recvCh \in Seq(Items) /\ Len(recvCh) <= Cap /\ early \in Seq(Items) /\ Len(early) <= Cap
           /\ processed \in Seq(Items) /\ next \in Nat \ {0}
BY MAssumption DEF TypeOK

LEMMA SetOfItems ==
    ASSUME NEW s \in Seq(Items)
    PROVE  ToSet(s) \subseteq Items
BY DEF ToSet

LEMMA TypeInit == Init => TypeInv
<1> SUFFICES ASSUME Init
             PROVE  TypeOK /\ UnderWayInv
  BY DEF TypeInv
<1>1. <<>> \in Seq(Items) /\ Len(<<>>) <= Cap /\ 1 \in 1 .. M + 1
  BY MAssumption, CapAssumption
<1>2. UnderWayInv
  BY DEF Init, UnderWayInv
<1> QED
  BY <1>1, <1>2 DEF Init, TypeOK

LEMMA EnqueueType ==
    ASSUME TypeOK, NEW i \in Items, Enqueue(i)
    PROVE  recvCh' \in Seq(Items) /\ Len(recvCh') <= Cap /\ dropped' \subseteq Items
<1>1. recvCh \in Seq(Items) /\ Len(recvCh) <= Cap /\ Cap \in Nat /\ dropped \subseteq Items
  BY Sequences, CapAssumption DEF TypeOK
<1> QED
  BY <1>1 DEF Enqueue

LEMMA TypeStep == TypeInv /\ [Next]_vars => TypeInv'
<1> SUFFICES ASSUME TypeInv, [Next]_vars
             PROVE  TypeOK' /\ UnderWayInv'
  BY DEF TypeInv
<1> USE MAssumption, CapAssumption
<1>1. TypeOK /\ UnderWayInv
  BY DEF TypeInv
<1>2. /\ bucket \in Seq(Items) /\ Len(bucket) <= Cap /\ replay \in Seq(Items) /\ Len(replay) <= Cap
      /\ recvCh \in Seq(Items) /\ Len(recvCh) <= Cap /\ early \in Seq(Items) /\ Len(early) <= Cap
      /\ processed \in Seq(Items) /\ next \in Nat \ {0}
      /\ <<>> \in Seq(Items) /\ Len(<<>>) = 0 /\ Cap \in Nat /\ dropped \subseteq Items
  BY <1>1, Sequences DEF TypeOK
<1>3. ToSet(bucket) \subseteq Items
  BY <1>2, SetOfItems
<1>4. CASE DeliverWithoutKey
  BY <1>1, <1>2, <1>4 DEF DeliverWithoutKey, DeliverDone, TypeOK, UnderWayInv, startVars, workerVars, Items
<1>5. CASE LookUpSession
  BY <1>1, <1>2, <1>5 DEF LookUpSession, TypeOK, UnderWayInv, startVars, workerVars
<1>6. CASE CacheEarly
  <2>1. next \in Items /\ next' \in 1 .. M + 1
    BY <1>1, <1>2, <1>6 DEF CacheEarly, DeliverDone, UnderWayInv, Items
  <2>2. bucket' \in Seq(Items) /\ Len(bucket') <= Cap /\ dropped' \subseteq Items
    <3>1. CASE Len(bucket) < Cap /\ bucket' = Append(bucket, next) /\ UNCHANGED dropped
      <4>1. Append(bucket, next) \in Seq(Items) /\ Len(Append(bucket, next)) = Len(bucket) + 1
        BY <1>2, <2>1
      <4> QED
        BY <1>2, <3>1, <4>1
    <3>2. CASE dropped' = dropped \cup {next} /\ UNCHANGED bucket
      BY <1>2, <2>1, <3>2
    <3> QED
      BY <1>6, <3>1, <3>2 DEF CacheEarly
  <2> QED
    BY <1>1, <1>2, <1>6, <2>1, <2>2 DEF CacheEarly, DeliverDone, TypeOK, UnderWayInv, startVars, workerVars
<1>7. CASE EnqueueFound
  <2>1. next \in Items /\ next' \in 1 .. M + 1
    BY <1>1, <1>2, <1>7 DEF EnqueueFound, DeliverDone, UnderWayInv, Items
  <2>2. recvCh' \in Seq(Items) /\ Len(recvCh') <= Cap /\ dropped' \subseteq Items
    BY <1>1, <1>2, <1>7, <2>1, EnqueueType DEF EnqueueFound, TypeOK
  <2> QED
    BY <1>1, <1>2, <1>7, <2>1, <2>2 DEF EnqueueFound, DeliverDone, TypeOK, UnderWayInv, startVars, workerVars
<1>8. CASE ExpireBucket
  BY <1>1, <1>2, <1>3, <1>8 DEF ExpireBucket, TypeOK, UnderWayInv, deliverVars, startVars, workerVars
<1>9. CASE RejectStart \/ MapSession \/ RunProtocol \/ SetParty \/ FinishRun
           \/ CloseSession \/ UnmapSession \/ DeleteKeys
  <2>1. CASE RejectStart \/ MapSession \/ RunProtocol
    BY <1>1, <1>2, <2>1 DEF RejectStart, MapSession, RunProtocol, TypeOK, UnderWayInv, deliverVars, workerVars
  <2>2. CASE SetParty \/ FinishRun \/ CloseSession
    BY <1>1, <1>2, <2>2 DEF SetParty, FinishRun, CloseSession, TypeOK, UnderWayInv, deliverVars, workerVars
  <2>3. CASE UnmapSession \/ DeleteKeys
    BY <1>1, <1>2, <2>3 DEF UnmapSession, DeleteKeys, TypeOK, UnderWayInv, deliverVars, workerVars
  <2> QED
    BY <1>9, <2>1, <2>2, <2>3
<1>10. CASE TakeEarly
  BY <1>1, <1>2, <1>10 DEF TakeEarly, TypeOK, UnderWayInv, deliverVars
<1>11. CASE ReplayEarly
  <2>1. Head(replay) \in Items /\ Tail(replay) \in Seq(Items) /\ Len(Tail(replay)) <= Cap
    BY <1>2, <1>11 DEF ReplayEarly
  <2>2. recvCh' \in Seq(Items) /\ Len(recvCh') <= Cap /\ dropped' \subseteq Items
    BY <1>1, <1>11, <2>1, EnqueueType DEF ReplayEarly
  <2> QED
    BY <1>1, <1>2, <1>11, <2>1, <2>2 DEF ReplayEarly, TypeOK, UnderWayInv, deliverVars, workerVars
<1>12. CASE ClearBucket
  BY <1>1, <1>2, <1>3, <1>12 DEF ClearBucket, TypeOK, UnderWayInv, deliverVars, workerVars
<1>13. CASE Work
  <2> DEFINE i == Head(recvCh)
  <2>1. i \in Items /\ recvCh' \in Seq(Items) /\ Len(recvCh') <= Cap
    BY <1>2, <1>13 DEF Work
  <2>2. SkipOwn(i) \/ Process(i) \/ Keep(i)
    BY <1>13 DEF Work
  <2> HIDE DEF i
  <2>3. early' \in Seq(Items) /\ Len(early') <= Cap /\ processed' \in Seq(Items) /\ dropped' \subseteq Items
    <3>1. CASE SkipOwn(i)
      BY <1>1, <1>2, <2>1, <3>1 DEF SkipOwn, TypeOK
    <3>2. CASE Process(i)
      BY <1>1, <1>2, <2>1, <3>2 DEF Process, TypeOK
    <3>3. CASE Keep(i)
      <4>1. CASE Len(early) < Cap /\ early' = Append(early, i) /\ UNCHANGED <<dropped, processed>>
        <5>1. Append(early, i) \in Seq(Items) /\ Len(Append(early, i)) = Len(early) + 1
          BY <1>2, <2>1
        <5> QED
          BY <1>2, <4>1, <5>1
      <4>2. CASE dropped' = dropped \cup {i} /\ UNCHANGED <<early, processed>>
        BY <1>2, <2>1, <4>2
      <4> QED
        BY <3>3, <4>1, <4>2 DEF Keep
    <3> QED
      BY <2>2, <3>1, <3>2, <3>3
  <2> QED
    BY <1>1, <1>2, <1>13, <2>1, <2>3 DEF Work, TypeOK, UnderWayInv, deliverVars, startVars
<1>14. CASE WorkerExit
  BY <1>1, <1>2, <1>14 DEF WorkerExit, TypeOK, UnderWayInv, deliverVars, startVars
<1>15. CASE UNCHANGED vars
  BY <1>1, <1>2, <1>15 DEF vars, TypeOK, UnderWayInv, deliverVars, startVars, workerVars
<1> QED
  BY <1>4, <1>5, <1>6, <1>7, <1>8, <1>9, <1>10, <1>11, <1>12, <1>13, <1>14, <1>15
     DEF Next, Deliver, Start, Worker

\* The type of every variable, and with it the bound of every buffer: neither the
\* bucket nor the queue nor earlyMsgs ever holds more than Cap messages.
THEOREM TypeCorrect == Spec => []TypeOK
<1>1. TypeInv => TypeOK
  BY DEF TypeInv
<1> QED
  BY <1>1, TypeInit, TypeStep, PTL DEF Spec

\* A message of a peer is given up only when a buffer holds Cap messages, when the
\* session is closed or its key gone, or when it lies in the bucket that is cleared.
THEOREM DropsOnlyWhenFullCorrect == Spec => DropsOnlyWhenFull
<1> DEFINE Drops == \A i \in dropped' \ dropped :
                       \/ i \in Own
                       \/ closed \/ ~prk
                       \/ i \in ToSet(bucket)
                       \/ Cap \in {Len(bucket), Len(recvCh), Len(early)}
<1>1. TypeInv /\ [Next]_vars => [Drops]_vars
  <2> SUFFICES ASSUME TypeInv, Next
               PROVE  Drops
    OBVIOUS
  <2>1. /\ Len(bucket) \in Nat /\ Len(bucket) <= Cap /\ Len(recvCh) \in Nat /\ Len(recvCh) <= Cap
        /\ Len(early) \in Nat /\ Len(early) <= Cap /\ Cap \in Nat
    BY Sequences, CapAssumption DEF TypeInv
  <2>2. \A i : Enqueue(i) => dropped' = dropped \/ closed \/ Len(recvCh) = Cap
    BY <2>1 DEF Enqueue
  <2>3. CASE DeliverWithoutKey
    BY <2>3 DEF DeliverWithoutKey
  <2>4. CASE CacheEarly
    BY <2>1, <2>4 DEF CacheEarly
  <2>5. CASE EnqueueFound
    BY <2>2, <2>5 DEF EnqueueFound
  <2>6. CASE ExpireBucket \/ ClearBucket
    BY <2>6 DEF ExpireBucket, ClearBucket
  <2>7. CASE ReplayEarly
    BY <2>2, <2>7 DEF ReplayEarly
  <2>8. CASE Work
    BY <2>1, <2>8 DEF Work, SkipOwn, Process, Keep
  <2>9. CASE \/ LookUpSession \/ RejectStart \/ TakeEarly \/ MapSession \/ RunProtocol \/ SetParty
             \/ FinishRun \/ CloseSession \/ UnmapSession \/ DeleteKeys \/ WorkerExit
    BY <2>9 DEF LookUpSession, RejectStart, TakeEarly, MapSession, RunProtocol, SetParty, FinishRun,
                CloseSession, UnmapSession, DeleteKeys, WorkerExit
  <2> QED
    BY <2>3, <2>4, <2>5, <2>6, <2>7, <2>8, <2>9 DEF Next, Deliver, Start, Worker
<1> QED
  BY <1>1, TypeInit, TypeStep, PTL DEF Spec, DropsOnlyWhenFull

-----------------------------------------------------------------------------
(* Every message in one place.                                              *)

\* The sets of messages in the five sequences and among the dropped: no two share
\* one, together they are all that was pushed.
Partition(A, B, C, D, E, F, U) ==
    /\ A \cup B \cup C \cup D \cup E \cup F = U
    /\ A \cap (B \cup C \cup D \cup E \cup F) = {}
    /\ B \cap (C \cup D \cup E \cup F) = {}
    /\ C \cap (D \cup E \cup F) = {}
    /\ D \cap (E \cup F) = {}
    /\ E \cap F = {}

ApartInv ==
    Partition(ToSet(processed), ToSet(early), ToSet(recvCh), ToSet(replay), ToSet(bucket),
              dropped, 1 .. next - 1)

OnceInv ==
    /\ IsInjective(processed) /\ IsInjective(early) /\ IsInjective(recvCh)
    /\ IsInjective(replay) /\ IsInjective(bucket)
    /\ ApartInv

LEMMA OnceGivesExactly ==
    ASSUME TypeInv, OnceInv
    PROVE  ExactlyOnce
<1> DEFINE pe == processed \o early
           per == pe \o recvCh
           perp == per \o replay
<1>1. processed \in Seq(Items) /\ early \in Seq(Items) /\ recvCh \in Seq(Items) /\ replay \in Seq(Items)
      /\ bucket \in Seq(Items)
  BY Sequences DEF TypeInv
<1>2. pe \in Seq(Items) /\ per \in Seq(Items) /\ perp \in Seq(Items)
  BY <1>1
<1>3. Places = perp \o bucket
  BY DEF Places
<1>4. ToSet(pe) = ToSet(processed) \cup ToSet(early) /\ IsInjective(pe)
  BY <1>1, ConcatDistinct DEF OnceInv, ApartInv, Partition
<1> HIDE DEF pe
<1>5. ToSet(per) = ToSet(pe) \cup ToSet(recvCh) /\ IsInjective(per)
  <2>1. ToSet(pe) \cap ToSet(recvCh) = {}
    BY <1>4 DEF OnceInv, ApartInv, Partition
  <2> QED
    BY <1>1, <1>2, <1>4, <2>1, ConcatDistinct DEF OnceInv
<1> HIDE DEF per
<1>6. ToSet(perp) = ToSet(per) \cup ToSet(replay) /\ IsInjective(perp)
  <2>1. ToSet(per) \cap ToSet(replay) = {}
    BY <1>4, <1>5 DEF OnceInv, ApartInv, Partition
  <2> QED
    BY <1>1, <1>2, <1>5, <2>1, ConcatDistinct DEF OnceInv
<1> HIDE DEF perp
<1>7. ToSet(Places) = ToSet(perp) \cup ToSet(bucket) /\ IsInjective(Places)
  <2>1. ToSet(perp) \cap ToSet(bucket) = {}
    BY <1>4, <1>5, <1>6 DEF OnceInv, ApartInv, Partition
  <2> QED
    BY <1>1, <1>2, <1>3, <1>6, <2>1, ConcatDistinct DEF OnceInv
<1> QED
  BY <1>4, <1>5, <1>6, <1>7 DEF OnceInv, ApartInv, Partition, ExactlyOnce

LEMMA OnceInit == Init => OnceInv
<1>1. 1 .. 1 - 1 = {}
  OBVIOUS
<1> QED
  BY <1>1, EmptyDistinct DEF Init, OnceInv, ApartInv, Partition

\* enqueue of a message that is nowhere else.
LEMMA EnqueueOnce ==
    ASSUME TypeInv, NEW i \in Items, Enqueue(i), IsInjective(recvCh), i \notin ToSet(recvCh)
    PROVE  /\ IsInjective(recvCh')
           /\ \/ ToSet(recvCh') = ToSet(recvCh) \cup {i} /\ dropped' = dropped
              \/ ToSet(recvCh') = ToSet(recvCh) /\ dropped' = dropped \cup {i}
<1>1. recvCh \in Seq(Items)
  BY Sequences DEF TypeInv
<1>2. CASE recvCh' = Append(recvCh, i) /\ UNCHANGED dropped
  BY <1>1, <1>2, AppendDistinct
<1>3. CASE dropped' = dropped \cup {i} /\ UNCHANGED recvCh
  BY <1>3
<1> QED
  BY <1>2, <1>3 DEF Enqueue

LEMMA OnceStep == TypeInv /\ OnceInv /\ [Next]_vars => OnceInv'
<1> SUFFICES ASSUME TypeInv, OnceInv, [Next]_vars
             PROVE  OnceInv'
  OBVIOUS
<1>1. /\ processed \in Seq(Items) /\ early \in Seq(Items) /\ recvCh \in Seq(Items)
      /\ replay \in Seq(Items) /\ bucket \in Seq(Items) /\ next \in Nat \ {0}
  BY Sequences DEF TypeInv
<1>2. /\ dl # "idle" \/ next <= M => next \in Items
      /\ dl # "idle" => next <= M
      /\ 1 .. (next + 1) - 1 = (1 .. next - 1) \cup {next}
      /\ next \notin 1 .. next - 1
  BY <1>1, OneMore, MAssumption DEF TypeInv, UnderWayInv, Items
<1>3. /\ IsInjective(processed) /\ IsInjective(early) /\ IsInjective(recvCh)
      /\ IsInjective(replay) /\ IsInjective(bucket)
      /\ ApartInv
  BY DEF OnceInv
<1>4. ASSUME UNCHANGED <<processed, early, recvCh, replay, bucket, dropped, next>>
      PROVE  OnceInv'
  BY <1>3, <1>4 DEF OnceInv, ApartInv
<1>5. next \notin ToSet(recvCh) /\ next \notin ToSet(bucket)
  BY <1>2, <1>3 DEF ApartInv, Partition
<1>6. CASE DeliverWithoutKey
  BY <1>2, <1>3, <1>6 DEF DeliverWithoutKey, DeliverDone, startVars, workerVars, OnceInv, ApartInv, Partition
<1>7. CASE CacheEarly
  <2>1. /\ IsInjective(bucket')
        /\ \/ ToSet(bucket') = ToSet(bucket) \cup {next} /\ dropped' = dropped
           \/ ToSet(bucket') = ToSet(bucket) /\ dropped' = dropped \cup {next}
    <3>1. ToSet(Append(bucket, next)) = ToSet(bucket) \cup {next} /\ IsInjective(Append(bucket, next))
      <4>1. next \in Items
        BY <1>2, <1>7 DEF CacheEarly
      <4> QED
        BY <1>1, <1>3, <1>5, <4>1, AppendDistinct
    <3> QED
      BY <1>3, <1>7, <3>1 DEF CacheEarly
  <2> QED
    BY <1>2, <1>3, <1>7, <2>1 DEF CacheEarly, DeliverDone, startVars, workerVars, OnceInv, ApartInv, Partition
<1>8. CASE EnqueueFound
  <2>1. /\ IsInjective(recvCh')
        /\ \/ ToSet(recvCh') = ToSet(recvCh) \cup {next} /\ dropped' = dropped
           \/ ToSet(recvCh') = ToSet(recvCh) /\ dropped' = dropped \cup {next}
    BY <1>2, <1>3, <1>5, <1>8, EnqueueOnce DEF EnqueueFound
  <2> QED
    BY <1>2, <1>3, <1>8, <2>1 DEF EnqueueFound, DeliverDone, startVars, workerVars, OnceInv, ApartInv, Partition
<1>9. CASE ExpireBucket \/ ClearBucket
  <2>1. /\ bucket' = <<>> /\ dropped' = dropped \cup ToSet(bucket)
        /\ UNCHANGED <<processed, early, recvCh, replay, next>>
    BY <1>9 DEF ExpireBucket, ClearBucket, deliverVars, startVars, workerVars
  <2> QED
    BY <1>3, <2>1, EmptyDistinct DEF OnceInv, ApartInv, Partition
<1>10. CASE TakeEarly
  <2>1. replay = <<>>
    BY <1>10 DEF TakeEarly, TypeInv, UnderWayInv
  <2>2. replay' = bucket /\ bucket' = <<>> /\ UNCHANGED <<processed, early, recvCh, dropped, next>>
    BY <1>10 DEF TakeEarly, deliverVars
  <2> QED
    BY <1>3, <2>1, <2>2, EmptyDistinct DEF OnceInv, ApartInv, Partition
<1>11. CASE ReplayEarly
  <2> DEFINE i == Head(replay)
  <2>1. /\ i \in Items /\ i \in ToSet(replay) /\ ToSet(replay) = {i} \cup ToSet(replay')
        /\ IsInjective(replay') /\ i \notin ToSet(replay') /\ Enqueue(i)
        /\ UNCHANGED <<processed, early, bucket, next>>
    BY <1>1, <1>3, <1>11, TailDistinct DEF ReplayEarly, deliverVars, workerVars
  <2> HIDE DEF i
  <2>2. i \notin ToSet(recvCh)
    BY <1>3, <2>1 DEF ApartInv, Partition
  <2>3. /\ IsInjective(recvCh')
        /\ \/ ToSet(recvCh') = ToSet(recvCh) \cup {i} /\ dropped' = dropped
           \/ ToSet(recvCh') = ToSet(recvCh) /\ dropped' = dropped \cup {i}
    BY <1>3, <2>1, <2>2, EnqueueOnce
  <2> QED
    BY <1>3, <2>1, <2>3 DEF OnceInv, ApartInv, Partition
<1>12. CASE Work
  <2> DEFINE i == Head(recvCh)
  <2>1. /\ i \in Items /\ i \in ToSet(recvCh) /\ ToSet(recvCh) = {i} \cup ToSet(recvCh')
        /\ IsInjective(recvCh') /\ i \notin ToSet(recvCh')
        /\ SkipOwn(i) \/ Process(i) \/ Keep(i)
        /\ UNCHANGED <<replay, bucket, next>>
    BY <1>1, <1>3, <1>12, TailDistinct DEF Work, deliverVars, startVars
  <2> HIDE DEF i
  <2>2. i \notin ToSet(early) /\ i \notin ToSet(processed)
    BY <1>3, <2>1 DEF ApartInv, Partition
  <2>3. CASE dropped' = dropped \cup {i} /\ UNCHANGED <<early, processed>>
    BY <1>3, <2>1, <2>3 DEF OnceInv, ApartInv, Partition
  <2>4. CASE early' = Append(early, i) /\ UNCHANGED <<dropped, processed>>
    <3>1. ToSet(early') = ToSet(early) \cup {i} /\ IsInjective(early')
      BY <1>1, <1>3, <2>1, <2>2, <2>4, AppendDistinct
    <3> QED
      BY <1>3, <2>1, <2>4, <3>1 DEF OnceInv, ApartInv, Partition
  <2>5. CASE Process(i)
    <3>1. processed' = (processed \o early) \o <<i>> /\ early' = <<>> /\ dropped' = dropped
      BY <2>5 DEF Process
    <3>2. /\ processed \o early \in Seq(Items)
          /\ ToSet(processed \o early) = ToSet(processed) \cup ToSet(early) /\ IsInjective(processed \o early)
      BY <1>1, <1>3, ConcatDistinct DEF ApartInv, Partition
    <3>3. processed' = Append(processed \o early, i)
      BY <1>1, <2>1, <3>1, <3>2
    <3>4. ToSet(processed') = ToSet(processed) \cup ToSet(early) \cup {i} /\ IsInjective(processed')
      <4> DEFINE all == processed \o early
      <4>1. all \in Seq(Items) /\ IsInjective(all) /\ ToSet(all) = ToSet(processed) \cup ToSet(early)
            /\ processed' = Append(all, i) /\ i \notin ToSet(all)
        BY <2>2, <3>2, <3>3
      <4> HIDE DEF all
      <4> QED
        BY <2>1, <4>1, AppendDistinct
    <3> QED
      BY <1>3, <2>1, <3>1, <3>4, EmptyDistinct DEF OnceInv, ApartInv, Partition
  <2> QED
    BY <2>1, <2>3, <2>4, <2>5 DEF SkipOwn, Keep
<1>13. CASE \/ LookUpSession \/ RejectStart \/ MapSession \/ RunProtocol \/ SetParty \/ FinishRun
            \/ CloseSession \/ UnmapSession \/ DeleteKeys \/ WorkerExit \/ UNCHANGED vars
  BY <1>4, <1>13 DEF LookUpSession, RejectStart, MapSession, RunProtocol, SetParty, FinishRun, CloseSession,
                     UnmapSession, DeleteKeys, WorkerExit, vars, deliverVars, startVars, workerVars
<1> QED
  BY <1>6, <1>7, <1>8, <1>9, <1>10, <1>11, <1>12, <1>13 DEF Next, Deliver, Start, Worker

\* The three hand-overs inside a node (bucket to replay, replay and push callback to
\* queue, queue to party) neither double a pushed message nor forget one.
THEOREM ExactlyOnceCorrect == Spec => []ExactlyOnce
<1>1. TypeInv /\ OnceInv => ExactlyOnce
  BY OnceGivesExactly
<1>2. Init => TypeInv /\ OnceInv
  BY TypeInit, OnceInit
<1>3. (TypeInv /\ OnceInv) /\ [Next]_vars => (TypeInv /\ OnceInv)'
  BY TypeStep, OnceStep
<1> QED
  BY <1>1, <1>2, <1>3, PTL DEF Spec
=============================================================================
