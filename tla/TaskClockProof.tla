--------------------------- MODULE TaskClockProof ---------------------------
(***************************************************************************)
(* Proofs about TaskClock: for any nodes, and for any times that compare   *)
(* as ClockAssumption says, those of keygen and of signing among them.     *)
(***************************************************************************)
EXTENDS TaskClock, TLAPS

Times == {"pushKeys", "waitKeys"}   \* keys are exchanged

Begun == {"pushed", "running"}      \* a start on its way, or a run

\* The coordinator's waits are over in time, so the whole task is; until the timer
\* fires, which is not before Registry, every key that came is collected.
CoordInv ==
    /\ pc \in Working => now <= due
    /\ pc = "pushKeys" => due = MaxPush
    /\ pc = "waitKeys" => due <= MaxPush + Wait
    /\ pc = "pushStart" => due <= 2 * MaxPush + Wait /\ due <= now + MaxPush
    /\ pc = "waitResults" => due <= 2 * (MaxPush + Wait)
    /\ pc \in Times /\ now < Registry => registered

NodeInv(n) ==
    /\ n \in collected \/ tempKey[n] > 0 => node[n] \notin {"idle", "keyed"}
    /\ pc \in Times => node[n] \in {"idle", "keyed", "posted"}
    /\ pc \in Times /\ registered /\ node[n] = "posted" => n \in collected
    /\ pc \in {"pushStart", "waitResults"} => node[n] \notin {"idle", "keyed"}
    /\ node[n] # "idle" => privKey[n] >= KeyTTL
    /\ node[n] = "running" => peerKeys[n] >= KeyTTL
    \* A record put during the pushes outlives the wait that follows.
    /\ pc = "pushStart" /\ node[n] \in Begun => record[n] + MaxPush >= due + RecordTTL
    /\ pc = "waitResults" /\ node[n] \in Begun => record[n] > due
    \* What is lost is older than any start that is accepted.
    /\ bucket[n] = None \/ bucket[n] \in 0 .. now
    /\ n \in lost => now > EarlyTTL
    /\ node[n] \in {"running", "heard", "unheard"} => bucket[n] = None /\ n \notin lost

Inv == TypeOK /\ CoordInv /\ \A n \in Nodes : NodeInv(n)

LEMMA InvInit == Init => Inv
BY ClockAssumption DEF Init, Inv, TypeOK, CoordInv, NodeInv, Working, Times, Begun, None

LEMMA TypeStep ==
    ASSUME TypeOK, Next
    PROVE  TypeOK'
<1> USE ClockAssumption DEF TypeOK, Working, None
<1>1. CASE Tick
  BY <1>1 DEF Tick
<1>2. CASE TimerFires \/ KeysPushed \/ KeysIn \/ TimesOut \/ StartsPushed \/ ResultsIn
  <2>1. CASE TimerFires
    BY <2>1 DEF TimerFires
  <2>2. CASE KeysPushed
    BY <2>2 DEF KeysPushed
  <2>3. CASE KeysIn
    BY <2>3 DEF KeysIn
  <2>4. CASE TimesOut \/ ResultsIn
    BY <2>4 DEF TimesOut, ResultsIn, Return
  <2>5. CASE StartsPushed
    BY <2>5 DEF StartsPushed
  <2> QED
    BY <1>2, <2>1, <2>2, <2>3, <2>4, <2>5
<1>3. ASSUME NEW n \in Nodes, PushStart(n)
      PROVE  TypeOK'
  BY <1>3 DEF PushStart
<1>4. ASSUME NEW n \in Nodes, Node(n)
      PROVE  TypeOK'
  <2>1. CASE MakeKey(n)
    BY <2>1 DEF MakeKey
  <2>2. CASE ReceiveKey(n)
    BY <2>2 DEF ReceiveKey
  <2>3. CASE ExpireBucket(n)
    BY <2>3 DEF ExpireBucket
  <2>4. CASE ReceiveEarly(n)
    BY <2>4 DEF ReceiveEarly
  <2>5. CASE ReceiveStart(n)
    BY <2>5 DEF ReceiveStart
  <2>6. CASE Report(n)
    BY <2>6 DEF Report
  <2> QED
    BY <1>4, <2>1, <2>2, <2>3, <2>4, <2>5, <2>6 DEF Node
<1> QED
  BY <1>1, <1>2, <1>3, <1>4 DEF Next, Coordinator

LEMMA CoordStep ==
    ASSUME Inv, Next
    PROVE  CoordInv'
<1> USE ClockAssumption DEF Inv, TypeOK, CoordInv, Working, Times
<1>1. CASE Tick
  BY <1>1 DEF Tick
<1>2. CASE Coordinator
  BY <1>2 DEF Coordinator, TimerFires, KeysPushed, KeysIn, TimesOut, StartsPushed, ResultsIn, PushStart, Return
<1>3. ASSUME NEW n \in Nodes, Node(n)
      PROVE  UNCHANGED <<pc, now, due, registered>>
  BY <1>3 DEF Node, MakeKey, ReceiveKey, ExpireBucket, ReceiveEarly, ReceiveStart, Report
<1> QED
  BY <1>1, <1>2, <1>3 DEF Next

LEMMA NodeStep ==
    ASSUME Inv, Next, NEW n \in Nodes
    PROVE  NodeInv(n)'
<1> USE ClockAssumption DEF Inv, TypeOK, CoordInv, NodeInv, Working, Times, Begun, None
<1>1. CASE Tick
  BY <1>1 DEF Tick
<1>2. CASE TimerFires
  BY <1>2 DEF TimerFires
<1>3. CASE KeysPushed
  BY <1>3 DEF KeysPushed
<1>4. CASE KeysIn
  BY <1>4 DEF KeysIn
<1>5. CASE TimesOut
  BY <1>5 DEF TimesOut, Return
<1>6. CASE StartsPushed
  BY <1>6 DEF StartsPushed
<1>7. CASE ResultsIn
  BY <1>7 DEF ResultsIn, Return
<1>8. ASSUME NEW m \in Nodes, PushStart(m)
      PROVE  NodeInv(n)'
  BY <1>8 DEF PushStart
<1>9. ASSUME NEW m \in Nodes, Node(m)
      PROVE  NodeInv(n)'
  <2>1. CASE MakeKey(m)
    BY <2>1 DEF MakeKey
  <2>2. CASE ReceiveKey(m)
    BY <2>2 DEF ReceiveKey
  <2>3. CASE ExpireBucket(m)
    BY <2>3 DEF ExpireBucket, TooOld
  <2>4. CASE ReceiveEarly(m)
    BY <2>4 DEF ReceiveEarly, TooOld
  <2>5. CASE ReceiveStart(m)
    BY <2>5 DEF ReceiveStart, Accepts, TooOld
  <2>6. CASE Report(m)
    BY <2>6 DEF Report
  <2> QED
    BY <1>9, <2>1, <2>2, <2>3, <2>4, <2>5, <2>6 DEF Node
<1> QED
  BY <1>1, <1>2, <1>3, <1>4, <1>5, <1>6, <1>7, <1>8, <1>9 DEF Next, Coordinator

LEMMA Invariance == Spec => []Inv
<1>1. Inv /\ [Next]_vars => Inv'
  <2>1. CASE UNCHANGED vars
    BY <2>1 DEF vars, Inv, TypeOK, CoordInv, NodeInv
  <2> QED
    BY <2>1, TypeStep, CoordStep, NodeStep DEF Inv
<1> QED
  BY <1>1, InvInit, PTL DEF Spec

\* Every variable keeps its type; a task that is over is not registered.
THEOREM TypeCorrect == Spec => []TypeOK
<1>1. Inv => TypeOK
  BY DEF Inv
<1> QED
  BY <1>1, Invariance, PTL

\* After fast pushes no key that comes during the wait is missed.
THEOREM KeysCollectedCorrect == Spec => []KeysCollected
<1>1. Inv => KeysCollected
  BY ClockAssumption DEF Inv, TypeOK, CoordInv, NodeInv, KeysCollected, Working, Times
<1> QED
  BY <1>1, Invariance, PTL

\* A node that accepts a start has lost no early message.
THEOREM EarlyKeptCorrect == Spec => []EarlyKept
<1>1. Inv => EarlyKept
  BY DEF Inv, NodeInv, EarlyKept
<1> QED
  BY <1>1, Invariance, PTL

\* The nodes' keys last as long as the task.
THEOREM KeysOutliveTaskCorrect == Spec => []KeysOutliveTask
<1>1. Inv => KeysOutliveTask
  BY ClockAssumption DEF Inv, TypeOK, CoordInv, NodeInv, KeysOutliveTask, Working
<1> QED
  BY <1>1, Invariance, PTL

\* No report is refused while the task waits for it.
THEOREM ReportsHeardCorrect == Spec => ReportsHeard
<1>1. Inv /\ [Next]_vars =>
         [\A n \in Nodes : pc = "waitResults" /\ node[n] = "running" => node'[n] # "unheard"]_vars
  <2> SUFFICES ASSUME Inv, Next, NEW n \in Nodes, pc = "waitResults", node[n] = "running"
               PROVE  node'[n] # "unheard"
    BY DEF vars
  <2>1. now < record[n]
    BY DEF Inv, TypeOK, CoordInv, NodeInv, Working, Begun
  <2>2. ASSUME NEW m \in Nodes, Node(m)
        PROVE  node'[n] # "unheard"
    BY <2>1, <2>2 DEF Inv, TypeOK, Node, MakeKey, ReceiveKey, ExpireBucket, ReceiveEarly, ReceiveStart, Report
  <2>3. Tick \/ Coordinator => node' = node
    BY DEF Tick, Coordinator, TimerFires, KeysPushed, KeysIn, TimesOut, StartsPushed, ResultsIn, PushStart, Return
  <2> QED
    BY <2>2, <2>3 DEF Next
<1> QED
  BY <1>1, Invariance, PTL DEF Spec, ReportsHeard
=============================================================================
