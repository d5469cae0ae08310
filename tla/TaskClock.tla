----------------------------- MODULE TaskClock -----------------------------
(***************************************************************************)
(* The clocks of a keygen task: the deadlines of the coordinator's waits,  *)
(* the timer of the key collector, ExpiredTime of the start message, and   *)
(* the lifetimes of what is cached at the server and at the nodes          *)
(* (app/mpc_keygen.go, node/mpc_keygen.go, node/main.go).  A sign task has *)
(* the same clocks with a shorter wait.                                    *)
(*                                                                         *)
(* Time is counted from the registration of the key collector; the clocks  *)
(* of the machines agree.  What the task does at each step is KeygenTask's *)
(* subject, what a run sends TssRelay's; here only the time matters.       *)
(***************************************************************************)
EXTENDS Integers, FiniteSets

CONSTANTS
    Nodes,
    MaxPush,       \* the longest a loop of pushes takes (a bound on the network)
    Wait,          \* timeout - 5: 125 s
    Registry,      \* timeout: 130 s
    ExpiresAfter,  \* expiredTime: 120 s
    TempKeyTTL,    \* of a public key at the server: 120 s
    RecordTTL,     \* of an MpcKeygenNodeResult: 300 s
    KeyTTL,        \* of the keys at a node: 600 s
    EarlyTTL,      \* earlyMsgTTL: 2 minutes
    MaxTime        \* a bound on the clock

ASSUME ClockAssumption ==
    /\ {MaxPush, Wait, Registry, ExpiresAfter, TempKeyTTL, RecordTTL, KeyTTL, EarlyTTL, MaxTime}
          \subseteq Nat
    /\ ExpiresAfter <= EarlyTTL
    /\ MaxPush + Wait < RecordTTL
    /\ 2 * (MaxPush + Wait) < KeyTTL

VARIABLES
    now,
    pc,         \* where the coordinator is
    due,        \* when the present wait or loop of pushes is over at the latest
    registered, \* the registry knows the key collector
    collected,  \* the nodes whose keys the collector has
    tempKey,    \* until when a node's public key is cached at the server
    record,     \* until when a node's record is cached at the server
    node,       \* how far a node is
    privKey,    \* until when a node has its private key
    peerKeys,   \* until when a node has its peers' public keys
    bucket,     \* since when a node has early messages
    lost        \* the nodes whose early messages were too old

vars == <<now, pc, due, registered, collected, tempKey, record, node, privKey, peerKeys, bucket, lost>>

None == -1

Init ==
    /\ now = 0
    /\ pc = "pushKeys"
    /\ due = MaxPush
    /\ registered = TRUE
    /\ collected = {}
    /\ tempKey = [n \in Nodes |-> 0]
    /\ record = [n \in Nodes |-> 0]
    /\ node = [n \in Nodes |-> "idle"]
    /\ privKey = [n \in Nodes |-> 0]
    /\ peerKeys = [n \in Nodes |-> 0]
    /\ bucket = [n \in Nodes |-> None]
    /\ lost = {}

Working == {"pushKeys", "waitKeys", "pushStart", "waitResults"}

\* Time passes, but no wait of the coordinator and no timer runs longer than it should.
Tick ==
    /\ now < MaxTime
    /\ pc \in Working => now < due
    /\ registered => now < Registry
    /\ now' = now + 1
    /\ UNCHANGED <<pc, due, registered, collected, tempKey, record, node, privKey, peerKeys, bucket, lost>>

-----------------------------------------------------------------------------
(* The coordinator.                                                         *)

\* Mutant of TimerFires: the timer of the registry runs as long as the wait.
TimerFiresEarly ==
    /\ registered
    /\ now >= Wait
    /\ registered' = FALSE
    /\ UNCHANGED <<now, pc, due, collected, tempKey, record, node, privKey, peerKeys, bucket, lost>>

\* time.AfterFunc in registerPubkeyCollector.
TimerFires ==
    /\ registered
    /\ now = Registry
    /\ registered' = FALSE
    /\ UNCHANGED <<now, pc, due, collected, tempKey, record, node, privKey, peerKeys, bucket, lost>>

\* All requests are pushed: the keys in the cache are replayed, the wait begins.
KeysPushed ==
    /\ pc = "pushKeys"
    /\ pc' = "waitKeys"
    /\ due' = now + Wait
    /\ collected' = collected \cup {n \in Nodes : now < tempKey[n]}
    /\ UNCHANGED <<now, registered, tempKey, record, node, privKey, peerKeys, bucket, lost>>

KeysIn ==
    /\ pc = "waitKeys"
    /\ collected = Nodes
    /\ pc' = "pushStart"
    /\ due' = now + MaxPush
    /\ UNCHANGED <<now, registered, collected, tempKey, record, node, privKey, peerKeys, bucket, lost>>

\* Mutant of Return: without the deferred unregister.
ReturnRegistered(outcome) ==
    /\ pc' = outcome
    /\ UNCHANGED <<now, due, registered, collected, tempKey, record, node, privKey, peerKeys, bucket, lost>>

Return(outcome) ==
    /\ pc' = outcome
    /\ registered' = FALSE
    /\ UNCHANGED <<now, due, collected, tempKey, record, node, privKey, peerKeys, bucket, lost>>

\* One of the two waits is over.
TimesOut ==
    /\ pc \in {"waitKeys", "waitResults"}
    /\ now = due
    /\ Return("failed")

\* Mutant of PushStart: the record lives as long as the temporary key.
PushStartTempRecord(n) ==
    /\ pc = "pushStart"
    /\ node[n] = "posted"
    /\ node' = [node EXCEPT ![n] = "pushed"]
    /\ record' = [record EXCEPT ![n] = now + TempKeyTTL]
    /\ UNCHANGED <<now, pc, due, registered, collected, tempKey, privKey, peerKeys, bucket, lost>>

\* The start message is pushed and the node's record put.
PushStart(n) ==
    /\ pc = "pushStart"
    /\ node[n] = "posted"
    /\ node' = [node EXCEPT ![n] = "pushed"]
    /\ record' = [record EXCEPT ![n] = now + RecordTTL]
    /\ UNCHANGED <<now, pc, due, registered, collected, tempKey, privKey, peerKeys, bucket, lost>>

StartsPushed ==
    /\ pc = "pushStart"
    /\ \A n \in Nodes : node[n] # "posted"
    /\ pc' = "waitResults"
    /\ due' = now + Wait
    /\ UNCHANGED <<now, registered, collected, tempKey, record, node, privKey, peerKeys, bucket, lost>>

ResultsIn ==
    /\ pc = "waitResults"
    /\ \A n \in Nodes : node[n] = "heard"
    /\ Return("returned")

-----------------------------------------------------------------------------
(* The nodes.                                                               *)

\* Mutant of MakeKey: the private key lives as long as its public key at the server.
MakeKeyBriefly(n) ==
    /\ node[n] = "idle"
    /\ node' = [node EXCEPT ![n] = "keyed"]
    /\ privKey' = [privKey EXCEPT ![n] = now + TempKeyTTL]
    /\ UNCHANGED <<now, pc, due, registered, collected, tempKey, record, peerKeys, bucket, lost>>

\* The request for a key arrives, late perhaps.
MakeKey(n) ==
    /\ node[n] = "idle"
    /\ node' = [node EXCEPT ![n] = "keyed"]
    /\ privKey' = [privKey EXCEPT ![n] = now + KeyTTL]
    /\ UNCHANGED <<now, pc, due, registered, collected, tempKey, record, peerKeys, bucket, lost>>

\* handleTempPublicKey of the server.
ReceiveKey(n) ==
    /\ node[n] = "keyed"
    /\ node' = [node EXCEPT ![n] = "posted"]
    /\ tempKey' = [tempKey EXCEPT ![n] = now + TempKeyTTL]
    /\ collected' = IF registered THEN collected \cup {n} ELSE collected
    /\ UNCHANGED <<now, pc, due, registered, record, privKey, peerKeys, bucket, lost>>

TooOld(n) == bucket[n] # None /\ now - bucket[n] > EarlyTTL

\* cleanupExpiredEarlyKeygenMessagesLocked, called for a message of any task.
ExpireBucket(n) ==
    /\ TooOld(n)
    /\ lost' = lost \cup {n}
    /\ bucket' = [bucket EXCEPT ![n] = None]
    /\ UNCHANGED <<now, pc, due, registered, collected, tempKey, record, node, privKey, peerKeys>>

\* A peer that runs has sent a message, which arrives before the start does.
ReceiveEarly(n) ==
    /\ node[n] = "pushed"
    /\ now < privKey[n]
    /\ \E m \in Nodes \ {n} : node[m] \in {"running", "heard", "unheard"} /\ now < peerKeys[m]
    /\ lost' = IF TooOld(n) THEN lost \cup {n} ELSE lost
    /\ bucket' = [bucket EXCEPT ![n] = IF @ = None \/ TooOld(n) THEN now ELSE @]
    /\ UNCHANGED <<now, pc, due, registered, collected, tempKey, record, node, privKey, peerKeys>>

\* Mutant of Accepts: ExpiredTime is ignored.
AcceptsExpired(n) == now < privKey[n]

\* The start can be decrypted and its ExpiredTime has not passed.
Accepts(n) == now < privKey[n] /\ now <= ExpiresAfter

\* HandleMpcKeygenStart.  Refused, nothing is reported.
ReceiveStart(n) ==
    /\ node[n] = "pushed"
    /\ IF Accepts(n)
       THEN /\ node' = [node EXCEPT ![n] = "running"]
            /\ peerKeys' = [peerKeys EXCEPT ![n] = now + KeyTTL]
            /\ lost' = IF TooOld(n) THEN lost \cup {n} ELSE lost
            /\ bucket' = [bucket EXCEPT ![n] = None]
       ELSE /\ node' = [node EXCEPT ![n] = "refused"]
            /\ UNCHANGED <<peerKeys, lost, bucket>>
    /\ UNCHANGED <<now, pc, due, registered, collected, tempKey, record, privKey>>

\* The run is over, and handleMpcKeygenResult looks for the record.
Report(n) ==
    /\ node[n] = "running"
    /\ node' = [node EXCEPT ![n] = IF now < record[n] THEN "heard" ELSE "unheard"]
    /\ record' = [record EXCEPT ![n] = IF now < @ THEN now + RecordTTL ELSE @]
    /\ UNCHANGED <<now, pc, due, registered, collected, tempKey, privKey, peerKeys, bucket, lost>>

-----------------------------------------------------------------------------

Coordinator ==
    \/ TimerFires \/ KeysPushed \/ KeysIn \/ TimesOut \/ StartsPushed \/ ResultsIn
    \/ \E n \in Nodes : PushStart(n)

Node(n) ==
    \/ MakeKey(n) \/ ReceiveKey(n) \/ ExpireBucket(n) \/ ReceiveEarly(n) \/ ReceiveStart(n) \/ Report(n)

Next == Tick \/ Coordinator \/ \E n \in Nodes : Node(n)

Spec == Init /\ [][Next]_vars

-----------------------------------------------------------------------------
(* Properties.                                                             *)

\* The type of every variable; the registry knows no collector of a task that is over.
TypeOK ==
    /\ now \in Nat /\ due \in Nat
    /\ pc \in Working \cup {"returned", "failed"}
    /\ registered \in BOOLEAN
    /\ registered => pc \in Working
    /\ collected \subseteq Nodes /\ lost \subseteq Nodes
    /\ {tempKey, record, privKey, peerKeys} \subseteq [Nodes -> Nat]
    /\ node \in [Nodes -> {"idle", "keyed", "posted", "pushed", "running", "refused", "heard", "unheard"}]
    /\ bucket \in [Nodes -> Nat \cup {None}]

\* A key that reaches the server while the task waits for it is collected, provided the
\* pushes took less than the timer has in hand (app/mpc_keygen.go:125-151).
KeysCollected ==
    pc = "waitKeys" /\ due < Registry =>
        \A n \in Nodes : node[n] = "posted" => n \in collected

\* A node that accepts a start has all messages that came before: the start expires
\* before they do (node/mpc_keygen.go:37, :444).
EarlyKept == \A n \in Nodes : node[n] \in {"running", "heard", "unheard"} => n \notin lost

\* While the task waits for results, its nodes can send and read messages: none of the
\* keys made at its beginning has expired (node/main.go:61, node/mpc_keygen.go:453).
KeysOutliveTask ==
    pc \in {"pushStart", "waitResults"} =>
        \A n \in Nodes : node[n] = "running" => now < privKey[n] /\ now < peerKeys[n]

\* A report that comes while the task waits for it finds its record (app/mpc_keygen.go:203, :346).
ReportsHeard ==
    [][\A n \in Nodes : pc = "waitResults" /\ node[n] = "running" => node'[n] # "unheard"]_vars
=============================================================================
