----------------------------- MODULE NodeSession -----------------------------
(***************************************************************************)
(* The way of the TSS messages of one keygen task inside one node          *)
(* (node/mpc_keygen.go; node/mpc_sign.go repeats it line by line).  The    *)
(* push callback runs DeliverMpcKeygenMsg for one message after the other; *)
(* HandleMpcKeygenStart runs in a goroutine of its own, registers the      *)
(* session and starts two more: the protocol run and the delivery loop     *)
(* that feeds party.Update.  They meet in the bucket of early messages,    *)
(* in the session map, in recvCh and in router.party, each under its own   *)
(* lock or under none.                                                     *)
(***************************************************************************)
EXTENDS Naturals, Sequences, SequencesExt

CONSTANTS M,     \* how many messages the coordinator pushes; they are named 1 .. M
          Own,   \* the messages that carry the node's own FromIndex
          Cap    \* the capacity of the bucket, of recvCh and of earlyMsgs (512 in the code)

ASSUME MAssumption   == M \in Nat
ASSUME OwnAssumption == Own \subseteq 1 .. M
ASSUME CapAssumption == Cap \in Nat \ {0}

Items == 1 .. M

VARIABLES
    next,       \* the message whose delivery is under way or comes next
    dl,         \* its DeliverMpcKeygenMsg: "idle", "early" (saw no session), "found"
    prk,        \* is the task's temporary private key in the cache?
    bucket,     \* earlyKeygenMessages of this task
    start,      \* where HandleMpcKeygenStart and its protocol goroutine are
    replay,     \* replayItems of registerKeygenSession
    mapped,     \* is the session in keygenSessions?
    closed,     \* session.closed (recvCh is closed with it)
    recvCh,     \* the session's queue
    party,      \* is router.party set?
    worker,     \* the delivery goroutine: "off", "run", "exit"
    early,      \* its local earlyMsgs
    processed,  \* what party.Update was called with, in order
    dropped     \* messages given up anywhere (for the properties only)

deliverVars == <<next, dl>>
startVars   == <<start, replay, mapped, prk>>
workerVars  == <<party, worker, early, processed>>
vars == <<deliverVars, startVars, workerVars, bucket, closed, recvCh, dropped>>

Init ==
    /\ next = 1 /\ dl = "idle" /\ prk = TRUE
    /\ bucket = <<>> /\ start = "idle" /\ replay = <<>> /\ mapped = FALSE
    /\ closed = FALSE /\ recvCh = <<>> /\ party = FALSE
    /\ worker = "off" /\ early = <<>> /\ processed = <<>>
    /\ dropped = {}

-----------------------------------------------------------------------------

\* Mutant of Enqueue: no bound on the queue.
EnqueueUnbounded(i) ==
    \/ ~closed /\ recvCh' = Append(recvCh, i) /\ UNCHANGED dropped
    \/ closed /\ dropped' = dropped \cup {i} /\ UNCHANGED recvCh

\* session.enqueue, under the session's lock: closed or full means dropped.
Enqueue(i) ==
    \/ /\ ~closed
       /\ Len(recvCh) < Cap
       /\ recvCh' = Append(recvCh, i)
       /\ UNCHANGED dropped
    \/ /\ closed \/ Len(recvCh) >= Cap
       /\ dropped' = dropped \cup {i}
       /\ UNCHANGED recvCh

-----------------------------------------------------------------------------
(* DeliverMpcKeygenMsg, called by the push callback.                       *)

DeliverDone == dl' = "idle" /\ next' = next + 1

\* "temp prk is nil": the task is over (or was never known).
DeliverWithoutKey ==
    /\ dl = "idle" /\ next <= M /\ ~prk
    /\ dropped' = dropped \cup {next}
    /\ DeliverDone
    /\ UNCHANGED <<startVars, workerVars, bucket, closed, recvCh>>

\* getKeygenSession, under the read lock of the map and no other.
LookUpSession ==
    /\ dl = "idle" /\ next <= M /\ prk
    /\ dl' = IF mapped THEN "found" ELSE "early"
    /\ UNCHANGED <<next, startVars, workerVars, bucket, closed, recvCh, dropped>>

\* No session was seen: into the bucket, under the bucket's lock.
CacheEarly ==
    /\ dl = "early"
    /\ \/ /\ Len(bucket) < Cap
          /\ bucket' = Append(bucket, next)
          /\ UNCHANGED dropped
       \/ /\ Len(bucket) >= Cap
          /\ dropped' = dropped \cup {next}
          /\ UNCHANGED bucket
    /\ DeliverDone
    /\ UNCHANGED <<startVars, workerVars, closed, recvCh>>

\* A session was seen: drop one's own message, enqueue any other.
EnqueueFound ==
    /\ dl = "found"
    /\ \/ next \notin Own /\ Enqueue(next)
       \/ /\ next \in Own
          /\ dropped' = dropped \cup {next}
          /\ UNCHANGED recvCh
    /\ DeliverDone
    /\ UNCHANGED <<startVars, workerVars, bucket, closed>>

\* A delivery or registration of any task clears buckets older than 2 minutes.  A
\* start is not accepted 120 s after its task began, so its bucket was taken (or
\* the start refused) before it is that old (TaskClock: EarlyKept).
ExpireBucket ==
    /\ start # "idle"
    /\ bucket # <<>>
    /\ dropped' = dropped \cup ToSet(bucket)
    /\ bucket' = <<>>
    /\ UNCHANGED <<deliverVars, startVars, workerVars, closed, recvCh>>

-----------------------------------------------------------------------------
(* HandleMpcKeygenStart.                                                   *)

\* No key, not decryptable, expired, not one of the nodes: nothing is registered.
RejectStart ==
    /\ start = "idle"
    /\ start' = "rejected"
    /\ UNCHANGED <<deliverVars, replay, mapped, prk, workerVars, bucket, closed, recvCh, dropped>>

\* Mutant of TakeEarly: the bucket is read and left in place.
CopyEarly ==
    /\ start = "idle"
    /\ start' = "taken"
    /\ worker' = "run"
    /\ replay' = bucket
    /\ UNCHANGED <<deliverVars, mapped, prk, party, early, processed, bucket,
                   closed, recvCh, dropped>>

\* The delivery goroutine is started; then registerKeygenSession, step 1: take
\* the early messages out of the bucket.
TakeEarly ==
    /\ start = "idle"
    /\ start' = "taken"
    /\ worker' = "run"
    /\ replay' = bucket
    /\ bucket' = <<>>
    /\ UNCHANGED <<deliverVars, mapped, prk, party, early, processed, closed, recvCh, dropped>>

\* Step 2: put the session into the map.
MapSession ==
    /\ start = "taken"
    /\ start' = "replay"
    /\ mapped' = TRUE
    /\ UNCHANGED <<deliverVars, replay, prk, workerVars, bucket, closed, recvCh, dropped>>

\* Step 3: enqueue the early messages, one by one.
ReplayEarly ==
    /\ start = "replay"
    /\ replay # <<>>
    /\ Enqueue(Head(replay))
    /\ replay' = Tail(replay)
    /\ UNCHANGED <<deliverVars, start, mapped, prk, workerVars, bucket, closed>>

\* The protocol goroutine starts: GeneratePreParams takes its time.
RunProtocol ==
    /\ start = "replay"
    /\ replay = <<>>
    /\ start' = "run"
    /\ UNCHANGED <<deliverVars, replay, mapped, prk, workerVars, bucket, closed, recvCh, dropped>>

\* session.router.party = party, unlocked, and party.Start().
SetParty ==
    /\ start = "run"
    /\ start' = "party"
    /\ party' = TRUE
    /\ UNCHANGED <<deliverVars, replay, mapped, prk, worker, early, processed,
                   bucket, closed, recvCh, dropped>>

\* The run returns (a result, an error, the deadline) and has been reported.
FinishRun ==
    /\ start \in {"run", "party"}
    /\ start' = "finished"
    /\ UNCHANGED <<deliverVars, replay, mapped, prk, workerVars, bucket, closed, recvCh, dropped>>

\* Mutant of CloseSession: the flag and the channel stay open.
CloseNothing ==
    /\ start = "finished"
    /\ start' = "closed"
    /\ UNCHANGED <<deliverVars, replay, mapped, prk, workerVars, bucket, closed, recvCh, dropped>>

\* The deferred clean-up: session.close, ...
CloseSession ==
    /\ start = "finished"
    /\ start' = "closed"
    /\ closed' = TRUE
    /\ UNCHANGED <<deliverVars, replay, mapped, prk, workerVars, bucket, recvCh, dropped>>

\* ... unregisterKeygenSession, first the bucket, ...
ClearBucket ==
    /\ start = "closed"
    /\ start' = "cleared"
    /\ dropped' = dropped \cup ToSet(bucket)
    /\ bucket' = <<>>
    /\ UNCHANGED <<deliverVars, replay, mapped, prk, workerVars, closed, recvCh>>

\* ... then the map, ...
UnmapSession ==
    /\ start = "cleared"
    /\ start' = "unmapped"
    /\ mapped' = FALSE
    /\ UNCHANGED <<deliverVars, replay, prk, workerVars, bucket, closed, recvCh, dropped>>

\* ... and the keys of the task.
DeleteKeys ==
    /\ start = "unmapped"
    /\ start' = "done"
    /\ prk' = FALSE
    /\ UNCHANGED <<deliverVars, replay, mapped, workerVars, bucket, closed, recvCh, dropped>>

-----------------------------------------------------------------------------
(* runKeygenDelivery.                                                      *)

\* With a party: first the early messages kept so far, then the new one.
Process(i) ==
    /\ party
    /\ processed' = processed \o early \o <<i>>
    /\ early' = <<>>
    /\ UNCHANGED dropped

\* Mutant of Keep: a message that comes before the party is set is thrown away.
KeepNothing(i) ==
    /\ ~party
    /\ dropped' = dropped \cup {i}
    /\ UNCHANGED <<early, processed>>

\* Without one: keep the message, unless there are too many.
Keep(i) ==
    /\ ~party
    /\ \/ /\ Len(early) < Cap
          /\ early' = Append(early, i)
          /\ UNCHANGED dropped
       \/ /\ Len(early) >= Cap
          /\ dropped' = dropped \cup {i}
          /\ UNCHANGED early
    /\ UNCHANGED processed

SkipOwn(i) ==
    /\ dropped' = dropped \cup {i}
    /\ UNCHANGED <<early, processed>>

Work ==
    /\ worker = "run"
    /\ recvCh # <<>>
    /\ recvCh' = Tail(recvCh)
    /\ LET i == Head(recvCh) IN
          \/ i \in Own /\ SkipOwn(i)
          \/ i \notin Own /\ (Process(i) \/ Keep(i))
    /\ UNCHANGED <<deliverVars, startVars, party, worker, bucket, closed>>

\* range over the closed channel drains it first.
WorkerExit ==
    /\ worker = "run"
    /\ closed
    /\ recvCh = <<>>
    /\ worker' = "exit"
    /\ UNCHANGED <<deliverVars, startVars, party, early, processed, bucket, closed, recvCh, dropped>>

-----------------------------------------------------------------------------

Deliver == DeliverWithoutKey \/ LookUpSession \/ CacheEarly \/ EnqueueFound

Start ==
    \/ RejectStart \/ TakeEarly \/ MapSession \/ ReplayEarly \/ RunProtocol \/ SetParty
    \/ FinishRun \/ CloseSession \/ ClearBucket \/ UnmapSession \/ DeleteKeys

Worker == Work \/ WorkerExit

Next == Deliver \/ ExpireBucket \/ Start \/ Worker

\* Goroutines run on; the run has a deadline; no message need arrive.
Fairness ==
    /\ WF_vars(CacheEarly \/ EnqueueFound)
    /\ WF_vars(MapSession \/ ReplayEarly \/ RunProtocol \/ FinishRun
               \/ CloseSession \/ ClearBucket \/ UnmapSession \/ DeleteKeys)
    /\ WF_vars(Worker)

Spec == Init /\ [][Next]_vars

FairSpec == Spec /\ Fairness

-----------------------------------------------------------------------------
(* Properties.                                                             *)

\* The type of every variable.
TypeOK ==
    /\ next \in 1 .. M + 1
    /\ dl \in {"idle", "early", "found"}
    /\ start \in {"idle", "rejected", "taken", "replay", "run", "party",
                  "finished", "closed", "cleared", "unmapped", "done"}
    /\ prk \in BOOLEAN /\ mapped \in BOOLEAN /\ closed \in BOOLEAN /\ party \in BOOLEAN
    /\ worker \in {"off", "run", "exit"}
    /\ bucket \in Seq(Items) /\ Len(bucket) <= Cap
    /\ replay \in Seq(Items) /\ Len(replay) <= Cap
    /\ recvCh \in Seq(Items) /\ Len(recvCh) <= Cap
    /\ early \in Seq(Items) /\ Len(early) <= Cap
    /\ processed \in Seq(Items)
    /\ dropped \subseteq Items

\* Everything that holds messages, one after the other.
Places == processed \o early \o recvCh \o replay \o bucket

\* A message that was pushed is in exactly one place, or was dropped: the three
\* hand-overs (bucket to replay, replay and callback to queue, queue to party)
\* neither double a message nor forget one.
ExactlyOnce ==
    /\ IsInjective(Places)
    /\ ToSet(Places) \cap dropped = {}
    /\ ToSet(Places) \cup dropped = 1 .. next - 1

\* A message of a peer is dropped only when a buffer holds Cap messages, when the
\* session is closed or gone, or when it stayed in the bucket for too long.
DropsOnlyWhenFull ==
    [][\A i \in dropped' \ dropped :
          \/ i \in Own
          \/ closed \/ ~prk
          \/ i \in ToSet(bucket)
          \/ Cap \in {Len(bucket), Len(recvCh), Len(early)}]_vars

\* Once a run is over, its delivery goroutine ends, its session is unmapped and its
\* key is gone; nothing waits on the closed queue.
SessionEnds ==
    start = "taken" ~> (worker = "exit" /\ ~mapped /\ ~prk)

\* The bucket exists so that a message that overtakes the registration is not
\* lost (node/mpc_keygen.go:28, node/mpc_sign.go:25): while the session is
\* registered and no delivery is under way, no message is left in the bucket.
NothingStranded ==
    start \in {"replay", "run", "party"} /\ dl = "idle" => bucket = <<>>
=============================================================================
