------------------------------ MODULE InProcess ------------------------------
(***************************************************************************)
(* A protocol with all parties in one process: RunKeygen                   *)
(* (mpc/alg_ecdsa/keygen.go), RunSign and RunSignWithKDD (sign.go), whose  *)
(* goroutines and channels are the same, over the InProcessRouter          *)
(* (transport.go).  One goroutine per party runs Start; one, the drainer,  *)
(* takes messages from outCh and hands them to the parties' Update; the    *)
(* caller collects the results.                                            *)
(*                                                                         *)
(* External is the party of bnb-chain/tss-lib v1.5.0: Start and Update     *)
(* hold its lock; Update stores the message and, while the round has all   *)
(* it needs, starts the next one, sending that one's messages to outCh     *)
(* before it returns; the last one sends the result to endCh.              *)
(***************************************************************************)
EXTENDS Integers, Sequences

CONSTANTS N,          \* the number of parties
          Protocols,  \* the functions that may be called
          MayFail     \* may a Start fail, or the caller's timeout strike?

\* What the rounds of the library's protocols send ("each": a message per peer, and
\* after them "all": one to all), and outCh's places per party.
Keygen == [emits  |-> <<{"all"}, {"each", "all"}, {"all"}>>,
           places |-> 4]
Sign   == [emits  |-> <<{"each", "all"}, {"each"}, {"all"}, {"all"}, {"all"}, {"all"},
                        {"all"}, {"all"}, {"all"}>>,
           places |-> 8]

OnlyKeygen == {Keygen}
Both       == {Keygen, Sign}

ASSUME NAssumption == N \in Nat \ {0, 1}
ASSUME ProtocolsAssumption == Protocols \subseteq Both
ASSUME MayFailAssumption == MayFail \in BOOLEAN

Parties == 1 .. N

VARIABLES
    proto,   \* the function that was called
    start,   \* per party: its Start goroutine ("new", "run", "done", "failed")
    rnd,     \* per party: its round; 0 before Start, R + 1 after the last
    sent,    \* per party: how many of its round's messages it has sent
    got,     \* per party: the messages it has stored
    queue,   \* outCh
    todo,    \* the drainer: the deliveries of its message still to make, <<message, to>>
    upd,     \* the drainer: the party whose Update is sending, or 0
    done,    \* endCh: parties whose result the caller has not taken
    taken,   \* parties whose result the caller has taken
    errs,    \* parties whose error is in errCh
    main,    \* the caller: "run", "closing" (in wg.Wait), "ok", "error"
    closed,  \* is outCh closed?
    panicked \* has a goroutine sent to the closed outCh?

vars == <<proto, start, rnd, sent, got, queue, todo, upd, done, taken, errs, main, closed,
          panicked>>
roundVars  == <<rnd, sent, got, upd, done>>
callerVars == <<proto, taken, errs, main, closed>>

R == Len(proto.emits)

\* Mutant of Capacity: one place per party.
CapacityPerParty == N

Capacity == proto.places * N

Init ==
    /\ proto \in Protocols
    /\ start = [i \in Parties |-> "new"]
    /\ rnd = [i \in Parties |-> 0] /\ sent = [i \in Parties |-> 0]
    /\ got = [i \in Parties |-> {}]
    /\ queue = <<>> /\ todo = {} /\ upd = 0
    /\ done = {} /\ taken = {} /\ errs = {}
    /\ main = "run" /\ closed = FALSE /\ panicked = FALSE

-----------------------------------------------------------------------------
(* The messages of the library's parties: <<i, r, k>> is the k-th that     *)
(* party i sends in its round r.                                           *)

ToEach(r) == r \in 1 .. R /\ "each" \in proto.emits[r]
ToAll(r)  == r \in 1 .. R /\ "all" \in proto.emits[r]

\* How many messages a party sends in round r.
Count(r) == (IF ToEach(r) THEN N - 1 ELSE 0) + (IF ToAll(r) THEN 1 ELSE 0)

Messages == {m \in Parties \X (1 .. R) \X (1 .. N) : m[3] <= Count(m[2])}

\* m.IsBroadcast(): what comes after the messages to each peer.
IsBroadcast(m) == ToAll(m[2]) /\ m[3] = Count(m[2])

\* The k-th peer of i in the order of PartyIDs.
Peer(i, k) == IF k < i THEN k ELSE k + 1

\* Mutant of Receivers: a broadcast comes back to its sender.
ReceiversAndSender(m) == IF IsBroadcast(m) THEN Parties ELSE {Peer(m[1], m[3])}

\* InProcessRouter.Send: whom the message is handed to.
Receivers(m) == IF IsBroadcast(m) THEN Parties \ {m[1]} ELSE {Peer(m[1], m[3])}

\* The messages of round r that party i waits for.
Needed(i, r) == {m \in Messages : m[1] # i /\ m[2] = r /\ i \in Receivers(m)}

\* Has party i still something to send in its round?
Sending(i) == sent[i] < Count(rnd[i])

-----------------------------------------------------------------------------

\* outCh <- the next message of party i, by whichever goroutine: the channel must not
\* be closed, and it may be full.
PutOut(i) ==
    /\ Sending(i)
    /\ sent' = [sent EXCEPT ![i] = @ + 1]
    /\ \/ /\ closed
          /\ panicked' = TRUE
          /\ UNCHANGED queue
       \/ /\ ~closed
          /\ Len(queue) < Capacity
          /\ queue' = Append(queue, <<i, rnd[i], sent[i] + 1>>)
          /\ UNCHANGED panicked

\* go p.Start(): the party takes its lock and starts its first round, or fails to.
Start(i) ==
    /\ start[i] = "new"
    /\ start' = [start EXCEPT ![i] = "run"]
    /\ rnd' = [rnd EXCEPT ![i] = 1]
    /\ UNCHANGED <<sent, got, queue, todo, upd, done, callerVars, panicked>>

StartFails(i) ==
    /\ MayFail
    /\ start[i] = "new"
    /\ start' = [start EXCEPT ![i] = "failed"]
    /\ errs' = errs \cup {i}
    /\ UNCHANGED <<roundVars, queue, todo, proto, taken, main, closed, panicked>>

StartSends(i) ==
    /\ start[i] = "run"
    /\ PutOut(i)
    /\ UNCHANGED <<start, rnd, got, todo, upd, done, callerVars>>

StartReturns(i) ==
    /\ start[i] = "run"
    /\ ~Sending(i)
    /\ start' = [start EXCEPT ![i] = "done"]
    /\ UNCHANGED <<roundVars, queue, todo, callerVars, panicked>>

\* for msg := range outCh: to each of its receivers.
Take ==
    /\ upd = 0 /\ todo = {}
    /\ queue # <<>>
    /\ todo' = {Head(queue)} \X Receivers(Head(queue))
    /\ queue' = Tail(queue)
    /\ UNCHANGED <<start, roundVars, callerVars, panicked>>

\* What Update makes of the messages g that party i has stored: the next round starts
\* when this one has all, and the one after the last is the result, for which endCh has
\* room.  Before Start they are only stored.
Update(i, g) ==
    \/ /\ rnd[i] \in 1 .. R /\ Needed(i, rnd[i]) \subseteq g
       /\ rnd' = [rnd EXCEPT ![i] = @ + 1]
       /\ sent' = [sent EXCEPT ![i] = 0]
       /\ upd' = i
       /\ done' = IF rnd[i] = R THEN done \cup {i} ELSE done
    \/ /\ ~(rnd[i] \in 1 .. R /\ Needed(i, rnd[i]) \subseteq g)
       /\ upd' = 0
       /\ UNCHANGED <<rnd, sent, done>>

\* Mutant of Receive: it takes no message of a single target.
ReceiveBroadcasts ==
    /\ upd = 0
    /\ \E d \in todo :
        /\ \A e \in todo : d[2] <= e[2]
        /\ start[d[2]] # "run"
        /\ got' = IF IsBroadcast(d[1]) THEN [got EXCEPT ![d[2]] = @ \cup {d[1]}] ELSE got
        /\ todo' = todo \ {d}
        /\ Update(d[2], got'[d[2]])
    /\ UNCHANGED <<start, queue, callerVars, panicked>>

\* Mutant of Receive: what comes before Start is not stored.
ReceiveStarted ==
    /\ upd = 0
    /\ \E d \in todo :
        /\ \A e \in todo : d[2] <= e[2]
        /\ start[d[2]] # "run"
        /\ got' = IF start[d[2]] = "new" THEN got ELSE [got EXCEPT ![d[2]] = @ \cup {d[1]}]
        /\ todo' = todo \ {d}
        /\ Update(d[2], got'[d[2]])
    /\ UNCHANGED <<start, queue, callerVars, panicked>>

\* InProcessRouter.Receive, in the order of the parties: party.Update, which waits for the
\* lock of a Start.
Receive ==
    /\ upd = 0
    /\ \E d \in todo :
        /\ \A e \in todo : d[2] <= e[2]
        /\ start[d[2]] # "run"
        /\ got' = [got EXCEPT ![d[2]] = @ \cup {d[1]}]
        /\ todo' = todo \ {d}
        /\ Update(d[2], got[d[2]] \cup {d[1]})
    /\ UNCHANGED <<start, queue, callerVars, panicked>>

\* The Update the drainer is in sends the messages of the round it has started, and
\* looks at what is stored again.
UpdateSends ==
    /\ upd # 0
    /\ PutOut(upd)
    /\ UNCHANGED <<start, rnd, got, todo, upd, done, callerVars>>

UpdateGoesOn ==
    /\ upd # 0
    /\ ~Sending(upd)
    /\ Update(upd, got[upd])
    /\ UNCHANGED <<start, got, queue, todo, callerVars, panicked>>

-----------------------------------------------------------------------------
(* The caller.                                                             *)

\* Mutant of TakeResult: one result is taken for all.
TakeFirstResult(i) ==
    /\ main = "run"
    /\ i \in done
    /\ done' = done \ {i}
    /\ taken' = taken \cup {i}
    /\ main' = "closing" /\ closed' = TRUE
    /\ UNCHANGED <<start, rnd, sent, got, queue, todo, upd, proto, errs, panicked>>

\* save := <-endCh; after the last one outCh is closed.
TakeResult(i) ==
    /\ main = "run"
    /\ i \in done
    /\ done' = done \ {i}
    /\ taken' = taken \cup {i}
    /\ \/ /\ taken' = Parties
          /\ main' = "closing" /\ closed' = TRUE
       \/ /\ taken' # Parties
          /\ UNCHANGED <<main, closed>>
    /\ UNCHANGED <<start, rnd, sent, got, queue, todo, upd, proto, errs, panicked>>

CloseAndReturnError ==
    /\ main = "run"
    /\ main' = "error" /\ closed' = TRUE
    /\ UNCHANGED <<start, roundVars, queue, todo, proto, taken, errs, panicked>>

\* err := <-errCh.
TakeError == errs # {} /\ CloseAndReturnError

\* Five (two) minutes without a result or an error.
Timeout == MayFail /\ CloseAndReturnError

\* wg.Wait: the drainer has emptied the closed channel.
Return ==
    /\ main = "closing"
    /\ queue = <<>> /\ todo = {} /\ upd = 0
    /\ main' = "ok"
    /\ UNCHANGED <<start, roundVars, queue, todo, proto, taken, errs, closed, panicked>>

-----------------------------------------------------------------------------

StartOf(i) == Start(i) \/ StartSends(i) \/ StartReturns(i)

Drainer == Take \/ Receive \/ UpdateSends \/ UpdateGoesOn

Caller == TakeError \/ Return \/ \E i \in Parties : TakeResult(i)

\* A panic ends the process.
Next ==
    /\ ~panicked
    /\ \/ \E i \in Parties : StartOf(i) \/ StartFails(i)
       \/ Drainer
       \/ Caller
       \/ Timeout

Spec == Init /\ [][Next]_vars

\* Goroutines run on unless they are blocked (or the process has died); nothing is
\* expected of the timeout.
FairSpec ==
    /\ Spec
    /\ WF_vars(~panicked /\ Drainer)
    /\ WF_vars(~panicked /\ Caller)
    /\ \A i \in Parties : WF_vars(~panicked /\ StartOf(i))

-----------------------------------------------------------------------------
(* Properties.                                                             *)

\* The type of every variable; outCh holds no more than it has places, and a party
\* stores no message of its own.
TypeOK ==
    /\ proto \in Protocols
    /\ start \in [Parties -> {"new", "run", "done", "failed"}]
    /\ rnd \in [Parties -> 0 .. R + 1]
    /\ sent \in [Parties -> 0 .. N]
    /\ got \in [Parties -> SUBSET Messages]
    /\ \A i \in Parties : \A m \in got[i] : m[1] # i
    /\ queue \in Seq(Messages) /\ Len(queue) <= Capacity
    /\ todo \subseteq Messages \X Parties
    /\ upd \in {0} \cup Parties
    /\ done \subseteq Parties /\ taken \subseteq Parties /\ errs \subseteq Parties
    /\ main \in {"run", "closing", "ok", "error"}
    /\ closed \in BOOLEAN /\ panicked \in BOOLEAN

\* Nobody waits for room in outCh: the drainer alone makes it, and it may itself be
\* sending, or waiting for the lock of a party whose Start is.
NeverStuck == ~closed /\ (\E i \in Parties : Sending(i)) => Len(queue) < Capacity

\* Has a goroutine something it can do?  What the actions ask for, without the timeout.
CanGoOn ==
    \/ \E i \in Parties : start[i] = "new" \/ (start[i] = "run" /\ ~Sending(i))
    \/ \E i \in Parties :
        Sending(i) /\ (start[i] = "run" \/ upd = i) /\ Len(queue) < Capacity
    \/ upd # 0 /\ ~Sending(upd)
    \/ upd = 0 /\ todo = {} /\ queue # <<>>
    \/ upd = 0 /\ \E d \in todo : (\A e \in todo : d[2] <= e[2]) /\ start[d[2]] # "run"
    \/ done # {} \/ errs # {}

\* The parties, the drainer and the caller never all wait for one another, for a message
\* that is not on its way, for room in outCh, for a lock or for a result: the caller is
\* not left to its timeout.
NoDeadlock == main = "run" => CanGoOn

\* A successful return closes outCh only when every party has come to its end, nothing
\* is left to send and every message has been delivered, for every order in which the
\* parties start and end.
ClosesAtTheEnd ==
    main \in {"closing", "ok"} =>
        /\ ~panicked
        /\ \A i \in Parties : rnd[i] = R + 1 /\ ~Sending(i)
        /\ queue = <<>> /\ todo = {}

\* Without the help of the timeout the call ends: with every party's result, or with
\* the error of a party that failed.
RunCompletes ==
    <>((main = "ok" /\ taken = Parties) \/ main = "error")

\* RunKeygen returns what went wrong, a party's error or "mpc: keygen timeout"
\* (mpc/alg_ecdsa/keygen.go:110, :124), and its callers look at it
\* (mpc/alg_ecdsa/README.md:29, "if err != nil"): the process does not die of it.
ErrorIsReturned == ~panicked
=============================================================================
