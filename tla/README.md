# wallet-mpc-tss: verification development

TLA+ models of the coordinator and the nodes of wallet-mpc-tss, the TLC runs that
check them on small instances, and TLAPS proofs for every value of the constants.
Paths are relative to the repository's root (`src/` in `PROJECT.json`).

    tlc -workers 2 -config MCKeygenTask.cfg MCKeygenTask.tla     # one run
    tlapm KeygenTaskProof.tla                                    # the proofs of one module

The modules with proofs are `KeygenTaskProof`, `KeygenPromiseProof`, `NodeSessionProof`,
`TssRelayProof`, `SignTaskProof`, `WalletServiceProof`, `TaskClockProof` and `InProcessProof`.

## 1. Inventory

A **coordinator** (`app/`) serves a terminal UI, an HTTP API (`CliService`) and a
websocket server. 3 or 5 **nodes** (`node/`) connect to it. Keygen and signing are
threshold-ECDSA protocols run by a library (`bnb-chain/tss-lib`) between the nodes;
all messages are encrypted for their target and relayed by the coordinator.

| component | state | operations | interacts by |
|---|---|---|---|
| keygen task, `app/mpc_keygen.go` | local variables of `createMPCKeygenTaskECDSA`, `keyCache` (temporary public keys, `MpcKeygenNodeResult` records shared by pointer), the KeyMeta file | push temp-key request, collect keys, push start, collect results, check, write KeyMeta, clean up; handlers `handleTempPublicKey`, `handleMpcKeygenResult`, `handleMpcKeygenMsg` | pushes to nodes, POSTs from nodes, cache, collectors |
| collectors, `app/mpc_collector.go` | `submitted`, `completed`, registries per task | register, submit, wait, unregister (also by timer) | called by task and handlers |
| sign task, `app/mpc_sign.go` | as keygen, with results in the cache and no prior record | as keygen | as keygen |
| node session, `node/mpc_keygen.go`, `node/mpc_sign.go` | early-message bucket, session map, `recvCh`, `router.party`, temporary keys | start, register and replay, deliver, process, close, unregister | push callback, protocol goroutine, delivery goroutine |
| relay, `wsKeygenRouter.Send/Receive`, `handleMpcKeygenMsg` | `outCh` and its sender goroutine, peers' public keys | send per target, forward, receive | POST and push |
| key store, `mpc/alg_ecdsa/keystore_file.go` | share files | Save, Load | called by the node |
| in-process protocol, `mpc/alg_ecdsa/keygen.go`, `sign.go` | channels of an `InProcessRouter` | keygen and sign with all parties in one process | channels |
| derivation, `mpc/alg_ecdsa/account_derive.go` | none | account and address keys from root key and path | called by service and nodes |
| wallet service, `app/cli_service.go`, `app/utils.go` | KeyMeta files (read), configuration | CliLogin, FindWalletList, CreateAccount, CreateAddress, SignTransaction, SignTradeKey | HTTP; starts sign tasks |
| UI, configuration, client API, DTOs | flags, files | start services, read and write configuration | |

What is hard here:

* *Concurrency without locks.* The cache hands out pointers; `handleMpcKeygenResult`
  fills a record in while the coordinator reads it. `router.party` is written by one
  goroutine and read by another. The sender goroutine is never waited for.
* *Check, then act, under different locks.* Session look-up and bucket; bucket and map.
* *Two ways for one event.* A POST reaches a collector by submission or by the replay of
  the cache; both are needed.
* *Failure.* Pushes and POSTs fail, answers get lost (the node then reports a failure
  for a key it has saved), nodes give up, the coordinator times out (125 s) long before
  the nodes do (10 min), the process dies while a file is written.
* *Bounds.* Queues and buffers of 512 messages drop what comes after.
* *Clocks.* Two waits, a registry's timer, the deadline of a start and the lifetimes of five
  kinds of cached things have to fit together, and no test waits two minutes.
* *Files in place.* KeyMeta and share files are written where readers look for them.
* *Widths.* Indices are int64 in requests and paths, uint32 in the derivation.

What makes each component correct:

* keygen task: a wallet is written only when every node has a share of its key; no
  handled POST is lost; a report, once recorded, stands; the call returns.
* node session: a message is neither doubled nor lost without a cause; nothing stays
  behind; the delivery goroutine ends.
* relay: every target of every message is posted; nobody waits for ever; no share of a
  key without every node's part in it.
* sign task: a signature is returned only if every node has produced it; no handled POST is
  lost; a success leaves nothing in the cache; the call returns.
* in-process protocol: it ends, the channel between its goroutines never blocks for good,
  and closing it hurts nobody.
* service: what it hands out can be signed for and what it lists can be used; a transaction
  is answered with all signatures, each of the right key, or with an error.
* clocks: nothing that a step needs has expired when the step is taken.

## 2. Modules

| module | models | extends / instantiates |
|---|---|---|
| `WalletPromise` | what a keygen task promises its caller: the abstract specification | |
| `KeygenTask` | coordinator, collectors, handlers, nodes as the coordinator sees them | instance of `WalletPromise` |
| `KeygenTaskProof` | theorems about `KeygenTask` | `KeygenTask`, `TLAPS` |
| `KeygenPromiseProof` | `KeygenTask` implements `WalletPromise` | `KeygenTaskProof` |
| `NodeSession` | one node: bucket, registration, queue, delivery, clean-up | |
| `NodeSessionProof` | theorems about `NodeSession` | `NodeSession`, `TLAPS` |
| `TssRelay` | all nodes of a keygen or sign task: sender goroutines, relay, delivery, clean-up | |
| `TssRelayProof` | theorems about `TssRelay` | `TssRelay`, `TLAPS` |
| `SignPromise` | what a sign task promises its caller | |
| `SignTask` | coordinator, collectors, timer, handlers and nodes of one sign task | instance of `SignPromise` |
| `SignTaskProof` | theorems about `SignTask` | `SignTask`, `TLAPS` |
| `TaskClock` | deadlines, timers and lifetimes of one task | |
| `TaskClockProof` | theorems about `TaskClock` | `TaskClock`, `TLAPS` |
| `HdPath` | indices, paths and derivation | |
| `WalletService` | KeyMeta and share files, the HTTP calls, the loop of sign tasks | `HdPath` |
| `WalletServiceProof` | theorems about `WalletService`; its files keep `WalletPromise` | `WalletService`, `TLAPS`, instance of `WalletPromise` |
| `InProcess` | `RunKeygen`, `RunSign`, `RunSignWithKDD`: goroutines and channels | |
| `InProcessProof` | theorems about `InProcess` | `InProcess`, `TLAPS` |
| `MC*` | instances for TLC | the module they are named after |

### KeygenTask

`pc` is the place in `createMPCKeygenTaskECDSA`, `cur` the node its loop is at. Each
push, cache access, collector call and file operation is one action, because each
takes or releases a lock or talks to another process:

    Begin PushTemp ReplayPub BlockPub|PubReady PushStart PutRecord (per node)
    RegisterResult ReplayResult BlockResult|ResultReady CheckResults CreateMeta
    WriteMeta CleanUp

Every `SendToSubject`, `Wait` and write has its failing counterpart (`PushTempFails`,
`PubTimeout`, `PushStartFails`, `ResultTimeout`, `WriteFails`) and `Crash` ends the
process anywhere. `Fail` is an error return: only the deferred unregisters run.

`handleMpcKeygenResult` is split where other goroutines can see its work:
`RecordReport` (Status, KeyID, RootPubHex, Err), `CacheReport`, `SubmitReport`;
`RejectReport` and `RepeatReport` are its early returns. While a handler is in `"fill"`,
an unlocked read of the record may return the old or the new value of each field, field
by field: that is how `ReplayResult` and `CheckResults` (operators `KeyReads`,
`ErrReads`, `Agree`) read it. `handleTempPublicKey` is one action, `ReceivePub`: its
collector is registered from before the first push until the return, or until its timer.
`TimerUnregisters` is that timer (`time.AfterFunc` in `registerPubkeyCollector`). It fires
130 s after the registration, while the wait of 125 s begins after the pushes; `slow` stands
for pushes that took more than the 5 s between, and only then can the timer be too early.

A node (`node`, `share`) is pushed, runs, saves, POSTs, waits for the answer, and
reports an error at most once. `Answer` may be lost. `net` holds reports on their way,
in any order.

KeyID and RootPubHex are both functions of the public key, so one value stands for
both; the check of either is in `Agree`. Left out: encryption and JSON of the
payloads (they fail only as `PushStartFails` does), errors of the in-memory cache (it
returns none), the task's own meta record
(nobody reads it), the refusal of a report for an unknown task (another task's), and the timer
of the result collector, whose wait of 125 s begins at once after its registration. The
lifetimes in the cache are in `TaskClock`.

### NodeSession

`DeliverMpcKeygenMsg` is called for one message after the other; it takes two locks one
after the other, so it is two actions (`LookUpSession`, then `CacheEarly` or
`EnqueueFound`). `registerKeygenSession` is `TakeEarly`, `MapSession`, `ReplayEarly`;
`unregisterKeygenSession` is `ClearBucket`, `UnmapSession`. `Work` is one turn of the
delivery goroutine's loop. `ExpireBucket` is the clearing of old buckets that any
task's delivery or registration does. `processed` and `dropped` record for the
properties what was given to `party.Update` and what was given up. The sign session
(`node/mpc_sign.go`) repeats this code.

### TssRelay

A party of the library goes through `R` rounds; entering one puts a message for each
peer into `out` (outCh and its sender). `Post`, `Skip` and `PostFails` are the three
outcomes of the sender's loop body in `Send`. `kind` tells the two tasks apart: in a sign
task a missing key is an error that ends the run (`wsSignRouter.Send`), and a push that
failed is answered OK (`handleMpcSignMsg`), so that the sender goes on. A message the
receiver's party refuses is in `lost` as well: its error goes into a channel nobody reads. Messages in `net` arrive in any order,
which includes the order the websocket keeps. Delivery is two steps where the code takes two
locks: `FindNoSession` is the look-up that finds none, and the message is then in `between`;
`CacheEarly` puts it into the bucket, before the registration, which will hand it over, or after,
and then it is in `stranded` (finding 2). A node delivers one message at a time (`Arrives`).
`KeepEarly`, `Update`, `DropLate` are delivery to a session without a party, with one, and
after the session's end; `Close` and
`DeleteKey` are the deferred clean-up, key by key. A keygen node caches its peers' public keys, a
sign node everybody's, its own included (`node/mpc_sign.go:203-208`). A library message to all peers and
the messages to single peers of the same round are one message per peer here.

### SignTask

Like `KeygenTask`, without records: `ReceiveResult` puts whatever comes into the cache,
`SubmitResult` hands it to a collector if there is one, and a node reports once, a
signature or an error, whatever the answer (so answers are not modelled). A sign task
keeps nothing on disk: a crash of the server ends it, and there is no `Crash` action.
`TimerUnregisters` is the timer of `registerPubkeyCollector`. It fires 35 s after the
registration, the wait of 30 s begins after the pushes; `slow` stands for pushes that took
more than the 5 s between, and only then can the timer be too early. The collector of
the results has a timer of 35 minutes, which cannot. The coordinator's answer to a POST,
encryption and JSON are left out as in `KeygenTask`.

### TaskClock

Time is counted in units from the registration of the key collector. `Tick` lets it pass, but
not beyond what the coordinator's present wait or loop of pushes can last (`due`). Everything
with a lifetime has a variable that says until when it lives (`tempKey`, `record`, `privKey`,
`peerKeys`) or since when it is there (`bucket`). The actions are those of `KeygenTask` and
`NodeSession` as far as they read a clock: `TimerFires` (`time.AfterFunc` of the registry),
`TimesOut`, `ReceiveStart` (which compares `ExpiredTime`), `ExpireBucket`, `Report` (which
looks for the record). Every duration is a constant; what they have to satisfy is
`ClockAssumption`, and the code's numbers do for keygen and signing. The machines' clocks are
assumed to agree, as the code assumes when it compares `ExpiredTime` with its own clock.

### HdPath and WalletService

A path is the sequence of the numbers it spells, and a derived public key is its wallet and
the indices that went into the derivation (`Cut`: uint32 of an int64). `ParseMPCPath` reads
32 bits without a sign.

`share` and `meta` are files: `os.WriteFile` creates them empty (`SaveBegin`, `MetaBegin`),
completes them (`SaveEnd`, `MetaEnd`), or is stopped in between and leaves them torn
(`SaveStops`, `MetaStops`, `Crash`). A file that is not whole does not decode. The keygen
between share and meta file is what `KeygenTask` proves of it, a sign task in
`SignTransaction`'s loop (`BeginTask`, `TaskReturns`, `TaskFails`) what `SignTask` proves of
it: nodes go on signing for a task that the coordinator has given up. `Verify` is the check of
the signature against the address's key. The loop is over a Go map of accounts, in any order, and
a slice of signatures each; `todo` is what is left of it, and may be taken in any order.

CliLogin and SignTradeKey change no state; the policy that SignTradeKey applies and
SignTransaction applies again is `Permitted`.

### InProcess

One goroutine per party runs `Start` (`Start`, `StartSends`, `StartReturns`, or
`StartFails`); the drainer takes a message from outCh (`Take`), hands it to each receiver
in turn (`Receive`) and, inside the receiver's `Update`, puts the next round's messages
into the same channel (`UpdateSends`) and looks again whether a round is complete
(`UpdateGoesOn`); the caller collects results (`TakeResult`), gives
up on an error or timeout (`TakeError`, `Timeout`), or waits for the drainer (`Return`). `PutOut` is a
send to a Go channel: it blocks when the channel is full and panics when it is closed.

The party is the library's and external: `Keygen` and `Sign` list what it sends per round
(a message per peer and then, or only, one to all), it goes on as soon as a
round has everything, and sends before `Update` returns. That two of its `Update`s exclude
each other and a running `Start` is the library's lock. Their `places` are the channel's capacity
per party, 4 for keygen and 8 for signing. A message is `<<i, r, k>>`, the `k`-th that party
`i` sends in its round `r`, so that `rnd` and `sent` say what has been sent and `got` what has
arrived, and the goroutine a send belongs to follows from `start` and `upd`.

## 3. Runs

| run | instance | states | shows |
|---|---|---|---|
| `keygen_task` | 3 nodes, 2 keys (symmetric) | 3.7 M | the safety properties and the refinement of `WalletPromise` |
| `keygen_task_live` | 3 nodes, 1 key | 1.4 M | the task and its nodes come to rest |
| `keygen_early_report` | 3 nodes, 1 key | – | finding 1 |
| `node_session` | 5 messages, one of them the node's own, buffers of 2 | 12 k | the session's safety and its end |
| `node_stranded` | as above, buffers of 5 | – | finding 2 |
| `tss_relay` | keygen and signing, 3 nodes, 2 rounds, one of the nodes may fail | 2.2 M | results, skipped and lost messages against everybody's progress; no stall |
| `sign_task` | 3 nodes, 2 signatures | 40 k | the safety properties, the refinement of `SignPromise`, and that the task and its nodes come to rest |
| `task_clock` | 2 nodes, units of 25 s | 8.9 M | nothing expires that is still needed |
| `wallet_service` | 1 wallet, 2 nodes, 4 values of uint32, 16 of int64, 7 transactions | 63 k | what is handed out and listed can be used; SignTransaction answers in full and ends |
| `in_process` | 3 parties, keygen (3 rounds) and signing (9), starts may fail, timeouts | 400 k | nobody waits for room in the channel; no deadlock; success is complete; the call ends |
| `inproc_keygen5` | keygen with 5 parties | – | finding 3 |
| `inproc_error` | keygen with 3 parties, starts may fail | – | finding 4 |

`CHECK_DEADLOCK FALSE` everywhere: a task ends, and then nothing is left to do.

**Bounds.** Three is the smallest number of nodes a task accepts and is enough for two
nodes that agree and one that does not; one node is asked once and reports at most
twice (key, then error), which bounds `net` by itself. Two keys are enough to
disagree. Five messages and buffers of two overflow each buffer, with a message before
and one after the overflow; the node's own message is the second, so that it comes both
to an empty and to a used buffer. Of rounds it takes two: the last, in which nodes finish at
different times, and one before; the proofs cover any number. `Faulty` bounds which nodes may
fail; in `tss_relay` it is the first in the order in which messages are posted and keys
deleted. A sign task needs two signatures to
disagree; its nodes report once, which bounds `net`. `InProcess` needs no bound but the
number of parties: 3 and 5 are the wallet modes. In `task_clock` a unit is 25 s, and what is
not a multiple of it is rounded so that all comparisons come out as they do in seconds; pushes
take up to two units, more than the timer's 5 s to spare; `MaxTime` is the longest a task can
last. Two nodes are a sender and a receiver of an early message. In `wallet_service` one
wallet is enough, because files and keys of two never mix, and one call, because two share
nothing but the files they read; four values of uint32 have a hardened half, and the inputs
contain a negative index, two that are cut to the same one, and the last int64.
`MaxCreated` = 2 allows two addresses that share a key.

**Fairness.** `KeygenTask`: the coordinator's goroutine runs on and its waits end by
their contexts (weak fairness of `Coordinator`); handlers that began finish; a node's
keygen ends by its deadline (10 min) and its POST by its own (30 s). Delivery of
messages is not fair, nor is the timer: `TaskSettles` holds if no POST ever arrives. `NodeSession`: a
delivery that began ends, the handler and the run (which has a deadline) go on, the
delivery goroutine works while there is work. `TssRelay`: some start, party, sender,
delivery or clean-up goes on while one can (no run has infinitely many steps, so fairness for
each of them would say no more), failures are not fair; `TaskCompletes` says what happens
in runs without failure. `SignTask`: as `KeygenTask` (a node's run ends after two minutes).
`WalletService`: the goroutine of a call runs on and a sign task
returns, which `TaskSettles` of `SignTask` shows. `TaskClock` has no fairness: its properties
are safety properties. `InProcess`: every goroutine that is not blocked goes
on; the timeout is not fair, so that `RunCompletes` says what happens without it.

### Properties

* `WalletAgreement`, `KeepsPromise`: no torn, doubled, late or failing report can slip
  into a KeyMeta file. It depends on both loops of the check: the first skips empty key
  ids at the front, and only the second refuses empty values everywhere.
* `NoLostEvent` (both tasks): registration before replay, record before start of the replay. A key
  can miss its collector only by coming after the collector's timer, and that is too early only
  after slow pushes; the task then fails at its timeout (`TaskSettles`).
* `SuccessLeavesNothing`: a sign task's handlers put whatever comes, so what a success
  deletes must not come back.
* `NeverStuck`, `NoDeadlock`, `ClosesAtTheEnd`, `RunCompletes`: one channel, filled and emptied by
  the same goroutine, and closed by a third. `NoDeadlock` is the safe half of `RunCompletes`: it says
  of every state before the end that one of the actions' guards holds, the timeout's aside, and so
  has a proof for more parties than a run can have.
* `FirstReportWins`: the Status test makes a repeated POST harmless.
* `TaskSettles`, `SessionEnds`, `TaskCompletes`: liveness. `TaskCompletes` exempts a run in which
  a message was stranded between look-up and bucket (finding 2): then the nodes wait for their
  deadlines though nothing has failed.
* `ExactlyOnce`, `DropsOnlyWhenFull`: the hand-overs of messages inside a node.
* `ShareNeedsEveryNode`: a node has a share (or signature) only when all are in the last round, the
  condition under which `KeygenTask` lets a node finish.
* `SkipsOnlyLastRound`: what the clean-up under the sender (below) can cost at most.
* `LostMessageNoResult`: however a message gets lost (a failed POST, a failed push answered OK,
  a refusal nobody hears of, a bucket that was emptied before), it costs the result and never goes unnoticed into one.
* `KeysCollected`, `EarlyKept`, `KeysOutliveTask`, `ReportsHeard`: what a step needs has not
  expired. `EarlyKept` is why the clearing of old buckets is harmless to a session that starts.
* `HandedOutIsSignable`, `OnePathPerKey`: the cut to uint32 loses nothing that can be signed for. Both
  speak of addresses whose path parses; one with an index beyond uint32 (the code hands such out)
  has no path that a transaction could name.
* `AnswersInFull`: all signatures or none, in any order of the map, with nodes that still sign
  for tasks that have failed.
* `ListsUsableWallets`: no wallet is listed from a file that is begun or torn.
* `CallReturns`: a call of SignTransaction ends.

### Findings

1. `RunningTaskRecords` is violated: `mpcKeygenStart` is pushed before the node's record
   is put into the cache (`app/mpc_keygen.go:194-205`). A node that fails at once has its
   report refused, and the task waits for its timeout instead.
2. `NothingStranded` is violated: session look-up and bucket are under different locks
   (`node/mpc_keygen.go:231-263`, `:105-131`); a message can be cached after the
   registration has emptied the bucket, and is never delivered.
3. `NeverStuck` is violated with five parties: the 25 messages of the second round do not fit
   into `n*4` = 20 places, and the goroutine that would take them out is inside the `Update`
   that puts them in (`mpc/alg_ecdsa/keygen.go:47`, `:82-90`). After five minutes the caller
   gives up, and finding 4 follows.
4. `ErrorIsReturned` is violated: on an error or the timeout `RunKeygen` (and `RunSign`)
   closes outCh while others may still send to it, which panics (`mpc/alg_ecdsa/keygen.go:109`,
   `:123`).

Some races and expiries are in the models without a run of their own:

* The clean-up of a node with a result deletes its peers' keys while its sender is still
  posting (`node/mpc_keygen.go:499-502`, `:580-583`); the peers then wait for the message until
  their deadline. Rare, since the result is POSTed before, but nothing waits for the sender.
* A delivery that saw no session can write into the early-message bucket after the clean-up has
  emptied it (`node/mpc_keygen.go:133-142`): `CacheEarly` after `ClearBucket`.
* The timer takes the key collector out of the registry 35 s (130 s for keygen) after its
  registration, while the wait of 30 s (125 s) starts after the pushes (`app/mpc_sign.go:92`,
  `:114`, `app/mpc_keygen.go:127`, `:149`): after slow pushes a late key is only cached, against
  the comments at `app/mpc_sign.go:105` and `app/mpc_keygen.go:140`. `NoLostEvent` exempts just
  these keys, `KeysCollected` speaks of fast pushes.
* A start expires 120 s after the beginning of its task, while the wait for keys alone may last
  125 s. If the keys come in after 120 s, every node refuses the start without a word, and the
  task waits 125 s more for results that cannot come (`app/mpc_keygen.go:151`,
  `node/mpc_keygen.go:444`): `ReceiveStart` with `~Accepts`.
* Where walletDir is the nodes' key directory (`app/config.go:199` gives the example
  configuration the `keys` of `node/mpc_sign.go:96`), the share files decode as KeyMeta files in which everything is empty, and
  FindWalletList answers with wallets without a name: `DecodesShare`.

## 4. Proofs

`KeygenTaskProof` proves for any `N` and `Keys`, from the named assumptions of
`KeygenTask` only:

* `TypeCorrect`: `Spec => []TypeOK`. Strengthened by the ranges of the loops (a task
  past its first step has 3 or 5 nodes, so `cur` is a node) and by `SavedInv` (a node
  that reports a key has a share).
* `WalletAgreementCorrect`: the invariant follows a report on its way: a share is saved
  once (`UnsavedInv`), a key on the wire or in a record is that of its node's share
  (`ReportInv`). `CheckedKey` shows that what `Agree` accepts from torn reads is what
  every record holds. `AgreedInv` keeps that until the file is written.
* `NoLostEventCorrect`: `CachedInv` (all records are in the cache when the replay
  begins), `RegisteredInv` (collectors are registered while they are needed, that of the keys
  unless the pushes were slow), `CollectedInv` (a handled report is in the collector or ahead of
  the replay, and a handled key in the collector while that is registered),
  `NoRecordInv` and `CursorInv`.
* `FirstReportWinsCorrect`: from `NoRecordInv` (a record is put once) and `RecordFrame`
  (only two actions write a record).

`KeygenPromiseProof` proves `KeepsPromiseCorrect`, the refinement, from the same
invariants and `FileInv`, which ties the KeyMeta file to `pc`: `WriteMeta` maps to
`Publish`, the last `CleanUp` to `ReturnWallet`, error returns and `Crash` to
`ReturnError`, `FinishKeygen` to `SaveShare`, and every other step to a stutter.

`TssRelayProof` proves for any `N`, `R` and `Faulty` (so for all nodes failing as they
like, which TLC cannot cover):

* `ShareNeedsEveryNodeCorrect`: a message exists only when its sender has entered its
  round (`EnteredInv`), and a node with a share has everybody's last-round message
  (`ShareInv`).
* `SkipsOnlyLastRoundCorrect`: a node that skips a target and has not failed has a share
  (`PhaseInv`: keys go only at the end), so everybody is in the last round and has its
  earlier messages (`RoundsInv`), which therefore are not waiting in its sender
  (`PostedInv`).
* `LostMessageNoResultCorrect`: when a node has a result, everybody is in the last round and so
  has taken every earlier message of its peers (`RoundsInv`), a lost one included only if it
  came after all.
* `NoStallCorrect`, for `R >= 2` (the library has 3 and 9 rounds): as long as nothing was given up,
  skipped or stranded (finding 2) and no run has failed, the nodes do not come to rest before each has its share. It is
  the safe half of `TaskCompletes` without bounds, and not obvious, since a message that comes before
  the party's start is handed over only by a further message (node/mpc_keygen.go:161-169). The nodes
  that are least far lack a message that has arrived (`ArrivedInv`), so it is among those that were
  kept, so they are in the first round (`EarlyInv`) and nothing of the second has come; then
  everybody is in the first round and waits for the others' first messages, and of two nodes one
  at most has been kept waiting by the other. With a single round one would stay behind. `NoStall`
  is stated in the proof module; it and the two invariants were checked with TLC on the instance of
  run `tss_relay` before they were proved.
* `TypeCorrect`.

`NodeSessionProof` proves for any `M`, `Own` and `Cap`:

* `TypeCorrect`, which holds the bound of every buffer.
* `ExactlyOnceCorrect`. `Places` is one concatenation and not inductive as such; `OnceInv` says
  of the five sequences that each is without repetition and that their ranges and `dropped` are
  a partition of what was pushed. Three lemmas about `Append`, `Tail` and concatenation
  carry it through the hand-overs; `UnderWayInv` (nothing is left to replay when a
  registration begins) is what makes `TakeEarly` safe.
* `DropsOnlyWhenFullCorrect`, an action property, from the types.

`SignTaskProof` proves for any `N` and `Sigs`:

* `KeepsPromiseCorrect`, the refinement of `SignPromise`: `FinishSign` maps to `Produce`, the
  last `CleanUp` to `ReturnSignature`, error returns to `ReturnError`, everything else to a
  stutter. `TrueInv` (a report of a signature, wherever it is, is of the signature its node
  has produced) makes what `Agreed` sees true of the nodes; `StartInv` (no node runs before it is
  pushed) keeps a node from producing twice.
* `SuccessLeavesNothingCorrect`: `OnceInv` (a node reports once, so a report in the cache or the
  collector is not also on its way), `KeyInv` (the same of the keys) and `PlaceInv` (what the
  loop of the clean-up has passed is gone).
* `NoLostEventCorrect`: `KeyEventInv` (the collector of keys is registered until the timer,
  which only slow pushes let fire), `SameReportInv` (collector, handler and cache hold the same
  report of a node, since it reports once) and `ReplayedInv` (behind the loop of the replay
  the collector has what the cache has).
* `TypeCorrect`.

`WalletServiceProof` proves for any widths `U <= I`, wallets, nodes, requests and transactions:

* `HandedOutIsSignableCorrect`: an address comes from a whole meta file, and a meta file is
  begun when all shares are whole; an index that `ParseUint` accepts is not changed by `Cut`.
* `OnePathPerKeyCorrect`: two paths that parse and have the same cut indices are equal.
* `AnswersInFullCorrect`: every item is still to do or signed, and signed only after
  `Verify`, which follows `TaskReturns`.
* `ListsUsableWalletsCorrect`: a whole file stays whole.
* `FilesKeepPromiseCorrect`: for each wallet, the files as a reader sees them implement
  `WalletPromise`, with `SaveEnd` as `SaveShare`, `MetaEnd` as `Publish`, and `MetaStops` and a
  `Crash` in the middle of the file as `ReturnError`. `KeygenTask` implements the same promise, so
  the short account of a keygen in `WalletService` says nothing of the files that the keygen task
  does not keep.
* `TypeCorrect`.

`TaskClockProof` proves for any times that satisfy `ClockAssumption`:

* `KeysCollectedCorrect`: until `Registry` the registry knows the collector, and while it does,
  every key that is posted is collected at once.
* `EarlyKeptCorrect`: the bucket is not older than the task, so nothing is lost before
  `EarlyTTL`, and a start is accepted only until `ExpiresAfter <= EarlyTTL`.
* `KeysOutliveTaskCorrect`: a key lives until `KeyTTL` at least, and the task ends within
  `2 * (MaxPush + Wait) < KeyTTL`.
* `ReportsHeardCorrect`: a record is put no more than `MaxPush` before the wait for results
  begins, and `MaxPush + Wait < RecordTTL`.
* `TypeCorrect`.

`InProcessProof` proves for any number of parties `N >= 2`, which is what `RunKeygen` and `RunSign`
accept:

* `NeverStuckCorrect`, for at most four parties, or eight where nobody generates a key (`Fits`).
  The bounds are exact: with five parties a keygen blocks (run `inproc_keygen5`), and with nine a
  signing would, when eight Starts have filled the 72 places, the drainer waits for the lock of the ninth
  party with a message to it, and that party's Start waits for room. That is about the channel alone:
  for other sizes than three and five `RunSign` sets the threshold to the number of parties
  (`mpc/alg_ecdsa/sign.go:214-218`), which the library refuses before the first message. A signing
  with five parties, the larger of the wallet's two sizes, does not block.
  Of a Start (`RoomForStart`): its broadcast, the last it sends, is not out, so nobody is past the
  first round, and outCh holds messages of that round, but not the one it is about to send.
  Of the drainer: take a party that has started round `s` and still has something to
  send: the others are in `s - 1` or `s`, and a message in outCh is of `s`, or of `s - 1` and goes
  only to parties that have not finished `s - 1` (`InOutCh`). After a round that only
  broadcasts (`RoomAfterBroadcasts`) that leaves the party's own broadcast and round `s`,
  `N * Count(s) + 1` messages, of which two are never there: the one about to be sent, and the own
  broadcast or else a message of somebody who has not got that. With four parties in a keygen
  both are needed. After a round with a message per peer (`RoomAfterEach`) a party that is still
  in `s - 1` has sent nothing of `s`, and one that is in `s` is sent nothing more of `s - 1`: a place
  per pair of parties, and one for the own broadcast. The counting is an injection of outCh's
  positions into an interval (`PlaceOnce`, `PigeonHole`).
* `NoDeadlockCorrect`, under the same bound. If nobody can go on, nobody is sending (`NeverStuck`), no
  lock is held, and nothing is on its way, so everything sent has arrived (`ArrivedInv`). Take the
  parties that are least far: they have all messages of their round. Past the first round that is
  impossible, since `Update` goes on until something is missing (`WaitingInv`). In the first it can
  happen to a party that got its messages before its Start, but to one only, and only while nothing
  of the second round has come; the others, being further, have sent that. So all are at the
  end, and their results are in endCh or taken.
* `ClosesAtTheEndCorrect`: when all results are taken every party is past its last round and so
  has stored every message (`StoredInv`); what is in outCh or with the drainer is stored by nobody
  it goes to (`ChannelInv`), so there is nothing.
* `TypeCorrect`, that a party stores none of its own messages included, which needs `ChannelInv`.
* The invariant: `PhaseInv` (who may be sending, and how far), `ChannelInv` (a message on its way
  was sent, is there once, and has not arrived), `StoredInv` (what has arrived was sent, and
  a finished round is complete), `CallerInv`. It was checked with TLC for two and three parties, and
  for keygen with four, before it was proved.

Only model-checked: liveness (fairness is out of the prover's reach; this includes the
liveness of `WalletPromise`, of which `TaskSettles` is the detailed counterpart).

## 5. Not modelled

* Generated JSON code: 17,000 of the repository's 23,500 lines of Go are easyjson's codecs
  (`*_easyjson.go`). They follow from the struct types and hold no decisions of their own; their
  keys are those of the structs. Payloads are abstract in the models, so mapping these
  lines would say nothing, and the share of mapped lines stays small for that reason.
* The records in `walletapi/dto` and the HTTP client `walletapi/common.go`: data types, and pure
  I/O with an external platform.
* Terminal UI, service start, configuration: read once at the start. `WriteKeyFile` writes only the
  example configuration.
* CliLogin (compares a password and issues a token) and the signature in SignTradeKey: functions of
  their input. SignTradeKey answers in hex and SignTransaction decodes Base64, and a type 1
  transaction is decoded from an envelope in one and directly in the other; the platform
  between the two calls, which may convert, is not in the repository.
* Encryption, elliptic-curve arithmetic and the TSS library's mathematics: out of TLC's reach. A
  key is a value, a derived key its indices, a party its rounds.
* The SDK's websocket: reconnect and token renewal of a node. A push that arrives late or never
  is in every model.
* The Ed25519 placeholder: no code.

What would come next:

1. Two tasks at the same time in one node: the expiry of buckets is the only thing they share,
   and it is in `NodeSession` as `ExpireBucket` by any task.
2. Clocks of different machines that differ by a bounded amount in `TaskClock`.
