--------------------------- MODULE WalletService ---------------------------
(***************************************************************************)
(* The wallet directory and the HTTP calls that read it.  A keygen has     *)
(* every node write its share file (FileKeyStore.Save) and then the        *)
(* coordinator the KeyMeta file, both in place with os.WriteFile           *)
(* (app/mpc_keygen.go, mpc/alg_ecdsa/keystore_file.go); FindWalletList,    *)
(* CreateAccount, CreateAddress and the sign tasks read what they find,    *)
(* and SignTransaction runs one sign task after the other                  *)
(* (app/cli_service.go, app/utils.go).                                     *)
(*                                                                         *)
(* Keygen and sign task are what KeygenTask and SignTask show of them: the *)
(* meta file is begun when every node has reported its saved share, and a  *)
(* signature is returned when every node has produced it.                  *)
(***************************************************************************)
EXTENDS HdPath, FiniteSets

CONSTANTS Nodes,        \* the nodes, all of which take part in every task
          Wallets,      \* the wallets that may be created, by walletID
          Accounts,     \* AccountIndex and account LastIndex in requests (a bound)
          Changes,      \* Change in requests (a bound)
          LastIndexes,  \* LastIndex in requests for addresses (a bound)
          Counts,       \* Count in requests (a bound; 1 .. 2000 in the code)
          MaxCreated,   \* how many accounts and addresses are handed out (a bound)
          Blacklist, Whitelist,   \* of the transactions' target addresses
          Calls,        \* the calls of SignTransaction
          Txs           \* the transactions they are made with (a bound)

ASSUME NodesAssumption == Nodes # {}

ASSUME RequestAssumption ==
    /\ Accounts \cup Changes \cup LastIndexes \subseteq Int64
    /\ Counts \subseteq 1 .. I

VARIABLES
    share,     \* share file of a wallet at a node: "none", "partial", "torn", "whole"
    meta,      \* KeyMeta file of a wallet: the same
    listed,    \* the answers of FindWalletList so far, taken together
    accounts,  \* what CreateAccount has handed out
    addresses, \* what CreateAddress has handed out
    call,      \* the calls of SignTransaction
    made       \* what the nodes have signed: <<node, call, item>>

vars == <<share, meta, listed, accounts, addresses, call, made>>

FileState == {"none", "partial", "torn", "whole"}

NoTx == [wallet |-> "none", type |-> 0, to |-> {}, items |-> {}]
NoItem == [path |-> <<>>, pub |-> [wallet |-> "none", index |-> <<>>], ecdsa |-> FALSE]

Init ==
    /\ share = [w \in Wallets |-> [n \in Nodes |-> "none"]]
    /\ meta = [w \in Wallets |-> "none"]
    /\ listed = {}
    /\ accounts = {}
    /\ addresses = {}
    /\ call = [c \in Calls |->
                 [pc |-> "idle", tx |-> NoTx, todo |-> {}, item |-> NoItem, begun |-> {}, signs |-> {}]]
    /\ made = {}

-----------------------------------------------------------------------------
(* A keygen and its files.                                                  *)

\* os.WriteFile has created or truncated a node's share file.
SaveBegin(w, n) ==
    /\ share[w][n] = "none"
    /\ share' = [share EXCEPT ![w][n] = "partial"]
    /\ UNCHANGED <<meta, listed, accounts, addresses, call, made>>

\* Save returns; the node reports its key.
SaveEnd(w, n) ==
    /\ share[w][n] = "partial"
    /\ share' = [share EXCEPT ![w][n] = "whole"]
    /\ UNCHANGED <<meta, listed, accounts, addresses, call, made>>

\* The disk is full or the node stops: what is written stays.
SaveStops(w, n) ==
    /\ share[w][n] = "partial"
    /\ share' = [share EXCEPT ![w][n] = "torn"]
    /\ UNCHANGED <<meta, listed, accounts, addresses, call, made>>

\* Mutant of MetaBegin: the meta file is written when the first share is saved.
MetaBeginEarly(w) ==
    /\ meta[w] = "none"
    /\ \E n \in Nodes : share[w][n] = "whole"
    /\ meta' = [meta EXCEPT ![w] = "partial"]
    /\ UNCHANGED <<share, listed, accounts, addresses, call, made>>

\* All nodes have reported the key: the coordinator opens the meta file.
MetaBegin(w) ==
    /\ meta[w] = "none"
    /\ \A n \in Nodes : share[w][n] = "whole"
    /\ meta' = [meta EXCEPT ![w] = "partial"]
    /\ UNCHANGED <<share, listed, accounts, addresses, call, made>>

MetaEnd(w) ==
    /\ meta[w] = "partial"
    /\ meta' = [meta EXCEPT ![w] = "whole"]
    /\ UNCHANGED <<share, listed, accounts, addresses, call, made>>

MetaStops(w) ==
    /\ meta[w] = "partial"
    /\ meta' = [meta EXCEPT ![w] = "torn"]
    /\ UNCHANGED <<share, listed, accounts, addresses, call, made>>

Running == {"loop", "task", "verify"}

\* The server stops and starts again: files stay as they are, calls are gone.
Crash ==
    /\ meta' = [w \in Wallets |-> IF meta[w] = "partial" THEN "torn" ELSE meta[w]]
    /\ call' = [c \in Calls |->
                  IF call[c].pc \in Running THEN [call[c] EXCEPT !.pc = "dropped"] ELSE call[c]]
    /\ UNCHANGED <<share, listed, accounts, addresses, made>>

-----------------------------------------------------------------------------
(* Reading: a file that is not whole does not decode.                       *)

\* Mutant of DecodesMeta: what is there of the file is taken.
DecodesPartly(w) == w \in Wallets /\ meta[w] \in {"partial", "whole"}

\* json.Unmarshal of {walletID}.json, with KeyID, RootPubHex and NodeIDs.
DecodesMeta(w) == w \in Wallets /\ meta[w] = "whole"

\* A share file decodes as a KeyMeta in which everything is empty.  It is found where
\* walletDir is the nodes' directory, too, as in the example configuration.
DecodesShare(w, n) == share[w][n] = "whole"

\* ReadAllFilesInDir skips what does not decode, and nothing else.
FindWalletList ==
    /\ listed' = listed \cup {w \in Wallets : DecodesMeta(w)}
                        \cup {"" : n \in {m \in Nodes : \E w \in Wallets : DecodesShare(w, m)}}
    /\ UNCHANGED <<share, meta, accounts, addresses, call, made>>

Created == Cardinality(accounts) + Cardinality(addresses)

CreateAccount(w, last) ==
    LET path == <<Plus(last, 1)>> IN
    /\ Created < MaxCreated
    /\ last >= -1
    /\ DecodesMeta(w)
    /\ Derivable(path)
    /\ accounts' = accounts \cup {[path |-> path, key |-> [wallet |-> w, index |-> Derive(path)]]}
    /\ UNCHANGED <<share, meta, listed, addresses, call, made>>

\* One index that is refused ends the call without an answer.
CreateAddress(w, account, change, last, count) ==
    LET paths == {<<account, change, Plus(last, i)>> : i \in 1 .. count} IN
    /\ Created + count <= MaxCreated
    /\ account >= -1
    /\ last >= -1
    /\ DecodesMeta(w)
    /\ \A path \in paths : Derivable(path)
    /\ addresses' = addresses \cup
          {[path |-> path, key |-> [wallet |-> w, index |-> Derive(path)]] : path \in paths}
    /\ UNCHANGED <<share, meta, listed, accounts, call, made>>

-----------------------------------------------------------------------------
(* SignTransaction.                                                         *)

\* The policy of checkAndUnmarshalTx and SignTradeKey: no blacklisted target; a
\* summary has one target at most, a whitelisted one.
Permitted(tx) ==
    \/ tx.type = 0 /\ tx.to \cap Blacklist = {}
    \/ tx.type = 1 /\ Cardinality(tx.to) <= 1 /\ tx.to \subseteq Whitelist

Set(c, r) == call' = [call EXCEPT ![c] = r]

\* checkAndUnmarshalTx.
Submit(c, tx) ==
    /\ call[c].pc = "idle"
    /\ Set(c, [call[c] EXCEPT !.pc = IF Permitted(tx) THEN "loop" ELSE "error",
                              !.tx = tx, !.todo = tx.items])
    /\ UNCHANGED <<share, meta, listed, accounts, addresses, made>>

\* The loop comes to a signature: its path is parsed and createMPCSignTaskECDSA
\* reads the meta file. The accounts are ranged over as a map, the signatures of
\* each as a slice; any order at all here allows more than the code does.
BeginTask(c, x) ==
    /\ call[c].pc = "loop"
    /\ x \in call[c].todo
    /\ IF x.ecdsa /\ Parses(x.path) /\ DecodesMeta(call[c].tx.wallet)
       THEN Set(c, [call[c] EXCEPT !.pc = "task", !.item = x, !.begun = @ \cup {x}])
       ELSE Set(c, [call[c] EXCEPT !.pc = "error"])
    /\ UNCHANGED <<share, meta, listed, accounts, addresses, made>>

\* runSignNodeRealECDSA: the share is loaded, the path checked and derived.
Accepts(n, w, index) ==
    /\ w \in Wallets
    /\ share[w][n] = "whole"
    /\ \A k \in DOMAIN index : index[k] >= 0
    /\ Derivable(index)

\* A node signs for a task that was begun, be it over for the coordinator or not.
NodeSigns(n, c, x) ==
    /\ x \in call[c].begun
    /\ <<n, c, x>> \notin made
    /\ Accepts(n, call[c].tx.wallet, ParseMPCPath(x.path))
    /\ made' = made \cup {<<n, c, x>>}
    /\ UNCHANGED <<share, meta, listed, accounts, addresses, call>>

TaskReturns(c) ==
    /\ call[c].pc = "task"
    /\ \A n \in Nodes : <<n, c, call[c].item>> \in made
    /\ Set(c, [call[c] EXCEPT !.pc = "verify"])
    /\ UNCHANGED <<share, meta, listed, accounts, addresses, made>>

\* Mutant of TaskFails: the task waits for every node for as long as it takes.
TaskFailsOnReport(c) ==
    /\ call[c].pc = "task"
    /\ \E n \in Nodes : ~Accepts(n, call[c].tx.wallet, ParseMPCPath(call[c].item.path))
    /\ Set(c, [call[c] EXCEPT !.pc = "error"])
    /\ UNCHANGED <<share, meta, listed, accounts, addresses, made>>

\* A node is offline, refuses, reports an error, or a wait times out.
TaskFails(c) ==
    /\ call[c].pc = "task"
    /\ Set(c, [call[c] EXCEPT !.pc = "error"])
    /\ UNCHANGED <<share, meta, listed, accounts, addresses, made>>

\* The key under which the nodes have signed.
SigningKey(c, x) == [wallet |-> call[c].tx.wallet, index |-> Derive(ParseMPCPath(x.path))]

\* Mutant of Verify: the signature is taken as it comes.
VerifyNothing(c) ==
    LET x == call[c].item IN
    /\ call[c].pc = "verify"
    /\ Set(c, [call[c] EXCEPT !.pc = "loop", !.todo = @ \ {x}, !.signs = @ \cup {x}])
    /\ UNCHANGED <<share, meta, listed, accounts, addresses, made>>

\* VerifySignatureHex with the public key of the transaction's address.
Verify(c) ==
    LET x == call[c].item IN
    /\ call[c].pc = "verify"
    /\ IF SigningKey(c, x) = x.pub
       THEN Set(c, [call[c] EXCEPT !.pc = "loop", !.todo = @ \ {x}, !.signs = @ \cup {x}])
       ELSE Set(c, [call[c] EXCEPT !.pc = "error"])
    /\ UNCHANGED <<share, meta, listed, accounts, addresses, made>>

\* The loop is over: res.SignerList.
Answer(c) ==
    /\ call[c].pc = "loop"
    /\ call[c].todo = {}
    /\ Set(c, [call[c] EXCEPT !.pc = "done"])
    /\ UNCHANGED <<share, meta, listed, accounts, addresses, made>>

-----------------------------------------------------------------------------

Keygen == \E w \in Wallets :
    \/ \E n \in Nodes : SaveBegin(w, n) \/ SaveEnd(w, n) \/ SaveStops(w, n)
    \/ MetaBegin(w) \/ MetaEnd(w) \/ MetaStops(w)

Create == \E w \in Wallets :
    \/ \E last \in Accounts : CreateAccount(w, last)
    \/ \E account \in Accounts, change \in Changes, last \in LastIndexes, count \in Counts :
          CreateAddress(w, account, change, last, count)

Task(c) ==
    \/ \E x \in call[c].todo : BeginTask(c, x)
    \/ TaskReturns(c)
    \/ TaskFails(c)
    \/ Verify(c)
    \/ Answer(c)

Sign(c) ==
    \/ \E tx \in Txs : Submit(c, tx)
    \/ Task(c)
    \/ \E n \in Nodes, x \in call[c].begun : NodeSigns(n, c, x)

Next == Keygen \/ Crash \/ FindWalletList \/ Create \/ \E c \in Calls : Sign(c)

Spec == Init /\ [][Next]_vars

\* The goroutine of a call runs on, and a sign task returns (SignTask: TaskSettles).
FairSpec == Spec /\ \A c \in Calls : WF_vars(Task(c))

-----------------------------------------------------------------------------
(* Properties.                                                             *)

Items == UNION {tx.items : tx \in Txs}
\* A path of k indices and the key derived for it.
Derived(k) == [path : [1 .. k -> Int64], key : [wallet : Wallets, index : [1 .. k -> 0 .. U - 1]]]

\* The type of every variable; a call at work has its item from the transaction.
TypeOK ==
    /\ share \in [Wallets -> [Nodes -> FileState]]
    /\ meta \in [Wallets -> FileState]
    /\ listed \subseteq Wallets \cup {""}
    /\ accounts \subseteq Derived(1)
    /\ addresses \subseteq Derived(3)
    /\ call \in [Calls -> [pc : Running \cup {"idle", "done", "error", "dropped"},
                         tx : Txs \cup {NoTx}, item : Items \cup {NoItem},
                         todo : SUBSET Items, begun : SUBSET Items, signs : SUBSET Items]]
    /\ \A c \in Calls : call[c].pc \in {"task", "verify"} =>
          call[c].item \in call[c].begun \cap call[c].todo
    /\ made \subseteq Nodes \X Calls \X Items

\* What CreateAddress hands out can be used: if its path parses at all, every node
\* holds a share of the wallet and signs, for that path, under that address's key
\* (app/cli_service.go:190 against app/utils.go:16 and node/mpc_sign.go:66-106).
HandedOutIsSignable ==
    \A a \in addresses : Parses(a.path) =>
        /\ Derive(ParseMPCPath(a.path)) = a.key.index
        /\ \A n \in Nodes : Accepts(n, a.key.wallet, ParseMPCPath(a.path))

\* Indices wrap in the derivation but not in the path: of the addresses that share a
\* key one at most can be named in a transaction.
OnePathPerKey ==
    \A a, b \in addresses : a.key = b.key /\ Parses(a.path) /\ Parses(b.path) => a.path = b.path

\* SignTransaction answers with all signatures of the transaction or with none, and
\* each was produced by every node and belongs to the address that asked for it, in
\* whichever order the signatures are walked in and whatever failed tasks leave behind.
AnswersInFull ==
    \A c \in Calls : call[c].pc = "done" =>
        /\ Permitted(call[c].tx)
        /\ call[c].signs = call[c].tx.items
        /\ \A x \in call[c].signs :
              x.pub = SigningKey(c, x) /\ \A n \in Nodes : <<n, c, x>> \in made

\* A wallet that FindWalletList names can be used from then on, though the files are
\* written in place under the reader's eyes.  (A share file is listed without a name.)
ListsUsableWallets ==
    \A w \in listed \ {""} :
        meta[w] = "whole" /\ \A n \in Nodes : share[w][n] = "whole"

\* Every call of SignTransaction ends, or the server does.
CallReturns == \A c \in Calls : call[c].pc \in Running ~> call[c].pc \notin Running
=============================================================================
