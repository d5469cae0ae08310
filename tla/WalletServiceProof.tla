------------------------- MODULE WalletServiceProof -------------------------
(***************************************************************************)
(* Proofs about WalletService, for any widths of the integers, any nodes   *)
(* and any transactions; the last is that its files keep WalletPromise.    *)
(***************************************************************************)
EXTENDS WalletService, TLAPS

-----------------------------------------------------------------------------
(* Paths.                                                                   *)

\* Cutting does nothing to what fits.
LEMMA CutInRange ==
    ASSUME NEW x \in 0 .. U - 1
    PROVE  Cut(x) = x
BY WidthAssumption DEF Cut

LEMMA CutType ==
    ASSUME NEW x \in Int
    PROVE  Cut(x) \in 0 .. U - 1
BY WidthAssumption DEF Cut

LEMMA PlusType ==
    ASSUME NEW x \in Int64, NEW y \in 1 .. I
    PROVE  Plus(x, y) \in Int64
BY WidthAssumption DEF Plus, Int64

\* A path of three indices.
Path == [1 .. 3 -> Int64]

LEMMA DeriveType ==
    ASSUME NEW k \in Nat, NEW p \in [1 .. k -> Int64]
    PROVE  Derive(p) \in [1 .. k -> 0 .. U - 1]
BY CutType DEF Derive, Int64

\* What parses parses to itself: no cut, no sign.
LEMMA ParsedIsSame ==
    ASSUME NEW p \in Path, Parses(p)
    PROVE  /\ ParseMPCPath(p) = p
           /\ \A k \in 1 .. 3 : p[k] \in 0 .. U - 1
<1> DEFINE q == ParseMPCPath(p)
<1>1. DOMAIN p = 1 .. 3
  BY DEF Path
<1>2. ASSUME NEW k \in 1 .. 3
      PROVE  q[k] = p[k] /\ p[k] \in 0 .. U - 1
  <2>1. q[k] = ParseUint(p[k]) /\ q[k] # NoIndex
    BY <1>1 DEF Parses, ParseMPCPath
  <2> QED
    BY <2>1 DEF ParseUint
<1>3. q = [k \in 1 .. 3 |-> ParseUint(p[k])]
  BY <1>1 DEF ParseMPCPath
<1>4. p = [k \in 1 .. 3 |-> p[k]]
  BY DEF Path
<1>5. \A k \in 1 .. 3 : ParseUint(p[k]) = p[k]
  BY <1>2, <1>3
<1> QED
  BY <1>2, <1>3, <1>4, <1>5

\* So its derivation keeps it, and paths that parse are told apart by their keys.
LEMMA ParsedIsDerived ==
    ASSUME NEW p \in Path, Parses(p)
    PROVE  Derive(p) = p
<1>1. \A k \in 1 .. 3 : Cut(p[k]) = p[k]
  BY ParsedIsSame, CutInRange
<1>2. p = [k \in 1 .. 3 |-> p[k]] /\ DOMAIN p = 1 .. 3
  BY DEF Path
<1> QED
  BY <1>1, <1>2 DEF Derive

-----------------------------------------------------------------------------
(* Types.                                                                   *)

LEMMA TypeInit == Init => TypeOK
BY DEF Init, TypeOK, FileState, Running

\* The record of a call, and what a step of the call has to keep of it.
CallType ==
    [pc : Running \cup {"idle", "done", "error", "dropped"},
     tx : Txs \cup {NoTx}, item : Items \cup {NoItem},
     todo : SUBSET Items, begun : SUBSET Items, signs : SUBSET Items]

HoldsItem(r) == r.pc \in {"task", "verify"} => r.item \in r.begun \cap r.todo

\* The steps of the keygen, of the server and of FindWalletList.
LEMMA TypeFiles ==
    ASSUME TypeOK, Keygen \/ Crash \/ FindWalletList
    PROVE  TypeOK'
<1>1. CASE Keygen
  <2> SUFFICES ASSUME NEW w \in Wallets,
                      \/ \E n \in Nodes : SaveBegin(w, n) \/ SaveEnd(w, n) \/ SaveStops(w, n)
                      \/ MetaBegin(w) \/ MetaEnd(w) \/ MetaStops(w)
               PROVE  TypeOK'
    BY <1>1 DEF Keygen
  <2>1. share' \in [Wallets -> [Nodes -> FileState]] /\ meta' \in [Wallets -> FileState]
    <3>1. \A n \in Nodes : SaveBegin(w, n) \/ SaveEnd(w, n) \/ SaveStops(w, n) =>
             /\ share' \in [Wallets -> [Nodes -> FileState]]
             /\ meta' = meta
      <4> SUFFICES ASSUME NEW n \in Nodes, NEW s \in FileState,
                          share' = [share EXCEPT ![w][n] = s]
                   PROVE  share' \in [Wallets -> [Nodes -> FileState]]
        BY DEF FileState, SaveBegin, SaveEnd, SaveStops
      <4>1. share \in [Wallets -> [Nodes -> FileState]]
        BY DEF TypeOK
      <4>2. [share[w] EXCEPT ![n] = s] \in [Nodes -> FileState]
        BY <4>1
      <4> QED
        BY <4>1, <4>2
    <3>2. MetaBegin(w) \/ MetaEnd(w) \/ MetaStops(w) =>
             /\ meta' \in [Wallets -> FileState]
             /\ share' = share
      BY DEF TypeOK, FileState, MetaBegin, MetaEnd, MetaStops
    <3> QED
      BY <3>1, <3>2 DEF TypeOK
  <2>2. UNCHANGED <<listed, accounts, addresses, call, made>>
    BY DEF SaveBegin, SaveEnd, SaveStops, MetaBegin, MetaEnd, MetaStops
  <2> QED
    BY <2>1, <2>2 DEF TypeOK
<1>2. CASE Crash
  <2>1. meta' \in [Wallets -> FileState] /\ UNCHANGED <<share, listed, accounts, addresses, made>>
    BY <1>2 DEF Crash, TypeOK, FileState
  <2>2. ASSUME NEW c \in Calls
        PROVE  /\ call'[c] \in CallType
               /\ HoldsItem(call'[c])
    <3>1. call[c] \in CallType /\ HoldsItem(call[c])
      BY DEF TypeOK, CallType, HoldsItem
    <3>2. call'[c] = call[c] \/ call'[c] = [call[c] EXCEPT !.pc = "dropped"]
      BY <1>2 DEF Crash
    <3> QED
      BY <3>1, <3>2 DEF CallType, HoldsItem
  <2>3. call' = [c \in Calls |-> call'[c]]
    BY <1>2 DEF Crash
  <2>4. call' \in [Calls -> CallType]
    BY <2>2, <2>3
  <2> QED
    BY <2>1, <2>2, <2>4 DEF TypeOK, CallType, HoldsItem
<1>3. CASE FindWalletList
  BY <1>3 DEF TypeOK, FindWalletList, DecodesMeta
<1> QED
  BY <1>1, <1>2, <1>3

LEMMA TypeCreate ==
    ASSUME TypeOK, Create
    PROVE  TypeOK'
<1> PICK w \in Wallets :
       \/ \E last \in Accounts : CreateAccount(w, last)
       \/ \E account \in Accounts, change \in Changes, last \in LastIndexes, count \in Counts :
             CreateAddress(w, account, change, last, count)
  BY DEF Create
<1>1. ASSUME NEW last \in Accounts, CreateAccount(w, last)
      PROVE  TypeOK'
  <2> DEFINE path == <<Plus(last, 1)>>
  <2>1. 1 \in 1 .. I /\ last \in Int64
    BY WidthAssumption, RequestAssumption
  <2>2. path \in [1 .. 1 -> Int64]
    <3>1. Plus(last, 1) \in Int64
      BY <2>1, PlusType
    <3> HIDE DEF Plus
    <3> QED
      BY <3>1
  <2>3. Derive(path) \in [1 .. 1 -> 0 .. U - 1]
    BY <2>2, DeriveType
  <2> HIDE DEF path
  <2>4. [path |-> path, key |-> [wallet |-> w, index |-> Derive(path)]] \in Derived(1)
    BY <2>2, <2>3 DEF Derived
  <2>5. accounts' = accounts \cup {[path |-> path, key |-> [wallet |-> w, index |-> Derive(path)]]}
    BY <1>1 DEF CreateAccount, path
  <2> QED
    BY <1>1, <2>4, <2>5 DEF TypeOK, CreateAccount
<1>2. ASSUME NEW account \in Accounts, NEW change \in Changes, NEW last \in LastIndexes,
             NEW count \in Counts, CreateAddress(w, account, change, last, count)
      PROVE  TypeOK'
  <2> DEFINE paths == {<<account, change, Plus(last, i)>> : i \in 1 .. count}
  <2>1. ASSUME NEW path \in paths
        PROVE  [path |-> path, key |-> [wallet |-> w, index |-> Derive(path)]] \in Derived(3)
    <3>1. PICK i \in 1 .. count : path = <<account, change, Plus(last, i)>>
      BY <2>1
    <3>2. i \in 1 .. I /\ account \in Int64 /\ change \in Int64 /\ last \in Int64
      BY WidthAssumption, RequestAssumption
    <3>3. path \in [1 .. 3 -> Int64]
      BY <3>1, <3>2, PlusType
    <3>4. Derive(path) \in [1 .. 3 -> 0 .. U - 1]
      BY <3>3, DeriveType
    <3> QED
      BY <3>3, <3>4 DEF Derived
  <2>2. addresses' = addresses \cup
           {[path |-> path, key |-> [wallet |-> w, index |-> Derive(path)]] : path \in paths}
    BY <1>2 DEF CreateAddress
  <2> HIDE DEF paths
  <2>3. addresses' \subseteq Derived(3)
    BY <2>1, <2>2 DEF TypeOK
  <2> QED
    BY <1>2, <2>3 DEF TypeOK, CreateAddress
<1> QED
  BY <1>1, <1>2

LEMMA RecordOfCall ==
    ASSUME TypeOK, NEW c \in Calls
    PROVE  call[c] \in CallType
BY DEF TypeOK, CallType

LEMMA SetCall ==
    ASSUME TypeOK, NEW c \in Calls, NEW r, Set(c, r)
    PROVE  call'[c] = r
BY DEF TypeOK, Set

LEMMA TypeSet ==
    ASSUME TypeOK, NEW c \in Calls, NEW r \in CallType, HoldsItem(r), Set(c, r),
           UNCHANGED <<share, meta, listed, accounts, addresses, made>>
    PROVE  TypeOK'
<1>1. call' = [call EXCEPT ![c] = r] /\ call \in [Calls -> CallType]
  BY DEF Set, TypeOK, CallType
<1>2. call' \in [Calls -> CallType]
  BY <1>1
<1>3. \A d \in Calls : HoldsItem(call'[d])
  BY <1>1 DEF TypeOK, HoldsItem
<1> QED
  BY <1>2, <1>3 DEF TypeOK, CallType, HoldsItem

LEMMA TypeSign ==
    ASSUME TypeOK, NEW c \in Calls, Sign(c)
    PROVE  TypeOK'
<1>1. call[c] \in CallType /\ HoldsItem(call[c])
  BY DEF TypeOK, CallType, HoldsItem
<1>2. ASSUME NEW tx \in Txs, Submit(c, tx)
      PROVE  TypeOK'
  <2> DEFINE r == [call[c] EXCEPT !.pc = IF Permitted(tx) THEN "loop" ELSE "error",
                                  !.tx = tx, !.todo = tx.items]
  <2>1. tx.items \in SUBSET Items
    BY DEF Items
  <2>2. r \in CallType /\ HoldsItem(r)
    BY <1>1, <2>1 DEF CallType, HoldsItem, Running
  <2>3. Set(c, r) /\ UNCHANGED <<share, meta, listed, accounts, addresses, made>>
    BY <1>2 DEF Submit
  <2> HIDE DEF r
  <2> QED
    BY <2>2, <2>3, TypeSet
<1>3. ASSUME NEW x \in call[c].todo, BeginTask(c, x)
      PROVE  TypeOK'
  <2> DEFINE r == IF x.ecdsa /\ Parses(x.path) /\ DecodesMeta(call[c].tx.wallet)
                  THEN [call[c] EXCEPT !.pc = "task", !.item = x, !.begun = @ \cup {x}]
                  ELSE [call[c] EXCEPT !.pc = "error"]
  <2>1. x \in Items
    BY <1>1 DEF CallType
  <2>2. r \in CallType /\ HoldsItem(r)
    BY <1>1, <2>1 DEF CallType, HoldsItem, Running
  <2>3. Set(c, r) /\ UNCHANGED <<share, meta, listed, accounts, addresses, made>>
    BY <1>3 DEF BeginTask, Set
  <2> HIDE DEF r
  <2> QED
    BY <2>2, <2>3, TypeSet
<1>4. ASSUME TaskReturns(c)
      PROVE  TypeOK'
  <2> DEFINE r == [call[c] EXCEPT !.pc = "verify"]
  <2>1. r \in CallType /\ HoldsItem(r)
    BY <1>1, <1>4 DEF CallType, HoldsItem, Running, TaskReturns
  <2>2. Set(c, r) /\ UNCHANGED <<share, meta, listed, accounts, addresses, made>>
    BY <1>4 DEF TaskReturns
  <2> HIDE DEF r
  <2> QED
    BY <2>1, <2>2, TypeSet
<1>5. ASSUME TaskFails(c)
      PROVE  TypeOK'
  <2> DEFINE r == [call[c] EXCEPT !.pc = "error"]
  <2>1. r \in CallType /\ HoldsItem(r)
    BY <1>1 DEF CallType, HoldsItem, Running
  <2>2. Set(c, r) /\ UNCHANGED <<share, meta, listed, accounts, addresses, made>>
    BY <1>5 DEF TaskFails
  <2> HIDE DEF r
  <2> QED
    BY <2>1, <2>2, TypeSet
<1>6. ASSUME Verify(c)
      PROVE  TypeOK'
  <2> DEFINE x == call[c].item
             r == IF SigningKey(c, x) = x.pub
                  THEN [call[c] EXCEPT !.pc = "loop", !.todo = @ \ {x}, !.signs = @ \cup {x}]
                  ELSE [call[c] EXCEPT !.pc = "error"]
  <2>1. x \in Items
    BY <1>1, <1>6 DEF CallType, HoldsItem, Verify
  <2>2. r \in CallType /\ HoldsItem(r)
    BY <1>1, <2>1 DEF CallType, HoldsItem, Running
  <2>3. Set(c, r) /\ UNCHANGED <<share, meta, listed, accounts, addresses, made>>
    BY <1>6 DEF Verify, Set
  <2> HIDE DEF r
  <2> QED
    BY <2>2, <2>3, TypeSet
<1>7. ASSUME Answer(c)
      PROVE  TypeOK'
  <2> DEFINE r == [call[c] EXCEPT !.pc = "done"]
  <2>1. r \in CallType /\ HoldsItem(r)
    BY <1>1 DEF CallType, HoldsItem, Running
  <2>2. Set(c, r) /\ UNCHANGED <<share, meta, listed, accounts, addresses, made>>
    BY <1>7 DEF Answer
  <2> HIDE DEF r
  <2> QED
    BY <2>1, <2>2, TypeSet
<1>8. ASSUME NEW n \in Nodes, NEW x \in call[c].begun, NodeSigns(n, c, x)
      PROVE  TypeOK'
  <2>1. x \in Items
    BY <1>1 DEF CallType
  <2>2. /\ made' = made \cup {<<n, c, x>>}
        /\ UNCHANGED <<share, meta, listed, accounts, addresses, call>>
    BY <1>8 DEF NodeSigns
  <2>3. made' \subseteq Nodes \X Calls \X Items
    <3>1. made \subseteq Nodes \X Calls \X Items
      BY DEF TypeOK
    <3>2. <<n, c, x>> \in Nodes \X Calls \X Items
      BY <2>1
    <3> QED
      BY <2>2, <3>1, <3>2, Zenon
  <2> QED
    BY <2>2, <2>3 DEF TypeOK
<1> QED
  BY <1>2, <1>3, <1>4, <1>5, <1>6, <1>7, <1>8 DEF Sign, Task

\* Every variable keeps its type, and a call at work has one of the transaction's
\* items in hand.
THEOREM TypeCorrect == Spec => []TypeOK
<1>1. TypeOK /\ [Next]_vars => TypeOK'
  <2> SUFFICES ASSUME TypeOK, [Next]_vars
               PROVE  TypeOK'
    OBVIOUS
  <2>1. CASE UNCHANGED vars
    BY <2>1 DEF TypeOK, vars
  <2> QED
    BY <2>1, TypeFiles, TypeCreate, TypeSign DEF Next
<1> QED
  BY <1>1, TypeInit, PTL DEF Spec

-----------------------------------------------------------------------------
(* The inductive invariant.                                                 *)

\* The meta file is not begun before every share is whole.
FilesInv == \A w \in Wallets : meta[w] # "none" => \A n \in Nodes : share[w][n] = "whole"

\* What was handed out or listed was read from a whole meta file.
HandInv == \A a \in addresses :
    /\ meta[a.key.wallet] = "whole"
    /\ a.key.index = Derive(a.path)
    /\ Derivable(a.path)

ListInv == \A w \in listed \ {""} : meta[w] = "whole"

\* The items of a call that gets on are done or to do; what is done is checked.
CallInv(c) ==
    LET r == call[c] IN
    /\ r.pc = "idle" => r.signs = {}
    /\ r.pc \in Running \cup {"done"} => Permitted(r.tx) /\ r.signs \cup r.todo = r.tx.items
    /\ r.pc = "verify" => \A n \in Nodes : <<n, c, r.item>> \in made
    /\ r.pc = "done" => r.todo = {}
    /\ \A x \in r.signs : x.pub = SigningKey(c, x) /\ \A n \in Nodes : <<n, c, x>> \in made

Inv == TypeOK /\ FilesInv /\ HandInv /\ ListInv /\ \A c \in Calls : CallInv(c)

LEMMA InvInit == Init => Inv
<1> SUFFICES ASSUME Init
             PROVE  Inv
  OBVIOUS
<1>1. FilesInv /\ HandInv /\ ListInv
  BY DEF Init, FilesInv, HandInv, ListInv
<1>2. ASSUME NEW c \in Calls
      PROVE  CallInv(c)
  <2>1. call[c].pc = "idle" /\ call[c].signs = {}
    BY DEF Init
  <2> QED
    BY <2>1 DEF CallInv, Running
<1> QED
  BY <1>1, <1>2, TypeInit DEF Inv

\* A file that is whole stays so, and a meta file is begun when all shares are whole.
LEMMA FilesStep ==
    ASSUME TypeOK, FilesInv, [Next]_vars
    PROVE  /\ FilesInv'
           /\ \A w \in Wallets : meta[w] = "whole" => meta'[w] = "whole"
<1>1. CASE Keygen
  <2> PICK w \in Wallets :
         \/ \E n \in Nodes : SaveBegin(w, n) \/ SaveEnd(w, n) \/ SaveStops(w, n)
         \/ MetaBegin(w) \/ MetaEnd(w) \/ MetaStops(w)
    BY <1>1 DEF Keygen
  <2> DEFINE Keeps == \A v \in Wallets, m \in Nodes : share[v][m] = "whole" => share'[v][m] = "whole"
  <2>1. ASSUME NEW n \in Nodes, SaveBegin(w, n) \/ SaveEnd(w, n) \/ SaveStops(w, n)
        PROVE  Keeps /\ meta' = meta
    <3>1. PICK s \in FileState : share' = [share EXCEPT ![w][n] = s]
      BY <2>1 DEF FileState, SaveBegin, SaveEnd, SaveStops
    <3>2. share[w][n] # "whole" /\ meta' = meta
      BY <2>1 DEF SaveBegin, SaveEnd, SaveStops
    <3>3. share \in [Wallets -> [Nodes -> FileState]]
      BY DEF TypeOK
    <3> QED
      BY <3>1, <3>2, <3>3
  <2>2. ASSUME MetaBegin(w) \/ MetaEnd(w) \/ MetaStops(w)
        PROVE  /\ share' = share
               /\ \E s \in {"partial", "torn", "whole"} : meta' = [meta EXCEPT ![w] = s]
               /\ meta[w] # "whole"
               /\ \A n \in Nodes : share[w][n] = "whole"
    BY <2>2 DEF MetaBegin, MetaEnd, MetaStops, FilesInv
  <2>3. CASE \E n \in Nodes : SaveBegin(w, n) \/ SaveEnd(w, n) \/ SaveStops(w, n)
    BY <2>1, <2>3 DEF FilesInv
  <2>4. CASE MetaBegin(w) \/ MetaEnd(w) \/ MetaStops(w)
    <3>1. PICK s \in {"partial", "torn", "whole"} : meta' = [meta EXCEPT ![w] = s]
      BY <2>2, <2>4
    <3>2. share' = share /\ meta[w] # "whole" /\ \A n \in Nodes : share[w][n] = "whole"
      BY <2>2, <2>4
    <3>3. \A v \in Wallets : v # w => meta'[v] = meta[v]
      BY <3>1 DEF TypeOK
    <3> QED
      BY <3>2, <3>3 DEF FilesInv
  <2> QED
    BY <2>3, <2>4
<1>2. CASE Crash
  BY <1>2 DEF TypeOK, FilesInv, Crash
<1>3. CASE UNCHANGED <<share, meta>>
  BY <1>3 DEF FilesInv
<1>4. FindWalletList \/ Create => UNCHANGED <<share, meta>>
  BY DEF FindWalletList, Create, CreateAccount, CreateAddress
<1>5. (\E c \in Calls : Sign(c)) => UNCHANGED <<share, meta>>
  BY DEF Sign, Task, Submit, BeginTask, NodeSigns, TaskReturns, TaskFails, Verify, Answer
<1> QED
  BY <1>1, <1>2, <1>3, <1>4, <1>5 DEF Next, vars

\* Only CreateAddress hands out addresses, and only FindWalletList lists wallets.
LEMMA ReadersStep ==
    ASSUME TypeOK, FilesInv, HandInv, ListInv, [Next]_vars
    PROVE  HandInv' /\ ListInv'
<1>1. \A w \in Wallets : meta[w] = "whole" => meta'[w] = "whole"
  BY FilesStep
<1>2. \A a \in addresses : a.key.wallet \in Wallets
  BY DEF TypeOK, Derived
<1>3. CASE addresses' = addresses /\ listed' = listed
  BY <1>1, <1>2, <1>3 DEF TypeOK, HandInv, ListInv
<1>4. CASE FindWalletList
  BY <1>4 DEF FindWalletList, DecodesMeta, HandInv, ListInv
<1>5. CASE Create
  <2>1. ASSUME NEW w \in Wallets, NEW last \in Accounts, CreateAccount(w, last)
        PROVE  addresses' = addresses /\ listed' = listed
    BY <2>1 DEF CreateAccount
  <2>2. ASSUME NEW w \in Wallets, NEW account \in Accounts, NEW change \in Changes,
               NEW last \in LastIndexes, NEW count \in Counts,
               CreateAddress(w, account, change, last, count)
        PROVE  HandInv' /\ ListInv'
    <3> DEFINE paths == {<<account, change, Plus(last, i)>> : i \in 1 .. count}
    <3>1. /\ DecodesMeta(w)
          /\ \A path \in paths : Derivable(path)
          /\ addresses' = addresses \cup
                {[path |-> path, key |-> [wallet |-> w, index |-> Derive(path)]] : path \in paths}
          /\ UNCHANGED <<meta, listed>>
      BY <2>2 DEF CreateAddress
    <3> HIDE DEF paths
    <3>2. ASSUME NEW a \in addresses'
          PROVE  meta[a.key.wallet] = "whole" /\ a.key.index = Derive(a.path) /\ Derivable(a.path)
      <4>1. CASE a \in addresses
        BY <4>1 DEF HandInv
      <4>2. CASE a \notin addresses
        <5>1. PICK path \in paths :
                 a = [path |-> path, key |-> [wallet |-> w, index |-> Derive(path)]]
          BY <3>1, <4>2
        <5> QED
          BY <3>1, <5>1 DEF DecodesMeta
      <4> QED
        BY <4>1, <4>2
    <3> QED
      BY <3>1, <3>2 DEF HandInv, ListInv
  <2> QED
    BY <1>3, <1>5, <2>1, <2>2 DEF Create
<1>6. Keygen \/ Crash => addresses' = addresses /\ listed' = listed
  BY DEF Keygen, Crash, SaveBegin, SaveEnd, SaveStops, MetaBegin, MetaEnd, MetaStops
<1>7. (\E c \in Calls : Sign(c)) => addresses' = addresses /\ listed' = listed
  BY DEF Sign, Task, Submit, BeginTask, NodeSigns, TaskReturns, TaskFails, Verify, Answer
<1> QED
  BY <1>3, <1>4, <1>5, <1>6, <1>7 DEF Next, vars

\* Permitted is looked at once, the signatures one by one.
LEMMA CallStep ==
    ASSUME TypeOK, NEW c \in Calls, CallInv(c), [Next]_vars
    PROVE  CallInv(c)'
<1> USE DEF SigningKey
<1>1. CASE UNCHANGED <<call, made>>
  BY <1>1 DEF CallInv
<1>2. Keygen \/ FindWalletList \/ Create => UNCHANGED <<call, made>>
  BY DEF Keygen, SaveBegin, SaveEnd, SaveStops, MetaBegin, MetaEnd, MetaStops,
         FindWalletList, Create, CreateAccount, CreateAddress
<1>3. CASE Crash
  <2>1. made' = made /\ call'[c] = IF call[c].pc \in Running
                                  THEN [call[c] EXCEPT !.pc = "dropped"] ELSE call[c]
    BY <1>3 DEF Crash
  <2>2. /\ call'[c].tx = call[c].tx /\ call'[c].todo = call[c].todo
        /\ call'[c].signs = call[c].signs /\ call'[c].item = call[c].item
        /\ call'[c].pc = call[c].pc \/ call'[c].pc = "dropped"
    BY <2>1 DEF TypeOK
  <2> QED
    BY <2>1, <2>2 DEF CallInv, Running
<1>4. ASSUME NEW d \in Calls, d # c, Sign(d)
      PROVE  CallInv(c)'
  <2>1. call'[c] = call[c] /\ made \subseteq made'
    BY <1>4 DEF TypeOK, Sign, Task, Set, Submit, BeginTask, NodeSigns, TaskReturns, TaskFails,
                Verify, Answer
  <2> QED
    BY <2>1 DEF CallInv
<1>5. CASE Sign(c)
  <2>1. ASSUME NEW tx \in Txs, Submit(c, tx)
        PROVE  CallInv(c)'
    <3>1. /\ Set(c, [call[c] EXCEPT !.pc = IF Permitted(tx) THEN "loop" ELSE "error",
                                     !.tx = tx, !.todo = tx.items])
          /\ call[c].pc = "idle" /\ made' = made
      BY <2>1 DEF Submit
    <3>2. call'[c] = [call[c] EXCEPT !.pc = IF Permitted(tx) THEN "loop" ELSE "error",
                                     !.tx = tx, !.todo = tx.items]
      BY <3>1, SetCall
    <3>3. /\ call'[c].pc = IF Permitted(tx) THEN "loop" ELSE "error"
          /\ call'[c].tx = tx /\ call'[c].todo = tx.items /\ call'[c].signs = call[c].signs
      BY <3>2, RecordOfCall DEF CallType
    <3> QED
      BY <3>1, <3>3 DEF CallInv, Running
  <2>2. ASSUME NEW x \in call[c].todo, BeginTask(c, x)
        PROVE  CallInv(c)'
    <3>1. /\ made' = made /\ call[c].pc = "loop"
          /\ call'[c].tx = call[c].tx /\ call'[c].todo = call[c].todo
          /\ call'[c].signs = call[c].signs /\ call'[c].pc \in {"task", "error"}
      <4>1. /\ made' = made /\ call[c].pc = "loop"
            /\ \/ Set(c, [call[c] EXCEPT !.pc = "task", !.item = x, !.begun = @ \cup {x}])
               \/ Set(c, [call[c] EXCEPT !.pc = "error"])
        BY <2>2, Zenon DEF BeginTask
      <4>2. call \in [Calls -> CallType]
        BY DEF TypeOK, CallType
      <4>3. CASE Set(c, [call[c] EXCEPT !.pc = "task", !.item = x, !.begun = @ \cup {x}])
        BY <4>1, <4>2, <4>3 DEF Set, CallType
      <4>4. CASE Set(c, [call[c] EXCEPT !.pc = "error"])
        BY <4>1, <4>2, <4>4 DEF Set, CallType
      <4> QED
        BY <4>1, <4>3, <4>4
    <3> QED
      BY <3>1 DEF CallInv, Running
  <2>3. ASSUME TaskReturns(c)
        PROVE  CallInv(c)'
    BY <2>3 DEF TypeOK, CallInv, TaskReturns, Set, Running
  <2>4. ASSUME TaskFails(c)
        PROVE  CallInv(c)'
    BY <2>4 DEF TypeOK, CallInv, TaskFails, Set, Running
  <2>5. ASSUME Verify(c)
        PROVE  CallInv(c)'
    <3> DEFINE x == call[c].item
    <3>1. /\ made' = made /\ call[c].pc = "verify" /\ x \in call[c].todo
          /\ call'[c].tx = call[c].tx
      <4>1. /\ made' = made /\ call[c].pc = "verify"
            /\ \/ Set(c, [call[c] EXCEPT !.pc = "loop", !.todo = @ \ {x}, !.signs = @ \cup {x}])
               \/ Set(c, [call[c] EXCEPT !.pc = "error"])
        BY <2>5 DEF Verify
      <4>2. \/ call'[c] = [call[c] EXCEPT !.pc = "loop", !.todo = @ \ {x}, !.signs = @ \cup {x}]
            \/ call'[c] = [call[c] EXCEPT !.pc = "error"]
        BY <4>1, SetCall
      <4>3. call'[c].tx = call[c].tx
        BY <4>2, RecordOfCall DEF CallType
      <4> QED
        BY <4>1, <4>3 DEF TypeOK
    <3>2. CASE SigningKey(c, x) = x.pub
      <4>1. /\ call'[c].todo = call[c].todo \ {x} /\ call'[c].pc = "loop"
            /\ call'[c].signs = call[c].signs \cup {x}
        BY <2>5, <3>2 DEF TypeOK, Verify, Set
      <4> QED
        BY <3>1, <3>2, <4>1 DEF CallInv, Running
    <3>3. CASE SigningKey(c, x) # x.pub
      <4>1. call'[c].pc = "error" /\ call'[c].signs = call[c].signs
        BY <2>5, <3>3 DEF TypeOK, Verify, Set
      <4> QED
        BY <3>1, <4>1 DEF CallInv, Running
    <3> QED
      BY <3>2, <3>3
  <2>6. ASSUME Answer(c)
        PROVE  CallInv(c)'
    <3>1. /\ Set(c, [call[c] EXCEPT !.pc = "done"])
          /\ call[c].pc = "loop" /\ call[c].todo = {} /\ made' = made
      BY <2>6 DEF Answer
    <3>2. call'[c] = [call[c] EXCEPT !.pc = "done"]
      BY <3>1, SetCall
    <3>3. /\ call'[c].pc = "done" /\ call'[c].tx = call[c].tx
          /\ call'[c].todo = call[c].todo /\ call'[c].signs = call[c].signs
      BY <3>2, RecordOfCall DEF CallType
    <3> QED
      BY <3>1, <3>3 DEF CallInv, Running
  <2>7. ASSUME NEW n \in Nodes, NEW x \in call[c].begun, NodeSigns(n, c, x)
        PROVE  CallInv(c)'
    BY <2>7 DEF CallInv, NodeSigns
  <2> QED
    BY <1>5, <2>1, <2>2, <2>3, <2>4, <2>5, <2>6, <2>7 DEF Sign, Task
<1> QED
  BY <1>1, <1>2, <1>3, <1>4, <1>5 DEF Next, vars

LEMMA Invariance == Spec => []Inv
<1>1. Inv /\ [Next]_vars => Inv'
  <2> SUFFICES ASSUME Inv, [Next]_vars
               PROVE  Inv'
    OBVIOUS
  <2>1. FilesInv' /\ HandInv' /\ ListInv'
    BY FilesStep, ReadersStep DEF Inv
  <2>2. \A c \in Calls : CallInv(c)'
    BY CallStep DEF Inv
  <2>3. TypeOK'
    <3>1. CASE UNCHANGED vars
      BY <3>1 DEF Inv, TypeOK, vars
    <3> QED
      BY <3>1, TypeFiles, TypeCreate, TypeSign DEF Inv, Next
  <2> QED
    BY <2>1, <2>2, <2>3 DEF Inv
<1> QED
  BY <1>1, InvInit, PTL DEF Spec

-----------------------------------------------------------------------------
(* The properties.                                                          *)

\* An address whose path parses is the address of the key the nodes sign with, and
\* every node can.
THEOREM HandedOutIsSignableCorrect == Spec => []HandedOutIsSignable
<1>1. Inv => HandedOutIsSignable
  <2> SUFFICES ASSUME Inv, NEW a \in addresses, Parses(a.path)
               PROVE  /\ Derive(ParseMPCPath(a.path)) = a.key.index
                      /\ \A n \in Nodes : Accepts(n, a.key.wallet, ParseMPCPath(a.path))
    BY DEF HandedOutIsSignable
  <2>1. a.path \in Path /\ a.key.wallet \in Wallets
    BY DEF Inv, TypeOK, Derived, Path
  <2>2. ParseMPCPath(a.path) = a.path /\ \A k \in 1 .. 3 : a.path[k] \in 0 .. U - 1
    BY <2>1, ParsedIsSame
  <2>3. a.key.index = Derive(a.path) /\ Derivable(a.path) /\ meta[a.key.wallet] = "whole"
    BY DEF Inv, HandInv
  <2>4. \A n \in Nodes : share[a.key.wallet][n] = "whole"
    BY <2>1, <2>3 DEF Inv, FilesInv
  <2>5. \A k \in DOMAIN a.path : a.path[k] >= 0
    BY <2>1, <2>2, WidthAssumption DEF Path
  <2> QED
    BY <2>1, <2>2, <2>3, <2>4, <2>5 DEF Accepts
<1> QED
  BY <1>1, Invariance, PTL

\* Two addresses under one key do not both have paths that parse.
THEOREM OnePathPerKeyCorrect == Spec => []OnePathPerKey
<1>1. Inv => OnePathPerKey
  <2> SUFFICES ASSUME Inv, NEW a \in addresses, NEW b \in addresses,
                      a.key = b.key, Parses(a.path), Parses(b.path)
               PROVE  a.path = b.path
    BY DEF OnePathPerKey
  <2>1. a.path \in Path /\ b.path \in Path
    BY DEF Inv, TypeOK, Derived, Path
  <2>2. a.key.index = Derive(a.path) /\ b.key.index = Derive(b.path)
    BY DEF Inv, HandInv
  <2> QED
    BY <2>1, <2>2, ParsedIsDerived
<1> QED
  BY <1>1, Invariance, PTL

\* All signatures of a permitted transaction or none, each made by every node under
\* the address's key.
THEOREM AnswersInFullCorrect == Spec => []AnswersInFull
<1>1. Inv => AnswersInFull
  BY DEF Inv, CallInv, AnswersInFull
<1> QED
  BY <1>1, Invariance, PTL

\* What FindWalletList has named has all its files.
THEOREM ListsUsableWalletsCorrect == Spec => []ListsUsableWallets
<1>1. Inv => ListsUsableWallets
  BY DEF Inv, TypeOK, FilesInv, ListInv, ListsUsableWallets
<1> QED
  BY <1>1, Invariance, PTL

-----------------------------------------------------------------------------
(* The files of a keygen.                                                   *)

\* What can be read of a wallet's files, as the promise a keygen task gives; the call
\* has failed when its meta file is left torn, and otherwise WalletService does not say.
\* KeygenTask, which implements the same promise, has the task that writes the files.
Files(w) == INSTANCE WalletPromise WITH
    Keys    <- {"key"},
    NoKey   <- "none",
    share   <- [n \in Nodes |-> IF share[w][n] = "whole" THEN "key" ELSE "none"],
    wallet  <- IF meta[w] = "whole" THEN "key" ELSE "none",
    outcome <- IF meta[w] = "torn" THEN "failed" ELSE "pending"

LEMMA FilesKeepPromise ==
    ASSUME NEW w \in Wallets, Inv, [Next]_vars
    PROVE  [Files(w)!Next]_(Files(w)!vars)
<1> DEFINE Same == UNCHANGED <<meta[w], share[w]>>
<1> USE DEF Files!Next, Files!vars
<1>1. /\ share \in [Wallets -> [Nodes -> FileState]]
      /\ meta \in [Wallets -> FileState]
      /\ meta[w] # "none" => \A n \in Nodes : share[w][n] = "whole"
  BY DEF Inv, TypeOK, FilesInv
<1>2. CASE Same
  BY <1>2
<1>3. CASE Crash
  <2>1. /\ meta'[w] = IF meta[w] = "partial" THEN "torn" ELSE meta[w]
        /\ share' = share
    BY <1>3 DEF Crash
  <2>2. CASE meta[w] = "partial"
    BY <2>1, <2>2 DEF Files!ReturnError
  <2> QED
    BY <1>2, <2>1, <2>2
<1>4. ASSUME NEW v \in Wallets, NEW n \in Nodes, SaveEnd(v, n)
      PROVE  [Files(w)!Next]_(Files(w)!vars)
  <2>1. CASE v = w
    <3>1. /\ share[w][n] = "partial" /\ meta' = meta
          /\ share'[w] = [share[w] EXCEPT ![n] = "whole"]
      BY <1>1, <1>4, <2>1 DEF SaveEnd
    <3>2. Files(w)!SaveShare(n, "key")
      BY <1>1, <3>1 DEF Files!SaveShare
    <3> QED
      BY <3>2
  <2>2. CASE v # w
    BY <1>1, <1>2, <1>4, <2>2 DEF SaveEnd
  <2> QED
    BY <2>1, <2>2
<1>5. ASSUME NEW v \in Wallets, NEW n \in Nodes, SaveBegin(v, n) \/ SaveStops(v, n)
      PROVE  [Files(w)!Next]_(Files(w)!vars)
  <2>1. PICK s \in {"partial", "torn"} :
          share[v][n] # "whole" /\ share' = [share EXCEPT ![v][n] = s] /\ meta' = meta
    BY <1>5 DEF SaveBegin, SaveStops
  <2>2. \A m \in Nodes : share'[w][m] = "whole" <=> share[w][m] = "whole"
    BY <1>1, <2>1
  <2> QED
    BY <2>1, <2>2
<1>6. ASSUME NEW v \in Wallets, MetaBegin(v)
      PROVE  [Files(w)!Next]_(Files(w)!vars)
  <2>1. /\ share' = share /\ (meta[w] = "whole" <=> meta'[w] = "whole")
        /\ (meta[w] = "torn" <=> meta'[w] = "torn")
    BY <1>1, <1>6 DEF MetaBegin
  <2> QED
    BY <2>1
<1>7. ASSUME NEW v \in Wallets, MetaEnd(v)
      PROVE  [Files(w)!Next]_(Files(w)!vars)
  <2>1. CASE v = w
    <3>1. meta[w] = "partial" /\ meta'[w] = "whole" /\ share' = share
      BY <1>1, <1>7, <2>1 DEF MetaEnd
    <3>2. Files(w)!Publish("key")
      BY <1>1, <3>1 DEF Files!Publish
    <3> QED
      BY <3>2
  <2>2. CASE v # w
    BY <1>1, <1>2, <1>7, <2>2 DEF MetaEnd
  <2> QED
    BY <2>1, <2>2
<1>8. ASSUME NEW v \in Wallets, MetaStops(v)
      PROVE  [Files(w)!Next]_(Files(w)!vars)
  <2>1. CASE v = w
    <3>1. meta[w] = "partial" /\ meta'[w] = "torn" /\ share' = share
      BY <1>1, <1>8, <2>1 DEF MetaStops
    <3>2. Files(w)!ReturnError
      BY <3>1 DEF Files!ReturnError
    <3> QED
      BY <3>2
  <2>2. CASE v # w
    BY <1>1, <1>2, <1>8, <2>2 DEF MetaStops
  <2> QED
    BY <2>1, <2>2
<1>9. CASE Keygen
  BY <1>4, <1>5, <1>6, <1>7, <1>8, <1>9 DEF Keygen
<1>10. CASE FindWalletList \/ Create \/ \E c \in Calls : Sign(c)
  <2>1. UNCHANGED <<meta, share>>
    BY <1>10 DEF FindWalletList, Create, CreateAccount, CreateAddress, Sign, Task, Submit,
                 BeginTask, TaskReturns, TaskFails, Verify, Answer, NodeSigns
  <2> QED
    BY <1>2, <2>1
<1> QED
  BY <1>2, <1>3, <1>9, <1>10 DEF Next, vars

\* The files behave as a keygen task promises: a reader who finds a wallet finds the key
\* of which every node has stored a share, whatever is torn or interrupted, and finds it
\* from then on.
THEOREM FilesKeepPromiseCorrect ==
    ASSUME NEW w \in Wallets
    PROVE  Spec => Files(w)!SafeSpec
<1>1. Init => Files(w)!Init
  BY DEF Init, Files!Init
<1>2. Inv /\ [Next]_vars => [Files(w)!Next]_(Files(w)!vars)
  BY FilesKeepPromise
<1> QED
  BY <1>1, <1>2, Invariance, PTL DEF Spec, Files!SafeSpec
=============================================================================
