---------------------------- MODULE InProcessProof ----------------------------
(***************************************************************************)
(* InProcess for any number of parties: its types, the end of a successful *)
(* call, and, as long as there are no more parties than outCh is made for  *)
(* (four, or eight in a signing), that nobody waits for room in it and     *)
(* that no call stops halfway.                                             *)
(***************************************************************************)
EXTENDS InProcess, FiniteSetTheorems, TLAPS

-----------------------------------------------------------------------------
(* The inductive invariant.                                                *)

\* Has m been sent?
Put(m) == m[2] < rnd[m[1]] \/ (m[2] = rnd[m[1]] /\ m[3] <= sent[m[1]])

\* Rounds and the goroutines that work in them.
PhaseInv ==
    /\ \A i \in Parties :
        /\ start[i] \in {"new", "failed"} <=> rnd[i] = 0
        /\ start[i] = "run" => rnd[i] = 1
        /\ sent[i] <= Count(rnd[i])
        /\ start[i] # "run" /\ upd # i => sent[i] = Count(rnd[i])
        /\ upd = i => rnd[i] >= 2
    /\ upd # 0 => \A m \in Messages :
        m[1] = upd /\ m[2] = rnd[upd] => \A j \in Parties : m \notin got[j]

\* A message on its way, in outCh or with the drainer, has been sent, is there once, and
\* is not yet where it goes.
ChannelInv ==
    /\ \A p \in 1 .. Len(queue) :
        /\ Put(queue[p])
        /\ \A j \in Parties : queue[p] \notin got[j]
        /\ \A q \in 1 .. Len(queue) : queue[p] = queue[q] => p = q
    /\ \A d \in todo :
        /\ Put(d[1]) /\ d[2] \in Receivers(d[1]) /\ d[1] \notin got[d[2]]
        /\ \A p \in 1 .. Len(queue) : queue[p] # d[1]

\* A party has only what was sent to it, and all of it for the rounds it has finished.
StoredInv ==
    \A i \in Parties :
        /\ \A m \in got[i] : Put(m) /\ i \in Receivers(m)
        /\ \A r \in 1 .. R : r < rnd[i] => Needed(i, r) \subseteq got[i]

\* The caller.
CallerInv ==
    /\ \A i \in done \cup taken : rnd[i] = R + 1
    /\ main \in {"closing", "ok"} => taken = Parties
    /\ closed <=> main # "run"
    /\ panicked => main = "error"

IndInv == TypeOK /\ PhaseInv /\ ChannelInv /\ StoredInv /\ CallerInv

-----------------------------------------------------------------------------
(* The library's rounds and messages.                                      *)

\* None of this depends on more than the protocol.
LEMMA Frame ==
    ASSUME proto' = proto
    PROVE  /\ R' = R /\ Capacity' = Capacity /\ Messages' = Messages
           /\ \A r : Count(r)' = Count(r)
           /\ \A m : Receivers(m)' = Receivers(m)
           /\ \A i, r : Needed(i, r)' = Needed(i, r)
BY DEF R, Capacity, Messages, Count, Receivers, Needed, IsBroadcast, ToEach, ToAll

\* Every round sends something: one message at least, and N at most.
LEMMA Rounds ==
    ASSUME proto \in Protocols
    PROVE  /\ R \in Nat \ {0} /\ Capacity \in Nat
           /\ \A r \in 1 .. R : ToEach(r) \/ ToAll(r)
           /\ \A r \in 1 .. R : Count(r) \in 1 .. N
           /\ \A r : r \notin 1 .. R => Count(r) = 0
           /\ \A r : Count(r) \in 0 .. N
<1>1. CASE proto = Keygen
  <2>1. /\ R = 3 /\ Capacity \in Nat
        /\ \A r \in 1 .. 3 : "each" \in proto.emits[r] \/ "all" \in proto.emits[r]
    BY <1>1, NAssumption DEF R, Capacity, Keygen
  <2> QED
    BY <2>1, NAssumption DEF Count, ToEach, ToAll
<1>2. CASE proto = Sign
  <2>1. /\ R = 9 /\ Capacity \in Nat
        /\ \A r \in 1 .. 9 : "each" \in proto.emits[r] \/ "all" \in proto.emits[r]
    BY <1>2, NAssumption DEF R, Capacity, Sign
  <2> QED
    BY <2>1, NAssumption DEF Count, ToEach, ToAll
<1> QED
  BY <1>1, <1>2, ProtocolsAssumption DEF Both

\* A message has a receiver, which is not its sender.
LEMMA HasReceiver ==
    ASSUME proto \in Protocols, NEW m \in Messages
    PROVE  /\ m[1] \in Parties /\ m[2] \in 1 .. R /\ m[3] \in 1 .. Count(m[2])
           /\ m = <<m[1], m[2], m[3]>>
           /\ Receivers(m) \subseteq Parties \ {m[1]}
           /\ Receivers(m) # {}
<1>1. /\ m[1] \in Parties /\ m[2] \in 1 .. R /\ m[3] \in 1 .. Count(m[2])
      /\ m = <<m[1], m[2], m[3]>>
  BY Rounds, NAssumption DEF Messages
<1>2. CASE IsBroadcast(m)
  <2>1. Receivers(m) = Parties \ {m[1]}
    BY <1>2 DEF Receivers
  <2>2. (IF m[1] = 1 THEN 2 ELSE 1) \in Parties \ {m[1]}
    BY NAssumption DEF Parties
  <2> QED
    BY <1>1, <2>1, <2>2
<1>3. CASE ~IsBroadcast(m)
  <2>1. m[3] \in 1 .. N - 1
    BY <1>1, <1>3, NAssumption, Rounds DEF IsBroadcast, Count
  <2>2. Peer(m[1], m[3]) \in Parties \ {m[1]}
    BY <1>1, <2>1, NAssumption DEF Peer, Parties
  <2> QED
    BY <1>1, <1>3, <2>2 DEF Receivers
<1> QED
  BY <1>2, <1>3

\* What a party sends next is a message, and has not been sent before.
LEMMA NextMessage ==
    ASSUME TypeOK, NEW i \in Parties, Sending(i)
    PROVE  /\ <<i, rnd[i], sent[i] + 1>> \in Messages
           /\ ~Put(<<i, rnd[i], sent[i] + 1>>)
           /\ rnd[i] \in 1 .. R
<1>1. rnd[i] \in 0 .. R + 1 /\ sent[i] \in 0 .. N /\ proto \in Protocols
  BY DEF TypeOK
<1>2. rnd[i] \in 1 .. R /\ sent[i] + 1 \in 1 .. N /\ sent[i] + 1 <= Count(rnd[i])
  BY <1>1, Rounds, NAssumption DEF Sending
<1> QED
  BY <1>1, <1>2, Rounds DEF Messages, Put

\* In every round a party has a message for each of the others.
LEMMA SomeMessage ==
    ASSUME proto \in Protocols
    PROVE  \A j, i \in Parties, r \in 1 .. R :
               i # j => \E m \in Messages : m[1] = j /\ m[2] = r /\ i \in Receivers(m)
<1> SUFFICES ASSUME NEW j \in Parties, NEW i \in Parties, NEW r \in 1 .. R, i # j
             PROVE  \E m \in Messages : m[1] = j /\ m[2] = r /\ i \in Receivers(m)
  OBVIOUS
<1>1. Count(r) \in 1 .. N
  BY Rounds
<1>2. CASE ToAll(r)
  <2> DEFINE m == <<j, r, Count(r)>>
  <2>1. m \in Messages /\ m[1] = j /\ m[2] = r
    BY <1>1 DEF Messages
  <2>2. i \in Receivers(m)
    BY <1>2 DEF Receivers, IsBroadcast
  <2> QED
    BY <2>1, <2>2
<1>3. CASE ~ToAll(r)
  <2>1. ToEach(r) /\ Count(r) = N - 1
    BY <1>3, Rounds, NAssumption DEF Count
  <2> DEFINE k == IF i < j THEN i ELSE i - 1
  <2>2. k \in 1 .. N - 1 /\ Peer(j, k) = i
    BY NAssumption DEF Parties, Peer
  <2> HIDE DEF k
  <2> DEFINE m == <<j, r, k>>
  <2>3. m \in Messages /\ m[1] = j /\ m[2] = r /\ m[3] = k
    BY <2>1, <2>2, NAssumption DEF Messages
  <2>4. Receivers(m) = {i}
    BY <1>3, <2>2, <2>3 DEF Receivers, IsBroadcast
  <2> QED
    BY <2>3, <2>4
<1> QED
  BY <1>2, <1>3

-----------------------------------------------------------------------------
(* Types.                                                                  *)

LEMMA PutOutTypes ==
    ASSUME TypeOK, NEW i \in Parties, PutOut(i)
    PROVE  /\ sent' \in [Parties -> 0 .. N]
           /\ queue' \in Seq(Messages) /\ Len(queue') <= Capacity
           /\ panicked' \in BOOLEAN
<1>1. sent[i] + 1 \in 0 .. N
  BY Rounds, NAssumption DEF PutOut, Sending, TypeOK
<1>2. sent' \in [Parties -> 0 .. N]
  BY <1>1 DEF PutOut, TypeOK
<1>3. CASE UNCHANGED queue /\ panicked' = TRUE
  BY <1>2, <1>3 DEF TypeOK
<1>4. CASE /\ Len(queue) < Capacity
           /\ queue' = Append(queue, <<i, rnd[i], sent[i] + 1>>)
           /\ UNCHANGED panicked
  <2>1. <<i, rnd[i], sent[i] + 1>> \in Messages /\ queue \in Seq(Messages) /\ Capacity \in Nat
    BY NextMessage, Rounds DEF PutOut, TypeOK
  <2>2. queue' \in Seq(Messages) /\ Len(queue') = Len(queue) + 1
    BY <1>4, <2>1
  <2> QED
    BY <1>2, <1>4, <2>1, <2>2 DEF TypeOK
<1> QED
  BY <1>3, <1>4 DEF PutOut

LEMMA UpdateTypes ==
    ASSUME TypeOK, NEW i \in Parties, NEW g, Update(i, g)
    PROVE  /\ rnd' \in [Parties -> 0 .. R + 1]
           /\ sent' \in [Parties -> 0 .. N]
           /\ upd' \in {0} \cup Parties
           /\ done' \subseteq Parties
<1>1. R \in Nat /\ 0 \in 0 .. N
  BY Rounds, NAssumption DEF TypeOK
<1>2. rnd[i] \in 1 .. R => rnd[i] + 1 \in 0 .. R + 1
  BY <1>1
<1>3. rnd' \in [Parties -> 0 .. R + 1] /\ sent' \in [Parties -> 0 .. N]
  BY <1>1, <1>2 DEF Update, TypeOK
<1>4. upd' \in {0} \cup Parties /\ done' \subseteq Parties
  BY DEF Update, TypeOK
<1> QED
  BY <1>3, <1>4

LEMMA TypeStep == IndInv /\ [Next]_vars => TypeOK'
<1> SUFFICES ASSUME IndInv, [Next]_vars
             PROVE  TypeOK'
  OBVIOUS
<1>1. TypeOK /\ proto \in Protocols
  BY DEF IndInv, TypeOK
<1>2. ASSUME proto' = proto
      PROVE  R' = R /\ Capacity' = Capacity /\ Messages' = Messages
  BY <1>2, Frame
<1>3. ASSUME NEW i \in Parties, Start(i) \/ StartFails(i) \/ StartReturns(i)
      PROVE  TypeOK'
  <2>1. 1 \in 0 .. R + 1
    BY <1>1, Rounds
  <2>2. proto' = proto /\ rnd' \in [Parties -> 0 .. R + 1]
    BY <1>1, <1>3, <2>1 DEF Start, StartFails, StartReturns, callerVars, roundVars, TypeOK
  <2> QED
    BY <1>1, <1>2, <1>3, <2>2
    DEF Start, StartFails, StartReturns, callerVars, roundVars, TypeOK
<1>4. ASSUME NEW i \in Parties, StartSends(i)
      PROVE  TypeOK'
  BY <1>1, <1>2, <1>4, PutOutTypes DEF StartSends, callerVars, TypeOK
<1>5. CASE Take
  <2>1. Head(queue) \in Messages /\ Tail(queue) \in Seq(Messages)
        /\ Len(Tail(queue)) <= Capacity
    BY <1>1, <1>5, Rounds DEF Take, TypeOK
  <2>2. todo' \subseteq Messages \X Parties
    BY <1>1, <1>5, <2>1, HasReceiver DEF Take
  <2> QED
    BY <1>1, <1>2, <1>5, <2>1, <2>2 DEF Take, roundVars, callerVars, TypeOK
<1>6. CASE Receive
  <2>1. PICK d \in todo : /\ got' = [got EXCEPT ![d[2]] = @ \cup {d[1]}]
                          /\ todo' = todo \ {d}
                          /\ Update(d[2], got[d[2]] \cup {d[1]})
    BY <1>6 DEF Receive
  <2>2. d[1] \in Messages /\ d[2] \in Parties /\ d[1][1] # d[2]
    BY <1>1, HasReceiver DEF IndInv, ChannelInv, TypeOK
  <2>3. /\ got' \in [Parties -> SUBSET Messages]
        /\ \A i \in Parties : \A m \in got'[i] : m[1] # i
    BY <1>1, <2>1, <2>2 DEF TypeOK
  <2> QED
    BY <1>1, <1>2, <1>6, <2>1, <2>2, <2>3, UpdateTypes DEF Receive, callerVars, TypeOK
<1>7. CASE UpdateSends
  <2>1. upd \in Parties
    BY <1>1, <1>7 DEF UpdateSends, TypeOK
  <2> QED
    BY <1>1, <1>2, <1>7, <2>1, PutOutTypes DEF UpdateSends, callerVars, TypeOK
<1>8. CASE UpdateGoesOn
  <2>1. upd \in Parties
    BY <1>1, <1>8 DEF UpdateGoesOn, TypeOK
  <2> QED
    BY <1>1, <1>2, <1>8, <2>1, UpdateTypes DEF UpdateGoesOn, callerVars, TypeOK
<1>9. CASE Caller \/ Timeout
  BY <1>1, <1>2, <1>9
  DEF Caller, Timeout, TakeError, CloseAndReturnError, Return, TakeResult, roundVars, TypeOK
<1>10. CASE UNCHANGED vars
  BY <1>1, <1>2, <1>10 DEF vars, TypeOK
<1> QED
  BY <1>3, <1>4, <1>5, <1>6, <1>7, <1>8, <1>9, <1>10 DEF Next, StartOf, Drainer

-----------------------------------------------------------------------------
(* PhaseInv.                                                               *)

\* The two kinds of numbers that are compared.
LEMMA Numbers ==
    ASSUME TypeOK, NEW i \in Parties
    PROVE  rnd[i] \in Nat /\ sent[i] \in Nat /\ Count(rnd[i]) \in Nat /\ R \in Nat
BY Rounds, NAssumption DEF TypeOK

LEMMA UpdatePhase ==
    ASSUME TypeOK, PhaseInv, NEW i \in Parties, NEW g, Update(i, g),
           start[i] # "run", upd \in {0, i}, ~Sending(i),
           UNCHANGED <<start, proto>>,
           \A j \in Parties : \A m \in got'[j] : Put(m)
    PROVE  PhaseInv'
<1>1. Messages' = Messages /\ \A r : Count(r)' = Count(r)
  BY Frame
<1>2. CASE /\ rnd[i] \in 1 .. R
           /\ rnd' = [rnd EXCEPT ![i] = @ + 1]
           /\ sent' = [sent EXCEPT ![i] = 0]
           /\ upd' = i
  <2>1. ASSUME NEW j \in Parties, j # i
        PROVE  /\ start[j] \in {"new", "failed"} <=> rnd'[j] = 0
               /\ start[j] = "run" => rnd'[j] = 1
               /\ sent'[j] <= Count(rnd'[j])
               /\ start[j] # "run" => sent'[j] = Count(rnd'[j])
               /\ upd' # j
    <3>1. upd # j /\ rnd'[j] = rnd[j] /\ sent'[j] = sent[j]
      BY <1>2, <2>1 DEF TypeOK, Parties
    <3> QED
      BY <1>2, <2>1, <3>1 DEF PhaseInv
  <2>2. /\ start[i] \notin {"new", "failed"}
        /\ rnd'[i] = rnd[i] + 1 /\ rnd'[i] >= 2
        /\ sent'[i] <= Count(rnd'[i])
    BY <1>2, NAssumption, Rounds DEF PhaseInv, TypeOK
  <2>3. ASSUME NEW m \in Messages, m[1] = i, m[2] = rnd[i] + 1
        PROVE  ~Put(m)
    BY <2>3, Numbers DEF Put
  <2>4. i # 0
    BY NAssumption DEF Parties
  <2> QED
    BY <1>1, <1>2, <2>1, <2>2, <2>3, <2>4 DEF PhaseInv
<1>3. CASE upd' = 0 /\ UNCHANGED <<rnd, sent>>
  <2>1. sent[i] = Count(rnd[i])
    BY Numbers DEF PhaseInv, Sending
  <2> QED
    BY <1>1, <1>3, <2>1, NAssumption DEF PhaseInv, Parties
<1> QED
  BY <1>2, <1>3 DEF Update

LEMMA PhaseStep == IndInv /\ [Next]_vars => PhaseInv'
<1> SUFFICES ASSUME IndInv, [Next]_vars
             PROVE  PhaseInv'
  OBVIOUS
<1>1. TypeOK /\ PhaseInv /\ proto \in Protocols
  BY DEF IndInv, TypeOK
<1>2. ASSUME proto' = proto
      PROVE  Messages' = Messages /\ \A r : Count(r)' = Count(r)
  BY <1>2, Frame
<1>3. \A i \in Parties : /\ i # 0 /\ rnd[i] \in Nat /\ sent[i] \in Nat
                         /\ Count(rnd[i]) \in Nat
  BY <1>1, Numbers, NAssumption DEF Parties
<1>4. ASSUME NEW i \in Parties, Start(i) \/ StartFails(i)
      PROVE  PhaseInv'
  <2>1. proto' = proto /\ sent[i] = 0 /\ upd # i /\ rnd[i] = 0
    BY <1>1, <1>3, <1>4, Rounds
    DEF Start, StartFails, callerVars, roundVars, PhaseInv
  <2>2. 0 <= Count(1) /\ Count(0) = 0
    BY <1>1, Rounds, NAssumption
  <2>3. CASE Start(i)
    BY <1>1, <1>2, <2>1, <2>2, <2>3 DEF Start, callerVars, PhaseInv, TypeOK
  <2>4. CASE StartFails(i)
    BY <1>1, <1>2, <2>1, <2>2, <2>4 DEF StartFails, roundVars, PhaseInv, TypeOK
  <2> QED
    BY <1>4, <2>3, <2>4
<1>5. ASSUME NEW i \in Parties, PutOut(i), start[i] = "run" \/ upd = i,
             UNCHANGED <<proto, start, rnd, got, upd>>
      PROVE  PhaseInv'
  <2>1. sent[i] + 1 <= Count(rnd[i]) /\ sent' = [sent EXCEPT ![i] = @ + 1]
    BY <1>3, <1>5 DEF PutOut, Sending
  <2> QED
    BY <1>1, <1>2, <1>5, <2>1 DEF PhaseInv, TypeOK
<1>6. ASSUME NEW i \in Parties, StartReturns(i)
      PROVE  PhaseInv'
  <2>1. sent[i] = Count(rnd[i]) /\ rnd[i] # 0
    BY <1>1, <1>3, <1>6 DEF StartReturns, PhaseInv, Sending
  <2> QED
    BY <1>1, <1>2, <1>6, <2>1 DEF StartReturns, callerVars, roundVars, PhaseInv, TypeOK
<1>7. CASE Receive
  <2>1. PICK d \in todo : /\ start[d[2]] # "run"
                          /\ got' = [got EXCEPT ![d[2]] = @ \cup {d[1]}]
                          /\ Update(d[2], got[d[2]] \cup {d[1]})
    BY <1>7 DEF Receive
  <2>2. d[2] \in Parties /\ upd = 0 /\ UNCHANGED <<start, proto>>
    BY <1>1, <1>7 DEF Receive, callerVars, TypeOK
  <2>3. ~Sending(d[2])
    BY <1>1, <1>3, <2>1, <2>2 DEF PhaseInv, Sending
  <2>4. \A j \in Parties : \A m \in got'[j] : Put(m)
    BY <1>1, <2>1, <2>2 DEF IndInv, StoredInv, ChannelInv, TypeOK
  <2> QED
    BY <1>1, <2>1, <2>2, <2>3, <2>4, UpdatePhase
<1>8. CASE UpdateGoesOn
  <2>1. /\ upd \in Parties /\ ~Sending(upd) /\ Update(upd, got[upd])
        /\ UNCHANGED <<start, proto, got>>
    BY <1>1, <1>8 DEF UpdateGoesOn, callerVars, TypeOK
  <2>2. start[upd] # "run"
    BY <1>1, <2>1 DEF PhaseInv
  <2>3. \A j \in Parties : \A m \in got'[j] : Put(m)
    BY <2>1 DEF IndInv, StoredInv
  <2> QED
    BY <1>1, <2>1, <2>2, <2>3, UpdatePhase
<1>9. CASE UNCHANGED <<proto, start, rnd, sent, got, upd>>
  BY <1>1, <1>2, <1>9 DEF PhaseInv
<1>10. CASE UpdateSends
  BY <1>1, <1>5, <1>10 DEF UpdateSends, callerVars, TypeOK
<1> QED
  BY <1>4, <1>5, <1>6, <1>7, <1>8, <1>9, <1>10
  DEF Next, StartOf, Drainer, StartSends, Take, Caller, Timeout, TakeError,
      CloseAndReturnError, Return, TakeResult, roundVars, callerVars, vars

-----------------------------------------------------------------------------
(* ChannelInv.                                                             *)

LEMMA ProtoStays == [Next]_vars => UNCHANGED proto
BY DEF Next, StartOf, Start, StartSends, StartFails, StartReturns, Drainer, Take, Receive,
       UpdateSends, UpdateGoesOn, Caller, Timeout, TakeError, CloseAndReturnError, Return,
       TakeResult, callerVars, vars

\* A party never goes back, and what is sent stays sent.
LEMMA Forward ==
    ASSUME IndInv, [Next]_vars, NEW i \in Parties
    PROVE  rnd'[i] > rnd[i] \/ (rnd'[i] = rnd[i] /\ sent'[i] >= sent[i])
<1>1. TypeOK /\ PhaseInv /\ rnd[i] \in Nat /\ sent[i] \in Nat
  BY Numbers DEF IndInv
<1>2. ASSUME NEW j \in Parties, PutOut(j), UNCHANGED rnd
      PROVE  rnd'[i] = rnd[i] /\ sent'[i] >= sent[i]
  BY <1>1, <1>2 DEF PutOut, TypeOK
<1>3. ASSUME NEW j \in Parties, NEW g, Update(j, g)
      PROVE  rnd'[i] > rnd[i] \/ (rnd'[i] = rnd[i] /\ sent'[i] >= sent[i])
  BY <1>1, <1>3 DEF Update, TypeOK
<1>4. ASSUME NEW j \in Parties, Start(j)
      PROVE  rnd'[i] > rnd[i] \/ (rnd'[i] = rnd[i] /\ sent'[i] >= sent[i])
  BY <1>1, <1>4 DEF Start, TypeOK, PhaseInv
<1>5. CASE Receive \/ UpdateGoesOn
  BY <1>1, <1>3, <1>5 DEF Receive, UpdateGoesOn, TypeOK
<1>6. CASE UpdateSends
  BY <1>1, <1>2, <1>6 DEF UpdateSends, TypeOK
<1>7. CASE UNCHANGED <<rnd, sent>>
  BY <1>1, <1>7
<1> QED
  BY <1>2, <1>4, <1>5, <1>6, <1>7
  DEF Next, StartOf, StartSends, StartFails, StartReturns, Drainer, Take, Caller, Timeout,
      TakeError, CloseAndReturnError, Return, TakeResult, roundVars, vars

LEMMA PutStays ==
    ASSUME IndInv, [Next]_vars, NEW m \in Messages, Put(m)
    PROVE  Put(m)'
<1>1. m[1] \in Parties /\ m[2] \in Nat /\ m[3] \in Nat
  BY Rounds, NAssumption DEF IndInv, TypeOK, Messages
<1>2. rnd[m[1]] \in Nat /\ rnd'[m[1]] \in Nat /\ sent[m[1]] \in Nat /\ sent'[m[1]] \in Nat
  <2>1. TypeOK /\ TypeOK'
    BY TypeStep DEF IndInv
  <2>2. /\ rnd[m[1]] \in Nat /\ sent[m[1]] \in Nat
        /\ R \in Nat /\ R' = R
    BY <1>1, <2>1, Numbers, Frame, ProtoStays
  <2>3. rnd' \in [Parties -> 0 .. R + 1] /\ sent' \in [Parties -> 0 .. N]
    BY <2>1, <2>2 DEF TypeOK
  <2> QED
    BY <1>1, <2>2, <2>3, NAssumption
<1> QED
  BY <1>1, <1>2, Forward DEF Put

LEMMA ChannelStep == IndInv /\ [Next]_vars => ChannelInv'
<1> SUFFICES ASSUME IndInv, [Next]_vars
             PROVE  ChannelInv'
  OBVIOUS
<1>1. /\ TypeOK /\ ChannelInv /\ StoredInv /\ proto \in Protocols
      /\ queue \in Seq(Messages) /\ todo \subseteq Messages \X Parties
      /\ got \in [Parties -> SUBSET Messages]
      /\ \A p \in 1 .. Len(queue) : queue[p] \in Messages
  BY DEF IndInv, TypeOK
<1>2. ASSUME proto' = proto
      PROVE  \A m : Receivers(m)' = Receivers(m)
  BY <1>2, Frame
<1>3. \A m \in Messages : Put(m) => Put(m)'
  BY PutStays
<1>4. CASE UNCHANGED <<proto, queue, todo, got>>
  BY <1>1, <1>2, <1>3, <1>4 DEF ChannelInv
<1>5. ASSUME NEW i \in Parties, PutOut(i), UNCHANGED <<proto, rnd, todo, got>>
      PROVE  ChannelInv'
  <2> PICK x : x = <<i, rnd[i], sent[i] + 1>>
    OBVIOUS
  <2>1. x \in Messages /\ ~Put(x)
    BY <1>1, <1>5, NextMessage DEF PutOut
  <2>2. CASE queue' = Append(queue, x)
    <3>1. Put(x)'
      BY <1>1, <1>5, Numbers DEF PutOut, Put, TypeOK
    <3>2. /\ \A j \in Parties : x \notin got[j]
          /\ \A p \in 1 .. Len(queue) : queue[p] # x
          /\ \A d \in todo : d[1] # x
      BY <1>1, <2>1 DEF StoredInv, ChannelInv
    <3>3. /\ Len(queue) \in Nat /\ Len(queue') = Len(queue) + 1
          /\ queue'[Len(queue) + 1] = x
          /\ \A p \in 1 .. Len(queue) : queue'[p] = queue[p]
          /\ 1 .. Len(queue') = (1 .. Len(queue)) \cup {Len(queue) + 1}
      BY <1>1, <2>1, <2>2
    <3>4. ASSUME NEW p \in 1 .. Len(queue')
          PROVE  /\ Put(queue[p])'
                 /\ \A j \in Parties : queue'[p] \notin got'[j]
                 /\ \A q \in 1 .. Len(queue') : queue'[p] = queue'[q] => p = q
                 /\ \A d \in todo : queue'[p] # d[1]
      <4>1. CASE p \in 1 .. Len(queue)
        BY <1>1, <1>3, <1>5, <3>2, <3>3, <4>1 DEF ChannelInv
      <4>2. CASE p = Len(queue) + 1
        BY <1>1, <1>5, <3>1, <3>2, <3>3, <4>2
      <4> QED
        BY <3>3, <4>1, <4>2
    <3> QED
      BY <1>1, <1>2, <1>3, <1>5, <3>4 DEF ChannelInv
  <2> QED
    BY <1>4, <1>5, <2>2 DEF PutOut
<1>6. CASE Take
  <2> PICK x : x = Head(queue)
    OBVIOUS
  <2>1. /\ x = queue[1] /\ x \in Messages /\ 1 \in 1 .. Len(queue)
        /\ Len(queue') = Len(queue) - 1
        /\ \A p \in 1 .. Len(queue') : p + 1 \in 1 .. Len(queue) /\ queue'[p] = queue[p + 1]
    BY <1>1, <1>6 DEF Take
  <2>2. /\ todo' = {x} \X Receivers(x) /\ Receivers(x) \subseteq Parties
        /\ UNCHANGED <<proto, got>>
    BY <1>1, <1>6, <2>1, HasReceiver DEF Take, roundVars, callerVars
  <2>3. ASSUME NEW p \in 1 .. Len(queue')
        PROVE  /\ Put(queue[p])'
               /\ \A j \in Parties : queue'[p] \notin got'[j]
               /\ \A q \in 1 .. Len(queue') : queue'[p] = queue'[q] => p = q
               /\ queue'[p] # x
    <3>1. p + 1 # 1
      OBVIOUS
    <3>2. ASSUME NEW q \in 1 .. Len(queue'), queue'[p] = queue'[q]
          PROVE  p = q
      <4>1. p + 1 = q + 1
        BY <1>1, <2>1, <3>2 DEF ChannelInv
      <4> QED
        BY <4>1
    <3> QED
      BY <1>1, <1>3, <2>1, <2>2, <3>1, <3>2 DEF ChannelInv
  <2>4. Put(x)' /\ \A j \in Parties : x \notin got[j]
    BY <1>1, <1>3, <2>1 DEF ChannelInv
  <2> QED
    BY <1>2, <2>2, <2>3, <2>4 DEF ChannelInv
<1>7. CASE Receive
  <2>1. PICK d \in todo : /\ got' = [got EXCEPT ![d[2]] = @ \cup {d[1]}]
                          /\ todo' = todo \ {d}
    BY <1>7 DEF Receive
  <2>2. UNCHANGED <<proto, queue>>
    BY <1>7 DEF Receive, callerVars
  <2>3. \A p \in 1 .. Len(queue) : \A j \in Parties : queue[p] \notin got'[j]
    BY <1>1, <2>1 DEF ChannelInv
  <2>4. ASSUME NEW e \in todo'
        PROVE  e[1] \notin got'[e[2]]
    <3>1. e \in todo /\ e # d /\ e = <<e[1], e[2]>> /\ d = <<d[1], d[2]>>
      BY <1>1, <2>1
    <3> QED
      BY <1>1, <2>1, <3>1 DEF ChannelInv
  <2> QED
    BY <1>1, <1>2, <1>3, <2>1, <2>2, <2>3, <2>4 DEF ChannelInv
<1>8. ASSUME NEW i \in Parties, StartOf(i) \/ StartFails(i)
      PROVE  ChannelInv'
  BY <1>4, <1>5, <1>8
  DEF StartOf, Start, StartSends, StartFails, StartReturns, roundVars, callerVars
<1>9. CASE UpdateSends
  BY <1>1, <1>5, <1>9 DEF UpdateSends, callerVars, TypeOK
<1>10. CASE UpdateGoesOn \/ Caller \/ Timeout \/ UNCHANGED vars
  BY <1>4, <1>10
  DEF UpdateGoesOn, Caller, Timeout, TakeError, CloseAndReturnError, Return, TakeResult,
      roundVars, callerVars, vars
<1> QED
  BY <1>6, <1>7, <1>8, <1>9, <1>10 DEF Next, Drainer

-----------------------------------------------------------------------------
(* StoredInv.                                                              *)

LEMMA StoredStep == IndInv /\ [Next]_vars => StoredInv'
<1> SUFFICES ASSUME IndInv, [Next]_vars
             PROVE  StoredInv'
  OBVIOUS
<1>1. /\ TypeOK /\ PhaseInv /\ ChannelInv /\ StoredInv
      /\ got \in [Parties -> SUBSET Messages] /\ todo \subseteq Messages \X Parties
      /\ \A i \in Parties : rnd[i] \in Nat
  BY Numbers DEF IndInv, TypeOK
<1>2. /\ R' = R
      /\ \A m : Receivers(m)' = Receivers(m)
      /\ \A i, r : Needed(i, r)' = Needed(i, r)
  BY ProtoStays, Frame
<1>3. \A m \in Messages : Put(m) => Put(m)'
  BY PutStays
<1>4. SUFFICES ASSUME NEW i \in Parties
               PROVE  /\ \A m \in got'[i] : m \in Messages /\ Put(m) /\ i \in Receivers(m)
                      /\ \A r \in 1 .. R : r < rnd'[i] => Needed(i, r) \subseteq got'[i]
  BY <1>2, <1>3 DEF StoredInv
<1>5. ASSUME NEW j \in Parties, Update(j, got'[j]), got[i] \subseteq got'[i]
      PROVE  \A r \in 1 .. R : r < rnd'[i] => Needed(i, r) \subseteq got'[i]
  <2>1. CASE rnd'[i] = rnd[i]
    BY <1>1, <1>5, <2>1 DEF StoredInv
  <2>2. CASE rnd'[i] # rnd[i]
    <3>1. i = j /\ rnd'[i] = rnd[i] + 1 /\ Needed(i, rnd[i]) \subseteq got'[i]
      BY <1>1, <1>5, <2>2 DEF Update, TypeOK
    <3>2. \A r \in 1 .. R : r < rnd'[i] => r < rnd[i] \/ r = rnd[i]
      BY <1>1, <3>1
    <3> QED
      BY <1>1, <1>5, <3>1, <3>2 DEF StoredInv
  <2> QED
    BY <2>1, <2>2
<1>6. CASE Receive
  <2>1. PICK d \in todo : /\ got' = [got EXCEPT ![d[2]] = @ \cup {d[1]}]
                          /\ Update(d[2], got[d[2]] \cup {d[1]})
    BY <1>6 DEF Receive
  <2>2. d[1] \in Messages /\ d[2] \in Parties /\ Put(d[1]) /\ d[2] \in Receivers(d[1])
    BY <1>1 DEF ChannelInv
  <2>3. got'[d[2]] = got[d[2]] \cup {d[1]} /\ got[i] \subseteq got'[i]
    BY <1>1, <2>1, <2>2
  <2> QED
    BY <1>1, <1>5, <2>1, <2>2, <2>3 DEF StoredInv
<1>7. CASE UpdateGoesOn
  BY <1>1, <1>5, <1>7 DEF UpdateGoesOn, StoredInv, TypeOK
<1>8. ASSUME NEW j \in Parties, Start(j)
      PROVE  got' = got /\ (rnd'[i] = rnd[i] \/ rnd'[i] = 1)
  BY <1>1, <1>8 DEF Start, TypeOK
<1>9. CASE got' = got /\ (rnd'[i] = rnd[i] \/ rnd'[i] = 1)
  BY <1>1, <1>9 DEF StoredInv
<1> QED
  BY <1>6, <1>7, <1>8, <1>9
  DEF Next, StartOf, StartSends, StartFails, StartReturns, Drainer, Take, UpdateSends,
      Caller, Timeout, TakeError, CloseAndReturnError, Return, TakeResult, roundVars, vars

-----------------------------------------------------------------------------
(* CallerInv.                                                              *)

LEMMA CallerStep == IndInv /\ [Next]_vars => CallerInv'
<1> SUFFICES ASSUME IndInv, [Next]_vars
             PROVE  CallerInv'
  OBVIOUS
<1>1. /\ TypeOK /\ PhaseInv /\ CallerInv
      /\ rnd \in [Parties -> 0 .. R + 1] /\ R \in Nat \ {0}
      /\ done \subseteq Parties /\ taken \subseteq Parties
  BY Rounds DEF IndInv, TypeOK
<1>2. R' = R
  BY ProtoStays, Frame
<1>3. ASSUME NEW i \in Parties, PutOut(i), UNCHANGED <<rnd, done, taken, main, closed>>
      PROVE  CallerInv'
  <2>1. rnd[i] # R + 1
    <3>1. rnd[i] \in 1 .. R
      BY <1>1, <1>3, NextMessage DEF PutOut
    <3> QED
      BY <1>1, <3>1
  <2> QED
    BY <1>1, <1>2, <1>3, <2>1 DEF CallerInv, PutOut, TypeOK
<1>4. ASSUME NEW i \in Parties, NEW g, Update(i, g), UNCHANGED <<taken, main, closed, panicked>>
      PROVE  CallerInv'
  <2>1. \A j \in done' \cup taken' : rnd'[j] = R + 1
    BY <1>1, <1>4 DEF Update, CallerInv
  <2> QED
    BY <1>1, <1>2, <1>4, <2>1 DEF CallerInv
<1>5. ASSUME NEW i \in Parties, Start(i)
      PROVE  CallerInv'
  <2>1. i \notin done \cup taken
    BY <1>1, <1>5 DEF Start, PhaseInv, CallerInv
  <2> QED
    BY <1>1, <1>2, <1>5, <2>1 DEF Start, callerVars, CallerInv
<1>6. ASSUME NEW i \in Parties, TakeResult(i)
      PROVE  CallerInv'
  BY <1>1, <1>2, <1>6 DEF TakeResult, CallerInv
<1>7. CASE TakeError \/ Timeout \/ Return
  BY <1>1, <1>2, <1>7
  DEF TakeError, Timeout, CloseAndReturnError, Return, roundVars, CallerInv
<1>8. CASE UNCHANGED <<rnd, done, taken, main, closed, panicked>>
  BY <1>1, <1>2, <1>8 DEF CallerInv
<1>9. CASE Receive \/ UpdateGoesOn \/ UpdateSends
  BY <1>1, <1>3, <1>4, <1>9 DEF Receive, UpdateGoesOn, UpdateSends, callerVars, TypeOK
<1>10. ASSUME NEW i \in Parties, StartSends(i)
       PROVE  CallerInv'
  BY <1>3, <1>10 DEF StartSends, callerVars
<1> QED
  BY <1>5, <1>6, <1>7, <1>8, <1>9, <1>10
  DEF Next, StartOf, StartFails, StartReturns, Drainer, Take, Caller, roundVars,
      callerVars, vars

-----------------------------------------------------------------------------
(* The invariant, and what follows from it.                                *)

LEMMA IndInit == Init => IndInv
<1> SUFFICES ASSUME Init
             PROVE  IndInv
  OBVIOUS
<1>1. proto \in Protocols /\ R \in Nat \ {0} /\ Capacity \in Nat /\ 0 <= Count(0)
      /\ Count(0) = 0 /\ 0 \in 0 .. N /\ 0 \in 0 .. R + 1 /\ R + 1 # 0
  BY Rounds, NAssumption DEF Init
<1>2. <<>> \in Seq(Messages) /\ Len(<<>>) = 0
  OBVIOUS
<1>3. TypeOK
  <2>1. /\ rnd \in [Parties -> 0 .. R + 1] /\ sent \in [Parties -> 0 .. N]
        /\ start \in [Parties -> {"new", "run", "done", "failed"}]
        /\ got \in [Parties -> SUBSET Messages]
        /\ \A i \in Parties : \A m \in got[i] : m[1] # i
    BY <1>1 DEF Init
  <2>2. queue \in Seq(Messages) /\ Len(queue) <= Capacity
    BY <1>1, <1>2 DEF Init
  <2> QED
    BY <1>1, <2>1, <2>2 DEF Init, TypeOK
<1>4. PhaseInv
  BY <1>1, NAssumption DEF Init, PhaseInv, Parties
<1>5. ChannelInv
  BY DEF Init, ChannelInv
<1>6. StoredInv
  BY DEF Init, StoredInv
<1>7. CallerInv
  BY DEF Init, CallerInv
<1> QED
  BY <1>3, <1>4, <1>5, <1>6, <1>7 DEF IndInv

LEMMA IndInvariant == Spec => []IndInv
<1>1. IndInv /\ [Next]_vars => IndInv'
  BY TypeStep, PhaseStep, ChannelStep, StoredStep, CallerStep DEF IndInv
<1> QED
  BY IndInit, <1>1, PTL DEF Spec

\* Every variable has its type: outCh never holds more than it has places, and a party
\* stores no message of its own.
THEOREM TypeCorrect == Spec => []TypeOK
<1>1. IndInv => TypeOK
  BY DEF IndInv
<1> QED
  BY <1>1, IndInvariant, PTL

\* When the caller returns with a result, every party has come to its end, has nothing left
\* to send, and every message that was sent has been delivered.
THEOREM ClosesAtTheEndCorrect == Spec => []ClosesAtTheEnd
<1>1. IndInv => ClosesAtTheEnd
  <2> SUFFICES ASSUME IndInv, main \in {"closing", "ok"}
               PROVE  /\ ~panicked
                      /\ \A i \in Parties : rnd[i] = R + 1 /\ ~Sending(i)
                      /\ queue = <<>> /\ todo = {}
    BY DEF ClosesAtTheEnd
  <2>1. TypeOK /\ ChannelInv /\ StoredInv /\ CallerInv /\ proto \in Protocols
    BY DEF IndInv, TypeOK
  <2>2. ~panicked /\ \A i \in Parties : rnd[i] = R + 1
    BY <2>1 DEF CallerInv
  <2>3. \A i \in Parties : ~Sending(i)
    BY <2>1, <2>2, Rounds DEF Sending, TypeOK
  <2>4. ASSUME NEW m \in Messages, NEW j \in Receivers(m)
        PROVE  j \in Parties /\ m \in got[j]
    <3>1. j \in Parties /\ m \in Needed(j, m[2]) /\ m[2] \in 1 .. R /\ m[2] < rnd[j]
      BY <2>1, <2>2, HasReceiver, Rounds DEF Needed
    <3> QED
      BY <2>1, <3>1 DEF StoredInv
  <2>5. \A p \in 1 .. Len(queue) : FALSE
    BY <2>1, <2>4, HasReceiver DEF ChannelInv, TypeOK
  <2>6. queue = <<>>
    BY <2>1, <2>5 DEF TypeOK
  <2>7. todo = {}
    BY <2>1, <2>4 DEF ChannelInv, TypeOK
  <2> QED
    BY <2>2, <2>3, <2>6, <2>7
<1> QED
  BY <1>1, IndInvariant, PTL

-----------------------------------------------------------------------------
(* The room in outCh.                                                      *)

\* The k-th of the c places of party a, when the places are numbered through.
Place(a, c, k) == (a - 1) * c + k

LEMMA PlaceOnce ==
    ASSUME NEW c \in Nat
    PROVE  \A a, b \in Parties, k, l \in 1 .. c :
               /\ Place(a, c, k) \in 1 .. N * c
               /\ Place(a, c, k) = Place(b, c, l) => a = b /\ k = l
<1> SUFFICES ASSUME NEW a \in Parties, NEW b \in Parties, NEW k \in 1 .. c, NEW l \in 1 .. c
             PROVE  /\ Place(a, c, k) \in 1 .. N * c
                    /\ Place(a, c, k) = Place(b, c, l) => a = b /\ k = l
  OBVIOUS
<1>1. \A p, q \in Nat : p * q \in Nat
  OBVIOUS
<1>2. a \in 1 .. N /\ b \in 1 .. N /\ N \in Nat
  BY NAssumption DEF Parties
<1>3. (a - 1) * c \in Nat /\ (N - a) * c \in Nat /\ N * c = (a - 1) * c + c + (N - a) * c
  BY <1>1, <1>2
<1>4. ASSUME NEW d \in Parties, NEW e \in Parties, d < e
      PROVE  (e - 1) * c >= (d - 1) * c + c
  <2>1. (e - 1 - d) * c \in Nat
    BY <1>1, <1>2, <1>4 DEF Parties
  <2>2. (e - 1) * c = (d - 1) * c + c + (e - 1 - d) * c
    BY <1>2 DEF Parties
  <2>3. (d - 1) * c \in Nat
    BY <1>1, <1>2 DEF Parties
  <2> QED
    BY <2>1, <2>2, <2>3
<1>5. Place(a, c, k) \in 1 .. N * c
  BY <1>2, <1>3 DEF Place
<1>6. (b - 1) * c \in Nat
  BY <1>1, <1>2
<1>7. CASE a < b
  BY <1>2, <1>3, <1>4, <1>5, <1>6, <1>7 DEF Place
<1>8. CASE b < a
  BY <1>2, <1>3, <1>4, <1>5, <1>6, <1>8 DEF Place
<1>9. CASE a = b
  BY <1>2, <1>3, <1>5, <1>9 DEF Place
<1> QED
  BY <1>2, <1>7, <1>8, <1>9

\* A sequence that fits into k numbers has no more than k elements.
LEMMA PigeonHole ==
    ASSUME NEW n \in Nat, NEW k \in Nat, NEW f \in [1 .. n -> 1 .. k],
           \A p, q \in 1 .. n : f[p] = f[q] => p = q
    PROVE  n <= k
<1>1. f \in Injection(1 .. n, 1 .. k)
  BY DEF Injection, IsInjective
<1>2. Cardinality(1 .. n) <= Cardinality(1 .. k)
  BY <1>1, FS_Injection, FS_Interval
<1>3. Cardinality(1 .. n) = n /\ Cardinality(1 .. k) = k
  BY FS_Interval
<1> QED
  BY <1>2, <1>3

\* Where a party that starts a round finds the others, and what may still be in outCh.
LEMMA InOutCh ==
    ASSUME IndInv, upd # 0, Sending(upd)
    PROVE  /\ upd \in Parties /\ rnd[upd] \in 2 .. R
           /\ \A j \in Parties : rnd[j] \in rnd[upd] - 1 .. rnd[upd]
           /\ \A p \in 1 .. Len(queue) :
                LET m == queue[p]
                IN  /\ m \in Messages
                    /\ \/ m[2] = rnd[upd] /\ rnd[m[1]] = rnd[upd] /\ m[3] <= sent[m[1]]
                       \/ m[2] = rnd[upd] - 1 /\ \A j \in Receivers(m) : rnd[j] = rnd[upd] - 1
<1> DEFINE s == rnd[upd]
<1>1. /\ TypeOK /\ PhaseInv /\ ChannelInv /\ StoredInv /\ proto \in Protocols
      /\ upd \in Parties
  BY DEF IndInv, TypeOK
<1>2. s \in 2 .. R /\ R \in Nat
  <2>1. rnd[upd] \in 1 .. R
    BY <1>1, NextMessage
  <2>2. rnd[upd] >= 2 /\ R \in Nat
    BY <1>1, Rounds DEF PhaseInv
  <2> QED
    BY <2>1, <2>2
<1>3. \A j \in Parties : rnd[j] \in Nat
  BY <1>1, Numbers
<1> HIDE DEF s
<1>4. ASSUME NEW m \in Messages, NEW j \in Receivers(m), m[2] < rnd[j]
      PROVE  j \in Parties /\ m \in got[j]
  <2>1. j \in Parties /\ m \in Needed(j, m[2]) /\ m[2] \in 1 .. R
    BY <1>1, HasReceiver DEF Needed
  <2> QED
    BY <1>1, <1>4, <2>1 DEF StoredInv
<1>5. \A j, i \in Parties, r \in 1 .. R :
        i # j => \E m \in Messages : m[1] = j /\ m[2] = r /\ i \in Receivers(m)
  BY <1>1, SomeMessage
<1>6. ASSUME NEW j \in Parties
      PROVE  rnd[j] \in s - 1 .. s
  <2>1. rnd[j] >= s - 1
    <3>1. CASE j # upd
      <4>1. s - 1 \in 1 .. R /\ s - 1 < rnd[upd]
        BY <1>2 DEF s
      <4>2. PICK m \in Messages : m[1] = j /\ m[2] = s - 1 /\ upd \in Receivers(m)
        BY <1>1, <1>5, <3>1, <4>1
      <4>3. Put(m)
        BY <1>1, <1>4, <4>1, <4>2 DEF StoredInv
      <4> QED
        BY <1>2, <1>3, <4>2, <4>3 DEF Put
    <3> QED
      BY <1>2, <3>1 DEF s
  <2>2. rnd[j] <= s
    <3>1. ASSUME j # upd, rnd[j] > s
          PROVE  FALSE
      <4>1. PICK m \in Messages : m[1] = upd /\ m[2] = s /\ j \in Receivers(m)
        BY <1>1, <1>2, <1>5, <3>1
      <4>2. m \in got[j]
        BY <1>4, <3>1, <4>1
      <4> QED
        BY <1>1, <4>1, <4>2 DEF PhaseInv, s
    <3> QED
      BY <1>2, <1>3, <3>1 DEF s
  <2> QED
    BY <1>2, <1>3, <2>1, <2>2
<1>7. ASSUME NEW p \in 1 .. Len(queue), NEW m, m = queue[p]
      PROVE  /\ m \in Messages
             /\ \/ m[2] = s /\ rnd[m[1]] = s /\ m[3] <= sent[m[1]]
                \/ m[2] = s - 1 /\ \A j \in Receivers(m) : rnd[j] = s - 1
  <2>1. m \in Messages /\ Put(m) /\ \A j \in Parties : m \notin got[j]
    BY <1>1, <1>7 DEF ChannelInv, TypeOK
  <2>2. /\ m[1] \in Parties /\ m[2] \in Nat /\ Receivers(m) # {}
        /\ Receivers(m) \subseteq Parties
    BY <1>1, <2>1, HasReceiver
  <2>3. m[2] <= s
    BY <1>2, <1>6, <2>1, <2>2 DEF Put
  <2>4. \A j \in Receivers(m) : rnd[j] <= m[2]
    BY <1>3, <1>4, <2>1, <2>2
  <2>5. m[2] >= s - 1
    BY <1>2, <1>6, <2>2, <2>4
  <2>6. CASE m[2] = s
    BY <1>2, <1>6, <2>1, <2>2, <2>6 DEF Put
  <2>7. CASE m[2] = s - 1
    BY <1>2, <1>6, <2>1, <2>2, <2>4, <2>7
  <2> QED
    BY <1>2, <2>2, <2>3, <2>5, <2>6, <2>7
<1> QED
  BY <1>1, <1>2, <1>6, <1>7 DEF s

\* How many parties outCh is made for: four, or eight where nobody generates a key.
Fits == N <= 4 \/ (N <= 8 /\ Keygen \notin Protocols)

\* What two rounds in succession send, against the places of outCh.
LEMMA RoomForRounds ==
    ASSUME Fits, proto \in Protocols, NEW s \in 2 .. R
    PROVE  /\ ToEach(s - 1) => Count(s) <= N - 1 /\ N * (N - 1) + 1 < Capacity
           /\ ~ToEach(s - 1) => N * Count(s) <= Capacity
<1>1. N \in Nat /\ N >= 2 /\ N * 1 = N
  BY NAssumption
<1>2. CASE proto = Keygen
  <2>1. N <= 4
    BY <1>2 DEF Fits
  <2>2. s = 2 \/ s = 3
    BY <1>2 DEF R, Keygen
  <2>3. /\ Capacity = 4 * N
        /\ ~ToEach(1) /\ ToEach(2) /\ Count(2) = N /\ Count(3) = 1
    BY <1>1, <1>2 DEF Capacity, ToEach, ToAll, Count, R, Keygen
  <2>4. N * N <= 4 * N /\ N * (N - 1) + 1 < 4 * N
    <3>1. N = 2 \/ N = 3 \/ N = 4
      BY <1>1, <2>1
    <3> QED
      BY <3>1
  <2> QED
    BY <1>1, <2>2, <2>3, <2>4
<1>3. CASE proto = Sign
  <2>1. N <= 8
    BY <1>1 DEF Fits
  <2>2. R = 9 /\ Capacity = 8 * N
    BY <1>3 DEF Capacity, R, Sign
  <2>3. /\ Count(2) = N - 1
        /\ \A r \in 3 .. 9 : Count(r) = 1
        /\ ToEach(1)
    BY <1>1, <1>3, <2>2 DEF ToEach, ToAll, Count, Sign
  <2>4. N * (N - 1) + 1 < 8 * N /\ N <= 8 * N
    <3>1. N = 2 \/ N = 3 \/ N = 4 \/ N = 5 \/ N = 6 \/ N = 7 \/ N = 8
      BY <1>1, <2>1
    <3> QED
      BY <3>1
  <2> QED
    BY <1>1, <2>2, <2>3, <2>4
<1> QED
  BY <1>2, <1>3, ProtocolsAssumption DEF Both

\* After a round that only broadcasts, outCh may hold the party's own broadcast of that
\* round, and what the parties that are as far as it have sent in the next.  Two of these are
\* not in it: what the party is about to send, and the own broadcast, or else whatever
\* a party sends that has not yet got it.
LEMMA RoomAfterBroadcasts ==
    ASSUME IndInv, upd # 0, Sending(upd), ~ToEach(rnd[upd] - 1)
    PROVE  Len(queue) + 1 <= N * Count(rnd[upd])
<1> DEFINE i == upd
           s == rnd[upd]
           c == Count(s)
           L == Len(queue)
<1>1. /\ TypeOK /\ proto \in Protocols /\ i \in Parties /\ s \in 2 .. R /\ L \in Nat
      /\ queue \in Seq(Messages) /\ R \in Nat /\ N \in Nat /\ N >= 2 /\ c \in 1 .. N
      /\ c \in Nat /\ sent[i] \in Nat
  <2>1. /\ TypeOK /\ proto \in Protocols /\ i \in Parties /\ s \in 2 .. R
        /\ queue \in Seq(Messages)
    BY InOutCh DEF IndInv, TypeOK
  <2>2. R \in Nat /\ N \in Nat /\ N >= 2 /\ sent[i] \in Nat /\ L \in Nat
    BY <2>1, Numbers, NAssumption
  <2>3. c \in 1 .. N /\ c \in Nat
    BY <2>1, <2>2, Rounds
  <2> QED
    BY <2>1, <2>2, <2>3
<1>2. \A p \in 1 .. L :
        LET m == queue[p]
        IN  /\ m \in Messages
            /\ \/ m[2] = s /\ rnd[m[1]] = s /\ m[3] <= sent[m[1]]
               \/ m[2] = s - 1 /\ \A j \in Receivers(m) : rnd[j] = s - 1
  BY InOutCh
<1>3. \A p, q \in 1 .. L : queue[p] = queue[q] => p = q
  BY DEF IndInv, ChannelInv
<1>4. sent[i] + 1 \in 1 .. c
  BY <1>1 DEF Sending
<1>5. ToAll(s - 1) /\ Count(s - 1) = 1
  <2>1. s - 1 \in 1 .. R
    BY <1>1
  <2> QED
    BY <1>1, <2>1, Rounds DEF Count
<1>6. rnd[i] = s
  OBVIOUS
<1>7. \A a, e \in Parties, k, l \in 1 .. c :
          /\ Place(a, c, k) \in 1 .. N * c
          /\ Place(a, c, k) = Place(e, c, l) => a = e /\ k = l
  BY <1>1, PlaceOnce
<1> HIDE DEF i, s, c, L
<1> DEFINE Own(m) == m[2] = s - 1 /\ m[1] = i
           W == {m \in Messages : m[2] = s \/ Own(m)}
           Slot(m) == IF m[2] = s THEN Place(m[1], c, m[3]) ELSE N * c + 1
<1>8. ASSUME NEW m \in Messages, m[2] = s - 1
      PROVE  m[3] = 1 /\ Receivers(m) = Parties \ {m[1]} /\ m[1] \in Parties
  BY <1>1, <1>5, <1>8, HasReceiver DEF Receivers, IsBroadcast
<1>9. \A p \in 1 .. L : queue[p] \in W
  BY <1>1, <1>2, <1>6, <1>8
<1>10. ASSUME NEW m \in W
      PROVE  /\ Slot(m) \in 1 .. N * c + 1
             /\ \A n \in W : Slot(m) = Slot(n) => m = n
  <2>1. ASSUME NEW n \in W, n[2] = s
        PROVE  /\ n[1] \in Parties /\ n[3] \in 1 .. c
               /\ Place(n[1], c, n[3]) \in 1 .. N * c
    <3>1. n[1] \in Parties /\ n[3] \in 1 .. c
      BY <1>1, <2>1, HasReceiver DEF c
    <3> QED
      BY <1>7, <3>1
  <2>2. \A n \in W : n = <<n[1], n[2], n[3]>> /\ n[2] \in Nat
    BY <1>1, HasReceiver
  <2>3. N * c \in Nat
    BY <1>1
  <2>4. Slot(m) \in 1 .. N * c + 1
    BY <2>1, <2>3
  <2>5. ASSUME NEW n \in W, Slot(m) = Slot(n)
        PROVE  m = n
    <3>1. CASE m[2] = s /\ n[2] = s
      <4>1. Place(m[1], c, m[3]) = Place(n[1], c, n[3])
        BY <2>5, <3>1
      <4>2. m[1] \in Parties /\ m[3] \in 1 .. c /\ n[1] \in Parties /\ n[3] \in 1 .. c
        BY <2>1, <3>1
      <4>3. m[1] = n[1] /\ m[3] = n[3]
        BY <1>7, <4>1, <4>2
      <4> QED
        BY <2>2, <3>1, <4>3
    <3>2. CASE m[2] # s /\ n[2] # s
      BY <1>8, <2>2, <3>2
    <3>3. CASE (m[2] = s) # (n[2] = s)
      BY <2>1, <2>3, <2>5, <3>3
    <3> QED
      BY <3>1, <3>2, <3>3
  <2> QED
    BY <2>4, <2>5
<1>11. PICK x, y \in W : x # y /\ \A p \in 1 .. L : queue[p] # x /\ queue[p] # y
  <2> DEFINE x == <<i, s, sent[i] + 1>>
             b == <<i, s - 1, 1>>
  <2>1. x \in W /\ \A p \in 1 .. L : queue[p] # x
    <3>1. x \in Messages
      BY <1>1, <1>4 DEF Messages, c
    <3>2. \A p \in 1 .. L : queue[p] # x
      BY <1>1, <1>2
    <3> QED
      BY <3>1, <3>2
  <2>2. b \in W /\ b # x
    BY <1>1, <1>5 DEF Messages
  <2>3. CASE \A p \in 1 .. L : queue[p] # b
    BY <2>1, <2>2, <2>3
  <2>4. ASSUME NEW q \in 1 .. L, queue[q] = b
        PROVE  \E y \in W : x # y /\ \A p \in 1 .. L : queue[p] # y
    <3>1. PICK j \in Parties : j # i /\ rnd[j] = s - 1
      <4>1. PICK j \in Parties : j # i
        <5>1. 1 \in Parties /\ 2 \in Parties
          BY <1>1 DEF Parties
        <5> QED
          BY <5>1
      <4>2. b \in Messages /\ b[1] = i /\ b[2] = s - 1
        BY <2>2
      <4>3. rnd[j] = s - 1
        BY <1>1, <1>2, <1>8, <2>4, <4>1, <4>2
      <4> QED
        BY <4>1, <4>3
    <3> DEFINE y == <<j, s, 1>>
    <3>2. y \in W /\ x # y
      BY <1>1, <3>1 DEF Messages, c
    <3>3. \A p \in 1 .. L : queue[p] # y
      BY <1>1, <1>2, <3>1
    <3> QED
      BY <3>2, <3>3
  <2> QED
    BY <2>1, <2>3, <2>4
<1> HIDE DEF W, Slot
<1> DEFINE All(p) == IF p <= L THEN queue[p] ELSE IF p = L + 1 THEN x ELSE y
           f == [p \in 1 .. L + 2 |-> Slot(All(p))]
<1>12. \A p \in 1 .. L + 2 : All(p) \in W
  BY <1>1, <1>9, <1>11
<1>13. \A p, q \in 1 .. L + 2 : All(p) = All(q) => p = q
  BY <1>1, <1>3, <1>11
<1>14. \A p, q \in 1 .. L + 2 : f[p] = f[q] => p = q
  <2> HIDE DEF All
  <2> QED
    BY <1>10, <1>12, <1>13
<1>15. f \in [1 .. L + 2 -> 1 .. N * c + 1]
  <2> HIDE DEF All
  <2> QED
    BY <1>10, <1>12
<1>16. L + 2 \in Nat /\ N * c \in Nat /\ N * c + 1 \in Nat
  BY <1>1
<1>17. L + 2 <= N * c + 1
  <2> HIDE DEF f
  <2> QED
    BY <1>14, <1>15, <1>16, PigeonHole
<1> QED
  BY <1>1, <1>16, <1>17 DEF L, c, s

\* After a round with a message to each, what is still in outCh of it goes to parties that are
\* not in the next round, so that nothing of theirs is in outCh: every party accounts for one
\* message per peer, either to it or from it, and the party's own broadcast for one more.
LEMMA RoomAfterEach ==
    ASSUME IndInv, upd # 0, Sending(upd), ToEach(rnd[upd] - 1), Count(rnd[upd]) <= N - 1
    PROVE  Len(queue) <= N * (N - 1) + 1
<1> DEFINE i == upd
           s == rnd[upd]
           L == Len(queue)
           c == N - 1
<1>1. /\ TypeOK /\ proto \in Protocols /\ i \in Parties /\ s \in 2 .. R /\ L \in Nat
      /\ N \in Nat /\ N >= 2 /\ c \in Nat /\ R \in Nat /\ Count(s) \in Nat
  <2>1. TypeOK /\ proto \in Protocols /\ i \in Parties /\ s \in 2 .. R /\ L \in Nat
    BY InOutCh DEF IndInv, TypeOK
  <2>2. N \in Nat /\ N >= 2 /\ c \in Nat
    BY NAssumption
  <2>3. R \in Nat /\ Count(s) \in Nat
    BY <2>1, Numbers
  <2> QED
    BY <2>1, <2>2, <2>3
<1>2. \A p \in 1 .. L :
        LET m == queue[p]
        IN  /\ m \in Messages
            /\ \/ m[2] = s /\ rnd[m[1]] = s /\ m[3] <= sent[m[1]]
               \/ m[2] = s - 1 /\ \A j \in Receivers(m) : rnd[j] = s - 1
  BY InOutCh
<1>3. \A p, q \in 1 .. L : queue[p] = queue[q] => p = q
  BY DEF IndInv, ChannelInv
<1>4. ToEach(s - 1) /\ Count(s) <= c /\ rnd[i] = s
  OBVIOUS
<1>5. \A a, e \in Parties, k, l \in 1 .. c :
          /\ Place(a, c, k) \in 1 .. N * c
          /\ Place(a, c, k) = Place(e, c, l) => a = e /\ k = l
  BY <1>1, PlaceOnce
<1> HIDE DEF i, s, L
<1> DEFINE Rank(t, a) == IF a < t THEN a ELSE a - 1
           To(m)   == Peer(m[1], m[3])
           Each(m) == m[2] = s - 1 /\ ~IsBroadcast(m)
           Own(m)  == m[2] = s - 1 /\ IsBroadcast(m)
           Slot(m) == IF Own(m) THEN N * c + 1
                      ELSE IF Each(m) THEN Place(To(m), c, Rank(To(m), m[1]))
                      ELSE Place(m[1], c, m[3])
           W == {m \in Messages : \/ m[2] = s /\ rnd[m[1]] = s
                                  \/ Each(m) /\ rnd[To(m)] = s - 1
                                  \/ Own(m) /\ m[1] = i}
<1>6. \A m \in Messages : /\ m[1] \in Parties /\ m[2] \in Nat /\ m[3] \in 1 .. Count(m[2])
                          /\ m = <<m[1], m[2], m[3]>>
  BY <1>1, HasReceiver
<1>7. \A p \in 1 .. L : queue[p] \in W
  BY <1>1, <1>2, <1>4, <1>6 DEF Receivers
<1>8. ASSUME NEW m \in W, m[2] = s
      PROVE  /\ m[1] \in Parties /\ m[3] \in 1 .. c /\ rnd[m[1]] = s
             /\ Slot(m) = Place(m[1], c, m[3])
  <2>1. m \in Messages /\ s \in Nat /\ m[3] \in 1 .. Count(s)
    BY <1>1, <1>6, <1>8
  <2>2. m[3] \in 1 .. c
    BY <1>1, <1>4, <2>1
  <2>3. s # s - 1
    BY <2>1
  <2> QED
    BY <1>6, <1>8, <2>1, <2>2, <2>3
<1>9. ASSUME NEW m \in W, Each(m)
      PROVE  /\ m[1] \in Parties /\ m[3] \in 1 .. c
             /\ To(m) \in Parties \ {m[1]} /\ rnd[To(m)] = s - 1
             /\ Rank(To(m), m[1]) \in 1 .. c
             /\ Slot(m) = Place(To(m), c, Rank(To(m), m[1]))
  <2>1. m[3] \in 1 .. c
    <3>1. m[2] = s - 1 /\ m[2] \in 1 .. R /\ ToEach(m[2]) /\ m[3] \in 1 .. Count(m[2])
      <4>1. m \in Messages /\ m[2] = s - 1
        BY <1>9
      <4> QED
        BY <1>1, <1>4, <1>6, <4>1
    <3> QED
      BY <1>1, <1>9, <3>1 DEF IsBroadcast, Count
  <2>2. To(m) \in Parties \ {m[1]}
    BY <1>1, <1>6, <2>1 DEF Peer, Parties
  <2>3. Rank(To(m), m[1]) \in 1 .. c
    BY <1>1, <1>6, <2>2 DEF Parties
  <2> QED
    BY <1>1, <1>6, <1>9, <2>1, <2>2, <2>3
<1>10. ASSUME NEW m \in W, Own(m)
       PROVE  m = <<i, s - 1, Count(s - 1)>> /\ Slot(m) = N * c + 1
  BY <1>1, <1>6, <1>10 DEF IsBroadcast
<1>11. \A m \in W : m[2] = s \/ Each(m) \/ Own(m)
  OBVIOUS
<1>12. N * c \in Nat
  BY <1>1
<1>13. ASSUME NEW m \in W, NEW n \in W, Each(m), Each(n), Slot(m) = Slot(n)
       PROVE  m = n
  <2>1. To(m) = To(n) /\ Rank(To(m), m[1]) = Rank(To(n), n[1])
    <3> HIDE DEF Rank, To, Slot, Each, W
    <3> QED
      BY <1>5, <1>9, <1>13
  <2>2. m[1] = n[1]
    BY <1>9, <1>13, <2>1 DEF Parties
  <2>3. m[3] = n[3]
    BY <1>1, <1>9, <1>13, <2>1, <2>2 DEF Peer, Parties
  <2> QED
    BY <1>6, <1>13, <2>2, <2>3
<1>14. ASSUME NEW m \in W, NEW n \in W, m[2] = s, n[2] = s, Slot(m) = Slot(n)
       PROVE  m = n
  <2>1. m[1] = n[1] /\ m[3] = n[3]
    <3> HIDE DEF Slot, W
    <3> QED
      BY <1>5, <1>8, <1>14
  <2> QED
    BY <1>6, <1>14, <2>1
<1>15. ASSUME NEW m \in W, NEW n \in W, m[2] = s, Each(n)
       PROVE  Slot(m) # Slot(n)
  <2>1. m[1] # To(n)
    BY <1>1, <1>8, <1>9, <1>15
  <2> HIDE DEF Rank, To, Slot, Each, W
  <2> QED
    BY <1>5, <1>8, <1>9, <1>15, <2>1
<1>16. \A m \in W : /\ Slot(m) \in 1 .. N * c + 1
                    /\ Slot(m) = N * c + 1 <=> Own(m)
  <2>1. ASSUME NEW m \in W, m[2] = s \/ Each(m)
        PROVE  Slot(m) \in 1 .. N * c
    <3> HIDE DEF Rank, To, Slot, Each, W
    <3> QED
      BY <1>5, <1>8, <1>9, <2>1
  <2>2. \A m \in W : ~(Own(m) /\ (m[2] = s \/ Each(m)))
    BY <1>1
  <2> HIDE DEF Slot, Each, Own, W
  <2> QED
    BY <1>10, <1>11, <1>12, <2>1, <2>2
<1> HIDE DEF W, Slot, Each, Own
<1>17. \A m, n \in W : Slot(m) = Slot(n) => m = n
  BY <1>10, <1>11, <1>13, <1>14, <1>15, <1>16
<1> DEFINE f == [p \in 1 .. L |-> Slot(queue[p])]
<1>18. f \in [1 .. L -> 1 .. N * c + 1]
  BY <1>7, <1>16
<1>19. \A p, q \in 1 .. L : f[p] = f[q] => p = q
  BY <1>3, <1>7, <1>17
<1>20. L <= N * c + 1
  <2> HIDE DEF f
  <2>1. N * c + 1 \in Nat
    BY <1>12
  <2> QED
    BY <1>1, <1>18, <1>19, <2>1, PigeonHole
<1> QED
  BY <1>20 DEF L

\* What the first round sends, against the places of outCh: one message to all, the last.
LEMMA RoomForFirstRound ==
    ASSUME Fits, proto \in Protocols
    PROVE  ToAll(1) /\ N * Count(1) <= Capacity
<1>1. N \in Nat /\ N >= 2
  BY NAssumption
<1>2. CASE proto = Keygen
  <2>1. Capacity = 4 * N /\ ToAll(1) /\ Count(1) = 1
    BY <1>1, <1>2 DEF Capacity, ToEach, ToAll, Count, R, Keygen
  <2> QED
    BY <1>1, <2>1
<1>3. CASE proto = Sign
  <2>1. N <= 8
    BY <1>1 DEF Fits
  <2>2. Capacity = 8 * N /\ ToAll(1) /\ Count(1) = N
    BY <1>1, <1>3 DEF Capacity, ToEach, ToAll, Count, R, Sign
  <2>3. N * N <= 8 * N
    <3>1. N = 2 \/ N = 3 \/ N = 4 \/ N = 5 \/ N = 6 \/ N = 7 \/ N = 8
      BY <1>1, <2>1
    <3> QED
      BY <3>1
  <2> QED
    BY <2>2, <2>3
<1> QED
  BY <1>2, <1>3, ProtocolsAssumption DEF Both

\* While a Start has something to send, its broadcast is not out and nobody else has come
\* to the second round: outCh holds messages of the first, and not the one it sends next.
LEMMA RoomForStart ==
    ASSUME IndInv, NEW i \in Parties, start[i] = "run", Sending(i), ToAll(1)
    PROVE  Len(queue) + 1 <= N * Count(1)
<1> DEFINE c == Count(1)
           L == Len(queue)
           x == <<i, 1, sent[i] + 1>>
           b == <<i, 1, c>>
<1>1. /\ TypeOK /\ PhaseInv /\ ChannelInv /\ StoredInv /\ proto \in Protocols
      /\ queue \in Seq(Messages) /\ L \in Nat
  BY DEF IndInv, TypeOK
<1>2. /\ R \in Nat \ {0} /\ 1 \in 1 .. R /\ N \in Nat /\ N >= 2 /\ c \in 1 .. N /\ c \in Nat
      /\ sent[i] \in Nat /\ rnd[i] = 1 /\ sent[i] < c
      /\ \A j \in Parties : rnd[j] \in Nat
  BY <1>1, Rounds, Numbers, NAssumption DEF PhaseInv, Sending
<1>3. \A a, e \in Parties, k, l \in 1 .. c :
          /\ Place(a, c, k) \in 1 .. N * c
          /\ Place(a, c, k) = Place(e, c, l) => a = e /\ k = l
  BY <1>2, PlaceOnce
<1>4. /\ x \in Messages /\ ~Put(x)
      /\ b \in Messages /\ ~Put(b) /\ Receivers(b) = Parties \ {i}
  BY <1>2 DEF Messages, Put, Receivers, IsBroadcast
<1>5. ASSUME NEW j \in Parties, rnd[j] >= 2
      PROVE  FALSE
  <2>1. b \in Needed(j, 1)
    BY <1>2, <1>4, <1>5 DEF Needed
  <2>2. b \in got[j]
    BY <1>1, <1>2, <1>5, <2>1 DEF StoredInv
  <2> QED
    BY <1>1, <1>4, <2>2 DEF StoredInv
<1>6. ASSUME NEW p \in 1 .. L
      PROVE  /\ queue[p] \in Messages /\ queue[p][2] = 1 /\ queue[p] # x
  <2>1. queue[p] \in Messages /\ Put(queue[p])
    BY <1>1 DEF ChannelInv
  <2>2. queue[p][1] \in Parties /\ queue[p][2] \in Nat \ {0}
    BY <1>1, <1>2, <2>1, HasReceiver
  <2>3. rnd[queue[p][1]] <= 1
    BY <1>2, <1>5, <2>2
  <2>4. queue[p][2] = 1
    BY <1>2, <2>1, <2>2, <2>3 DEF Put
  <2> QED
    BY <1>4, <2>1, <2>4
<1>7. \A p, q \in 1 .. L : queue[p] = queue[q] => p = q
  BY <1>1 DEF ChannelInv
<1>8. \A m \in Messages : /\ m[1] \in Parties /\ m[3] \in 1 .. Count(m[2])
                          /\ m = <<m[1], m[2], m[3]>>
  BY <1>1, HasReceiver
<1> DEFINE W == {m \in Messages : m[2] = 1}
           Slot(m) == Place(m[1], c, m[3])
           All(p) == IF p <= L THEN queue[p] ELSE x
           f == [p \in 1 .. L + 1 |-> Slot(All(p))]
<1>9. ASSUME NEW m \in W
      PROVE  /\ Slot(m) \in 1 .. N * c
             /\ \A n \in W : Slot(m) = Slot(n) => m = n
  <2>1. \A n \in W : n[1] \in Parties /\ n[3] \in 1 .. c /\ n = <<n[1], 1, n[3]>>
    BY <1>8
  <2> HIDE DEF W, c
  <2> QED
    BY <1>3, <2>1
<1>10. x \in W
  BY <1>4
<1>11. \A p \in 1 .. L + 1 : All(p) \in W
  <2> HIDE DEF x
  <2> QED
    BY <1>1, <1>6, <1>10
<1>12. \A p, q \in 1 .. L + 1 : All(p) = All(q) => p = q
  <2> HIDE DEF x
  <2> QED
    BY <1>1, <1>6, <1>7
<1> HIDE DEF All, Slot, W
<1>13. f \in [1 .. L + 1 -> 1 .. N * c]
  BY <1>9, <1>11
<1>14. \A p, q \in 1 .. L + 1 : f[p] = f[q] => p = q
  BY <1>9, <1>11, <1>12
<1>15. L + 1 \in Nat /\ N * c \in Nat
  BY <1>1, <1>2
<1>16. L + 1 <= N * c
  <2> HIDE DEF f
  <2> QED
    BY <1>13, <1>14, <1>15, PigeonHole
<1> QED
  BY <1>16

LEMMA Room ==
    ASSUME Fits
    PROVE  IndInv => NeverStuck
<1> SUFFICES ASSUME IndInv, NEW i \in Parties, Sending(i)
             PROVE  Len(queue) < Capacity
  BY DEF NeverStuck
<1>1. /\ proto \in Protocols /\ Capacity \in Nat /\ Len(queue) \in Nat
      /\ \A r \in 1 .. R : N * Count(r) \in Nat
      /\ R \in Nat \ {0}
  BY Rounds, NAssumption DEF IndInv, TypeOK
<1>2. CASE start[i] = "run"
  <2>1. ToAll(1) /\ N * Count(1) <= Capacity /\ 1 \in 1 .. R
    BY <1>1, RoomForFirstRound
  <2>2. Len(queue) + 1 <= N * Count(1)
    BY <1>2, <2>1, RoomForStart
  <2> QED
    BY <1>1, <2>1, <2>2
<1>3. CASE start[i] # "run"
  <2>1. upd = i /\ upd # 0
    <3>1. upd = i
      BY <1>3, Numbers DEF IndInv, PhaseInv, Sending
    <3> QED
      BY <3>1, NAssumption DEF Parties
  <2>2. rnd[upd] \in 2 .. R
    BY <2>1, InOutCh
  <2>3. CASE ToEach(rnd[upd] - 1)
    <3>1. Count(rnd[upd]) <= N - 1 /\ N * (N - 1) + 1 < Capacity
      BY <1>1, <2>2, <2>3, RoomForRounds
    <3>2. Len(queue) <= N * (N - 1) + 1
      BY <2>1, <2>3, <3>1, RoomAfterEach
    <3>3. N * (N - 1) + 1 \in Nat
      BY NAssumption
    <3> QED
      BY <1>1, <3>1, <3>2, <3>3
  <2>4. CASE ~ToEach(rnd[upd] - 1)
    <3>1. Len(queue) + 1 <= N * Count(rnd[upd])
      BY <2>1, <2>4, RoomAfterBroadcasts
    <3>2. N * Count(rnd[upd]) <= Capacity
      BY <1>1, <2>2, <2>4, RoomForRounds
    <3>3. N * Count(rnd[upd]) \in Nat
      BY <1>1, <2>2, NAssumption, Rounds
    <3> QED
      BY <1>1, <3>1, <3>2, <3>3
  <2> QED
    BY <2>3, <2>4
<1> QED
  BY <1>2, <1>3

\* Nobody waits for room in outCh, neither a Start nor the goroutine that empties it, where
\* it is made for the number of parties.  With five parties that generate a key that
\* goroutine does: run inproc_keygen5.
THEOREM NeverStuckCorrect ==
    ASSUME Fits
    PROVE  Spec => []NeverStuck
BY Room, IndInvariant, PTL

-----------------------------------------------------------------------------
(* Who waits for what.                                                     *)

Complete(i) == Needed(i, rnd[i]) \subseteq got[i]

InQueue(m) == \E p \in 1 .. Len(queue) : queue[p] = m

\* What has been sent is stored where it goes, or on its way there.
ArrivedInv ==
    ~panicked => \A m \in Messages : Put(m) =>
        \A j \in Receivers(m) : m \in got[j] \/ <<m, j>> \in todo \/ InQueue(m)

\* A party that waits lacks a message of its round.  Only in the first round it may have
\* all, stored before its Start: then nothing later has come, and it is the only one.
WaitingInv ==
    /\ \A i \in Parties : rnd[i] \in 2 .. R /\ upd # i => ~Complete(i)
    /\ \A i \in Parties :
        rnd[i] <= 1 /\ Needed(i, 1) \subseteq got[i] => \A m \in got[i] : m[2] = 1
    /\ \A i, j \in Parties : i # j /\ rnd[i] = 1 /\ rnd[j] = 1 => ~(Complete(i) /\ Complete(j))
    /\ \A i \in Parties : rnd[i] = R + 1 => i \in done \cup taken
    /\ main = "run" => taken # Parties

\* A party that failed has said so.
FailedInv == \A i \in Parties : start[i] = "failed" => i \in errs

\* A party that has what the others sent in the first round is met by parties that have not
\* started in theirs.
LEMMA FirstRound ==
    ASSUME IndInv, NEW i \in Parties, NEW j \in Parties, i # j, Needed(j, 1) \subseteq got[j]
    PROVE  rnd[i] >= 1
<1>1. TypeOK /\ StoredInv /\ proto \in Protocols /\ R \in Nat \ {0}
  BY Rounds DEF IndInv, TypeOK
<1>2. PICK m \in Messages : m[1] = i /\ m[2] = 1 /\ j \in Receivers(m)
  BY <1>1, SomeMessage
<1>3. Put(m)
  BY <1>1, <1>2 DEF Needed, StoredInv
<1>4. rnd[i] \in Nat
  BY <1>1, Numbers
<1> QED
  BY <1>2, <1>3, <1>4 DEF Put

LEMMA ArrivedStep == IndInv /\ ArrivedInv /\ [Next]_vars => ArrivedInv'
<1> SUFFICES ASSUME IndInv, ArrivedInv, [Next]_vars
             PROVE  ArrivedInv'
  OBVIOUS
<1> SUFFICES ASSUME ~panicked, NEW m \in Messages, Put(m)', ~panicked', NEW j \in Receivers(m)
             PROVE  m \in got'[j] \/ <<m, j>> \in todo' \/ InQueue(m)'
  <2>1. Messages' = Messages /\ \A n : Receivers(n)' = Receivers(n)
    BY ProtoStays, Frame
  <2>2. panicked => panicked'
    BY DEF Next, vars
  <2> QED
    BY <2>1, <2>2 DEF ArrivedInv
<1>1. /\ TypeOK /\ PhaseInv /\ proto \in Protocols
      /\ queue \in Seq(Messages) /\ todo \subseteq Messages \X Parties
      /\ got \in [Parties -> SUBSET Messages]
      /\ rnd \in [Parties -> 0 .. R + 1] /\ sent \in [Parties -> 0 .. N]
  BY DEF IndInv, TypeOK
<1>2. /\ m[1] \in Parties /\ j \in Parties /\ m[2] \in 1 .. R /\ m[3] \in 1 .. Count(m[2])
      /\ m[2] \in Nat /\ m[3] \in Nat /\ m = <<m[1], m[2], m[3]>>
  BY <1>1, HasReceiver, Rounds, NAssumption
<1>3. \A i \in Parties : /\ rnd[i] \in Nat /\ sent[i] \in Nat /\ Count(rnd[i]) \in Nat
  BY <1>1, Numbers
<1>4. Put(m) => m \in got[j] \/ <<m, j>> \in todo \/ InQueue(m)
  BY DEF ArrivedInv
<1>5. ASSUME Put(m), UNCHANGED <<got, todo, queue>>
      PROVE  m \in got'[j] \/ <<m, j>> \in todo' \/ InQueue(m)'
  BY <1>4, <1>5 DEF InQueue
<1>6. ASSUME NEW i \in Parties, PutOut(i), UNCHANGED <<rnd, got, todo>>
      PROVE  m \in got'[j] \/ <<m, j>> \in todo' \/ InQueue(m)'
  <2> PICK x : x = <<i, rnd[i], sent[i] + 1>>
    OBVIOUS
  <2>1. x \in Messages /\ queue' = Append(queue, x)
    BY <1>1, <1>6, NextMessage DEF PutOut
  <2>2. /\ \A p \in 1 .. Len(queue) : p \in 1 .. Len(queue') /\ queue'[p] = queue[p]
        /\ Len(queue) + 1 \in 1 .. Len(queue') /\ queue'[Len(queue) + 1] = x
    BY <1>1, <2>1
  <2>3. Put(m) \/ m = x
    BY <1>1, <1>2, <1>3, <1>6 DEF PutOut, Put
  <2> QED
    BY <1>4, <1>6, <2>2, <2>3 DEF InQueue
<1>7. ASSUME NEW i \in Parties, NEW g, Update(i, g), ~Sending(i)
      PROVE  Put(m)
  <2>1. sent[i] = Count(rnd[i])
    BY <1>1, <1>3, <1>7 DEF Sending, PhaseInv
  <2>2. CASE m[1] # i
    BY <1>1, <1>2, <1>7, <2>2 DEF Update, Put
  <2>3. CASE m[1] = i /\ rnd' = rnd /\ sent' = sent
    BY <2>3 DEF Put
  <2>4. CASE m[1] = i /\ rnd'[i] = rnd[i] + 1 /\ sent'[i] = 0
    BY <1>2, <1>3, <2>1, <2>4 DEF Put
  <2> QED
    BY <1>1, <1>7, <2>2, <2>3, <2>4 DEF Update
<1>8. CASE Take
  <2> PICK x : x = Head(queue)
    OBVIOUS
  <2>1. todo' = {x} \X Receivers(x) /\ todo = {} /\ UNCHANGED <<rnd, sent, got>>
    BY <1>8 DEF Take, roundVars
  <2>2. ASSUME NEW p \in 1 .. Len(queue), queue[p] = m
        PROVE  m = x \/ InQueue(m)'
    <3>1. CASE p = 1
      BY <1>1, <2>2, <3>1
    <3>2. CASE p # 1
      <4>1. p - 1 \in 1 .. Len(queue') /\ queue'[p - 1] = m
        BY <1>1, <1>8, <2>2, <3>2 DEF Take
      <4> QED
        BY <4>1 DEF InQueue
    <3> QED
      BY <3>1, <3>2
  <2>3. Put(m)
    BY <2>1 DEF Put
  <2> QED
    BY <1>4, <2>1, <2>2, <2>3 DEF InQueue
<1>9. CASE Receive
  <2>1. PICK d \in todo : /\ start[d[2]] # "run"
                          /\ got' = [got EXCEPT ![d[2]] = @ \cup {d[1]}]
                          /\ todo' = todo \ {d}
                          /\ Update(d[2], got[d[2]] \cup {d[1]})
    BY <1>9 DEF Receive
  <2>2. /\ d[2] \in Parties /\ d = <<d[1], d[2]>> /\ upd = 0 /\ queue' = queue
        /\ d[2] # 0
    BY <1>1, <1>9, NAssumption DEF Receive, Parties
  <2>3. ~Sending(d[2])
    BY <1>1, <1>3, <2>1, <2>2 DEF PhaseInv, Sending
  <2>4. Put(m)
    BY <1>7, <2>1, <2>2, <2>3
  <2>5. <<m, j>> = d => m \in got'[j]
    BY <1>1, <2>1, <2>2
  <2>6. m \in got[j] => m \in got'[j]
    BY <1>1, <1>2, <2>1, <2>2
  <2> QED
    BY <1>4, <2>1, <2>2, <2>4, <2>5, <2>6 DEF InQueue
<1>10. CASE UpdateGoesOn
  <2>1. upd \in Parties /\ Put(m)
    BY <1>1, <1>7, <1>10 DEF UpdateGoesOn, TypeOK
  <2> QED
    BY <1>5, <1>10, <2>1 DEF UpdateGoesOn
<1>11. ASSUME NEW i \in Parties, Start(i)
       PROVE  m \in got'[j] \/ <<m, j>> \in todo' \/ InQueue(m)'
  <2>1. sent[i] = 0 /\ rnd[i] = 0
    BY <1>1, <1>3, <1>11, Rounds DEF Start, PhaseInv
  <2>2. Put(m)
    BY <1>1, <1>2, <1>3, <1>11, <2>1 DEF Start, Put
  <2> QED
    BY <1>5, <1>11, <2>2 DEF Start
<1>12. CASE UNCHANGED <<rnd, sent, got, todo, queue>>
  BY <1>5, <1>12 DEF Put
<1>13. CASE UpdateSends
  BY <1>1, <1>6, <1>13 DEF UpdateSends, TypeOK
<1> QED
  BY <1>6, <1>8, <1>9, <1>10, <1>11, <1>12, <1>13
  DEF Next, StartOf, StartSends, StartFails, StartReturns, Drainer, Caller, Timeout,
      TakeError, CloseAndReturnError, Return, TakeResult, roundVars, callerVars, vars

LEMMA WaitingStep == IndInv /\ WaitingInv /\ [Next]_vars => WaitingInv'
<1> SUFFICES ASSUME IndInv, WaitingInv, [Next]_vars
             PROVE  WaitingInv'
  OBVIOUS
<1>1. /\ TypeOK /\ PhaseInv /\ ChannelInv /\ StoredInv /\ proto \in Protocols
      /\ todo \subseteq Messages \X Parties
      /\ got \in [Parties -> SUBSET Messages] /\ rnd \in [Parties -> 0 .. R + 1]
      /\ R \in Nat \ {0} /\ \A i \in Parties : rnd[i] \in Nat /\ i # 0
  <2>1. TypeOK /\ \A i \in Parties : i # 0
    BY NAssumption DEF IndInv, Parties
  <2> QED
    BY <2>1, Rounds, Numbers DEF IndInv, TypeOK
<1>2. R' = R /\ \A i, r : Needed(i, r)' = Needed(i, r)
  BY ProtoStays, Frame
<1>3. \A i : Complete(i)' <=> Needed(i, rnd'[i]) \subseteq got'[i]
  BY <1>2 DEF Complete
<1>4. ASSUME NEW i \in Parties, Update(i, got'[i]), upd \in {0, i},
             \A j \in Parties \ {i} : got'[j] = got[j], UNCHANGED <<taken, main>>,
             rnd[i] = 0 => \A m \in got'[i] : m[2] = 1
      PROVE  WaitingInv'
  <2>1. \A j \in Parties \ {i} : /\ rnd'[j] = rnd[j] /\ upd # j
                                 /\ Complete(j)' <=> Complete(j)
    BY <1>1, <1>3, <1>4 DEF Update, Complete
  <2>2. /\ rnd'[i] \in 1 .. R /\ upd' # i => ~Complete(i)'
        /\ rnd'[i] = 1 => ~Complete(i)'
        /\ rnd'[i] = R + 1 => i \in done' \cup taken'
        /\ done \subseteq done'
    <3>1. CASE rnd[i] \in 1 .. R /\ rnd' = [rnd EXCEPT ![i] = @ + 1] /\ upd' = i
      BY <1>1, <1>4, <3>1 DEF Update
    <3>2. CASE /\ ~(rnd[i] \in 1 .. R /\ Needed(i, rnd[i]) \subseteq got'[i])
               /\ UNCHANGED <<rnd, done>>
      BY <1>1, <1>3, <1>4, <3>2 DEF WaitingInv
    <3> QED
      BY <1>4, <3>1, <3>2 DEF Update
  <2>3. ASSUME rnd'[i] <= 1, Needed(i, 1) \subseteq got'[i]
        PROVE  \A m \in got'[i] : m[2] = 1
    <3>1. rnd'[i] # 1
      BY <1>3, <2>2, <2>3
    <3>2. rnd[i] = 0
      BY <1>1, <1>4, <2>3, <3>1 DEF Update
    <3> QED
      BY <1>4, <3>2
  <2>4. \A j \in Parties : rnd'[j] \in 2 .. R /\ upd' # j => ~Complete(j)'
    BY <1>1, <2>1, <2>2 DEF WaitingInv
  <2>5. \A j \in Parties :
          rnd'[j] <= 1 /\ Needed(j, 1) \subseteq got'[j] => \A m \in got'[j] : m[2] = 1
    BY <1>4, <2>1, <2>3 DEF WaitingInv
  <2>6. \A j, k \in Parties :
          j # k /\ rnd'[j] = 1 /\ rnd'[k] = 1 => ~(Complete(j)' /\ Complete(k)')
    BY <2>1, <2>2 DEF WaitingInv
  <2>7. \A j \in Parties : rnd'[j] = R + 1 => j \in done' \cup taken'
    BY <1>4, <2>1, <2>2 DEF WaitingInv
  <2> QED
    BY <1>2, <1>4, <2>4, <2>5, <2>6, <2>7 DEF WaitingInv
<1>5. CASE Receive
  <2>1. PICK d \in todo : /\ got' = [got EXCEPT ![d[2]] = @ \cup {d[1]}]
                          /\ Update(d[2], got[d[2]] \cup {d[1]})
    BY <1>5 DEF Receive
  <2>2. /\ d[1] \in Messages /\ d[2] \in Parties /\ d[1][1] \in Parties \ {d[2]}
        /\ Put(d[1]) /\ d[1][2] \in Nat \ {0}
    BY <1>1, HasReceiver DEF ChannelInv
  <2>3. ASSUME rnd[d[2]] = 0, NEW m \in Messages, m[1] \in Parties \ {d[2]}, Put(m)
        PROVE  m[2] = 1
    <3>1. rnd[m[1]] <= 1
      <4>1. CASE rnd[m[1]] > 1
        <5>1. Needed(m[1], 1) \subseteq got[m[1]]
          BY <1>1, <2>3, <4>1 DEF StoredInv
        <5>2. rnd[d[2]] >= 1
          BY <2>2, <2>3, <5>1, FirstRound
        <5> QED
          BY <2>3, <5>2
      <4> QED
        BY <1>1, <2>3, <4>1
    <3>2. m[2] \in 1 .. R
      BY <1>1, HasReceiver
    <3> QED
      BY <1>1, <2>3, <3>1, <3>2 DEF Put
  <2>4. rnd[d[2]] = 0 => \A m \in got'[d[2]] : m[2] = 1
    <3>1. \A m \in got'[d[2]] : m \in Messages /\ Put(m) /\ m[1] \in Parties \ {d[2]}
      BY <1>1, <2>1, <2>2, HasReceiver DEF StoredInv, TypeOK
    <3> QED
      BY <2>3, <3>1
  <2>5. /\ upd = 0 /\ UNCHANGED <<taken, main>>
        /\ got'[d[2]] = got[d[2]] \cup {d[1]}
        /\ \A j \in Parties \ {d[2]} : got'[j] = got[j]
    BY <1>1, <1>5, <2>1, <2>2 DEF Receive, callerVars
  <2> QED
    BY <1>4, <2>1, <2>2, <2>4, <2>5
<1>6. CASE UpdateGoesOn
  <2>1. upd \in Parties /\ rnd[upd] # 0
    BY <1>1, <1>6 DEF UpdateGoesOn, PhaseInv, TypeOK
  <2> QED
    BY <1>1, <1>4, <1>6, <2>1 DEF UpdateGoesOn, callerVars
<1>7. ASSUME NEW i \in Parties, Start(i)
      PROVE  WaitingInv'
  <2>1. /\ rnd[i] = 0 /\ rnd' = [rnd EXCEPT ![i] = 1]
        /\ UNCHANGED <<got, upd, done, taken, main>>
    BY <1>1, <1>7 DEF Start, PhaseInv, callerVars
  <2>2. \A j \in Parties \ {i} : rnd'[j] = rnd[j] /\ (Complete(j)' <=> Complete(j))
    BY <1>1, <1>3, <2>1 DEF Complete
  <2>3. ASSUME NEW j \in Parties \ {i}, rnd[j] = 1, Complete(j)
        PROVE  FALSE
    <3>1. rnd[i] >= 1
      BY <2>3, FirstRound DEF Complete
    <3> QED
      BY <2>1, <3>1
  <2>4. rnd'[i] = 1 /\ 1 \notin 2 .. R /\ 1 # R + 1
    BY <1>1, <2>1
  <2>5. \A j, k \in Parties :
          j # k /\ rnd'[j] = 1 /\ rnd'[k] = 1 => ~(Complete(j)' /\ Complete(k)')
    BY <2>2, <2>3 DEF WaitingInv
  <2>6. \A j \in Parties :
          rnd'[j] <= 1 /\ Needed(j, 1) \subseteq got'[j] => \A m \in got'[j] : m[2] = 1
    BY <2>1, <2>2 DEF WaitingInv
  <2> QED
    BY <1>2, <2>1, <2>2, <2>4, <2>5, <2>6 DEF WaitingInv
<1>8. ASSUME NEW i \in Parties, TakeResult(i)
      PROVE  WaitingInv'
  BY <1>1, <1>2, <1>3, <1>8 DEF TakeResult, WaitingInv, Complete
<1>9. CASE /\ UNCHANGED <<rnd, got, upd, done, taken>>
           /\ main' = "run" => main = "run"
  BY <1>1, <1>2, <1>3, <1>9 DEF WaitingInv, Complete
<1> QED
  BY <1>5, <1>6, <1>7, <1>8, <1>9
  DEF Next, StartOf, StartSends, StartFails, StartReturns, Drainer, Take, UpdateSends, Caller,
      Timeout, TakeError, CloseAndReturnError, Return, roundVars, callerVars, vars

LEMMA FailedStep == IndInv /\ FailedInv /\ [Next]_vars => FailedInv'
<1> SUFFICES ASSUME FailedInv, [Next]_vars, start \in [Parties -> {"new", "run", "done", "failed"}]
             PROVE  FailedInv'
  BY DEF IndInv, TypeOK
<1>1. ASSUME NEW i \in Parties, StartOf(i) \/ StartFails(i)
      PROVE  FailedInv'
  BY <1>1 DEF FailedInv, StartOf, Start, StartSends, StartReturns, StartFails, callerVars
<1>2. CASE start' = start /\ errs' = errs
  BY <1>2 DEF FailedInv
<1> QED
  BY <1>1, <1>2
  DEF Next, Drainer, Take, Receive, UpdateSends, UpdateGoesOn, Caller, Timeout, TakeError,
      CloseAndReturnError, Return, TakeResult, callerVars, vars

LEMMA WaitInvariant == Spec => [](IndInv /\ ArrivedInv /\ WaitingInv /\ FailedInv)
<1>1. Init => IndInv /\ ArrivedInv /\ WaitingInv /\ FailedInv
  <2> SUFFICES ASSUME Init
               PROVE  IndInv /\ ArrivedInv /\ WaitingInv /\ FailedInv
    OBVIOUS
  <2>1. IndInv /\ proto \in Protocols
    BY IndInit DEF Init
  <2>2. R \in Nat \ {0} /\ 1 \in Parties
    BY <2>1, Rounds, NAssumption DEF Parties
  <2>3. ASSUME NEW m \in Messages
        PROVE  ~Put(m)
    BY <2>1, <2>2, <2>3, HasReceiver DEF Init, Put
  <2>4. \A i \in Parties : rnd[i] = 0 /\ got[i] = {} /\ taken = {} /\ R + 1 # 0
    BY <2>2 DEF Init
  <2>5. FailedInv
    BY DEF Init, FailedInv
  <2> QED
    BY <2>1, <2>2, <2>3, <2>4, <2>5 DEF ArrivedInv, WaitingInv
<1>2. IndInv /\ ArrivedInv /\ WaitingInv /\ FailedInv /\ [Next]_vars
        => (IndInv /\ ArrivedInv /\ WaitingInv /\ FailedInv)'
  BY TypeStep, PhaseStep, ChannelStep, StoredStep, CallerStep, ArrivedStep, WaitingStep,
     FailedStep DEF IndInv
<1> QED
  BY <1>1, <1>2, PTL DEF Spec

\* A set of numbers has a least one.
LEMMA Least ==
    ASSUME NEW S \in SUBSET Nat, S # {}
    PROVE  \E x \in S : \A y \in S : x <= y
<1>1. PICK x \in S : \A y \in S : ~ (<<y, x>> \in OpToRel(<, Nat))
  BY WFMin, NatLessThanWellFounded
<1>2. \A y \in S : ~ (y < x)
  BY <1>1 DEF OpToRel
<1> QED
  BY <1>2

\* Where outCh is made for the number of parties, a call goes on until its caller has the
\* results or an error: when nothing is on its way any more, the parties that are least
\* far would have all they wait for.
THEOREM NoDeadlockCorrect ==
    ASSUME Fits
    PROVE  Spec => []NoDeadlock
<1>1. IndInv /\ ArrivedInv /\ WaitingInv /\ FailedInv => NoDeadlock
  <2> SUFFICES ASSUME IndInv, ArrivedInv, WaitingInv, FailedInv, main = "run", ~CanGoOn
               PROVE  FALSE
    BY DEF NoDeadlock
  <2>1. /\ TypeOK /\ PhaseInv /\ CallerInv /\ NeverStuck /\ proto \in Protocols
        /\ R \in Nat \ {0} /\ todo \subseteq Messages \X Parties /\ queue \in Seq(Messages)
        /\ rnd \in [Parties -> 0 .. R + 1] /\ 0 \notin Parties
        /\ start \in [Parties -> {"new", "run", "done", "failed"}]
    <3>1. 0 \notin Parties /\ TypeOK /\ NeverStuck
      BY Room, NAssumption DEF IndInv, Parties
    <3> QED
      BY <3>1, Rounds DEF IndInv, TypeOK
  <2>2. ~panicked /\ ~closed /\ done = {} /\ \A i \in Parties : start[i] # "failed"
    BY <2>1 DEF CallerInv, FailedInv, CanGoOn, TypeOK
  <2>3. ASSUME NEW i \in Parties
        PROVE  ~Sending(i) /\ start[i] = "done" /\ upd = 0
               /\ rnd[i] \in 1 .. R + 1 /\ rnd[i] \in Nat /\ sent[i] = Count(rnd[i])
    <3>1. rnd[i] \in Nat /\ sent[i] \in Nat /\ Count(rnd[i]) \in Nat
      BY <2>1, Numbers
    <3>2. \A j \in Parties : ~Sending(j)
      BY <2>1, <2>2, Numbers DEF NeverStuck, CanGoOn, PhaseInv, Sending
    <3>3. start[i] = "done"
      BY <2>1, <2>2, <3>2 DEF CanGoOn
    <3>4. upd = 0
      BY <2>1, <3>2 DEF CanGoOn, TypeOK
    <3>5. rnd[i] # 0
      BY <2>1, <3>3 DEF PhaseInv
    <3>6. sent[i] = Count(rnd[i])
      BY <2>1, <3>1, <3>2, <3>3, <3>4 DEF PhaseInv
    <3> QED
      BY <2>1, <3>1, <3>2, <3>3, <3>4, <3>5, <3>6
  <2>4. PICK o \in Parties : TRUE
    BY NAssumption DEF Parties
  <2>5. todo = {}
    <3> SUFFICES ASSUME todo # {}
                 PROVE  FALSE
      OBVIOUS
    <3> DEFINE S == {d[2] : d \in todo}
    <3>1. S \in SUBSET Nat /\ S # {}
      BY <2>1, NAssumption DEF Parties
    <3>2. PICK x \in S : \A y \in S : x <= y
      BY <3>1, Least
    <3>3. PICK d \in todo : x = d[2]
      BY <3>2
    <3>4. d[2] \in Parties /\ \A e \in todo : d[2] <= e[2]
      BY <2>1, <3>2, <3>3
    <3>5. start[d[2]] # "run" /\ upd = 0
      BY <2>3, <3>4
    <3> QED
      BY <3>4, <3>5 DEF CanGoOn
  <2>6. queue = <<>>
    BY <2>3, <2>4, <2>5 DEF CanGoOn
  <2>7. ASSUME NEW m \in Messages, Put(m), NEW j \in Receivers(m)
        PROVE  m \in got[j]
    BY <2>2, <2>5, <2>6, <2>7 DEF ArrivedInv, InQueue
  <2>8. PICK i \in Parties : \A j \in Parties : rnd[i] <= rnd[j]
    <3> DEFINE S == {rnd[j] : j \in Parties}
    <3>1. S \in SUBSET Nat /\ S # {}
      BY <2>3, <2>4
    <3>2. PICK x \in S : \A y \in S : x <= y
      BY <3>1, Least
    <3> QED
      BY <3>2
  <2>9. ASSUME NEW j \in Parties, rnd[j] = rnd[i], rnd[i] \in 1 .. R
        PROVE  Complete(j)
    <3>1. ASSUME NEW m \in Messages, m[2] = rnd[i]
          PROVE  Put(m)
      <4>1. m[1] \in Parties /\ m[3] \in 1 .. Count(m[2])
        BY <2>1, HasReceiver
      <4>2. rnd[m[1]] = rnd[i] => m[3] <= sent[m[1]]
        BY <2>3, <3>1, <4>1
      <4> QED
        BY <2>3, <2>8, <3>1, <4>1, <4>2 DEF Put
    <3> QED
      BY <2>7, <2>9, <3>1 DEF Complete, Needed
  <2>10. CASE rnd[i] \in 2 .. R
    BY <2>3, <2>9, <2>10, <2>1 DEF WaitingInv
  <2>11. CASE rnd[i] = 1
    <3>1. PICK j \in Parties : j # i
      <4>1. 1 \in Parties /\ 2 \in Parties
        BY NAssumption DEF Parties
      <4> QED
        BY <4>1
    <3>2. Complete(i) /\ 1 \in 1 .. R
      BY <2>1, <2>9, <2>11
    <3>3. rnd[j] >= 2
      BY <2>3, <2>8, <2>9, <2>11, <3>1, <3>2 DEF WaitingInv
    <3>4. 2 \in 1 .. R
      <4>1. R = 3 \/ R = 9
        BY <2>1, ProtocolsAssumption DEF R, Keygen, Sign, Both
      <4> QED
        BY <4>1
    <3>5. PICK m \in Messages : m[1] = j /\ m[2] = 2 /\ i \in Receivers(m)
      BY <2>1, <3>1, <3>4, SomeMessage
    <3>6. Put(m)
      <4>1. m[3] \in 1 .. Count(m[2])
        BY <2>1, HasReceiver
      <4> QED
        BY <2>3, <3>3, <3>5, <4>1 DEF Put
    <3>7. m \in got[i]
      BY <2>7, <3>5, <3>6
    <3> QED
      BY <2>11, <3>2, <3>5, <3>7 DEF WaitingInv, Complete
  <2>12. CASE rnd[i] = R + 1
    <3>1. \A j \in Parties : rnd[j] = R + 1
      BY <2>1, <2>3, <2>8, <2>12
    <3>2. taken = Parties
      BY <2>1, <2>2, <3>1 DEF WaitingInv, TypeOK
    <3> QED
      BY <3>2 DEF WaitingInv
  <2> QED
    BY <2>1, <2>3, <2>10, <2>11, <2>12
<1> QED
  BY <1>1, WaitInvariant, PTL
===============================================================================
