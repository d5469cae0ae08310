--------------------------- MODULE TssRelayProof ---------------------------
(***************************************************************************)
(* Proofs about TssRelay, for any number of nodes and of rounds and for    *)
(* any set of nodes that may fail.  The inductive invariant IInv says      *)
(* where a message can be, given the rounds of its sender and its          *)
(* receiver, and what the phase of a node's run says about the node.       *)
(* EarlyInv and ArrivedInv, which say where messages are when nothing      *)
(* fails, serve the last theorem: then nobody is left waiting.             *)
(***************************************************************************)
EXTENDS TssRelay, WellFoundedInduction, TLAPS

\* A message exists only when its sender has entered its round.
EnteredInv ==
    \A n, m \in Nodes, r \in Rounds :
        /\ <<r, m>> \in out[n] => r <= rnd[n]
        /\ <<n, r, m>> \in net \cup between => r <= rnd[n]
        /\ <<n, r>> \in kept[m] => r <= rnd[n]
        /\ <<n, r>> \in got[m] => r <= rnd[n]

\* A message that was posted is not to be posted any more.
PostedInv ==
    \A n, m \in Nodes, r \in Rounds :
        <<n, r, m>> \in net \cup between \/ <<n, r>> \in kept[m] \/ <<n, r>> \in got[m] =>
            <<r, m>> \notin out[n]

\* A party has all messages of the rounds it has left.
RoundsInv ==
    \A n \in Nodes, r \in Rounds : r < rnd[n] => \A m \in Peers(n) : <<m, r>> \in got[n]

\* A node with a share has all messages of the last round, too.
ShareInv ==
    \A n \in Nodes : result[n] = "share" =>
        rnd[n] = R /\ \A m \in Peers(n) : <<m, R>> \in got[n]

\* Until a run has returned it has no result, and its node keeps its peers' public keys.
PhaseInv ==
    \A n \in Nodes :
        /\ run[n] \in {"off", "session"} => out[n] = {} /\ rnd[n] = 0
        /\ run[n] \in {"off", "session", "party"} => result[n] = "none"
        /\ run[n] \in {"returned", "closed"} => result[n] # "none"
        /\ run[n] \in {"session", "party", "returned"} => Peers(n) \subseteq pub[n]

\* No message goes to its sender.
SelfInv ==
    \A n \in Nodes, r \in Rounds :
        <<n, r, n>> \notin net \cup between \cup stranded \cup lost \cup skipped

IInv ==
    /\ TypeOK
    /\ SelfInv
    /\ EnteredInv
    /\ PostedInv
    /\ RoundsInv
    /\ ShareInv
    /\ PhaseInv
    /\ SkipsOnlyLastRound

-----------------------------------------------------------------------------
\* Every step keeps the types.
LEMMA TypeStep ==
    ASSUME TypeOK, [Next]_vars
    PROVE  TypeOK'
<1> USE DEF TypeOK
<1>1. ASSUME NEW n \in Nodes, StartNode(n)
      PROVE  TypeOK'
  BY <1>1 DEF StartNode, Peers
<1>2. ASSUME NEW n \in Nodes, StartParty(n)
      PROVE  TypeOK'
  <2>1. 1 \in Rounds /\ 1 \in 0 .. R
    BY RAssumption DEF Rounds
  <2>2. ({1} \X Peers(n)) \subseteq Rounds \X Peers(n) /\ Peers(n) \subseteq Nodes
    BY <2>1 DEF Peers
  <2>3. QED
    BY <1>2, <2>1, <2>2 DEF StartParty, Enter
<1>3. ASSUME NEW n \in Nodes, Advance(n)
      PROVE  TypeOK'
  <2> DEFINE r == rnd[n] + 1
  <2>1. r \in Rounds /\ r \in 0 .. R
    BY <1>3, RAssumption DEF Advance, RoundComplete, Rounds
  <2>2. ({r} \X Peers(n)) \subseteq Rounds \X Peers(n) /\ Peers(n) \subseteq Nodes
    BY <2>1 DEF Peers
  <2> HIDE DEF r
  <2>3. rnd' = [rnd EXCEPT ![n] = r] /\ out' = [out EXCEPT ![n] = @ \cup ({r} \X Peers(n))]
    BY <1>3 DEF Advance, Enter, r
  <2>4. UNCHANGED <<kind, run, result, pub, net, between, kept, got, stranded, skipped, lost>>
    BY <1>3 DEF Advance
  <2>5. QED
    BY <2>1, <2>2, <2>3, <2>4
<1>4. ASSUME NEW n \in Nodes, Finish(n)
      PROVE  TypeOK'
  BY <1>4 DEF Finish
<1>5. ASSUME NEW n \in Nodes, Fail(n)
      PROVE  TypeOK'
  BY <1>5 DEF Fail
<1>6. ASSUME NEW n \in Nodes, NEW r \in Rounds, NEW m \in Nodes, Post(n, r, m)
      PROVE  TypeOK'
  BY <1>6 DEF Post
<1>7. ASSUME NEW n \in Nodes, NEW r \in Rounds, NEW m \in Nodes, Skip(n, r, m)
      PROVE  TypeOK'
  BY <1>7 DEF Skip
<1>8. ASSUME NEW n \in Nodes, NEW r \in Rounds, NEW m \in Nodes, PostFails(n, r, m)
      PROVE  TypeOK'
  <2>1. PICK gone \in Rest(n, r, m) :
              /\ out' = [out EXCEPT ![n] = @ \ gone]
              /\ lost' = lost \cup {<<n, x[1], x[2]>> : x \in gone}
    BY <1>8 DEF PostFails
  <2>2. gone \subseteq Rounds \X Nodes
    BY <2>1 DEF Rest
  <2>3. lost' \subseteq Nodes \X Rounds \X Nodes
    BY <2>1, <2>2
  <2>4. out' \in [Nodes -> SUBSET (Rounds \X Nodes)] /\ \A k \in Nodes : out'[k] \subseteq out[k]
    BY <2>1
  <2>5. net' \subseteq Nodes \X Rounds \X Nodes
    BY <1>8 DEF PostFails
  <2>6. QED
    BY <1>8, <2>3, <2>4, <2>5 DEF PostFails
<1>9. ASSUME NEW n \in Nodes, NEW m \in Nodes, NEW r \in Rounds,
             FindNoSession(m, r, n) \/ CacheEarly(m, r, n) \/ KeepEarly(m, r, n)
      PROVE  TypeOK'
  BY <1>9 DEF FindNoSession, CacheEarly, KeepEarly
<1>10. ASSUME NEW n \in Nodes, NEW m \in Nodes, NEW r \in Rounds, Update(m, r, n)
       PROVE  TypeOK'
  BY <1>10 DEF Update
<1>11. ASSUME NEW n \in Nodes, NEW m \in Nodes, NEW r \in Rounds, DropLate(m, r, n)
       PROVE  TypeOK'
  BY <1>11 DEF DropLate
<1>12. ASSUME NEW n \in Nodes, Close(n)
       PROVE  TypeOK'
  BY <1>12 DEF Close
<1>13. ASSUME NEW n \in Nodes, NEW m \in Nodes, DeleteKey(n, m)
       PROVE  TypeOK'
  BY <1>13 DEF DeleteKey
<1>14. ASSUME NEW n \in Nodes, NEW r \in Rounds, NEW m \in Nodes, NoKey(n, r, m)
       PROVE  TypeOK'
  <2>1. PICK gone \in Rest(n, r, m) :
              /\ out' = [out EXCEPT ![n] = @ \ gone]
              /\ skipped' = skipped \cup {<<n, x[1], x[2]>> : x \in gone}
    BY <1>14 DEF NoKey
  <2>2. gone \subseteq Rounds \X Nodes
    BY <2>1 DEF Rest
  <2>3. skipped' \subseteq Nodes \X Rounds \X Nodes
    BY <2>1, <2>2
  <2>4. out' \in [Nodes -> SUBSET (Rounds \X Nodes)] /\ \A k \in Nodes : out'[k] \subseteq out[k]
    BY <2>1
  <2>5. QED
    BY <1>14, <2>3, <2>4 DEF NoKey
<1>15. ASSUME NEW n \in Nodes, NEW r \in Rounds, NEW m \in Nodes, PushFails(n, r, m)
       PROVE  TypeOK'
  BY <1>15 DEF PushFails
<1>16. ASSUME NEW n \in Nodes, NEW m \in Nodes, NEW r \in Rounds, Refuse(m, r, n)
       PROVE  TypeOK'
  BY <1>16 DEF Refuse
<1>17. CASE UNCHANGED vars
  BY <1>17 DEF vars
<1>18. QED
  BY <1>1, <1>2, <1>3, <1>4, <1>5, <1>6, <1>7, <1>8, <1>9, <1>10, <1>11, <1>12, <1>13,
     <1>14, <1>15, <1>16, <1>17 DEF Next, Progress, Protocol, Sender, Deliver, CleanUp


\* When a node has a share, every node is in the last round: it has their messages
\* of that round, and a message exists only when its sender has come so far.
LEMMA ShareMeaning ==
    ASSUME TypeOK, EnteredInv, ShareInv
    PROVE  ShareNeedsEveryNode
<1> SUFFICES ASSUME NEW n \in Nodes, result[n] = "share", NEW m \in Nodes
             PROVE  rnd[m] = R
  BY DEF ShareNeedsEveryNode
<1>1. CASE m = n
  BY <1>1 DEF ShareInv
<1>2. CASE m # n
  <2>1. <<m, R>> \in got[n]
    BY <1>2 DEF ShareInv, Peers
  <2>2. R \in Rounds
    BY RAssumption DEF Rounds
  <2>3. R <= rnd[m]
    BY <2>1, <2>2 DEF EnteredInv
  <2>4. QED
    BY <2>3, RAssumption DEF TypeOK
<1>3. QED
  BY <1>1, <1>2

\* Entering a round, the first or the next: the new messages are nowhere else yet,
\* and the round that is left is complete.
LEMMA EnterStep ==
    ASSUME IInv, NEW n \in Nodes, NEW r \in Rounds, Enter(n, r), r = rnd[n] + 1,
           r = 1 \/ RoundComplete(n),
           UNCHANGED <<net, between, kept, got>>
    PROVE  EnteredInv' /\ PostedInv' /\ RoundsInv'
<1>1. /\ rnd' = [rnd EXCEPT ![n] = r]
      /\ out' = [out EXCEPT ![n] = @ \cup ({r} \X Peers(n))]
  BY DEF Enter
<1>2. rnd \in [Nodes -> 0 .. R] /\ out \in [Nodes -> SUBSET (Rounds \X Nodes)]
  BY DEF IInv, TypeOK
<1>3. R \in Nat /\ Rounds = 1 .. R
  BY RAssumption DEF Rounds
<1>4. \A k \in Nodes : rnd[k] \in Nat /\ rnd'[k] \in Nat /\ rnd[k] <= rnd'[k]
  BY <1>1, <1>2, <1>3
<1>5. \A k \in Nodes, q \in Rounds, m \in Nodes :
          <<q, m>> \in out'[k] => <<q, m>> \in out[k] \/ (k = n /\ q = r)
  BY <1>1, <1>2
<1>6. EnteredInv'
  <2> SUFFICES ASSUME NEW k \in Nodes, NEW m \in Nodes, NEW q \in Rounds
               PROVE  /\ <<q, m>> \in out'[k] => q <= rnd'[k]
                      /\ <<k, q, m>> \in net \cup between => q <= rnd'[k]
                      /\ <<k, q>> \in kept[m] => q <= rnd'[k]
                      /\ <<k, q>> \in got[m] => q <= rnd'[k]
    BY DEF EnteredInv
  <2>1. q \in Nat /\ r \in Nat /\ (k = n => rnd'[k] = r)
    BY <1>1, <1>2, <1>3
  <2>2. QED
    BY <1>4, <1>5, <2>1 DEF IInv, EnteredInv
<1>7. PostedInv'
  <2> SUFFICES ASSUME NEW k \in Nodes, NEW m \in Nodes, NEW q \in Rounds,
                      <<k, q, m>> \in net \cup between \/ <<k, q>> \in kept[m] \/ <<k, q>> \in got[m]
               PROVE  <<q, m>> \notin out'[k]
    BY DEF PostedInv
  <2>1. <<q, m>> \notin out[k]
    BY DEF IInv, PostedInv
  <2>2. q <= rnd[k]
    BY DEF IInv, EnteredInv
  <2>3. ~(k = n /\ q = r)
    BY <2>2, <1>3, <1>4
  <2>4. QED
    BY <2>1, <2>3, <1>5
<1>8. RoundsInv'
  <2> SUFFICES ASSUME NEW k \in Nodes, NEW q \in Rounds, q < rnd'[k], NEW m \in Peers(k)
               PROVE  <<m, q>> \in got[k]
    BY DEF RoundsInv
  <2>1. CASE q < rnd[k]
    BY <2>1 DEF IInv, RoundsInv
  <2>2. CASE ~(q < rnd[k])
    <3>1. k = n
      BY <1>1, <1>2, <2>2
    <3>2. q = rnd[n] /\ r # 1
      BY <1>1, <1>2, <1>3, <2>2, <3>1
    <3>3. QED
      BY <3>1, <3>2 DEF RoundComplete
  <2>3. QED
    BY <2>1, <2>2
<1>9. QED
  BY <1>6, <1>7, <1>8

\* A message that the sender skips or gives up for want of a key: with all keys there
\* is none, with a share only last-round messages are left to post.
LEMMA SkipStep ==
    ASSUME IInv, NEW n \in Nodes, NEW r \in Rounds, NEW m \in Nodes,
           Skip(n, r, m) \/ NoKey(n, r, m)
    PROVE  result[n] = "error" \/ r = R
<1> SUFFICES ASSUME result[n] # "error", r # R
             PROVE  FALSE
  OBVIOUS
<1>1. <<r, m>> \in out[n] /\ m \notin pub[n]
  BY DEF Skip, NoKey, IsNext
<1>2. m \in Peers(n)
  BY <1>1 DEF IInv, TypeOK
<1>3. run[n] = "closed"
  BY <1>1, <1>2 DEF IInv, PhaseInv, TypeOK
<1>4. result[n] = "share"
  BY <1>3 DEF IInv, PhaseInv, TypeOK
<1>5. rnd[m] = R
  BY <1>4, ShareMeaning DEF IInv, ShareNeedsEveryNode
<1>6. r < rnd[m] /\ n \in Peers(m)
  BY <1>5, <1>2, RAssumption DEF Rounds, Peers
<1>7. <<n, r>> \in got[m]
  BY <1>6 DEF IInv, RoundsInv
<1>8. <<r, m>> \notin out[n]
  BY <1>7 DEF IInv, PostedInv
<1>9. QED
  BY <1>1, <1>8

\* A message is made for a peer and changes hands only.
LEMMA SelfStep ==
    ASSUME TypeOK, SelfInv, [Next]_vars
    PROVE  SelfInv'
<1> DEFINE Old == net \cup between \cup stranded \cup lost \cup skipped
           New == net' \cup between' \cup stranded' \cup lost' \cup skipped'
           Own(n) == {<<n, x[1], x[2]>> : x \in out[n]}
<1>1. \A n \in Nodes, r \in Rounds : <<r, n>> \notin out[n]
  BY DEF TypeOK, Peers
<1>2. \A n \in Nodes : out[n] \subseteq Rounds \X Nodes
  BY DEF TypeOK
<1>3. ASSUME NEW n \in Nodes, Sender(n)
      PROVE  New \subseteq Old \cup Own(n)
  <2>1. PICK r \in Rounds, m \in Nodes :
            Post(n, r, m) \/ Skip(n, r, m) \/ NoKey(n, r, m) \/ PostFails(n, r, m) \/ PushFails(n, r, m)
    BY <1>3 DEF Sender
  <2>2. <<r, m>> \in out[n]
    BY <2>1 DEF Post, Skip, NoKey, PostFails, PushFails, IsNext
  <2>3. <<n, r, m>> \in Own(n)
    BY <2>2
  <2>4. CASE Post(n, r, m) \/ Skip(n, r, m) \/ PushFails(n, r, m)
    BY <2>3, <2>4 DEF Post, Skip, PushFails
  <2>5. CASE NoKey(n, r, m)
    <3>1. PICK gone \in Rest(n, r, m) : skipped' = skipped \cup {<<n, x[1], x[2]>> : x \in gone}
      BY <2>5 DEF NoKey
    <3>2. gone \subseteq out[n]
      BY <2>2 DEF Rest
    <3>3. skipped' \subseteq skipped \cup Own(n)
      BY <3>1, <3>2
    <3>4. QED
      BY <2>5, <3>3 DEF NoKey
  <2>6. CASE PostFails(n, r, m)
    <3>1. PICK gone \in Rest(n, r, m) : lost' = lost \cup {<<n, x[1], x[2]>> : x \in gone}
      BY <2>6 DEF PostFails
    <3>2. gone \subseteq out[n]
      BY <2>2 DEF Rest
    <3>3. lost' \subseteq lost \cup Own(n)
      BY <3>1, <3>2
    <3>4. QED
      BY <2>3, <2>6, <3>3 DEF PostFails
  <2>7. QED
    BY <2>1, <2>4, <2>5, <2>6
<1>4. ASSUME NEW n \in Nodes, Protocol(n) \/ Fail(n) \/ CleanUp(n)
      PROVE  New = Old
  BY <1>4 DEF Protocol, StartNode, StartParty, Advance, Finish, Fail, CleanUp, Close, DeleteKey
<1>5. ASSUME NEW n \in Nodes, Deliver(n)
      PROVE  New \subseteq Old
  BY <1>5 DEF Deliver, Arrives, FindNoSession, CacheEarly, KeepEarly, Update, Refuse, DropLate
<1>6. CASE UNCHANGED vars
  BY <1>6 DEF vars, SelfInv
<1>7. \/ New \subseteq Old
      \/ \E n \in Nodes : New \subseteq Old \cup Own(n)
  BY <1>3, <1>4, <1>5, <1>6 DEF Next, Progress, vars
<1>8. \A n \in Nodes, k \in Nodes, r \in Rounds : <<k, r, k>> \notin Own(n)
  BY <1>1, <1>2
<1>9. QED
  BY <1>7, <1>8 DEF SelfInv

\* Every step of a node, of its sender or of a delivery keeps the invariant.
LEMMA InvStep ==
    ASSUME IInv, [Next]_vars
    PROVE  IInv'
<1>0. TypeOK'
  BY TypeStep DEF IInv
<1>a. SelfInv'
  BY SelfStep DEF IInv
<1> USE DEF IInv
<1>1. ASSUME NEW n \in Nodes, StartNode(n)
      PROVE  IInv'
  <2>1. EnteredInv' /\ PostedInv' /\ RoundsInv' /\ ShareInv' /\ SkipsOnlyLastRound'
    BY <1>1 DEF StartNode, EnteredInv, PostedInv, RoundsInv, ShareInv, SkipsOnlyLastRound
  <2>2. PhaseInv'
    <3>1. Peers(n) \subseteq pub'[n]
      BY <1>1 DEF StartNode, Peers, TypeOK
    <3>2. QED
      BY <1>1, <3>1 DEF StartNode, PhaseInv, TypeOK
  <2>3. QED
    BY <1>0, <1>a, <2>1, <2>2
<1>2. ASSUME NEW n \in Nodes, StartParty(n)
      PROVE  IInv'
  <2>1. rnd[n] = 0 /\ result[n] = "none"
    BY <1>2 DEF StartParty, PhaseInv
  <2>2. EnteredInv' /\ PostedInv' /\ RoundsInv'
    BY <1>2, <2>1, EnterStep, RAssumption DEF StartParty, Rounds
  <2>3. ShareInv'
    BY <1>2, <2>1 DEF StartParty, Enter, ShareInv, TypeOK
  <2>4. PhaseInv'
    BY <1>2, <2>1 DEF StartParty, Enter, PhaseInv, TypeOK
  <2>5. SkipsOnlyLastRound'
    BY <1>2 DEF StartParty, SkipsOnlyLastRound
  <2>6. QED
    BY <1>0, <1>a, <2>2, <2>3, <2>4, <2>5
<1>3. ASSUME NEW n \in Nodes, Advance(n)
      PROVE  IInv'
  <2>1. rnd[n] + 1 \in Rounds /\ rnd[n] # R
    BY <1>3, RAssumption DEF Advance, RoundComplete, Rounds
  <2>2. EnteredInv' /\ PostedInv' /\ RoundsInv'
    BY <1>3, <2>1, EnterStep DEF Advance
  <2>3. ShareInv'
    BY <1>3, <2>1 DEF Advance, Enter, ShareInv, TypeOK
  <2>4. PhaseInv'
    BY <1>3 DEF Advance, Enter, PhaseInv, TypeOK
  <2>5. SkipsOnlyLastRound'
    BY <1>3 DEF Advance, SkipsOnlyLastRound
  <2>6. QED
    BY <1>0, <1>a, <2>2, <2>3, <2>4, <2>5
<1>4. ASSUME NEW n \in Nodes, Finish(n)
      PROVE  IInv'
  <2>1. EnteredInv' /\ PostedInv' /\ RoundsInv'
    BY <1>4 DEF Finish, EnteredInv, PostedInv, RoundsInv
  <2>2. ShareInv'
    BY <1>4 DEF Finish, RoundComplete, ShareInv, TypeOK
  <2>3. PhaseInv'
    BY <1>4 DEF Finish, PhaseInv, TypeOK
  <2>4. \A x \in skipped : result'[x[1]] = "error" \/ x[2] = R
    <3> SUFFICES ASSUME NEW x \in skipped, x[2] # R
                 PROVE  result'[x[1]] = "error"
      OBVIOUS
    <3>1. result[x[1]] = "error" /\ x[1] \in Nodes
      BY DEF SkipsOnlyLastRound, TypeOK
    <3>2. result[n] = "none"
      BY <1>4 DEF Finish, PhaseInv
    <3>3. QED
      BY <1>4, <3>1, <3>2 DEF Finish, TypeOK
  <2>5. SkipsOnlyLastRound'
    BY <1>4, <2>4 DEF Finish, SkipsOnlyLastRound
  <2>6. QED
    BY <1>0, <1>a, <2>1, <2>2, <2>3, <2>5
<1>5. ASSUME NEW n \in Nodes, Fail(n)
      PROVE  IInv'
  <2>1. EnteredInv' /\ PostedInv' /\ RoundsInv'
    BY <1>5 DEF Fail, EnteredInv, PostedInv, RoundsInv
  <2>2. ShareInv' /\ PhaseInv'
    BY <1>5 DEF Fail, ShareInv, PhaseInv, TypeOK
  <2>3. SkipsOnlyLastRound'
    BY <1>5 DEF Fail, SkipsOnlyLastRound, TypeOK
  <2>4. QED
    BY <1>0, <1>a, <2>1, <2>2, <2>3
<1>6. ASSUME NEW n \in Nodes, NEW r \in Rounds, NEW m \in Nodes, Post(n, r, m)
      PROVE  IInv'
  <2>1. /\ <<r, m>> \in out[n]
        /\ out' = [out EXCEPT ![n] = @ \ {<<r, m>>}]
        /\ net' = net \cup {<<n, r, m>>}
        /\ UNCHANGED <<run, result, rnd, pub, between, kept, got, skipped, lost>>
    BY <1>6 DEF Post, IsNext
  <2>2. EnteredInv'
    BY <2>1 DEF EnteredInv, TypeOK
  <2>3. PostedInv'
    BY <2>1 DEF PostedInv, TypeOK
  <2>4. RoundsInv' /\ ShareInv' /\ SkipsOnlyLastRound'
    BY <2>1 DEF RoundsInv, ShareInv, SkipsOnlyLastRound
  <2>5. PhaseInv'
    BY <2>1 DEF PhaseInv, TypeOK
  <2>6. QED
    BY <1>0, <1>a, <2>2, <2>3, <2>4, <2>5
<1>7. ASSUME NEW n \in Nodes, NEW r \in Rounds, NEW m \in Nodes, Skip(n, r, m)
      PROVE  IInv'
  <2>1. /\ out' = [out EXCEPT ![n] = @ \ {<<r, m>>}]
        /\ skipped' = skipped \cup {<<n, r, m>>}
        /\ UNCHANGED <<run, result, rnd, pub, net, between, kept, got, lost>>
    BY <1>7 DEF Skip
  <2>2. EnteredInv' /\ PostedInv' /\ RoundsInv' /\ ShareInv'
    BY <2>1 DEF EnteredInv, PostedInv, RoundsInv, ShareInv, TypeOK
  <2>3. PhaseInv'
    BY <2>1 DEF PhaseInv, TypeOK
  <2>4. SkipsOnlyLastRound'
    BY <1>7, <2>1, SkipStep DEF SkipsOnlyLastRound
  <2>5. QED
    BY <1>0, <1>a, <2>2, <2>3, <2>4
<1>8. ASSUME NEW n \in Nodes, NEW r \in Rounds, NEW m \in Nodes, PostFails(n, r, m)
      PROVE  IInv'
  <2>1. PICK gone : <<r, m>> \in gone /\ out' = [out EXCEPT ![n] = @ \ gone]
    BY <1>8 DEF PostFails, IsNext, Rest
  <2>2. /\ <<r, m>> \in out[n]
        /\ net' \in {net, net \cup {<<n, r, m>>}}
        /\ UNCHANGED <<run, result, rnd, pub, between, kept, got, skipped>>
    BY <1>8 DEF PostFails, IsNext
  <2>3. /\ \A k \in Nodes : out'[k] \subseteq out[k]
        /\ <<r, m>> \notin out'[n]
    BY <2>1 DEF TypeOK
  <2>4. net' \subseteq net \cup {<<n, r, m>>}
    BY <2>2
  <2>5. r <= rnd[n]
    BY <2>2 DEF EnteredInv
  <2>6. EnteredInv'
    <3> SUFFICES ASSUME NEW k \in Nodes, NEW l \in Nodes, NEW s \in Rounds
                 PROVE  /\ <<s, l>> \in out'[k] => s <= rnd[k]
                        /\ <<k, s, l>> \in net' \cup between => s <= rnd[k]
                        /\ <<k, s>> \in kept[l] => s <= rnd[k]
                        /\ <<k, s>> \in got[l] => s <= rnd[k]
      BY <2>2 DEF EnteredInv
    <3>1. <<s, l>> \in out'[k] => <<s, l>> \in out[k]
      BY <2>3
    <3>2. <<k, s, l>> \in net' => <<k, s, l>> \in net \/ (k = n /\ s = r)
      BY <2>4
    <3>3. QED
      BY <2>5, <3>1, <3>2 DEF EnteredInv
  <2>7. PostedInv'
    <3> SUFFICES ASSUME NEW k \in Nodes, NEW l \in Nodes, NEW s \in Rounds,
                        <<k, s, l>> \in net' \cup between \/ <<k, s>> \in kept[l] \/ <<k, s>> \in got[l]
                 PROVE  <<s, l>> \notin out'[k]
      BY <2>2 DEF PostedInv
    <3>1. <<k, s, l>> \in net' => <<k, s, l>> \in net \/ (k = n /\ s = r /\ l = m)
      BY <2>4
    <3>2. CASE k = n /\ s = r /\ l = m
      BY <2>3, <3>2
    <3>3. CASE ~(k = n /\ s = r /\ l = m)
      BY <2>3, <3>1, <3>3 DEF PostedInv
    <3>4. QED
      BY <3>2, <3>3
  <2>8. RoundsInv' /\ ShareInv' /\ SkipsOnlyLastRound'
    BY <2>2 DEF RoundsInv, ShareInv, SkipsOnlyLastRound
  <2>9. PhaseInv'
    BY <2>1, <2>2 DEF PhaseInv, TypeOK
  <2>10. QED
    BY <1>0, <1>a, <2>6, <2>7, <2>8, <2>9
<1>9. ASSUME NEW n \in Nodes, NEW m \in Nodes, NEW r \in Rounds, KeepEarly(m, r, n)
      PROVE  IInv'
  <2>1. /\ <<m, r, n>> \in net
        /\ net' = net \ {<<m, r, n>>}
        /\ kept' = [kept EXCEPT ![n] = @ \cup {<<m, r>>}]
        /\ UNCHANGED <<run, result, rnd, pub, out, between, got, skipped, lost>>
    BY <1>9 DEF KeepEarly, Arrives
  <2>2. EnteredInv' /\ PostedInv'
    BY <2>1 DEF EnteredInv, PostedInv, TypeOK
  <2>3. RoundsInv' /\ ShareInv' /\ PhaseInv' /\ SkipsOnlyLastRound'
    BY <2>1 DEF RoundsInv, ShareInv, PhaseInv, SkipsOnlyLastRound
  <2>4. QED
    BY <1>0, <1>a, <2>2, <2>3
<1>10. ASSUME NEW n \in Nodes, NEW m \in Nodes, NEW r \in Rounds, Update(m, r, n)
       PROVE  IInv'
  <2>1. /\ <<m, r, n>> \in net
        /\ net' = net \ {<<m, r, n>>}
        /\ got' = [got EXCEPT ![n] = @ \cup kept[n] \cup {<<m, r>>}]
        /\ kept' = [kept EXCEPT ![n] = {}]
        /\ UNCHANGED <<run, result, rnd, pub, out, between, skipped, lost>>
    BY <1>10 DEF Update, Arrives
  <2>2. EnteredInv' /\ PostedInv'
    BY <2>1 DEF EnteredInv, PostedInv, TypeOK
  <2>3. RoundsInv' /\ ShareInv'
    BY <2>1 DEF RoundsInv, ShareInv, TypeOK
  <2>4. PhaseInv' /\ SkipsOnlyLastRound'
    BY <2>1 DEF PhaseInv, SkipsOnlyLastRound
  <2>5. QED
    BY <1>0, <1>a, <2>2, <2>3, <2>4
<1>11. ASSUME NEW n \in Nodes, NEW m \in Nodes, NEW r \in Rounds, DropLate(m, r, n)
       PROVE  IInv'
  BY <1>0, <1>a, <1>11 DEF DropLate, EnteredInv, PostedInv, RoundsInv, ShareInv, PhaseInv,
                     SkipsOnlyLastRound
<1>12. ASSUME NEW n \in Nodes, Close(n)
       PROVE  IInv'
  <2>1. PhaseInv'
    BY <1>12 DEF Close, PhaseInv, TypeOK
  <2>2. QED
    BY <1>0, <1>a, <1>12, <2>1 DEF Close, EnteredInv, PostedInv, RoundsInv, ShareInv, SkipsOnlyLastRound
<1>13. ASSUME NEW n \in Nodes, NEW m \in Nodes, DeleteKey(n, m)
       PROVE  IInv'
  <2>1. PhaseInv'
    BY <1>13 DEF DeleteKey, PhaseInv, TypeOK
  <2>2. QED
    BY <1>0, <1>a, <1>13, <2>1 DEF DeleteKey, EnteredInv, PostedInv, RoundsInv, ShareInv,
                             SkipsOnlyLastRound
<1>14. ASSUME NEW n \in Nodes, NEW r \in Rounds, NEW m \in Nodes, NoKey(n, r, m)
       PROVE  IInv'
  <2>1. PICK gone \in Rest(n, r, m) :
              /\ out' = [out EXCEPT ![n] = @ \ gone]
              /\ skipped' = skipped \cup {<<n, x[1], x[2]>> : x \in gone}
    BY <1>14 DEF NoKey
  <2>2. UNCHANGED <<run, result, rnd, pub, net, between, kept, got, lost>>
    BY <1>14 DEF NoKey
  <2>3. \A k \in Nodes : out'[k] \subseteq out[k]
    BY <2>1 DEF TypeOK
  <2>4. EnteredInv' /\ PostedInv' /\ RoundsInv' /\ ShareInv'
    BY <2>2, <2>3 DEF EnteredInv, PostedInv, RoundsInv, ShareInv
  <2>5. PhaseInv'
    BY <2>1, <2>2 DEF PhaseInv, TypeOK
  <2>6. SkipsOnlyLastRound'
    <3>1. result[n] = "error" \/ r = R
      BY <1>14, SkipStep
    <3>2. \A x \in gone : x[1] = r
      BY <1>14, <2>1 DEF Rest, NoKey, IsNext
    <3>3. QED
      BY <2>1, <2>2, <3>1, <3>2 DEF SkipsOnlyLastRound
  <2>7. QED
    BY <1>0, <1>a, <2>4, <2>5, <2>6
<1>15. ASSUME NEW n \in Nodes, NEW r \in Rounds, NEW m \in Nodes, PushFails(n, r, m)
       PROVE  IInv'
  <2>1. /\ out' = [out EXCEPT ![n] = @ \ {<<r, m>>}]
        /\ UNCHANGED <<run, result, rnd, pub, net, between, kept, got, skipped>>
    BY <1>15 DEF PushFails
  <2>2. EnteredInv' /\ PostedInv' /\ RoundsInv' /\ ShareInv' /\ SkipsOnlyLastRound'
    BY <2>1 DEF EnteredInv, PostedInv, RoundsInv, ShareInv, SkipsOnlyLastRound, TypeOK
  <2>3. PhaseInv'
    BY <2>1 DEF PhaseInv, TypeOK
  <2>4. QED
    BY <1>0, <1>a, <2>2, <2>3
<1>16. ASSUME NEW n \in Nodes, NEW m \in Nodes, NEW r \in Rounds, Refuse(m, r, n)
       PROVE  IInv'
  <2>1. /\ net' = net \ {<<m, r, n>>}
        /\ got' = [got EXCEPT ![n] = @ \cup kept[n]]
        /\ kept' = [kept EXCEPT ![n] = {}]
        /\ UNCHANGED <<run, result, rnd, pub, out, between, skipped>>
    BY <1>16 DEF Refuse
  <2>2. EnteredInv' /\ PostedInv'
    BY <2>1 DEF EnteredInv, PostedInv, TypeOK
  <2>3. RoundsInv' /\ ShareInv'
    BY <2>1 DEF RoundsInv, ShareInv, TypeOK
  <2>4. PhaseInv' /\ SkipsOnlyLastRound'
    BY <2>1 DEF PhaseInv, SkipsOnlyLastRound
  <2>5. QED
    BY <1>0, <1>a, <2>2, <2>3, <2>4
<1>17. ASSUME NEW n \in Nodes, NEW m \in Nodes, NEW r \in Rounds,
              FindNoSession(m, r, n) \/ CacheEarly(m, r, n)
       PROVE  IInv'
  <2>1. /\ <<m, r, n>> \in net \cup between
        /\ net' \cup between' \subseteq net \cup between
        /\ \A k \in Nodes, l \in Nodes, q \in Rounds :
              <<k, q>> \in kept'[l] => <<k, q>> \in kept[l] \/ (k = m /\ q = r /\ l = n)
        /\ UNCHANGED <<run, result, rnd, pub, out, got, skipped, lost>>
    BY <1>17 DEF FindNoSession, CacheEarly, Arrives, TypeOK
  <2>2. EnteredInv' /\ PostedInv'
    <3>1. EnteredInv'
      BY <2>1 DEF EnteredInv
    <3>2. PostedInv'
      BY <2>1 DEF PostedInv
    <3>3. QED
      BY <3>1, <3>2
  <2>3. RoundsInv' /\ ShareInv' /\ PhaseInv' /\ SkipsOnlyLastRound'
    BY <2>1 DEF RoundsInv, ShareInv, PhaseInv, SkipsOnlyLastRound
  <2>4. QED
    BY <1>0, <1>a, <2>2, <2>3
<1>18. CASE UNCHANGED vars
  BY <1>0, <1>a, <1>18 DEF vars, EnteredInv, PostedInv, RoundsInv, ShareInv, PhaseInv,
                     SkipsOnlyLastRound
<1>19. QED
  BY <1>1, <1>2, <1>3, <1>4, <1>5, <1>6, <1>7, <1>8, <1>9, <1>10, <1>11, <1>12, <1>13,
     <1>14, <1>15, <1>16, <1>17, <1>18 DEF Next, Progress, Protocol, Sender, Deliver, CleanUp

\* The invariant holds throughout.
LEMMA Invariant == Spec => []IInv
<1>1. Init => IInv
  BY RAssumption
  DEF Init, IInv, TypeOK, SelfInv, EnteredInv, PostedInv, RoundsInv, ShareInv, PhaseInv,
      SkipsOnlyLastRound, Rounds
<1>2. IInv /\ [Next]_vars => IInv'
  BY InvStep
<1>3. QED
  BY <1>1, <1>2, PTL DEF Spec

\* The types; no node has a message to itself to post.
THEOREM TypeCorrect == Spec => []TypeOK
BY Invariant, PTL DEF IInv

\* A node saves a share only when every node has entered the last round, for any
\* number of nodes and rounds, whichever POSTs and runs fail.
THEOREM ShareNeedsEveryNodeCorrect == Spec => []ShareNeedsEveryNode
<1>1. IInv => ShareNeedsEveryNode
  BY ShareMeaning DEF IInv
<1>2. QED
  BY <1>1, Invariant, PTL

\* The race of clean-up and sender costs a node that has its share only messages of
\* the last round.
THEOREM SkipsOnlyLastRoundCorrect == Spec => []SkipsOnlyLastRound
BY Invariant, PTL DEF IInv

\* A message that is stranded, given up, refused, or not pushed though the coordinator
\* said OK leaves everybody without a result, for any number of nodes and rounds.
THEOREM LostMessageNoResultCorrect == Spec => []LostMessageNoResult
<1>1. IInv => LostMessageNoResult
  <2> SUFFICES ASSUME IInv, NEW x \in lost \cup skipped \cup stranded, x[2] < R,
                      <<x[1], x[2]>> \notin got[x[3]], NEW n \in Nodes, result[n] = "share"
               PROVE  FALSE
    BY DEF LostMessageNoResult
  <2>1. x[1] \in Nodes /\ x[2] \in Rounds /\ x[3] \in Nodes /\ x[1] # x[3]
    BY DEF IInv, TypeOK, SelfInv
  <2>2. rnd[x[3]] = R
    BY <2>1, ShareMeaning DEF IInv, ShareNeedsEveryNode
  <2>3. x[1] \in Peers(x[3])
    BY <2>1 DEF Peers
  <2>4. QED
    BY <2>1, <2>2, <2>3 DEF IInv, RoundsInv
<1>2. QED
  BY <1>1, Invariant, PTL

-----------------------------------------------------------------------------
(* Nobody waits for ever for a message that only a further one replays.    *)

\* What is kept for a party was there before it started: messages of the first round, which
\* wait for the first message after that.  Of two nodes one at most has been kept waiting
\* by the other.
EarlyInv ==
    \A n \in Nodes :
        /\ rnd[n] = 0 => got[n] = {}
        /\ got[n] # {} => kept[n] = {}
        /\ kept[n] \subseteq Nodes \X {1}
        /\ run[n] = "party" => rnd[n] > 0
        /\ \A m \in Peers(n) : ~(<<m, 1>> \in kept[n] /\ <<n, 1>> \in kept[m])

\* Where the messages of the rounds that have been entered are.
ArrivedInv ==
    \A n \in Nodes, r \in Rounds : \A m \in Peers(n) :
        r <= rnd[m] =>
            \/ <<r, n>> \in out[m] \/ <<m, r, n>> \in net \cup between
            \/ <<m, r>> \in kept[n] \cup got[n]
            \/ <<m, r, n>> \in lost \cup skipped \cup stranded
            \/ run[n] = "closed"

LEMMA EarlyStep ==
    ASSUME IInv, EarlyInv, [Next]_vars
    PROVE  EarlyInv'
<1>1. /\ TypeOK /\ EnteredInv /\ RoundsInv /\ SelfInv /\ PhaseInv
      /\ rnd \in [Nodes -> 0 .. R] /\ R \in Nat
      /\ kept \in [Nodes -> SUBSET (Nodes \X Rounds)]
      /\ got \in [Nodes -> SUBSET (Nodes \X Rounds)]
      /\ run \in [Nodes -> {"off", "session", "party", "returned", "closed"}]
  BY RAssumption DEF IInv, TypeOK
<1>2. 1 \in Rounds /\ \A n \in Nodes : rnd[n] \in Nat
  BY <1>1, RAssumption DEF Rounds
<1>3. ASSUME NEW n \in Nodes, NEW r \in Rounds, Enter(n, r),
             run'[n] = "party" \/ run' = run, \A k \in Nodes \ {n} : run'[k] = run[k],
             UNCHANGED <<kept, got>>
      PROVE  EarlyInv'
  <2>1. r \in Nat /\ r > 0
    BY <1>1 DEF Rounds
  <2>2. \A k \in Nodes : rnd'[k] = IF k = n THEN r ELSE rnd[k]
    BY <1>1, <1>3 DEF Enter
  <2>3. \A k \in Nodes : (rnd'[k] = 0 => rnd[k] = 0) /\ (run'[k] = "party" => rnd'[k] > 0)
    <3> SUFFICES ASSUME NEW k \in Nodes
                 PROVE  (rnd'[k] = 0 => rnd[k] = 0) /\ (run'[k] = "party" => rnd'[k] > 0)
      OBVIOUS
    <3>1. CASE k = n
      <4>1. rnd'[k] = r
        BY <2>2, <3>1
      <4> QED
        BY <2>1, <4>1
    <3>2. CASE k # n
      <4>1. rnd'[k] = rnd[k] /\ run'[k] = run[k]
        BY <1>3, <2>2, <3>2
      <4> QED
        BY <4>1 DEF EarlyInv
    <3> QED
      BY <3>1, <3>2
  <2> QED
    BY <1>3, <2>3 DEF EarlyInv
<1>4. ASSUME NEW n \in Nodes, StartParty(n) \/ Advance(n)
      PROVE  EarlyInv'
  <2>1. CASE StartParty(n)
    BY <1>1, <1>2, <1>3, <2>1 DEF StartParty
  <2>2. CASE Advance(n)
    <3>1. rnd[n] + 1 \in Rounds
      BY <1>1, <2>2, RAssumption DEF Advance, RoundComplete, Rounds
    <3> QED
      BY <1>3, <2>2, <3>1 DEF Advance
  <2> QED
    BY <1>4, <2>1, <2>2
<1>5. ASSUME NEW n \in Nodes, StartNode(n) \/ Finish(n) \/ Fail(n) \/ CleanUp(n) \/ Sender(n)
      PROVE  EarlyInv'
  <2>1. /\ UNCHANGED <<rnd, kept, got>>
        /\ \A k \in Nodes : run'[k] = "party" => run[k] = "party"
    BY <1>1, <1>5
    DEF StartNode, Finish, Fail, CleanUp, Close, DeleteKey, Sender, Post, Skip, NoKey, PostFails,
        PushFails
  <2> QED
    BY <2>1 DEF EarlyInv
<1>6. ASSUME NEW n \in Nodes, NEW m \in Nodes, NEW r \in Rounds,
             <<m, r, n>> \in net \cup between, rnd[n] = 0,
             kept' = [kept EXCEPT ![n] = @ \cup {<<m, r>>}],
             UNCHANGED <<run, rnd, got>>
      PROVE  EarlyInv'
  <2>1. /\ <<m, r, n>> \in net \cup between /\ m # n /\ rnd[n] = 0
        /\ kept' = [kept EXCEPT ![n] = @ \cup {<<m, r>>}]
        /\ UNCHANGED <<run, rnd, got>>
    BY <1>1, <1>6 DEF SelfInv
  <2>2. r = 1
    <3>1. r \in Nat \ {0} /\ r <= rnd[m]
      <4>1. r <= rnd[m]
        BY <1>1, <2>1 DEF EnteredInv
      <4>2. r \in Nat \ {0}
        BY <1>1 DEF Rounds
      <4> QED
        BY <4>1, <4>2
    <3>2. CASE rnd[m] > 1
      <4>1. <<n, 1>> \in got[m]
        BY <1>1, <1>2, <2>1, <3>2 DEF RoundsInv, Peers
      <4>2. 1 <= rnd[n]
        BY <1>1, <1>2, <4>1 DEF EnteredInv
      <4> QED
        BY <2>1, <4>2
    <3> QED
      BY <1>2, <3>1, <3>2
  <2>3. \A k \in Nodes : <<n, 1>> \notin kept[k]
    <3>1. ~(1 <= rnd[n])
      BY <2>1
    <3> QED
      BY <1>1, <1>2, <3>1 DEF EnteredInv
  <2>4. \A k \in Nodes : kept'[k] = IF k = n THEN kept[n] \cup {<<m, 1>>} ELSE kept[k]
    <3>1. kept' = [kept EXCEPT ![n] = @ \cup {<<m, 1>>}]
      BY <2>1, <2>2
    <3> QED
      BY <1>1, <3>1
  <2>5. \A k \in Nodes : \A l \in Peers(k) : ~(<<l, 1>> \in kept'[k] /\ <<k, 1>> \in kept'[l])
    <3> SUFFICES ASSUME NEW k \in Nodes, NEW l \in Peers(k),
                        <<l, 1>> \in kept'[k], <<k, 1>> \in kept'[l]
                 PROVE  FALSE
      OBVIOUS
    <3>1. l \in Nodes /\ l # k
      BY DEF Peers
    <3>2. CASE k # n /\ l # n
      BY <2>4, <3>1, <3>2 DEF EarlyInv
    <3>3. CASE k = n \/ l = n
      BY <2>3, <2>4, <3>1, <3>3
    <3> QED
      BY <3>2, <3>3
  <2>6. \A k \in Nodes : kept'[k] \subseteq Nodes \X {1} /\ (got[k] # {} => kept'[k] = {})
    <3>1. got[n] = {} /\ <<m, 1>> \in Nodes \X {1}
      BY <2>1 DEF EarlyInv
    <3>2. \A k \in Nodes : kept[k] \subseteq Nodes \X {1} /\ (got[k] # {} => kept[k] = {})
      BY DEF EarlyInv
    <3> QED
      BY <2>4, <3>1, <3>2
  <2> QED
    BY <2>1, <2>5, <2>6 DEF EarlyInv
<1>7. ASSUME NEW n \in Nodes, rnd[n] > 0, UNCHANGED <<run, rnd>>,
             kept' = [kept EXCEPT ![n] = {}], \A k \in Nodes \ {n} : got'[k] = got[k]
      PROVE  EarlyInv'
  <2>1. \A k \in Nodes : kept'[k] = IF k = n THEN {} ELSE kept[k]
    BY <1>1, <1>7
  <2>2. \A k \in Nodes : \A l \in Peers(k) : ~(<<l, 1>> \in kept'[k] /\ <<k, 1>> \in kept'[l])
    BY <2>1 DEF EarlyInv, Peers
  <2>3. \A k \in Nodes : /\ rnd'[k] = 0 => got'[k] = {}
                         /\ got'[k] # {} => kept'[k] = {}
                         /\ kept'[k] \subseteq Nodes \X {1}
    <3>1. rnd[n] # 0 /\ rnd' = rnd
      BY <1>2, <1>7
    <3> QED
      BY <1>7, <2>1, <3>1 DEF EarlyInv
  <2>4. \A k \in Nodes : run'[k] = "party" => rnd'[k] > 0
    BY <1>7 DEF EarlyInv
  <2> QED
    BY <2>2, <2>3, <2>4 DEF EarlyInv
<1>8. ASSUME NEW n \in Nodes, Deliver(n)
      PROVE  EarlyInv'
  <2>1. PICK m \in Nodes, r \in Rounds :
            \/ FindNoSession(m, r, n) \/ CacheEarly(m, r, n) \/ KeepEarly(m, r, n)
            \/ Update(m, r, n) \/ Refuse(m, r, n) \/ DropLate(m, r, n)
    BY <1>8 DEF Deliver
  <2>2. CASE Update(m, r, n) \/ Refuse(m, r, n)
    BY <1>1, <1>7, <2>2 DEF Update, Refuse
  <2>3. CASE FindNoSession(m, r, n) \/ DropLate(m, r, n)
    BY <2>3 DEF FindNoSession, DropLate, EarlyInv
  <2>4. CASE KeepEarly(m, r, n)
    BY <1>1, <1>6, <2>4 DEF KeepEarly, Arrives, PhaseInv
  <2>5. CASE CacheEarly(m, r, n)
    <3>1. CASE run[n] = "off"
      BY <1>1, <1>6, <2>5, <3>1 DEF CacheEarly, PhaseInv
    <3>2. CASE run[n] # "off"
      BY <2>5, <3>2 DEF CacheEarly, EarlyInv
    <3> QED
      BY <3>1, <3>2
  <2> QED
    BY <2>1, <2>2, <2>3, <2>4, <2>5
<1>9. CASE UNCHANGED vars
  BY <1>9 DEF vars, EarlyInv
<1> QED
  BY <1>4, <1>5, <1>8, <1>9 DEF Next, Progress, Protocol

LEMMA ArrivedStep ==
    ASSUME IInv, ArrivedInv, [Next]_vars
    PROVE  ArrivedInv'
<1>1. /\ TypeOK /\ PhaseInv
      /\ rnd \in [Nodes -> 0 .. R] /\ R \in Nat
      /\ out \in [Nodes -> SUBSET (Rounds \X Nodes)]
      /\ kept \in [Nodes -> SUBSET (Nodes \X Rounds)]
      /\ got \in [Nodes -> SUBSET (Nodes \X Rounds)]
      /\ run \in [Nodes -> {"off", "session", "party", "returned", "closed"}]
  BY RAssumption DEF IInv, TypeOK
<1>2. ASSUME NEW n \in Nodes, NEW r \in Rounds, Enter(n, r), r = rnd[n] + 1,
             \A k \in Nodes : run[k] = "closed" => run'[k] = "closed",
             UNCHANGED <<net, between, kept, got, stranded, lost, skipped>>
      PROVE  ArrivedInv'
  <2> SUFFICES ASSUME NEW k \in Nodes, NEW q \in Rounds, NEW m \in Peers(k), q <= rnd'[m]
               PROVE  \/ <<q, k>> \in out'[m] \/ <<m, q, k>> \in net \cup between
                      \/ <<m, q>> \in kept[k] \cup got[k]
                      \/ <<m, q, k>> \in lost \cup skipped \cup stranded
                      \/ run'[k] = "closed"
    BY <1>2 DEF ArrivedInv
  <2>1. m \in Nodes /\ q \in Nat /\ rnd[m] \in Nat /\ rnd[n] \in Nat
    BY <1>1 DEF Peers, Rounds
  <2>2. out[m] \subseteq out'[m]
    BY <1>1, <1>2, <2>1 DEF Enter
  <2>3. CASE q <= rnd[m]
    BY <1>2, <2>2, <2>3 DEF ArrivedInv
  <2>4. CASE ~(q <= rnd[m])
    <3>1. m = n /\ q = r
      BY <1>1, <1>2, <2>1, <2>4 DEF Enter
    <3>2. <<q, k>> \in out'[m]
      BY <1>1, <1>2, <2>1, <3>1 DEF Enter, Peers
    <3> QED
      BY <3>2
  <2> QED
    BY <2>3, <2>4
<1>3. ASSUME NEW n \in Nodes, StartParty(n) \/ Advance(n)
      PROVE  ArrivedInv'
  <2>1. CASE StartParty(n)
    <3>1. rnd[n] = 0 /\ 1 \in Rounds
      BY <1>1, <2>1, RAssumption DEF StartParty, PhaseInv, Rounds
    <3> QED
      BY <1>1, <1>2, <2>1, <3>1 DEF StartParty
  <2>2. CASE Advance(n)
    <3>1. rnd[n] + 1 \in Rounds
      BY <1>1, <2>2, RAssumption DEF Advance, RoundComplete, Rounds
    <3> QED
      BY <1>2, <2>2, <3>1 DEF Advance
  <2> QED
    BY <1>3, <2>1, <2>2
<1>4. ASSUME NEW n \in Nodes, NEW gone,
             out' = [out EXCEPT ![n] = @ \ gone],
             \A x \in gone \cap out[n] : <<n, x[1], x[2]>> \in net' \cup lost' \cup skipped',
             net \subseteq net', lost \subseteq lost', skipped \subseteq skipped',
             UNCHANGED <<run, rnd, between, kept, got, stranded>>
      PROVE  ArrivedInv'
  <2> SUFFICES ASSUME NEW k \in Nodes, NEW q \in Rounds, NEW m \in Peers(k), q <= rnd[m]
               PROVE  \/ <<q, k>> \in out'[m] \/ <<m, q, k>> \in net' \cup between
                      \/ <<m, q>> \in kept[k] \cup got[k]
                      \/ <<m, q, k>> \in lost' \cup skipped' \cup stranded
                      \/ run[k] = "closed"
    BY <1>4 DEF ArrivedInv
  <2>1. m \in Nodes
    BY DEF Peers
  <2>2. CASE <<q, k>> \in out[m]
    <3>1. CASE m = n /\ <<q, k>> \in gone
      BY <1>4, <2>2, <3>1
    <3>2. CASE ~(m = n /\ <<q, k>> \in gone)
      BY <1>1, <1>4, <2>1, <2>2, <3>2
    <3> QED
      BY <3>1, <3>2
  <2>3. CASE <<q, k>> \notin out[m]
    BY <1>4, <2>3 DEF ArrivedInv
  <2> QED
    BY <2>2, <2>3
<1>5. ASSUME NEW n \in Nodes, Sender(n)
      PROVE  ArrivedInv'
  <2>1. PICK r \in Rounds, m \in Nodes :
            Post(n, r, m) \/ Skip(n, r, m) \/ NoKey(n, r, m) \/ PostFails(n, r, m) \/ PushFails(n, r, m)
    BY <1>5 DEF Sender
  <2>2. CASE Post(n, r, m) \/ Skip(n, r, m) \/ PushFails(n, r, m)
    <3> DEFINE gone == {<<r, m>>}
    <3>1. /\ out' = [out EXCEPT ![n] = @ \ gone]
          /\ \A x \in gone \cap out[n] : <<n, x[1], x[2]>> \in net' \cup lost' \cup skipped'
          /\ net \subseteq net' /\ lost \subseteq lost' /\ skipped \subseteq skipped'
          /\ UNCHANGED <<run, rnd, between, kept, got, stranded>>
      BY <2>2 DEF Post, Skip, PushFails
    <3> HIDE DEF gone
    <3> QED
      BY <1>4, <3>1
  <2>3. CASE NoKey(n, r, m)
    <3>1. PICK gone \in Rest(n, r, m) :
              /\ out' = [out EXCEPT ![n] = @ \ gone]
              /\ skipped' = skipped \cup {<<n, x[1], x[2]>> : x \in gone}
      BY <2>3 DEF NoKey
    <3>2. /\ \A x \in gone \cap out[n] : <<n, x[1], x[2]>> \in net' \cup lost' \cup skipped'
          /\ net \subseteq net' /\ lost \subseteq lost' /\ skipped \subseteq skipped'
          /\ UNCHANGED <<run, rnd, between, kept, got, stranded>>
      BY <2>3, <3>1 DEF NoKey
    <3> QED
      BY <1>4, <3>1, <3>2
  <2>4. CASE PostFails(n, r, m)
    <3>1. PICK gone \in Rest(n, r, m) :
              /\ out' = [out EXCEPT ![n] = @ \ gone]
              /\ lost' = lost \cup {<<n, x[1], x[2]>> : x \in gone}
      BY <2>4 DEF PostFails
    <3>2. /\ \A x \in gone \cap out[n] : <<n, x[1], x[2]>> \in net' \cup lost' \cup skipped'
          /\ net \subseteq net' /\ lost \subseteq lost' /\ skipped \subseteq skipped'
          /\ UNCHANGED <<run, rnd, between, kept, got, stranded>>
      BY <2>4, <3>1 DEF PostFails
    <3> QED
      BY <1>4, <3>1, <3>2
  <2> QED
    BY <2>1, <2>2, <2>3, <2>4
<1>6. ASSUME NEW n \in Nodes, NEW m \in Nodes, NEW r \in Rounds,
             \/ FindNoSession(m, r, n) \/ CacheEarly(m, r, n) \/ KeepEarly(m, r, n)
             \/ Update(m, r, n) \/ Refuse(m, r, n) \/ DropLate(m, r, n)
      PROVE  ArrivedInv'
  <2>1. /\ UNCHANGED <<run, rnd, out, skipped>>
        /\ (net \cup between) \ {<<m, r, n>>} \subseteq net' \cup between'
        /\ lost \subseteq lost' /\ stranded \subseteq stranded'
        /\ \/ <<m, r, n>> \in between' \/ <<m, r>> \in kept'[n] \cup got'[n]
           \/ <<m, r, n>> \in lost' \cup stranded' \/ run[n] = "closed"
        /\ \A k \in Nodes : kept[k] \cup got[k] \subseteq kept'[k] \cup got'[k]
    BY <1>1, <1>6 DEF FindNoSession, CacheEarly, KeepEarly, Update, Refuse, DropLate
  <2> SUFFICES ASSUME NEW k \in Nodes, NEW q \in Rounds, NEW l \in Peers(k), q <= rnd[l]
               PROVE  \/ <<q, k>> \in out[l] \/ <<l, q, k>> \in net' \cup between'
                      \/ <<l, q>> \in kept'[k] \cup got'[k]
                      \/ <<l, q, k>> \in lost' \cup skipped \cup stranded'
                      \/ run[k] = "closed"
    BY <2>1 DEF ArrivedInv
  <2> QED
    BY <2>1 DEF ArrivedInv
<1>7. ASSUME NEW n \in Nodes, StartNode(n) \/ Finish(n) \/ Fail(n) \/ CleanUp(n)
      PROVE  ArrivedInv'
  <2>1. /\ UNCHANGED <<rnd, out, net, between, kept, got, stranded, lost, skipped>>
        /\ \A k \in Nodes : run[k] = "closed" => run'[k] = "closed"
    BY <1>1, <1>7 DEF StartNode, Finish, Fail, CleanUp, Close, DeleteKey
  <2> QED
    BY <2>1 DEF ArrivedInv
<1>8. CASE UNCHANGED vars
  BY <1>8 DEF vars, ArrivedInv
<1> QED
  BY <1>3, <1>5, <1>6, <1>7, <1>8 DEF Next, Progress, Protocol, Deliver

LEMMA StallInvariant == Spec => [](IInv /\ EarlyInv /\ ArrivedInv)
<1>1. Init => IInv /\ EarlyInv /\ ArrivedInv
  <2>1. Init => IInv
    BY RAssumption
    DEF Init, IInv, TypeOK, SelfInv, EnteredInv, PostedInv, RoundsInv, ShareInv, PhaseInv,
        SkipsOnlyLastRound, Rounds
  <2>2. \A n \in Nodes : Peers(n) \subseteq Nodes
    BY DEF Peers
  <2>3. \A r \in Rounds : ~(r <= 0)
    BY RAssumption DEF Rounds
  <2> QED
    BY <2>1, <2>2, <2>3 DEF Init, EarlyInv, ArrivedInv
<1>2. IInv /\ EarlyInv /\ ArrivedInv /\ [Next]_vars => (IInv /\ EarlyInv /\ ArrivedInv)'
  BY InvStep, EarlyStep, ArrivedStep
<1> QED
  BY <1>1, <1>2, PTL DEF Spec

\* Is there a start, a message or the end of a round still to come?  What the actions of
\* parties, senders and deliveries ask for.
CanGoOn ==
    \/ net \cup between # {}
    \/ \E n \in Nodes :
        \/ run[n] \in {"off", "session"}
        \/ out[n] # {}
        \/ rnd[n] < R /\ RoundComplete(n)
        \/ run[n] = "party" /\ rnd[n] = R /\ RoundComplete(n)

\* As long as nothing has failed or been skipped, and no early message has missed the
\* bucket's emptying (node/mpc_keygen.go:231-259), the nodes do not come to rest before
\* each has its share: the rule that only a further message replays the early ones
\* (node/mpc_keygen.go:161-169) leaves nobody waiting.
NoStall ==
    lost \cup skipped \cup stranded = {} /\ (\A n \in Nodes : result[n] # "error") =>
        CanGoOn \/ \A n \in Nodes : result[n] = "share"

\* A set of numbers has a least one.
LEMMA Least ==
    ASSUME NEW S \in SUBSET Nat, S # {}
    PROVE  \E x \in S : \A y \in S : x <= y
<1>1. PICK x \in S : \A y \in S : ~ (<<y, x>> \in OpToRel(<, Nat))
  BY WFMin, NatLessThanWellFounded
<1>2. \A y \in S : ~ (y < x)
  BY <1>1 DEF OpToRel
<1> QED
  BY <1>2

\* Nodes that are least far lack a message that has arrived, so it is among those that
\* were kept, and they are in the first round; then all are, and keep each other waiting,
\* which two cannot.  With a single round one of two nodes would be left behind; the
\* library's protocols have several.
THEOREM NoStallCorrect ==
    ASSUME R >= 2
    PROVE  Spec => []NoStall
<1>1. IInv /\ EarlyInv /\ ArrivedInv => NoStall
  <2> SUFFICES ASSUME IInv, EarlyInv, ArrivedInv, lost \cup skipped \cup stranded = {}, ~CanGoOn,
                      \A n \in Nodes : result[n] # "error",
                      NEW u \in Nodes, result[u] # "share"
               PROVE  FALSE
    BY DEF NoStall
  <2>1. /\ TypeOK /\ PhaseInv /\ RoundsInv /\ ShareNeedsEveryNode /\ R \in Nat
        /\ rnd \in [Nodes -> 0 .. R] /\ 1 \in Rounds /\ 2 \in Rounds /\ R # 1
        /\ run \in [Nodes -> {"off", "session", "party", "returned", "closed"}]
        /\ result \in [Nodes -> {"none", "share", "error"}]
    BY ShareMeaning, RAssumption DEF IInv, TypeOK, Rounds
  <2>2. ASSUME NEW n \in Nodes, result[n] # "share"
        PROVE  run[n] = "party" /\ rnd[n] \in Rounds
    <3>1. result[n] = "none" /\ run[n] \notin {"off", "session"}
      BY <2>1, <2>2 DEF CanGoOn
    <3>2. run[n] = "party"
      BY <2>1, <3>1 DEF PhaseInv
    <3>3. rnd[n] > 0 /\ rnd[n] \in 0 .. R
      BY <2>1, <3>2 DEF EarlyInv
    <3> QED
      BY <2>1, <3>2, <3>3 DEF Rounds
  <2>3. ASSUME NEW n \in Nodes, result[n] # "share", NEW m \in Peers(n), NEW r \in Rounds,
               r <= rnd[m]
        PROVE  <<m, r>> \in kept[n] \cup got[n]
    <3>1. m \in Nodes /\ run[n] # "closed"
      BY <2>2, <2>3 DEF Peers
    <3>2. <<r, n>> \notin out[m] /\ <<m, r, n>> \notin net \cup between
      BY <3>1 DEF CanGoOn
    <3> QED
      BY <2>3, <3>1, <3>2 DEF ArrivedInv
  <2>4. PICK x \in Nodes : \A m \in Nodes : rnd[x] <= rnd[m]
    <3> DEFINE S == {rnd[m] : m \in Nodes}
    <3>1. S \in SUBSET Nat /\ S # {}
      BY <2>1
    <3>2. PICK s \in S : \A y \in S : s <= y
      BY <3>1, Least
    <3> QED
      BY <3>2
  <2>5. ASSUME NEW n \in Nodes, result[n] # "share", \A m \in Nodes : rnd[n] <= rnd[m]
        PROVE  /\ rnd[n] = 1 /\ got[n] = {}
               /\ \A m \in Peers(n) : rnd[m] = 1 /\ <<m, 1>> \in kept[n]
               /\ \E m \in Peers(n) : TRUE
    <3>1. rnd[n] \in Rounds /\ run[n] = "party" /\ rnd[n] <= R
      BY <2>1, <2>2, <2>5
    <3>2. ~RoundComplete(n)
      BY <2>1, <3>1 DEF CanGoOn
    <3>3. PICK o \in Peers(n) : <<o, rnd[n]>> \notin got[n]
      BY <3>1, <3>2 DEF RoundComplete
    <3>4. \A m \in Peers(n) : m \in Nodes /\ <<m, rnd[n]>> \in kept[n] \cup got[n]
      BY <2>3, <2>5, <3>1 DEF Peers
    <3>5. <<o, rnd[n]>> \in kept[n]
      BY <3>3, <3>4
    <3>6. rnd[n] = 1 /\ got[n] = {}
      BY <3>5 DEF EarlyInv
    <3>7. \A m \in Peers(n) : <<m, 1>> \in kept[n]
      BY <3>4, <3>6
    <3>8. ASSUME NEW m \in Peers(n), rnd[m] # 1
          PROVE  FALSE
      <4>1. m \in Nodes /\ 2 <= rnd[m]
        BY <2>1, <2>5, <3>6, <3>8 DEF Peers
      <4>2. <<m, 2>> \in kept[n]
        BY <2>1, <2>3, <2>5, <3>6, <4>1
      <4>3. kept[n] \subseteq Nodes \X {1}
        BY DEF EarlyInv
      <4>4. <<m, 2>> \notin Nodes \X {1}
        OBVIOUS
      <4> QED
        BY <4>2, <4>3, <4>4
    <3> QED
      BY <3>3, <3>6, <3>7, <3>8
  <2>6. result[x] # "share"
    <3>1. CASE result[x] = "share"
      <4>1. \A m \in Nodes : rnd[m] = R
        BY <2>1, <3>1 DEF ShareNeedsEveryNode
      <4>2. rnd[u] = 1
        BY <2>1, <2>5, <4>1
      <4> QED
        BY <2>1, <4>1, <4>2
    <3> QED
      BY <3>1
  <2>7. rnd[x] = 1 /\ \A m \in Peers(x) : rnd[m] = 1 /\ <<m, 1>> \in kept[x]
    BY <2>4, <2>5, <2>6
  <2>8. PICK y \in Peers(x) : TRUE
    BY <2>4, <2>5, <2>6
  <2>9. y \in Nodes /\ x \in Peers(y)
    BY DEF Peers
  <2>10. result[y] # "share"
    BY <2>1, <2>7, <2>9 DEF ShareNeedsEveryNode
  <2>11. <<x, 1>> \in kept[y]
    <3>1. \A m \in Nodes : rnd[y] <= rnd[m]
      BY <2>4, <2>7
    <3> QED
      BY <2>5, <2>9, <2>10, <3>1
  <2> QED
    BY <2>7, <2>11 DEF EarlyInv
<1> QED
  BY <1>1, StallInvariant, PTL
=============================================================================
