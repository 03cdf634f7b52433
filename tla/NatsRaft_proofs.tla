-------------------------- MODULE NatsRaft_proofs --------------------------
(***************************************************************************)
(* Election safety of NatsRaft for any number of nodes, terms, messages,   *)
(* restarts, snapshots and catch-ups: no two nodes become leader in one    *)
(* term.  Every action preserves ElectionInv of NatsRaftVotes_proofs.      *)
(***************************************************************************)
EXTENDS NatsRaftVotes_proofs

-----------------------------------------------------------------------------
(* The actions                                                             *)

\* What ElectionInv says of a node
LEMMA NodesAreNodes ==
  ASSUME ElectionInv, NEW i \in Node
  PROVE  IsNode(node[i]) /\ DOMAIN node[i] = Fields /\ node[i].term \in Nat
  BY DEF ElectionInv, Shape, IsNode

\* switchToCandidate and requestVote: the node votes for itself in a new term
LEMMA CampaignSafe ==
  ASSUME ElectionInv, NEW i \in Node, SwitchToCandidate(i)
  PROVE  ElectionInv'
<1> PICK n : n = node[i]
  OBVIOUS
<1> DEFINE t == n.term + 1
           c == WriteTermVote([NewTerm(n, t) EXCEPT
                  !.role = "candidate", !.vote = i, !.leader = None,
                  !.votes = {i}, !.emptyVotes = {}])
           sent == {VoteRequest(i, c, p) : p \in Others(i)}
<1>1. IsNode(n) /\ t \in Nat /\ n.disk.term < t
  BY NodesAreNodes DEF IsNode
<1>2. Step(i, c, {}, sent) /\ serving' = serving /\ elected' = elected
  BY DEF SwitchToCandidate
<1>3. /\ DOMAIN c = Fields /\ c.role = "candidate" /\ c.term = t /\ c.vote = i
      /\ c.votes = {i} /\ c.emptyVotes = {} /\ c.popped = n.popped
      /\ c.disk = [term |-> t, vote |-> i]
  BY <1>1, Zenon DEF WriteTermVote, NewTerm, IsNode, Fields
<1> HIDE DEF c, t
<1>0. IsNode(c)
  BY <1>1, <1>3 DEF IsNode
<1>4. \A m \in sent : Harmless(m)
  BY <1>1, <1>3 DEF VoteRequest, Harmless, IsMsg, Granted, Others, IsNode
<1>5. node' = [node EXCEPT ![i] = c] /\ Send(sent, msgs \ {}, entries)
  BY <1>2 DEF Step, Become
<1>6. (\A m \in msgs' : m \in msgs \ {} \/ m \in sent) /\ Queues(entries')
  BY <1>4, <1>5, SendKeeps DEF ElectionInv, Shape, Harmless
<1>7. /\ DOMAIN node' = Node /\ node'[i] = c
      /\ \A j \in Node \ {i} : node'[j] = node[j]
  BY <1>5 DEF ElectionInv, Shape
<1>8. Shape'
  BY <1>0, <1>2, <1>3, <1>4, <1>6, <1>7 DEF ElectionInv, Shape, Harmless
<1>9. ASSUME NEW j \in Node, NEW d \in Node, NEW u \in Nat, Supports(j, u, d)'
      PROVE  Supports(j, u, d) \/ (j = i /\ u = t /\ d = i)
  BY <1>3, <1>4, <1>6, <1>7, <1>9 DEF Supports, Harmless
<1>10. ASSUME NEW j \in Node, NEW d \in Node, NEW u \in Nat, Voted(j, u, d)
       PROVE  Voted(j, u, d)'
  BY <1>1, <1>3, <1>7, <1>10 DEF Voted, IsNode
<1>11. Voted(i, t, i)'
  BY <1>3, <1>7 DEF Voted
<1>12. n.disk.term \in Nat
  BY <1>1 DEF IsNode
<1>13. Ballots'
  BY <1>1, <1>2, <1>9, <1>10, <1>11, <1>12, NewSupport DEF ElectionInv
<1> QED
  BY <1>8, <1>13 DEF ElectionInv

\* processVoteRequest: a granted vote is on disk before it is sent
LEMMA VoteRequestSafe ==
  ASSUME ElectionInv, NEW i \in Node, NEW m \in msgs, m.to = i, ProcessVoteRequest(i, m)
  PROVE  ElectionInv'
<1> DEFINE n == SeenRequest(node[i], m)
           voteOk == m.term = n.term /\ n.vote \in {None, m.candidate}
           granted == voteOk /\ UpToDate(n, m)
           answer == [type |-> "voteResponse", to |-> m.candidate, peer |-> i,
                      term |-> n.term, granted |-> granted,
                      empty |-> Pindex(n) = 0 /\ ~(voteOk /\ n.initializing)]
           k == IF granted THEN WriteTermVote([n EXCEPT !.vote = m.candidate]) ELSE n
<1>1. m.type = "voteRequest" /\ m.candidate \in Node /\ i # m.candidate /\ m.term \in Nat
  BY DEF ProcessVoteRequest, ElectionInv, Shape, IsMsg
<1>2. Step(i, k, {m}, {answer}) /\ serving' = serving /\ elected' = elected
  BY DEF ProcessVoteRequest
<1>3. IsNode(node[i]) /\ Advance(node[i], n) /\ IsNode(n)
  BY <1>1, NodesAreNodes, SeenRequestAdvances, SMTT(60) DEF Advance
<1>4. CASE ~granted
  <2>1. k = n
    BY <1>4
  <2>2. Harmless(answer)
    BY <1>1, <1>3, <1>4, Zenon DEF Harmless, IsMsg, Granted, IsNode
  <2>3. \A s \in serving' : IsServing(s)
    BY <1>2 DEF ElectionInv, Shape
  <2> HIDE DEF n, k, answer
  <2> QED
    BY <1>2, <1>3, <2>1, <2>2, <2>3, QuietStep
<1>5. CASE granted
  <2> DEFINE t == m.term
             c == m.candidate
  <2>1. k = WriteTermVote([n EXCEPT !.vote = c]) /\ n.term = t /\ n.vote \in {None, c}
    BY <1>5, SMTT(60)
  <2>2. /\ answer.type = "voteResponse" /\ answer.to = c /\ answer.peer = i /\ answer.term = t
    BY <1>5
  <2> HIDE DEF n, k, answer
  <2>3. /\ IsNode(k) /\ k.role = n.role /\ k.term = t /\ k.disk.term = t /\ k.disk.vote = c
        /\ k.votes = n.votes /\ k.emptyVotes = n.emptyVotes
    BY <1>3, <2>1 DEF WriteTermVote, IsNode, Fields
  <2>4. node' = [node EXCEPT ![i] = k] /\ Send({answer}, msgs \ {m}, entries)
    BY <1>2 DEF Step, Become
  <2>5. (\A x \in msgs' : x \in msgs \ {m} \/ x \in {answer}) /\ Queues(entries')
    BY <2>2, <2>4, SendKeeps DEF ElectionInv, Shape
  <2>6. /\ DOMAIN node' = Node /\ node'[i] = k
        /\ \A j \in Node \ {i} : node'[j] = node[j]
    BY <2>4 DEF ElectionInv, Shape
  <2>7. IsMsg(answer)
    BY <1>1, <2>2 DEF IsMsg
  <2>8. k.role = "candidate" =>
          /\ node[i].role = "candidate" /\ node[i].term = k.term
          /\ node[i].votes = k.votes /\ node[i].emptyVotes = k.emptyVotes
    BY <1>3, <2>1, <2>3 DEF Advance
  <2>9. Shape'
    BY <1>2, <2>3, <2>5, <2>6, <2>7, <2>8 DEF ElectionInv, Shape
  <2>10. ASSUME NEW j \in Node, NEW d \in Node, NEW u \in Nat, Supports(j, u, d)'
         PROVE  Supports(j, u, d) \/ (j = i /\ u = t /\ d = c)
    BY <2>2, <2>5, <2>6, <2>8, <2>10 DEF Supports
  <2>11. \/ node[i].disk.term < t
         \/ node[i].disk.term = t /\ node[i].disk.vote \in {None, c}
    BY <1>1, <1>3, <2>1 DEF Advance, IsNode
  <2>12. ASSUME NEW j \in Node, NEW d \in Node, NEW u \in Nat, Voted(j, u, d)
         PROVE  Voted(j, u, d)'
    BY <1>1, <1>3, <2>3, <2>6, <2>11, <2>12, RaftAssumption, SMTT(60) DEF Voted, IsNode
  <2>13. Voted(i, t, c)' /\ node[i].disk.term \in Nat
    BY <1>3, <2>3, <2>6 DEF Voted, IsNode
  <2>14. Ballots'
    BY <1>1, <1>2, <2>10, <2>11, <2>12, <2>13, NewSupport DEF ElectionInv
  <2> QED
    BY <2>9, <2>14 DEF ElectionInv
<1> QED
  BY <1>4, <1>5

\* The arithmetic of quorum sizes
LEMMA Sizes ==
  /\ Cardinality(Node) \in Nat /\ Quorum \in Nat
  /\ 2 * Quorum > Cardinality(Node)
  /\ Cardinality(Node) - Quorum + 2 >= Quorum
<1>1. Cardinality(Node) \in Nat
  BY RaftAssumption, FS_CardinalityType
<1> QED
  BY <1>1 DEF Quorum

\* Two quorums share a node
LEMMA QuorumsMeet ==
  ASSUME NEW P \in SUBSET Node, NEW Q \in SUBSET Node,
         Cardinality(P) >= Quorum, Cardinality(Q) >= Quorum
  PROVE  P \cap Q # {}
<1>1. IsFiniteSet(P) /\ IsFiniteSet(Q) /\ Cardinality(P) \in Nat /\ Cardinality(Q) \in Nat
  BY RaftAssumption, FS_Subset, FS_CardinalityType
<1>2. Cardinality(P \cup Q) <= Cardinality(Node)
  BY RaftAssumption, FS_Subset
<1>3. Cardinality(P \cup Q) = Cardinality(P) + Cardinality(Q) - Cardinality(P \cap Q)
  BY <1>1, FS_Union
<1>4. SUFFICES ASSUME P \cap Q = {}
               PROVE  FALSE
  OBVIOUS
<1>5. Cardinality(P \cap Q) = 0
  BY <1>4, FS_EmptySet
<1> QED
  BY <1>1, <1>2, <1>3, <1>5, Sizes

\* the votes that wonElection asks for come from a quorum
LEMMA WinnersHaveQuorum ==
  ASSUME NEW i \in Node, NEW V \in SUBSET Node, NEW E \in SUBSET Node, i \in V, i \notin E,
         \/ Cardinality(V) >= Quorum
         \/ Cardinality(V) + Cardinality(E) = Cardinality(Node)
  PROVE  Cardinality(V \cup E) >= Quorum
<1>1. /\ IsFiniteSet(V \cup E) /\ IsFiniteSet(E)
      /\ Cardinality(V) \in Nat /\ Cardinality(E) \in Nat /\ Cardinality(V \cup E) \in Nat
  BY RaftAssumption, FS_Subset, FS_CardinalityType
<1>2. Cardinality(V) <= Cardinality(V \cup E)
  BY <1>1, FS_Subset
<1>3. Cardinality(E \cup {i}) = Cardinality(E) + 1
  BY <1>1, FS_AddElement, Zenon
<1>4. E \cup {i} \subseteq V \cup E
  OBVIOUS
<1>5. Cardinality(E \cup {i}) <= Cardinality(V \cup E)
  BY <1>1, <1>4, FS_Subset
<1> QED
  BY <1>1, <1>2, <1>3, <1>5, Sizes

\* runAsCandidate: a vote that is counted was on its way, and a winner has the
\* votes of a quorum, so nobody else has won the term
LEMMA CountVoteSafe ==
  ASSUME ElectionInv, NEW i \in Node, NEW m \in msgs, m.to = i, CountVote(i, m)
  PROVE  ElectionInv'
<1> PICK n : n = node[i]
  OBVIOUS
<1> DEFINE c == IF m.empty THEN [n EXCEPT !.emptyVotes = @ \cup {m.peer}]
                           ELSE [n EXCEPT !.votes = @ \cup {m.peer}]
           won == \/ Cardinality(c.votes) >= Quorum
                  \/ Cardinality(c.votes) + Cardinality(c.emptyVotes) = Cardinality(Node)
           t == n.term
<1>1. /\ Granted(m) /\ n.role = "candidate" /\ m.term = t
      /\ m.peer \in Node /\ m.peer # i /\ t \in Nat
  BY DEF CountVote, Granted, ElectionInv, Shape, IsMsg
<1>2. /\ \/ /\ won
            /\ Step(i, Lead(i, c), {m}, Broadcast(i, c, "data"))
            /\ elected' = elected \cup {<<i, t>>}
         \/ /\ ~won
            /\ Step(i, c, {m}, {})
            /\ elected' = elected
      /\ serving' = serving
  BY DEF CountVote
<1>3. IsNode(n)
  BY NodesAreNodes
<1>4. /\ DOMAIN c = Fields /\ c.role = "candidate" /\ c.term = t /\ c.vote = n.vote
      /\ c.disk = n.disk /\ c.popped = n.popped
      /\ c.votes \cup c.emptyVotes = n.votes \cup n.emptyVotes \cup {m.peer}
      /\ c.votes \subseteq Node /\ c.emptyVotes \subseteq Node
      /\ i \in c.votes /\ i \notin c.emptyVotes
  BY <1>1, <1>3 DEF IsNode, Fields, ElectionInv, Shape
<1> HIDE DEF c
<1>5. IsNode(c)
  BY <1>3, <1>4 DEF IsNode
<1>6. ASSUME NEW j \in c.votes \cup c.emptyVotes
      PROVE  j \in Node /\ Supports(j, t, i)
  BY <1>1, <1>4, <1>6 DEF Supports
<1>7. CASE ~won
  <2>1. node' = [node EXCEPT ![i] = c] /\ Send({}, msgs \ {m}, entries) /\ elected' = elected
    BY <1>2, <1>7 DEF Step, Become
  <2>2. (\A x \in msgs' : x \in msgs) /\ Queues(entries')
    BY <2>1, SendKeeps DEF ElectionInv, Shape
  <2>3. /\ DOMAIN node' = Node /\ node'[i] = c
        /\ \A j \in Node \ {i} : node'[j] = node[j]
    BY <2>1 DEF ElectionInv, Shape
  <2>4. Shape'
    BY <1>2, <1>4, <1>5, <2>2, <2>3, SMTT(60) DEF ElectionInv, Shape
  <2>5. ASSUME NEW j \in Node, NEW d \in Node, NEW u \in Nat, Supports(j, u, d)'
        PROVE  Supports(j, u, d)
    BY <1>4, <1>6, <2>2, <2>3, <2>5 DEF Supports
  <2>6. ASSUME NEW j \in Node, NEW d \in Node, NEW u \in Nat, Voted(j, u, d)
        PROVE  Voted(j, u, d)'
    BY <1>4, <2>3, <2>6 DEF Voted
  <2> QED
    BY <2>1, <2>4, <2>5, <2>6, NoNewSupport, SMTT(60) DEF ElectionInv
<1>8. CASE won
  <2> DEFINE l == Lead(i, c)
             w == WriteTermVote([c EXCEPT !.role = "leader", !.leader = i,
                                          !.votes = {}, !.emptyVotes = {}])
             Q == c.votes \cup c.emptyVotes
  <2>1. /\ node' = [node EXCEPT ![i] = l]
        /\ Send(Broadcast(i, c, "data"), msgs \ {m}, entries)
        /\ elected' = elected \cup {<<i, t>>}
    BY <1>2, <1>8 DEF Step, Become
  <2>2. Advance(c, w) /\ w.role = "leader"
    BY <1>5 DEF Advance, IsNode, WriteTermVote, Fields
  <2>3. l = StoreToWAL(w, AppendEntry(i, w, "data", i))
    BY DEF Lead, Appended
  <2> HIDE DEF w
  <2>4. IsNode(w) /\ Keeps(w, l)
    BY <2>2, <2>3, HelpersKeep, SMTT(60) DEF Advance, IsNode
  <2> HIDE DEF l
  <2>5. IsNode(l) /\ l.role = "leader" /\ Advance(c, l)
    BY <1>5, <2>2, <2>4, KeepsAdvances, AdvanceTransitive, SMTT(60) DEF Keeps, Advance
  <2>6. /\ \A x \in msgs' : x \in msgs \/ Harmless(x)
        /\ Queues(entries')
    BY <1>1, <1>4, <2>1, BroadcastHarmless, SendKeeps DEF ElectionInv, Shape, Harmless
  <2>7. /\ DOMAIN node' = Node /\ node'[i] = l
        /\ \A j \in Node \ {i} : node'[j] = node[j]
    BY <2>1, SMTT(60) DEF ElectionInv, Shape
  <2>8. Shape'
    BY <1>2, <2>5, <2>6, <2>7, SMTT(60) DEF ElectionInv, Shape, Harmless
  <2>9. ASSUME NEW j \in Node, NEW d \in Node, NEW u \in Nat, Supports(j, u, d)'
        PROVE  Supports(j, u, d)
    BY <2>5, <2>6, <2>7, <2>9, SMTT(60) DEF Supports, Harmless
  <2>10. ASSUME NEW j \in Node, NEW d \in Node, NEW u \in Nat, Voted(j, u, d)
         PROVE  Voted(j, u, d)'
    BY <1>3, <1>4, <2>5, <2>7, <2>10 DEF Voted, Advance, IsNode
  <2>11. /\ \A j, d \in Node : \A u \in Nat : Supports(j, u, d)' => Voted(j, u, d)'
         /\ \A j, b, d \in Node : \A u \in Nat : Supports(j, u, b)' /\ Supports(j, u, d)' => b = d
    BY <2>9, <2>10, SMTT(60) DEF ElectionInv, Ballots
  <2>12. Q \in SUBSET Node /\ Cardinality(Q) >= Quorum
    BY <1>4, <1>8, WinnersHaveQuorum
  <2>13. \A j \in Q : Voted(j, t, i) /\ \A d \in Node : Supports(j, t, d) => d = i
    BY <1>1, <1>6 DEF ElectionInv, Ballots
  <2>14. Elects(Q, t, i)
    BY <2>12, <2>13 DEF Elects
  <2>15. ASSUME NEW e \in elected'
         PROVE  e \in Node \X Nat /\ \E P : Elects(P, e[2], e[1])'
    <3>1. e \in Node \X Nat /\ e[1] \in Node /\ e[2] \in Nat
      BY <1>1, <2>1 DEF ElectionInv, Ballots
    <3>2. PICK P : Elects(P, e[2], e[1])
      BY <2>1, <2>14 DEF ElectionInv, Ballots
    <3>3. Elects(P, e[2], e[1])'
      BY <2>9, <2>10, <3>1, <3>2, SMTT(60) DEF Elects
    <3> QED
      BY <3>1, <3>3
  <2>16. ASSUME NEW e \in elected, e[2] = t
         PROVE  e[1] = i
    <3>1. PICK P : Elects(P, t, e[1])
      BY <2>16 DEF ElectionInv, Ballots
    <3>2. PICK j \in P \cap Q : TRUE
      BY <2>12, <3>1, QuorumsMeet DEF Elects
    <3>3. Supports(j, t, i)
      BY <1>6
    <3> QED
      BY <3>1, <3>2, <3>3 DEF Elects
  <2>17. OneLeaderPerTerm'
    BY <2>1, <2>16 DEF OneLeaderPerTerm, ElectionInv, Ballots
  <2> QED
    BY <2>8, <2>11, <2>15, <2>17, SMTT(60) DEF ElectionInv, Ballots
<1> QED
  BY <1>7, <1>8

\* Actions of a leader, and those that change only the log
LEMMA LeaveLeadSafe ==
  ASSUME ElectionInv, NEW i \in Node, NEW n, Advance(node[i], n), NEW done, LeaveLead(i, n, done),
         serving' = serving, elected' = elected
  PROVE  ElectionInv'
<1> PICK batch \in SUBSET (ResponsesTo(i) \ done) :
           Step(i, [n EXCEPT !.popped = @ \cup batch], done \cup batch, {})
  BY Zenon DEF LeaveLead
<1> DEFINE k == [n EXCEPT !.popped = @ \cup batch]
<1>1. \A m \in batch : IsMsg(m)
  BY DEF ResponsesTo, ElectionInv, Shape
<1>2. Advance(node[i], k)
  BY <1>1 DEF Advance, IsNode, Fields
<1> HIDE DEF k
<1>3. \A s \in serving' : IsServing(s)
  BY DEF ElectionInv, Shape
<1> QED
  BY <1>2, <1>3, QuietStep DEF k

\* Proposals, heartbeats, snapshots, stepping down and stale votes elect nobody
LEMMA SimpleStepsSafe ==
  ASSUME ElectionInv, NEW i \in Node,
         \/ CatchupStalls(i) \/ Propose(i) \/ SendHeartbeat(i) \/ StepDownLeader(i)
         \/ InstallSnapshot(i)
         \/ \E m \in msgs : HigherTermVote(i, m) \/ IgnoreVote(i, m) \/ DrainResponse(i, m)
  PROVE  ElectionInv'
<1> PICK n : n = node[i]
  OBVIOUS
<1>1. IsNode(n) /\ DOMAIN n = Fields /\ n.term \in Nat
  BY NodesAreNodes
<1>2. serving' = serving /\ elected' = elected
  BY ZenonT(60) DEF CatchupStalls, Propose, SendHeartbeat, StepDownLeader, InstallSnapshot,
         HigherTermVote, IgnoreVote, DrainResponse
<1>3. \A s \in serving' : IsServing(s)
  BY <1>2 DEF ElectionInv, Shape
<1>4. ASSUME NEW k, Keeps(n, k), NEW done, NEW sent, Step(i, k, done, sent),
             \A m \in sent : Harmless(m)
      PROVE  ElectionInv'
  BY <1>1, <1>2, <1>3, <1>4, KeepsAdvances, QuietStep
<1>5. CASE CatchupStalls(i)
  BY <1>1, <1>4, <1>5, HelpersKeep, SMTT(60) DEF CatchupStalls
<1>6. CASE Propose(i)
  <2>1. Keeps(n, Appended(i, n))
    BY <1>1, HelpersKeep, SMTT(60) DEF Appended
  <2>2. \A m \in Broadcast(i, n, "data") : Harmless(m)
    BY <1>1, BroadcastHarmless
  <2> QED
    BY <1>4, <1>6, <2>1, <2>2 DEF Propose
<1>7. CASE SendHeartbeat(i)
  <2>1. \A m \in Broadcast(i, n, "heartbeat") : Harmless(m)
    BY <1>1, BroadcastHarmless, SMTT(60)
  <2> QED
    BY <1>1, <1>4, <1>7, <2>1, HelpersKeep, SMTT(60) DEF SendHeartbeat
<1>8. CASE StepDownLeader(i)
  BY <1>1, <1>2, <1>8, StepDownAdvances, LeaveLeadSafe DEF StepDownLeader
<1>9. CASE InstallSnapshot(i)
  <2>1. PICK x : Step(i, [n EXCEPT !.base = x], {}, {})
    BY <1>9, ZenonT(60) DEF InstallSnapshot
  <2>2. Keeps(n, [n EXCEPT !.base = x])
    BY <1>1, HelpersKeep
  <2> QED
    BY <1>4, <2>1, <2>2
<1>10. ASSUME NEW m \in msgs, HigherTermVote(i, m)
       PROVE  ElectionInv'
  <2>1. m.term \in Nat /\ m.term > n.term
    BY <1>10, Zenon DEF HigherTermVote, ElectionInv, Shape, IsMsg
  <2>2. Advance(n, StepDown(n, None)) /\ Advance(n, StepDown(NewTerm(n, m.term), None))
    BY <1>1, <2>1, StepDownAdvances, NewTermAdvances
  <2>3. ASSUME NEW k, Advance(n, k), Step(i, k, {m}, {})
        PROVE  ElectionInv'
    <3>1. \A x \in {} : Harmless(x)
      BY SMTT(60)
    <3> QED
      BY <1>2, <1>3, <2>3, <3>1, QuietStep
  <2>4. Step(i, StepDown(NewTerm(n, m.term), None), {m}, {}) \/ Step(i, StepDown(n, None), {m}, {})
    BY <1>10, Zenon DEF HigherTermVote
  <2> QED
    BY <2>2, <2>3, <2>4
<1>11. ASSUME NEW m \in msgs, IgnoreVote(i, m) \/ DrainResponse(i, m)
       PROVE  ElectionInv'
  <2>1. Step(i, n, {m}, {})
    BY <1>11 DEF IgnoreVote, DrainResponse
  <2> QED
    BY <1>1, <1>4, <2>1, HelpersKeep, SMTT(60)
<1> QED
  BY <1>5, <1>6, <1>7, <1>8, <1>9, <1>10, <1>11

\* processAppendEntryResponse, whichever way it goes, elects nobody
LEMMA ResponseSafe ==
  ASSUME ElectionInv, NEW i \in Node, NEW m \in ResponsesTo(i) \cup node[i].popped,
         ProcessAppendEntryResponse(i, m)
  PROVE  ElectionInv'
<1> PICK k : k = node[i]
  OBVIOUS
<1> DEFINE n == [k EXCEPT !.popped = @ \ {m}]
           done == {m} \cap msgs
<1>1. IsNode(k) /\ DOMAIN k = Fields
  BY NodesAreNodes
<1>2. IsMsg(m) /\ m.type = "response"
  BY <1>1 DEF ProcessAppendEntryResponse, ResponsesTo, ElectionInv, Shape, IsNode
<1>3. Keeps(k, n) /\ IsNode(n) /\ DOMAIN n = Fields /\ n.term \in Nat
  BY <1>1 DEF Keeps, IsNode, Fields
<1>4. Advance(k, n)
  BY <1>1, <1>3, KeepsAdvances
<1>5. elected' = elected
  BY SMTT(60) DEF ProcessAppendEntryResponse
<1>6. CASE m.success
  <2> DEFINE tracked == [n EXCEPT !.acks = @ \cup {[index |-> m.index, peer |-> m.peer]}]
             c == ApplyCommits(tracked, m.index)
  <2>1. Acknowledged(i, n, m, done) /\ serving' = serving
    BY <1>6 DEF ProcessAppendEntryResponse
  <2>2. \A s \in serving' : IsServing(s)
    BY <2>1 DEF ElectionInv, Shape
  <2> HIDE DEF n
  <2>3. \/ Step(i, n, done, {})
        \/ Step(i, tracked, done, {})
        \/ Step(i, c, done, Broadcast(i, c, "heartbeat"))
    BY <2>1 DEF Acknowledged
  <2>4. Keeps(n, tracked) /\ DOMAIN tracked = Fields
    BY <1>3, HelpersKeep DEF Keeps
  <2> HIDE DEF tracked
  <2>5. Keeps(tracked, c)
    BY <2>4, HelpersKeep
  <2>6. Advance(k, tracked) /\ Advance(k, c) /\ c.term \in Nat
    <3> HIDE DEF c
    <3>1. Keeps(k, tracked) /\ Keeps(k, c)
      BY <1>3, <2>4, <2>5, KeepsTransitive
    <3>2. Advance(k, tracked) /\ Advance(k, c)
      BY <1>1, <3>1, KeepsAdvances
    <3>3. c.term \in Nat
      BY <3>2 DEF Advance, IsNode
    <3> QED
      BY <3>2, <3>3
  <2> HIDE DEF c, done
  <2>7. \A x \in Broadcast(i, c, "heartbeat") : Harmless(x)
    BY <2>6, BroadcastHarmless, SMTT(60)
  <2> QED
    BY <1>4, <1>5, <2>2, <2>3, <2>6, <2>7, QuietStep
<1>7. CASE ~m.success /\ m.inbox # 0
  <2> DEFINE started == [from |-> i, to |-> m.peer, inbox |-> m.inbox,
                         next |-> IF m.index < n.base THEN n.base + 1 ELSE m.index + 1,
                         last |-> 0, term |-> 0]
  <2>1. CatchupFollower(i, n, m, done)
    BY <1>7 DEF ProcessAppendEntryResponse
  <2> HIDE DEF n, done
  <2>2. Harmless(SnapshotTo(i, n, m))
    BY <1>3 DEF SnapshotTo, AppendEntry, Harmless, IsMsg, Granted, Lterm
  <2>3. IsServing(started)
    BY SMTT(60) DEF IsServing
  <2> HIDE DEF started
  <2>4. CASE \E sent \in {{}, {SnapshotTo(i, n, m)}} :
               Step(i, n, done, sent) /\ serving' \in {serving, serving \cup {started}}
    <3>1. \A s \in serving' : IsServing(s)
      BY <2>3, <2>4 DEF ElectionInv, Shape
    <3> QED
      BY <1>4, <1>5, <2>2, <2>4, <3>1, QuietStep, SMTT(60)
  <2>5. CASE LeaveLead(i, StepDown(n, None), done) /\ serving' = serving
    <3>1. Advance(k, StepDown(n, None))
      BY <1>1, <1>3, <1>4, StepDownAdvances, AdvanceTransitive
    <3> QED
      BY <1>5, <2>5, <3>1, LeaveLeadSafe, SMTT(60)
  <2> QED
    BY <2>1, <2>4, <2>5, Zenon DEF CatchupFollower, started
<1>8. CASE ~m.success /\ m.inbox = 0
  <2>1. /\ serving' = serving
        /\ IF m.term > n.term
           THEN LeaveLead(i, StepDown(NewTerm(n, m.term), None), done)
           ELSE Step(i, n, done, {})
    BY <1>8 DEF ProcessAppendEntryResponse
  <2>2. m.term \in Nat
    BY <1>2, <1>8, SMTT(60) DEF IsMsg
  <2> HIDE DEF n, done
  <2>3. CASE m.term > n.term
    <3>1. Advance(k, StepDown(NewTerm(n, m.term), None))
      BY <1>1, <1>3, <1>4, <2>2, <2>3, NewTermAdvances, AdvanceTransitive, SMTT(60)
    <3> QED
      BY <1>5, <2>1, <2>3, <3>1, LeaveLeadSafe, SMTT(60)
  <2>4. CASE ~(m.term > n.term)
    <3>1. \A s \in serving' : IsServing(s)
      BY <2>1 DEF ElectionInv, Shape
    <3>2. Step(i, n, done, {}) /\ \A x \in {} : Harmless(x)
      BY <2>1, <2>4, SMTT(60)
    <3> QED
      BY <1>4, <1>5, <3>1, <3>2, QuietStep, SMTT(60)
  <2> QED
    BY <2>3, <2>4
<1> QED
  BY <1>6, <1>7, <1>8

\* processAppendEntry: each of its early returns and its repairs advance the node
LEMMA AppendEntrySafe ==
  ASSUME ElectionInv, NEW i \in Node, NEW f \in Others(i), entries[<<f, i>>] # <<>>,
         NEW m, m = Head(entries[<<f, i>>]), ProcessAppendEntry(i, m)
  PROVE  ElectionInv'
<1> PICK k : k = node[i]
  OBVIOUS
<1> DEFINE y == Yield(k, m)
           n == TakeTerm(y, m)
           c == IF CaughtUp(n) THEN CancelCatchup(n) ELSE n
           w == Follow(c, m)
<1>1. IsNode(k) /\ Lterm(m) \in Nat /\ m.from = f
  <2>1. <<f, i>> \in Pair /\ Queues(entries)
    BY DEF Pair, Others, ElectionInv, Shape
  <2>2. IsEntry(m, f)
    BY <2>1, HeadOfQueue, Zenon
  <2> QED
    BY <2>2, NodesAreNodes DEF IsEntry
<1>2. Advance(k, y) /\ (y.role = "follower" \/ Lterm(m) < y.term)
  BY <1>1, YieldAdvances
<1>3. IsNode(y)
  BY <1>2 DEF Advance
<1> HIDE DEF y
<1>4. Advance(y, n)
  BY <1>1, <1>2, <1>3, TakeTermAdvances, SMTT(60)
<1> HIDE DEF n
<1>5. Advance(k, n) /\ IsNode(n) /\ DOMAIN n = Fields
  <2>1. Advance(k, n)
    BY <1>1, <1>2, <1>4, AdvanceTransitive
  <2> QED
    BY <2>1 DEF Advance, IsNode
<1>6. Keeps(n, c)
  BY <1>5, HelpersKeep
<1> HIDE DEF c
<1>7. Advance(k, c) /\ IsNode(c)
  <2>1. Advance(n, c)
    BY <1>5, <1>6, KeepsAdvances
  <2>2. IsNode(c)
    BY <2>1 DEF Advance
  <2>3. Advance(k, c)
    BY <1>1, <1>5, <2>1, AdvanceTransitive, SMTT(60)
  <2> QED
    BY <2>2, <2>3
<1>8. Advance(k, w) /\ IsNode(w) /\ DOMAIN w = Fields
  <2>1. Advance(k, w)
    BY <1>1, <1>7, FollowAdvances, AdvanceTransitive, SMTT(60)
  <2> HIDE DEF w
  <2> QED
    BY <2>1, SMTT(60) DEF Advance, IsNode
<1> HIDE DEF w
<1>9. serving' = serving /\ elected' = elected
  BY ZenonT(60) DEF ProcessAppendEntry
<1>10. ASSUME NEW l, Advance(k, l), NEW sent, EntryStep(i, l, m.from, sent),
              \A x \in sent : Harmless(x)
       PROVE  ElectionInv'
  BY <1>1, <1>9, <1>10, QuietEntryStep, ZenonT(60)
<1>11. ASSUME NEW l, Advance(k, l), AskCatchup(i, l, m)
       PROVE  ElectionInv'
  <2> DEFINE a == CreateCatchup(l, m, left.inboxes)
             r == Response(i, l, m, FALSE, l.pterm, left.inboxes)
  <2>1. left.inboxes # 0 /\ EntryStep(i, a, m.from, {r})
    BY <1>11 DEF AskCatchup, Spend
  <2>2. IsNode(l) /\ Keeps(l, a)
    BY <1>11, HelpersKeep, SMTT(60) DEF Advance, IsNode
  <2>3. Advance(k, a)
    BY <1>1, <1>11, <2>2, KeepsAdvances, AdvanceTransitive, SMTT(60)
  <2>4. Harmless(r)
    BY <2>1, ResponseHarmless, ZenonT(60)
  <2> HIDE DEF a, r
  <2> QED
    BY <1>10, <2>1, <2>3, <2>4, SMTT(60)
<1>12. ASSUME NEW a, Keeps(w, a),
              EntryStep(i, a, m.from, IF IsNew(m) THEN {Response(i, a, m, TRUE, a.pterm, 0)} ELSE {})
       PROVE  ElectionInv'
  <2>1. Advance(k, a)
    BY <1>1, <1>8, <1>12, KeepsAdvances, AdvanceTransitive, SMTT(60)
  <2> DEFINE sent == IF IsNew(m) THEN {Response(i, a, m, TRUE, a.pterm, 0)} ELSE {}
  <2>2. \A x \in sent : Harmless(x)
    BY ResponseHarmless, ZenonT(60)
  <2>3. EntryStep(i, a, m.from, sent)
    BY <1>12
  <2> HIDE DEF sent
  <2> QED
    BY <1>10, <2>1, <2>2, <2>3
<1>13. ASSUME NEW a, Keeps(w, a), EntryStep(i, a, m.from, {})
       PROVE  ElectionInv'
  <2>1. Advance(k, a)
    BY <1>1, <1>8, <1>13, KeepsAdvances, AdvanceTransitive, SMTT(60)
  <2> QED
    BY <1>10, <1>13, <2>1
<1>14. CASE Consider(i, w, m)
  <2>1. CASE EntryStep(i, Accept(w, m), m.from,
               IF IsNew(m) THEN {Response(i, Accept(w, m), m, TRUE, Accept(w, m).pterm, 0)} ELSE {})
    BY <1>8, <1>12, <2>1, ComposedKeep, ZenonT(60)
  <2>2. CASE LET a == Accept(TruncateWAL(w, m.pterm, m.pindex), m) IN
             EntryStep(i, a, m.from, IF IsNew(m) THEN {Response(i, a, m, TRUE, a.pterm, 0)} ELSE {})
    BY <1>8, <1>12, <2>2, ComposedKeep, ZenonT(60)
  <2>3. CASE EntryStep(i, Repair(w, m), m.from, {})
    BY <1>8, <1>13, <2>3, ComposedKeep, Zenon
  <2>4. CASE EntryStep(i, IF m.kind = "snapshot" THEN Install(w, m) ELSE CancelCatchup(w), m.from, {})
    BY <1>8, <1>13, <2>4, HelpersKeep
  <2>5. CASE AskCatchup(i, w, m)
    BY <1>8, <1>11, <2>5, SMTT(60)
  <2> QED
    BY <1>14, <2>1, <2>2, <2>3, <2>4, <2>5, ZenonT(60) DEF Consider
<1>15. CASE EntryStep(i, y, m.from, {Response(i, y, m, FALSE, y.term, 0)})
  <2>1. Harmless(Response(i, y, m, FALSE, y.term, 0))
    BY <1>3, ResponseHarmless, ZenonT(60) DEF IsNode
  <2> QED
    BY <1>2, <1>10, <1>15, <2>1, Zenon
<1>16. CASE EntryStep(i, y, m.from, {})
  BY <1>2, <1>10, <1>16
<1>17. CASE EntryStep(i, n, m.from, {})
  BY <1>5, <1>10, <1>17
<1>18. CASE AskCatchup(i, n, m)
  BY <1>5, <1>11, <1>18
<1> QED
  BY <1>14, <1>15, <1>16, <1>17, <1>18, ZenonT(60) DEF ProcessAppendEntry, y, n, c, w

\* runCatchup only sends append entries
LEMMA CatchupStepsSafe ==
  ASSUME ElectionInv, NEW s \in serving, StartCatchup(s) \/ SendNext(s)
  PROVE  ElectionInv'
<1>1. node' = node /\ elected' = elected
  BY ZenonT(60) DEF StartCatchup, SendNext
<1>2. IsServing(s) /\ \A i \in Node : node[i].term \in Nat
  BY DEF ElectionInv, Shape, IsNode
<1>3. (\A m \in msgs' : m \in msgs) /\ Queues(entries')
  <2>1. CASE StartCatchup(s)
    BY <2>1 DEF StartCatchup, ElectionInv, Shape
  <2>2. CASE SendNext(s)
    <3> DEFINE n == node[s.from]
               e == n.log[s.next]
               m == [type |-> "append", kind |-> e.kind, from |-> s.from, to |-> s.to,
                     leader |-> e.leader, term |-> e.term, lterm |-> s.term, pterm |-> e.pterm,
                     pindex |-> s.next - 1, commit |-> e.commit, inbox |-> s.inbox,
                     prefix |-> <<>>]
    <3>1. s.term # 0 /\ Send(IF CanLoad(n, s.next) THEN {m} ELSE {}, msgs, entries)
      BY <2>2, ZenonT(60) DEF SendNext
    <3>2. Lterm(m) \in Nat
      BY <1>2, <3>1, ZenonT(60) DEF Lterm, IsServing
    <3>3. m.type = "append"
      OBVIOUS
    <3> HIDE DEF m
    <3> QED
      BY <3>1, <3>2, <3>3, SendOnlyEntries, SMTT(60) DEF ElectionInv, Shape
  <2> QED
    BY <2>1, <2>2
<1>4. \A r \in serving' : IsServing(r)
  <2>1. \A r \in serving : IsServing(r)
    BY DEF ElectionInv, Shape
  <2>2. CASE StartCatchup(s)
    <3> PICK t, x : t = node[s.from].term /\ x = Pindex(node[s.from])
      OBVIOUS
    <3>1. \A r \in serving' : r \in serving \/ r = [s EXCEPT !.term = t, !.last = x]
      BY <2>2 DEF StartCatchup
    <3>2. IsServing([s EXCEPT !.term = t, !.last = x])
      BY <1>2 DEF IsServing
    <3> QED
      BY <2>1, <3>1, <3>2
  <2>3. CASE SendNext(s)
    <3>1. \A r \in serving' : r \in serving \/ r = [s EXCEPT !.next = @ + 1]
      BY <2>3, Zenon DEF SendNext
    <3>2. IsServing([s EXCEPT !.next = @ + 1])
      BY <1>2 DEF IsServing
    <3> QED
      BY <2>1, <3>1, <3>2, SMTT(60)
  <2> QED
    BY <2>2, <2>3
<1>5. Shape'
  BY <1>1, <1>3, <1>4, SMTT(60) DEF ElectionInv, Shape
<1>6. Ballots'
  BY <1>1, <1>3, NoNewSupport DEF Supports, Voted, ElectionInv
<1> QED
  BY <1>5, <1>6, SMTT(60) DEF ElectionInv

\* initRaftNode recovers a vote that is at least the one on disk
LEMMA RestartSafe ==
  ASSUME ElectionInv, NEW i \in Node, Restart(i)
  PROVE  ElectionInv'
<1> PICK n : n = node[i]
  OBVIOUS
<1>1. IsNode(n)
  BY NodesAreNodes
<1>2. PICK term \in Term, commit \in StoredCommits(n) :
        /\ \A t \in StoredTerms(n) : t <= term
        /\ node' = [node EXCEPT ![i] = Recovered(n, term, commit)]
  BY ZenonT(60) DEF Restart, Become
<1>6. term \in Nat /\ n.disk.term <= term
  BY <1>2, RaftAssumption DEF Term, StoredTerms
<1>3. Advance(n, Recovered(n, term, commit))
  BY <1>1, <1>6, RecoveredAdvances
<1>4. Queues(entries')
  <2>1. /\ Queues(entries)
        /\ entries' = [p \in Pair |-> IF p[2] = i THEN <<>> ELSE entries[p]]
    BY DEF ElectionInv, Shape, Restart
  <2>2. ASSUME NEW p \in Pair
        PROVE  \E S : entries'[p] \in Seq(S) /\ \A m \in S : IsEntry(m, p[1])
    <3>1. CASE p[2] = i
      <4>1. entries'[p] \in Seq({})
        BY <2>1, <3>1
      <4> QED
        BY <4>1
    <3>2. CASE p[2] # i
      BY <2>1, <3>2, Zenon DEF Queues
    <3> QED
      BY <3>1, <3>2
  <2> QED
    BY <2>1, <2>2, SMTT(60) DEF Queues
<1>5. /\ \A m \in msgs' : m \in msgs
      /\ \A s \in serving' : IsServing(s)
      /\ elected' = elected
  BY DEF Restart, ElectionInv, Shape
<1> QED
  BY <1>2, <1>3, <1>4, <1>5, Quiet, Zenon

-----------------------------------------------------------------------------
(* Theorems                                                                *)

\* A new group has no votes and no leader
LEMMA InitSafe == Init => ElectionInv
<1> SUFFICES ASSUME Init
             PROVE  ElectionInv
  OBVIOUS
<1>1. DOMAIN node = Node /\ \A i \in Node : node[i] = NewNode
  BY DEF Init
<1>2. IsNode(NewNode) /\ NewNode.role = "follower"
  <2>1. /\ DOMAIN NewNode = Fields /\ NewNode.role = "follower" /\ NewNode.term = 0
        /\ NewNode.vote = None /\ NewNode.disk = [term |-> 0, vote |-> None]
        /\ NewNode.votes = {} /\ NewNode.emptyVotes = {} /\ NewNode.popped = {}
    BY Zenon DEF NewNode, Fields
  <2> QED
    BY <2>1, SMTT(60) DEF IsNode
<1>3. Queues(entries)
  <2>1. entries = [p \in Pair |-> <<>>]
    BY DEF Init
  <2>2. ASSUME NEW p \in Pair
        PROVE  \E S : entries[p] \in Seq(S) /\ \A m \in S : IsEntry(m, p[1])
    <3>1. entries[p] \in Seq({})
      BY <2>1
    <3> QED
      BY <3>1
  <2> QED
    BY <2>1, <2>2 DEF Queues
<1>4. msgs = {} /\ serving = {} /\ elected = {}
  BY DEF Init
<1>5. Shape
  BY <1>1, <1>2, <1>3, <1>4 DEF Shape
<1>6. \A j, c \in Node : \A t \in Nat : ~Supports(j, t, c)
  BY <1>1, <1>2, <1>4, SMTT(60) DEF Supports
<1> QED
  BY <1>4, <1>5, <1>6 DEF ElectionInv, Ballots, OneLeaderPerTerm

\* Every step preserves the invariant
LEMMA NextSafe == ElectionInv /\ [Next]_vars => ElectionInv'
<1> SUFFICES ASSUME ElectionInv, [Next]_vars
             PROVE  ElectionInv'
  BY SMTT(60)
<1>1. ASSUME NEW i \in Node, MainLoop(i)
      PROVE  ElectionInv'
  <2>1. CASE SwitchToCandidate(i)
    BY <2>1, CampaignSafe
  <2>2. CASE CatchupStalls(i) \/ Propose(i) \/ SendHeartbeat(i)
    BY <2>2, SimpleStepsSafe
  <2>3. ASSUME NEW m \in msgs, m.to = i, ProcessVoteRequest(i, m)
        PROVE  ElectionInv'
    BY <2>3, VoteRequestSafe
  <2>4. ASSUME NEW m \in msgs, m.to = i, CountVote(i, m)
        PROVE  ElectionInv'
    BY <2>4, CountVoteSafe
  <2>5. ASSUME NEW m \in msgs, HigherTermVote(i, m) \/ IgnoreVote(i, m) \/ DrainResponse(i, m)
        PROVE  ElectionInv'
    BY <2>5, SimpleStepsSafe
  <2>6. ASSUME NEW f \in Others(i), entries[<<f, i>>] # <<>>,
               ProcessAppendEntry(i, Head(entries[<<f, i>>]))
        PROVE  ElectionInv'
    BY <2>6, AppendEntrySafe
  <2> QED
    BY <1>1, <2>1, <2>2, <2>3, <2>4, <2>5, <2>6, ZenonT(60) DEF MainLoop
<1>2. ASSUME NEW i \in Node, StepDownLeader(i) \/ InstallSnapshot(i)
      PROVE  ElectionInv'
  BY <1>2, SimpleStepsSafe
<1>3. ASSUME NEW i \in Node, NEW m \in ResponsesTo(i) \cup node[i].popped,
             ProcessAppendEntryResponse(i, m)
      PROVE  ElectionInv'
  BY <1>3, ResponseSafe
<1>4. ASSUME NEW i \in Node, Restart(i)
      PROVE  ElectionInv'
  BY <1>4, RestartSafe
<1>5. ASSUME NEW s \in serving, StartCatchup(s) \/ SendNext(s)
      PROVE  ElectionInv'
  BY <1>5, CatchupStepsSafe
<1>6. CASE UNCHANGED vars
  <2>1. /\ node' = node /\ msgs' = msgs /\ entries' = entries /\ serving' = serving
        /\ elected' = elected
    BY <1>6 DEF vars
  <2>2. Shape'
    BY <2>1 DEF ElectionInv, Shape
  <2>3. Ballots'
    BY <2>1, NoNewSupport DEF Supports, Voted, ElectionInv
  <2> QED
    BY <2>2, <2>3 DEF ElectionInv
<1> QED
  BY <1>1, <1>2, <1>3, <1>4, <1>5, <1>6 DEF Next

(* Election safety: whatever is lost, reordered or restarted, switchToLeader *)
(* is reached by at most one node in a term.                                 *)
THEOREM ElectionSafety == Spec => []OneLeaderPerTerm
<1>1. ElectionInv => OneLeaderPerTerm
  BY DEF ElectionInv, Ballots
<1> QED
  BY <1>1, InitSafe, NextSafe, PTL DEF Spec

=============================================================================
