------------------------ MODULE NatsRaftVotes_proofs -----------------------
(***************************************************************************)
(* What steps of NatsRaft do to votes, and the invariant behind election   *)
(* safety, which NatsRaft_proofs proves.                                   *)
(*                                                                         *)
(* A vote supports a candidate while it is a response on the way or one    *)
(* that the candidate has counted.  Whoever gave it has the term and the   *)
(* candidate, or a later term, on disk (Voted), and supports no other      *)
(* candidate of that term; that stays true of a quorum for every leader    *)
(* elected, and two quorums share a node.                                  *)
(***************************************************************************)
EXTENDS NatsRaft, FiniteSetTheorems, TLAPS

Fields == {"role", "term", "vote", "leader", "disk", "log", "pterm", "base", "commit",
           "catchup", "initializing", "votes", "emptyVotes", "acks", "popped"}

IsMsg(m) ==
  /\ m.type = "voteRequest" =>
       m.candidate \in Node /\ m.to \in Node /\ m.to # m.candidate /\ m.term \in Nat
  /\ m.type = "voteResponse" =>
       m.peer \in Node /\ m.to \in Node /\ m.to # m.peer /\ m.term \in Nat
  /\ (m.type = "response" /\ ~m.success /\ m.inbox = 0) => m.term \in Nat

IsNode(n) ==
  /\ DOMAIN n = Fields
  /\ n.term \in Nat /\ n.disk.term \in Nat /\ n.disk.term <= n.term
  /\ n.vote = IF n.disk.term = n.term THEN n.disk.vote ELSE None
  /\ n.votes \subseteq Node /\ n.emptyVotes \subseteq Node
  /\ \A m \in n.popped : IsMsg(m)

\* k is a node that n may become without casting or counting a vote
Advance(n, k) ==
  /\ IsNode(k)
  /\ n.disk.term <= k.disk.term
  /\ n.disk.term = k.disk.term => n.disk.vote = k.disk.vote
  /\ k.role = "candidate" =>
       /\ n.role = "candidate" /\ n.term = k.term
       /\ n.votes = k.votes /\ n.emptyVotes = k.emptyVotes

\* Advancing is transitive
LEMMA AdvanceTransitive ==
  ASSUME NEW n, NEW k, NEW l, IsNode(n), Advance(n, k), Advance(k, l)
  PROVE  Advance(n, l)
  BY DEF Advance, IsNode

\* What leaves the term, the vote and the role alone
Keeps(n, k) ==
  /\ DOMAIN k = DOMAIN n /\ k.role = n.role /\ k.term = n.term /\ k.vote = n.vote
  /\ k.disk = n.disk /\ k.votes = n.votes /\ k.emptyVotes = n.emptyVotes
  /\ k.popped \subseteq n.popped

\* What keeps term, vote and role advances the node
LEMMA KeepsAdvances ==
  ASSUME NEW n, NEW k, IsNode(n), Keeps(n, k)
  PROVE  Advance(n, k)
  BY DEF Advance, IsNode, Keeps

\* Keeping is transitive
LEMMA KeepsTransitive ==
  ASSUME NEW n, NEW k, NEW l, Keeps(n, k), Keeps(k, l)
  PROVE  Keeps(n, l)
  BY DEF Keeps

\* Catch-up, WAL and commit bookkeeping (cancelCatchup, createCatchup,
\* truncateWAL, storeToWAL, applyCommit) write neither term nor vote
LEMMA HelpersKeep ==
  ASSUME NEW n, DOMAIN n = Fields
  PROVE  /\ Keeps(n, n)
         /\ Keeps(n, CancelCatchup(n))
         /\ \A m, x : Keeps(n, CreateCatchup(n, m, x))
         /\ \A t, x : Keeps(n, TruncateWAL(n, t, x))
         /\ \A m : Keeps(n, StoreToWAL(n, m))
         /\ \A x : Keeps(n, ApplyCommits(n, x))
         /\ \A m : Keeps(n, Install(n, m))
         /\ \A x : Keeps(n, [n EXCEPT !.initializing = x])
         /\ \A x : Keeps(n, [n EXCEPT !.base = x])
         /\ \A x : Keeps(n, [n EXCEPT !.acks = x])
  BY DEF Keeps, Fields, CancelCatchup, CreateCatchup, TruncateWAL, StoreToWAL, ApplyCommits,
         Install

\* ... and so does storing an entry or repairing the log in processAppendEntry
LEMMA ComposedKeep ==
  ASSUME NEW n, DOMAIN n = Fields, NEW m
  PROVE  /\ Keeps(n, Accept(n, m))
         /\ Keeps(n, Repair(n, m))
         /\ \A t, x : Keeps(n, Accept(TruncateWAL(n, t, x), m))
<1>1. ASSUME NEW k, DOMAIN k = Fields
      PROVE  Keeps(k, Accept(k, m))
  <2>1. \A x : Keeps(k, ApplyCommits(k, x))
    BY <1>1, HelpersKeep
  <2>2. CASE m.kind = "heartbeat"
    BY <2>1, <2>2 DEF Accept
  <2>3. CASE m.kind # "heartbeat"
    <3> DEFINE s == StoreToWAL(k, m)
               f == [s EXCEPT !.initializing = FALSE]
    <3>1. Keeps(k, s)
      BY <1>1, HelpersKeep
    <3>2. DOMAIN s = Fields
      BY <1>1, <3>1 DEF Keeps
    <3> HIDE DEF s
    <3>3. Keeps(s, f)
      BY <3>2, HelpersKeep
    <3>4. DOMAIN f = Fields
      BY <3>2, <3>3 DEF Keeps
    <3> HIDE DEF f
    <3>5. Keeps(f, ApplyCommits(f, m.commit))
      BY <3>4, HelpersKeep
    <3>6. Accept(k, m) = ApplyCommits(f, m.commit)
      BY <2>3 DEF Accept, f, s
    <3> QED
      BY <3>1, <3>3, <3>5, <3>6, KeepsTransitive
  <2> QED
    BY <2>2, <2>3
<1>2. Keeps(n, Repair(n, m))
  <2>1. \A t, x : Keeps(n, TruncateWAL(n, t, x))
    BY HelpersKeep
  <2>2. ASSUME NEW t, NEW x
        PROVE  Keeps(n, CancelCatchup(TruncateWAL(n, t, x)))
    <3> DEFINE c == TruncateWAL(n, t, x)
    <3>1. Keeps(n, c) /\ DOMAIN c = Fields
      BY <2>1 DEF Keeps
    <3> HIDE DEF c
    <3>2. Keeps(c, CancelCatchup(c))
      BY <3>1, HelpersKeep
    <3> QED
      BY <3>1, <3>2, KeepsTransitive DEF c
  <2>3. Keeps(n, n)
    BY HelpersKeep
  <2> QED
    BY <2>2, <2>3 DEF Repair
<1>3. ASSUME NEW t, NEW x
      PROVE  Keeps(n, Accept(TruncateWAL(n, t, x), m))
  <2> DEFINE c == TruncateWAL(n, t, x)
  <2>1. Keeps(n, c) /\ DOMAIN c = Fields
    BY HelpersKeep DEF Keeps
  <2> HIDE DEF c
  <2>2. Keeps(c, Accept(c, m))
    BY <1>1, <2>1
  <2> QED
    BY <2>1, <2>2, KeepsTransitive DEF c
<1> QED
  BY <1>1, <1>2, <1>3

\* The steps that write the term and the vote without voting
LEMMA StepDownAdvances ==
  ASSUME NEW n, IsNode(n), NEW leader
  PROVE  /\ Advance(n, StepDown(n, leader))
         /\ StepDown(n, leader).role = "follower"
         /\ StepDown(n, leader).term = n.term
         /\ StepDown(n, leader).popped = n.popped
  BY DEF Advance, IsNode, StepDown, WriteTermVote, Fields

\* ... also when a higher term has been seen just before
LEMMA NewTermAdvances ==
  ASSUME NEW n, IsNode(n), NEW t \in Nat, t > n.term, NEW leader
  PROVE  /\ Advance(n, StepDown(NewTerm(n, t), leader))
         /\ StepDown(NewTerm(n, t), leader).role = "follower"
         /\ StepDown(NewTerm(n, t), leader).term = t
         /\ StepDown(NewTerm(n, t), leader).popped = n.popped
  BY DEF Advance, IsNode, StepDown, WriteTermVote, NewTerm, Fields

\* processVoteRequest writes a higher term, with no vote, before it decides
LEMMA SeenRequestAdvances ==
  ASSUME NEW n, IsNode(n), NEW m, m.term \in Nat
  PROVE  /\ Advance(n, SeenRequest(n, m))
         /\ m.term <= SeenRequest(n, m).term
<1>1. CASE m.term > n.term
  <2> DEFINE d == IF n.role = "follower" THEN n ELSE StepDown(n, None)
  <2>1. Advance(n, d) /\ d.role = "follower" /\ d.term = n.term
    BY StepDownAdvances, HelpersKeep, KeepsAdvances DEF IsNode
  <2>2. IsNode(d)
    BY <2>1 DEF Advance
  <2> HIDE DEF d
  <2> DEFINE s == [WriteTermVote(NewTerm(CancelCatchup(d), m.term)) EXCEPT !.leader = None]
  <2>3. Advance(d, s) /\ s.term = m.term
    BY <1>1, <2>1, <2>2 DEF Advance, IsNode, WriteTermVote, NewTerm, CancelCatchup, Fields
  <2>4. s = SeenRequest(n, m)
    BY <1>1 DEF SeenRequest, d
  <2> HIDE DEF s
  <2>5. Advance(n, s)
    BY <2>1, <2>3, AdvanceTransitive
  <2> QED
    BY <2>3, <2>4, <2>5
<1>2. CASE ~(m.term > n.term)
  <2>1. SeenRequest(n, m) = n
    BY <1>2 DEF SeenRequest
  <2> QED
    BY <1>2, <2>1, HelpersKeep, KeepsAdvances DEF IsNode
<1> QED
  BY <1>1, <1>2

\* A candidate or leader that hears its own or a higher term steps down
LEMMA YieldAdvances ==
  ASSUME NEW n, IsNode(n), NEW m, Lterm(m) \in Nat
  PROVE  /\ Advance(n, Yield(n, m))
         /\ Yield(n, m).role = "follower" \/ Lterm(m) < Yield(n, m).term
<1>1. CASE n.role # "follower" /\ Lterm(m) > n.term
  BY <1>1, NewTermAdvances DEF Yield, IsNode
<1>2. CASE n.role # "follower" /\ Lterm(m) = n.term
  BY <1>2, StepDownAdvances DEF Yield, IsNode
<1>3. CASE n.role = "follower" \/ Lterm(m) < n.term
  <2>1. Yield(n, m) = n
    BY <1>3 DEF Yield, IsNode
  <2> QED
    BY <1>3, <2>1, HelpersKeep, KeepsAdvances DEF IsNode
<1> QED
  BY <1>1, <1>2, <1>3 DEF IsNode

\* A follower takes over the term of an append entry, with no vote
LEMMA TakeTermAdvances ==
  ASSUME NEW n, IsNode(n), NEW m, Lterm(m) \in Nat,
         n.role = "follower" \/ Lterm(m) < n.term
  PROVE  Advance(n, TakeTerm(n, m))
<1>1. CASE Lterm(m) <= n.term
  BY <1>1, HelpersKeep, KeepsAdvances DEF TakeTerm, IsNode
<1>2. CASE Lterm(m) > n.term
  BY <1>2 DEF TakeTerm, Advance, IsNode, WriteTermVote, NewTerm, Fields
<1> QED
  BY <1>1, <1>2 DEF IsNode

\* Following another leader writes the vote it has already
LEMMA FollowAdvances ==
  ASSUME NEW n, IsNode(n), NEW m
  PROVE  Advance(n, Follow(n, m))
<1>1. CASE IsNew(m) /\ n.leader # m.leader /\ n.role = "follower"
  BY <1>1 DEF Follow, Advance, IsNode, WriteTermVote, Fields
<1>2. CASE ~(IsNew(m) /\ n.leader # m.leader /\ n.role = "follower")
  BY <1>2, HelpersKeep, KeepsAdvances DEF Follow, IsNode
<1> QED
  BY <1>1, <1>2

\* initRaftNode reads the vote of the term on disk, and none in a later term
LEMMA RecoveredAdvances ==
  ASSUME NEW n, IsNode(n), NEW term \in Nat, n.disk.term <= term, NEW commit
  PROVE  Advance(n, Recovered(n, term, commit))
<1> DEFINE r == Recovered(n, term, commit)
<1>1. /\ DOMAIN r = Fields /\ r.role = "follower" /\ r.term = term /\ r.disk = n.disk
      /\ r.vote = IF term = n.disk.term THEN n.disk.vote ELSE None
      /\ r.votes = {} /\ r.emptyVotes = {} /\ r.popped = {}
  BY Zenon DEF Recovered, NewNode, Fields
<1> HIDE DEF r
<1> QED
  BY <1>1 DEF Advance, IsNode, r

-----------------------------------------------------------------------------
(* Messages                                                                *)

\* append entries on the way carry the term of a leader
IsEntry(m, from) == Lterm(m) \in Nat /\ m.from = from

Queues(q) ==
  /\ DOMAIN q = Pair
  /\ \A p \in Pair : \E S : q[p] \in Seq(S) /\ \A m \in S : IsEntry(m, p[1])

Granted(m) == m.type = "voteResponse" /\ m.granted

\* a message that is not a vote
Harmless(m) ==
  /\ IsMsg(m) /\ ~Granted(m)
  /\ m.type = "append" => Lterm(m) \in Nat

\* Appending to a queue of well-formed append entries gives another one
LEMMA QueueGrows ==
  ASSUME NEW q, NEW S, NEW f, q \in Seq(S), \A m \in S : IsEntry(m, f),
         NEW m, IsEntry(m, f)
  PROVE  \E T : Append(q, m) \in Seq(T) /\ \A e \in T : IsEntry(e, f)
<1> DEFINE T == S \cup {m}
<1>1. q \in Seq(T)
  OBVIOUS
<1>2. Append(q, m) \in Seq(T)
  BY <1>1
<1>3. \A e \in T : IsEntry(e, f)
  OBVIOUS
<1> QED
  BY <1>2, <1>3

\* Sending adds only what is sent
LEMMA SendKeeps ==
  ASSUME NEW sent, NEW rest, NEW queued, Send(sent, rest, queued), Queues(queued),
         \A m \in sent : m.type = "append" => Lterm(m) \in Nat
  PROVE  /\ \A m \in msgs' : m \in rest \/ m \in sent
         /\ Queues(entries')
<1> PICK kept \in SUBSET {m \in sent : Heard(m)} :
      LET other == rest \cup {m \in kept : m.type # "append"}
          new == {m \in kept : m.type = "append"}
          next == [p \in DOMAIN queued |->
                    IF \E m \in new : <<m.from, m.to>> = p
                    THEN Append(queued[p], CHOOSE m \in new : <<m.from, m.to>> = p)
                    ELSE queued[p]]
      IN
      /\ msgs' = other
      /\ IF new = {} THEN entries' = queued ELSE entries' = next
  BY DEF Send
<1> DEFINE new == {m \in kept : m.type = "append"}
           next == [p \in DOMAIN queued |->
                     IF \E m \in new : <<m.from, m.to>> = p
                     THEN Append(queued[p], CHOOSE m \in new : <<m.from, m.to>> = p)
                     ELSE queued[p]]
<1>1. \A m \in msgs' : m \in rest \/ m \in sent
  OBVIOUS
<1>2. entries' = queued \/ entries' = next
  OBVIOUS
<1>3. \A m \in new : Lterm(m) \in Nat
  OBVIOUS
<1> HIDE DEF new
<1>4. Queues(next)
  <2>1. DOMAIN next = Pair
    BY DEF Queues
  <2>2. ASSUME NEW p \in Pair
        PROVE  \E S : next[p] \in Seq(S) /\ \A m \in S : IsEntry(m, p[1])
    <3>1. PICK S : queued[p] \in Seq(S) /\ \A m \in S : IsEntry(m, p[1])
      BY Zenon DEF Queues
    <3>2. CASE \E m \in new : <<m.from, m.to>> = p
      <4> DEFINE c == CHOOSE m \in new : <<m.from, m.to>> = p
      <4>1. c \in new /\ <<c.from, c.to>> = p
        BY <3>2
      <4>2. next[p] = Append(queued[p], c)
        BY <3>2 DEF Queues
      <4>3. IsEntry(c, p[1])
        BY <1>3, <4>1 DEF IsEntry
      <4> HIDE DEF c, next
      <4>4. \E T : Append(queued[p], c) \in Seq(T) /\ \A e \in T : IsEntry(e, p[1])
        BY <3>1, <4>3, QueueGrows
      <4> QED
        BY <4>2, <4>4
    <3>3. CASE ~\E m \in new : <<m.from, m.to>> = p
      <4>1. next[p] = queued[p]
        BY <3>3 DEF Queues
      <4> QED
        BY <3>1, <4>1, Zenon
    <3> QED
      BY <3>2, <3>3, Zenon
  <2> HIDE DEF next
  <2> QED
    BY <2>1, <2>2 DEF Queues
<1> QED
  BY <1>1, <1>2, <1>4, Zenon

\* an append entry leaves the other messages as they are
LEMMA SendOnlyEntries ==
  ASSUME NEW sent, \A m \in sent : m.type = "append" /\ Lterm(m) \in Nat,
         Send(sent, msgs, entries), Queues(entries)
  PROVE  (\A m \in msgs' : m \in msgs) /\ Queues(entries')
<1>1. Queues(entries')
  BY SendKeeps
<1>2. \A m \in msgs' : m \in msgs
  BY DEF Send
<1> QED
  BY <1>1, <1>2

\* Taking the first append entry leaves a well-formed queue
LEMMA HeadOfQueue ==
  ASSUME NEW q, Queues(q), NEW p \in Pair, q[p] # <<>>
  PROVE  /\ IsEntry(Head(q[p]), p[1])
         /\ Queues([q EXCEPT ![p] = Tail(@)])
<1>1. PICK S : q[p] \in Seq(S) /\ \A m \in S : IsEntry(m, p[1])
  BY Zenon DEF Queues
<1>2. Head(q[p]) \in S /\ Tail(q[p]) \in Seq(S)
  BY <1>1
<1> QED
  BY <1>1, <1>2, Zenon DEF Queues

\* Append entries and heartbeats are not votes
LEMMA BroadcastHarmless ==
  ASSUME NEW i, NEW n, n.term \in Nat, NEW kind, NEW to
  PROVE  /\ Harmless(AppendEntry(i, n, kind, to))
         /\ \A m \in Broadcast(i, n, kind) : Harmless(m)
  BY DEF Harmless, IsMsg, Granted, Broadcast, AppendEntry, Lterm

\* Responses to append entries are not votes
LEMMA ResponseHarmless ==
  ASSUME NEW i, NEW n, NEW m, NEW success, NEW term, NEW inbox,
         success \/ inbox # 0 \/ term \in Nat
  PROVE  Harmless(Response(i, n, m, success, term, inbox))
  BY DEF Harmless, IsMsg, Granted, Response

-----------------------------------------------------------------------------
(* The invariant                                                           *)

IsServing(s) ==
  /\ DOMAIN s = {"from", "to", "inbox", "next", "last", "term"}
  /\ s.from \in Node /\ s.term \in Nat

Shape ==
  /\ DOMAIN node = Node
  /\ \A i \in Node :
       /\ IsNode(node[i])
       /\ node[i].role = "candidate" => i \in node[i].votes /\ i \notin node[i].emptyVotes
  /\ \A m \in msgs : IsMsg(m)
  /\ Queues(entries)
  /\ \A s \in serving : IsServing(s)

\* node j has voted for c in term t, or has moved on to a later term
Voted(j, t, c) ==
  \/ node[j].disk.term > t
  \/ node[j].disk.term = t /\ node[j].disk.vote = c

\* a vote of j for c in term t that counts, now or once it arrives
Supports(j, t, c) ==
  \/ \E m \in msgs : Granted(m) /\ m.peer = j /\ m.term = t /\ m.to = c
  \/ /\ node[c].role = "candidate" /\ node[c].term = t
     /\ j \in node[c].votes \cup node[c].emptyVotes

Elects(Q, t, c) ==
  /\ Q \subseteq Node /\ Cardinality(Q) >= Quorum
  /\ \A j \in Q : Voted(j, t, c) /\ \A d \in Node : Supports(j, t, d) => d = c

Ballots ==
  /\ \A j, c \in Node : \A t \in Nat : Supports(j, t, c) => Voted(j, t, c)
  /\ \A j, c, d \in Node : \A t \in Nat : Supports(j, t, c) /\ Supports(j, t, d) => c = d
  /\ \A e \in elected :
       /\ e \in Node \X Nat
       /\ \E Q : Elects(Q, e[2], e[1])
  /\ OneLeaderPerTerm

ElectionInv == Shape /\ Ballots

\* A step after which nobody has more support and nobody has taken back a vote
LEMMA NoNewSupport ==
  ASSUME Ballots, elected' = elected,
         \A j, c \in Node : \A t \in Nat : Supports(j, t, c)' => Supports(j, t, c),
         \A j, c \in Node : \A t \in Nat : Voted(j, t, c) => Voted(j, t, c)'
  PROVE  Ballots'
<1>1. \A j, c \in Node : \A t \in Nat : Supports(j, t, c)' => Voted(j, t, c)'
  BY DEF Ballots
<1>2. \A j, c, d \in Node : \A t \in Nat : Supports(j, t, c)' /\ Supports(j, t, d)' => c = d
  BY DEF Ballots
<1>3. ASSUME NEW e \in elected
      PROVE  e \in Node \X Nat /\ \E Q : Elects(Q, e[2], e[1])'
  <2>1. e \in Node \X Nat /\ e[1] \in Node /\ e[2] \in Nat
    BY DEF Ballots
  <2>2. PICK Q : Elects(Q, e[2], e[1])
    BY DEF Ballots
  <2>3. Elects(Q, e[2], e[1])'
    BY <2>1, <2>2 DEF Elects
  <2> QED
    BY <2>1, <2>3
<1>4. OneLeaderPerTerm'
  BY DEF Ballots, OneLeaderPerTerm
<1> QED
  BY <1>1, <1>2, <1>3, <1>4 DEF Ballots

\* A step in which node i casts its vote of term t for c
LEMMA NewSupport ==
  ASSUME Ballots, elected' = elected, NEW i \in Node, NEW c \in Node, NEW t \in Nat,
         node[i].disk.term \in Nat,
         \/ node[i].disk.term < t
         \/ node[i].disk.term = t /\ node[i].disk.vote \in {None, c},
         Voted(i, t, c)',
         \A j, d \in Node : \A u \in Nat :
           Supports(j, u, d)' => Supports(j, u, d) \/ (j = i /\ u = t /\ d = c),
         \A j, d \in Node : \A u \in Nat : Voted(j, u, d) => Voted(j, u, d)'
  PROVE  Ballots'
<1>0. ASSUME NEW d \in Node, Voted(i, t, d)
      PROVE  d = c
  BY <1>0, RaftAssumption DEF Voted
<1>1. \A j, d \in Node : \A u \in Nat : Supports(j, u, d)' => Voted(j, u, d)'
  BY DEF Ballots
<1>2. ASSUME NEW j \in Node, NEW b \in Node, NEW d \in Node, NEW u \in Nat,
             Supports(j, u, b)', Supports(j, u, d)'
      PROVE  b = d
  <2>1. CASE j = i /\ u = t
    <3>1. ASSUME NEW a \in Node, Supports(j, u, a)'
          PROVE  a = c
      BY <2>1, <3>1, <1>0 DEF Ballots
    <3> QED
      BY <1>2, <3>1
  <2>2. CASE ~(j = i /\ u = t)
    <3>1. Supports(j, u, b) /\ Supports(j, u, d)
      BY <1>2, <2>2
    <3> QED
      BY <3>1 DEF Ballots
  <2> QED
    BY <2>1, <2>2
<1>3. ASSUME NEW e \in elected
      PROVE  e \in Node \X Nat /\ \E Q : Elects(Q, e[2], e[1])'
  <2>1. e \in Node \X Nat /\ e[1] \in Node /\ e[2] \in Nat
    BY DEF Ballots
  <2>2. PICK Q : Elects(Q, e[2], e[1])
    BY DEF Ballots
  <2>3. ASSUME NEW j \in Q
        PROVE  Voted(j, e[2], e[1])' /\ \A d \in Node : Supports(j, e[2], d)' => d = e[1]
    <3>1. j \in Node /\ Voted(j, e[2], e[1])
      BY <2>2 DEF Elects
    <3>2. ASSUME NEW d \in Node, Supports(j, e[2], d)'
          PROVE  d = e[1]
      <4>1. CASE Supports(j, e[2], d)
        BY <2>2, <4>1 DEF Elects
      <4>2. CASE j = i /\ e[2] = t /\ d = c
        BY <2>1, <3>1, <4>2, <1>0
      <4> QED
        BY <2>1, <3>1, <3>2, <4>1, <4>2
    <3> QED
      BY <2>1, <3>1, <3>2
  <2>4. Elects(Q, e[2], e[1])'
    BY <2>2, <2>3 DEF Elects
  <2> QED
    BY <2>1, <2>4
<1>4. OneLeaderPerTerm'
  BY DEF Ballots, OneLeaderPerTerm
<1> QED
  BY <1>1, <1>2, <1>3, <1>4 DEF Ballots

\* A step of node i in which nobody votes
LEMMA Quiet ==
  ASSUME ElectionInv, NEW i \in Node, NEW k, Advance(node[i], k),
         node' = [node EXCEPT ![i] = k],
         \A m \in msgs' : m \in msgs \/ Harmless(m),
         Queues(entries'), \A s \in serving' : IsServing(s), elected' = elected
  PROVE  ElectionInv'
<1>1. /\ DOMAIN node' = Node /\ node'[i] = k
      /\ \A j \in Node \ {i} : node'[j] = node[j]
  BY DEF ElectionInv, Shape
<1>2. ASSUME NEW j \in Node
      PROVE  /\ IsNode(node[j])
             /\ IsNode(node'[j])
             /\ Advance(node[j], node'[j])
  <2>1. IsNode(node[j])
    BY DEF ElectionInv, Shape
  <2>2. CASE j = i
    BY <1>1, <2>1, <2>2 DEF Advance
  <2>3. CASE j # i
    <3>1. Keeps(node[j], node[j])
      BY <2>1, HelpersKeep DEF IsNode
    <3> QED
      BY <1>1, <2>1, <2>3, <3>1, KeepsAdvances
  <2> QED
    BY <2>2, <2>3
<1>3. ASSUME NEW j \in Node, node'[j].role = "candidate"
      PROVE  j \in node'[j].votes /\ j \notin node'[j].emptyVotes
  BY <1>2, <1>3 DEF Advance, ElectionInv, Shape
<1>4. Shape'
  BY <1>1, <1>2, <1>3 DEF ElectionInv, Shape, Harmless
<1>5. ASSUME NEW j \in Node, NEW c \in Node, NEW t \in Nat, Supports(j, t, c)'
      PROVE  Supports(j, t, c)
  BY <1>2, <1>5, SMTT(60) DEF Supports, Advance, Harmless
<1>6. ASSUME NEW j \in Node, NEW c \in Node, NEW t \in Nat, Voted(j, t, c)
      PROVE  Voted(j, t, c)'
  BY <1>2, <1>6 DEF Voted, Advance, IsNode
<1>7. Ballots'
  BY <1>5, <1>6, NoNewSupport DEF ElectionInv
<1> QED
  BY <1>4, <1>7 DEF ElectionInv

\* The same for a step that handles messages and answers them
LEMMA QuietStep ==
  ASSUME ElectionInv, NEW i \in Node, NEW k, Advance(node[i], k),
         NEW done, NEW sent, Step(i, k, done, sent), \A m \in sent : Harmless(m),
         \A s \in serving' : IsServing(s), elected' = elected
  PROVE  ElectionInv'
<1>1. node' = [node EXCEPT ![i] = k] /\ Send(sent, msgs \ done, entries)
  BY DEF Step, Become
<1>2. Queues(entries) /\ \A m \in sent : m.type = "append" => Lterm(m) \in Nat
  BY DEF ElectionInv, Shape, Harmless
<1>3. (\A m \in msgs' : m \in msgs \ done \/ m \in sent) /\ Queues(entries')
  BY <1>1, <1>2, SendKeeps
<1> QED
  BY <1>1, <1>3, Quiet, Zenon

\* The same for a step that handles an append entry
LEMMA QuietEntryStep ==
  ASSUME ElectionInv, NEW i \in Node, NEW k, Advance(node[i], k), NEW f \in Others(i),
         entries[<<f, i>>] # <<>>,
         NEW sent, EntryStep(i, k, f, sent), \A m \in sent : Harmless(m),
         serving' = serving, elected' = elected
  PROVE  ElectionInv'
<1> DEFINE rest == [entries EXCEPT ![<<f, i>>] = Tail(@)]
<1>1. node' = [node EXCEPT ![i] = k] /\ Send(sent, msgs, rest)
  BY DEF EntryStep, Become
<1>2. <<f, i>> \in Pair
  BY DEF Pair, Others
<1>3. Queues(rest) /\ \A m \in sent : m.type = "append" => Lterm(m) \in Nat
  BY <1>2, HeadOfQueue DEF ElectionInv, Shape, Harmless
<1> HIDE DEF rest
<1>4. (\A m \in msgs' : m \in msgs \/ m \in sent) /\ Queues(entries')
  BY <1>1, <1>3, SendKeeps
<1>5. \A s \in serving' : IsServing(s)
  BY DEF ElectionInv, Shape
<1> QED
  BY <1>1, <1>4, <1>5, Quiet, ZenonT(60)
=============================================================================
