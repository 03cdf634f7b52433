------------------------------ MODULE NatsRaft ------------------------------
(***************************************************************************)
(* One Raft group of server/raft.go: elections, replication, catch-up by   *)
(* entries and by snapshot, compaction, and restarts of servers that keep  *)
(* their disk (a WAL in file storage).                                     *)
(*                                                                         *)
(* A node is a record, and a handler of the code is an action that turns   *)
(* it into another under n.Lock.  The handlers of a node run in one        *)
(* goroutine; the catch-up of a follower (runCatchup) runs in its own.     *)
(* Messages are lost.  Votes and responses are reordered; the append       *)
(* entries that one node sends another, new ones and those of a catch-up,  *)
(* keep their order, as on the route between two servers.  The log of the  *)
(* model keeps the entries a snapshot stands for: base is the index of the *)
(* last snapshot, up to which the WAL has been compacted.                  *)
(*                                                                         *)
(* The members are fixed and none is an observer or paused.  What the      *)
(* upper layer has processed is not kept: a node that has to wait for it   *)
(* before it campaigns or takes a snapshot does so later.  Writes do not   *)
(* fail, and no follower is so far behind that it pauses quorum.           *)
(***************************************************************************)
EXTENDS Integers, Sequences, FiniteSets

CONSTANTS
  Node,      \* the members of the group
  MaxTerm,   \* bound: terms
  Budgets,   \* bounds: how much of what may happen in a behaviour
  None       \* no node, no catch-up

\* campaigns, proposals, restarts, snapshots taken, catch-ups asked for; and
\* how many votes and responses, and append entries, are on the way at a time
Budget == [campaigns : 0..MaxTerm, proposals : Nat, restarts : Nat, snapshots : Nat,
           inboxes : Nat, msgs : Nat, entries : Nat]

ASSUME RaftAssumption ==
  /\ IsFiniteSet(Node)
  /\ Cardinality(Node) > 1
  /\ None \notin Node
  /\ MaxTerm \in Nat
  /\ Budgets \subseteq Budget

VARIABLES
  node,      \* the raft struct of each node
  serving,   \* runCatchup goroutines
  msgs,      \* votes and responses on the way
  entries,   \* append entries on the way, for each sender and receiver
  left,      \* the budget that is left
  elected,   \* history: who became leader in which term
  chosen     \* history: the longest sequence of entries committed so far

vars == <<node, serving, msgs, entries, left, elected, chosen>>

Quorum == Cardinality(Node) \div 2 + 1
Others(i) == Node \ {i}
Pair == {p \in Node \X Node : p[1] # p[2]}
Term == 0..MaxTerm
Lesser(a, b) == IF a < b THEN a ELSE b
Greater(a, b) == IF a < b THEN b ELSE a

\* a stored appendEntry; lterm is the term of the leader that caught the
\* node up with it, 0 if none did
Entry == [kind : {"data", "snapshot"}, leader : Node, term : Term, lterm : Term,
          pterm : Term, commit : Nat]

\* what is the same for every node that stored the entry
Content(e) == [kind |-> e.kind, leader |-> e.leader, term |-> e.term]

-----------------------------------------------------------------------------
(* The node                                                                *)

NewNode ==
  [role |-> "follower", term |-> 0, vote |-> None, leader |-> None,
   disk |-> [term |-> 0, vote |-> None],
   log |-> <<>>, pterm |-> 0, base |-> 0, commit |-> 0,
   catchup |-> None, initializing |-> TRUE,
   votes |-> {}, emptyVotes |-> {}, acks |-> {}, popped |-> {}]

Pindex(n) == Len(n.log)
CanLoad(n, x) == x > n.base /\ x <= Pindex(n)
SnapTerm(n) == IF n.base = 0 THEN 0 ELSE n.log[n.base].term

WriteTermVote(n) == [n EXCEPT !.disk = [term |-> n.term, vote |-> n.vote]]

\* a higher term has been seen
NewTerm(n, t) == [n EXCEPT !.term = t, !.vote = None]

StepDown(n, leader) ==
  WriteTermVote([n EXCEPT !.role = "follower", !.leader = leader,
                          !.votes = {}, !.emptyVotes = {}, !.acks = {}])

CancelCatchup(n) == [n EXCEPT !.catchup = None]

CreateCatchup(n, m, inbox) ==
  [n EXCEPT !.catchup = [cterm |-> m.pterm, cindex |-> m.pindex, inbox |-> inbox]]

TruncateWAL(n, t, x) ==
  [n EXCEPT !.log = SubSeq(n.log, 1, x), !.pterm = t,
            !.base = IF n.base > x THEN 0 ELSE n.base,
            !.commit = Lesser(n.commit, x)]

StoreToWAL(n, m) ==
  [n EXCEPT !.log = Append(n.log, [kind |-> m.kind, leader |-> m.leader, term |-> m.term,
                                   lterm |-> m.lterm, pterm |-> m.pterm, commit |-> m.commit]),
            !.pterm = m.term]

\* applyCommit for every index up to x, as far as the log goes
ApplyCommits(n, x) ==
  LET commit == Greater(n.commit, Lesser(x, Pindex(n))) IN
  [n EXCEPT !.commit = commit, !.acks = {a \in n.acks : a.index > commit}]

Spend(what) ==
  /\ left[what] > 0
  /\ left' = [left EXCEPT ![what] = @ - 1]

-----------------------------------------------------------------------------
(* Messages                                                                *)

\* an entry of a catch-up reaches the node while it is subscribed to the inbox
Heard(m) ==
  \/ m.type # "append"
  \/ m.inbox = 0
  \/ node[m.to].catchup # None /\ node[m.to].catchup.inbox = m.inbox

\* Some of what is sent is lost; a step sends a node at most one entry
Send(sent, rest, queued) ==
  \E kept \in SUBSET {m \in sent : Heard(m)} :
    LET other == rest \cup {m \in kept : m.type # "append"}
        new == {m \in kept : m.type = "append"}
        next == [p \in DOMAIN queued |->
                  IF \E m \in new : <<m.from, m.to>> = p
                  THEN Append(queued[p], CHOOSE m \in new : <<m.from, m.to>> = p)
                  ELSE queued[p]]
    IN
    /\ msgs' = other
    /\ Cardinality(other) <= left.msgs
    /\ IF new = {} THEN entries' = queued
       ELSE /\ entries' = next
            /\ Cardinality(UNION {{p} \X DOMAIN next[p] : p \in Pair}) <= left.entries

\* what the node hands to the upper layer
Delivered(n) == [x \in 1 .. n.commit |-> Content(n.log[x])]

Become(i, n) ==
  /\ node' = [node EXCEPT ![i] = n]
  /\ chosen' = IF n.commit > Len(chosen) THEN Delivered(n) ELSE chosen

\* Node i becomes n, having handled the messages of done, and sends
Step(i, n, done, sent) == Become(i, n) /\ Send(sent, msgs \ done, entries)

\* the same, having handled the next append entry from node f
EntryStep(i, n, f, sent) ==
  Become(i, n) /\ Send(sent, msgs, [entries EXCEPT ![<<f, i>>] = Tail(@)])

\* buildAppendEntry: a new entry, or none (a heartbeat)
AppendEntry(i, n, kind, to) ==
  [type |-> "append", kind |-> kind, from |-> i, to |-> to, leader |-> i,
   term |-> n.term, lterm |-> 0, pterm |-> n.pterm, pindex |-> Pindex(n), commit |-> n.commit,
   inbox |-> 0, prefix |-> <<>>]

Broadcast(i, n, kind) == {AppendEntry(i, n, kind, p) : p \in Others(i)}

\* sendAppendEntryLocked on a leader: store and send
Appended(i, n) == StoreToWAL(n, AppendEntry(i, n, "data", i))

Response(i, n, m, success, term, inbox) ==
  [type |-> "response", to |-> m.from, peer |-> i, term |-> term,
   index |-> Pindex(n), success |-> success, inbox |-> inbox]

-----------------------------------------------------------------------------
(* Elections                                                               *)

VoteRequest(i, n, to) ==
  [type |-> "voteRequest", to |-> to, term |-> n.term, lastTerm |-> n.pterm,
   lastIndex |-> Pindex(n), candidate |-> i]

\* The election timer of a follower or a candidate: switchToCandidate, then
\* requestVote and the vote for itself
SwitchToCandidate(i) ==
  LET n == node[i]
      c == WriteTermVote([NewTerm(n, n.term + 1) EXCEPT
             !.role = "candidate", !.vote = i, !.leader = None,
             !.votes = {i}, !.emptyVotes = {}])
  IN
  /\ n.role \in {"follower", "candidate"}
  /\ n.catchup = None
  /\ Spend("campaigns")
  /\ Step(i, c, {}, {VoteRequest(i, c, p) : p \in Others(i)})
  /\ UNCHANGED <<serving, elected>>

\* a stalled catch-up ends when the election timer fires
CatchupStalls(i) ==
  /\ node[i].role = "follower"
  /\ node[i].catchup # None
  /\ Step(i, CancelCatchup(node[i]), {}, {})
  /\ UNCHANGED <<serving, left, elected>>

\* mutant: a request of the node's own term erases its vote, too
MutSeenRequest(n, m) ==
  IF m.term >= n.term
  THEN LET d == IF n.role = "follower" THEN n ELSE StepDown(n, None) IN
       [WriteTermVote(NewTerm(CancelCatchup(d), m.term)) EXCEPT !.leader = None]
  ELSE n

\* the node once it has taken notice of the candidate's term
SeenRequest(n, m) ==
  IF m.term > n.term
  THEN LET d == IF n.role = "follower" THEN n ELSE StepDown(n, None) IN
       [WriteTermVote(NewTerm(CancelCatchup(d), m.term)) EXCEPT !.leader = None]
  ELSE n

\* mutant: the candidate's log is not looked at
MutUpToDateUnchecked(n, m) == TRUE

UpToDate(n, m) ==
  \/ m.lastTerm > n.pterm
  \/ m.lastTerm = n.pterm /\ m.lastIndex >= Pindex(n)

ProcessVoteRequest(i, m) ==
  LET n == SeenRequest(node[i], m)
      voteOk == m.term = n.term /\ n.vote \in {None, m.candidate}
      granted == voteOk /\ UpToDate(n, m)
      answer == [type |-> "voteResponse", to |-> m.candidate, peer |-> i,
                 term |-> n.term, granted |-> granted,
                 empty |-> Pindex(n) = 0 /\ ~(voteOk /\ n.initializing)]
  IN
  /\ m.type = "voteRequest"
  /\ Step(i, IF granted THEN WriteTermVote([n EXCEPT !.vote = m.candidate]) ELSE n,
          {m}, {answer})
  /\ UNCHANGED <<serving, left, elected>>

\* switchToLeader: the peer state is its first entry
Lead(i, n) ==
  Appended(i, WriteTermVote([n EXCEPT !.role = "leader", !.leader = i,
                                      !.votes = {}, !.emptyVotes = {}]))

\* a granted vote of the candidate's term, as runAsCandidate counts it
CountVote(i, m) ==
  LET n == node[i]
      c == IF m.empty THEN [n EXCEPT !.emptyVotes = @ \cup {m.peer}]
                      ELSE [n EXCEPT !.votes = @ \cup {m.peer}]
      won == \/ Cardinality(c.votes) >= Quorum
             \/ Cardinality(c.votes) + Cardinality(c.emptyVotes) = Cardinality(Node)
  IN
  /\ m.type = "voteResponse"
  /\ n.role = "candidate" /\ m.granted /\ m.term = n.term
  /\ \/ /\ won
        /\ Step(i, Lead(i, c), {m}, Broadcast(i, c, "data"))
        /\ elected' = elected \cup {<<i, n.term>>}
     \/ /\ ~won
        /\ Step(i, c, {m}, {})
        /\ UNCHANGED elected
  /\ UNCHANGED <<serving, left>>

\* a response with a higher term; a leader does not take the term over
HigherTermVote(i, m) ==
  LET n == node[i] IN
  /\ m.type = "voteResponse"
  /\ m.term > n.term
  /\ \/ /\ n.role = "candidate"
        /\ Step(i, StepDown(NewTerm(n, m.term), None), {m}, {})
     \/ /\ n.role = "leader"
        /\ Step(i, StepDown(n, None), {m}, {})
  /\ UNCHANGED <<serving, left, elected>>

\* any other vote response has no effect
IgnoreVote(i, m) ==
  /\ m.type = "voteResponse"
  /\ \/ node[i].role = "follower"
     \/ /\ m.term <= node[i].term
        /\ ~(node[i].role = "candidate" /\ m.granted /\ m.term = node[i].term)
  /\ Step(i, node[i], {m}, {})
  /\ UNCHANGED <<serving, left, elected>>

-----------------------------------------------------------------------------
(* Append entries                                                          *)

\* the term of the leader that sent m
Lterm(m) == IF m.lterm = 0 THEN m.term ELSE m.lterm

\* came by the append entry subscription, not by one made for a catch-up
IsNew(m) == m.inbox = 0

\* a leader or candidate gives way to the sender
Yield(n, m) ==
  IF n.role # "follower" /\ Lterm(m) >= n.term
  THEN StepDown(IF Lterm(m) > n.term THEN NewTerm(n, Lterm(m)) ELSE n, m.leader)
  ELSE n

OldCatchup(n, m) ==
  /\ ~IsNew(m)
  /\ m.lterm = 0 \/ m.pindex < Pindex(n)
  /\ n.catchup # None => n.catchup.inbox # m.inbox

Rejected(n, m) == Lterm(m) < n.term /\ (n.role = "leader" \/ IsNew(m))

Ignored(n, m) ==
  /\ ~Rejected(n, m)
  /\ OldCatchup(n, m) \/ (Lterm(m) < n.term /\ ~IsNew(m) /\ m.lterm # 0)

\* the term of a leader met in a catch-up is not written
TakeTerm(n, m) ==
  IF Lterm(m) <= n.term THEN n
  ELSE IF IsNew(m) THEN WriteTermVote(NewTerm(n, Lterm(m)))
  ELSE NewTerm(n, Lterm(m))

CaughtUp(n) ==
  n.catchup # None /\ n.pterm >= n.catchup.cterm /\ Pindex(n) >= n.catchup.cindex

Follow(n, m) ==
  IF IsNew(m) /\ n.leader # m.leader /\ n.role = "follower"
  THEN WriteTermVote([n EXCEPT !.leader = m.leader])
  ELSE n

\* mutant: only the index of the previous entry is compared
MutMatchesIndex(n, m) == m.pindex = Pindex(n)

Matches(n, m) == m.pterm = n.pterm /\ m.pindex = Pindex(n)

\* m continues the log after entries have been cut off
CutFits(n, m) ==
  /\ m.pindex >= n.commit
  /\ IF CanLoad(n, m.pindex) THEN n.log[m.pindex].term = m.pterm
     ELSE /\ m.pindex = n.base /\ n.base > 0 /\ SnapTerm(n) = m.pterm
          /\ m.pindex < Pindex(n)
          /\ ~(m.pterm = n.pterm /\ IsNew(m))

\* m conflicts with the log, which is cut back; m is not stored
Repair(n, m) ==
  LET x == m.pindex IN
  IF \/ x < n.commit
     \/ ~CanLoad(n, x) /\ m.pterm = n.pterm /\ IsNew(m)
     \/ CanLoad(n, x) /\ x - 1 < n.commit
  THEN n
  ELSE CancelCatchup(
         IF CanLoad(n, x) THEN TruncateWAL(n, n.log[x].pterm, x - 1)
         ELSE IF x = Pindex(n) THEN TruncateWAL(n, m.pterm, x)
         ELSE TruncateWAL(n, 0, 0))

\* the leader's snapshot becomes the node's own
Install(n, m) ==
  [n EXCEPT !.log = m.prefix, !.base = m.pindex, !.pterm = m.pterm,
            !.commit = m.pindex, !.initializing = FALSE]

\* m fits the log of n: store it, commit what the leader has committed
Accept(n, m) ==
  ApplyCommits(IF m.kind = "heartbeat" THEN n
               ELSE [StoreToWAL(n, m) EXCEPT !.initializing = FALSE], m.commit)

\* ask the leader to catch the node up
AskCatchup(i, n, m) ==
  /\ Spend("inboxes")
  /\ EntryStep(i, CreateCatchup(n, m, left.inboxes), m.from,
               {Response(i, n, m, FALSE, n.pterm, left.inboxes)})

\* processAppendEntry once m has not been rejected, ignored or waited out
Consider(i, n, m) ==
  \/ /\ Matches(n, m)
     /\ LET a == Accept(n, m) IN
        EntryStep(i, a, m.from, IF IsNew(m) THEN {Response(i, a, m, TRUE, a.pterm, 0)} ELSE {})
     /\ UNCHANGED left
  \/ /\ ~Matches(n, m) /\ m.pindex <= Pindex(n)
     /\ IF CutFits(n, m)
        THEN LET a == Accept(TruncateWAL(n, m.pterm, m.pindex), m) IN
             EntryStep(i, a, m.from, IF IsNew(m) THEN {Response(i, a, m, TRUE, a.pterm, 0)} ELSE {})
        ELSE EntryStep(i, Repair(n, m), m.from, {})
     /\ UNCHANGED left
  \/ /\ m.pindex > Pindex(n) /\ n.catchup # None
     /\ EntryStep(i, IF m.kind = "snapshot" THEN Install(n, m) ELSE CancelCatchup(n), m.from, {})
     /\ UNCHANGED left
  \/ /\ m.pindex > Pindex(n) /\ n.catchup = None
     /\ AskCatchup(i, n, m)

ProcessAppendEntry(i, m) ==
  LET y == Yield(node[i], m)
      n == TakeTerm(y, m)
      waits == n.catchup # None /\ ~CaughtUp(n) /\ IsNew(m)
  IN
  /\ \/ /\ Rejected(y, m)
        /\ EntryStep(i, y, m.from, {Response(i, y, m, FALSE, y.term, 0)})
        /\ UNCHANGED left
     \/ /\ Ignored(y, m)
        /\ EntryStep(i, y, m.from, {})
        /\ UNCHANGED left
     \/ /\ ~Rejected(y, m) /\ ~Ignored(y, m) /\ waits
        /\ \/ EntryStep(i, n, m.from, {}) /\ UNCHANGED left
           \/ AskCatchup(i, n, m)
     \/ /\ ~Rejected(y, m) /\ ~Ignored(y, m) /\ ~waits
        /\ Consider(i, Follow(IF CaughtUp(n) THEN CancelCatchup(n) ELSE n, m), m)
  /\ UNCHANGED <<serving, elected>>

-----------------------------------------------------------------------------
(* The leader                                                              *)

\* a proposal from the upper layer, or the entry of a leader transfer
Propose(i) ==
  LET n == node[i] IN
  /\ n.role = "leader"
  /\ Spend("proposals")
  /\ Step(i, Appended(i, n), {}, Broadcast(i, n, "data"))
  /\ UNCHANGED <<serving, elected>>

SendHeartbeat(i) ==
  /\ node[i].role = "leader"
  /\ Step(i, node[i], {}, Broadcast(i, node[i], "heartbeat"))
  /\ UNCHANGED <<serving, left, elected>>

ResponsesTo(i) == {m \in msgs : m.type = "response" /\ m.to = i}

\* A leader that steps down at a batch of responses finishes the batch
LeaveLead(i, n, done) ==
  \E batch \in SUBSET (ResponsesTo(i) \ done) :
    /\ node[i].role # "leader" => batch = {}
    /\ Step(i, [n EXCEPT !.popped = @ \cup batch], done \cup batch, {})

\* StepDown, or the check for a lost quorum
StepDownLeader(i) ==
  /\ node[i].role = "leader"
  /\ LeaveLead(i, StepDown(node[i], None), {})
  /\ UNCHANGED <<serving, left, elected>>

\* trackResponse and tryCommit, then a heartbeat if that committed
Acknowledged(i, n, m, done) ==
  LET tracked == [n EXCEPT !.acks = @ \cup {[index |-> m.index, peer |-> m.peer]}]
      c == ApplyCommits(tracked, m.index)
  IN
  IF n.role # "leader" \/ m.index <= n.commit \/ m.term # n.term
  THEN Step(i, n, done, {})
  ELSE IF Cardinality({a \in tracked.acks : a.index = m.index}) + 1 < Quorum
  THEN Step(i, tracked, done, {})
  ELSE Step(i, c, done, Broadcast(i, c, "heartbeat"))

SnapshotTo(i, n, m) ==
  [AppendEntry(i, n, "snapshot", m.peer) EXCEPT
     !.pterm = SnapTerm(n), !.pindex = n.base, !.inbox = m.inbox,
     !.prefix = SubSeq(n.log, 1, n.base)]

\* send a snapshot if the entry after m.index is compacted, and start
\* runCatchup for the entries after that
CatchupFollower(i, n, m, done) ==
  LET compacted == m.index < n.base
      start == IF compacted THEN n.base + 1 ELSE m.index + 1
  IN
  \/ /\ start <= Pindex(n)
     /\ Step(i, n, done, IF compacted THEN {SnapshotTo(i, n, m)} ELSE {})
     /\ serving' = serving \cup {[from |-> i, to |-> m.peer, inbox |-> m.inbox,
                                  next |-> start, last |-> 0, term |-> 0]}
  \/ /\ start > Pindex(n) /\ compacted
     /\ Step(i, n, done, {SnapshotTo(i, n, m)})
     /\ UNCHANGED serving
  \/ /\ start > Pindex(n) /\ ~compacted
     /\ LeaveLead(i, StepDown(n, None), done)
     /\ UNCHANGED serving

\* m is handled by a leader, or it is in the batch of a former one
ProcessAppendEntryResponse(i, m) ==
  LET inBatch == m \in node[i].popped
      n == [node[i] EXCEPT !.popped = @ \ {m}]
      done == {m} \cap msgs
  IN
  /\ inBatch \/ (m \in msgs /\ node[i].role = "leader" /\ node[i].popped = {})
  /\ m.type = "response"
  /\ IF m.success THEN Acknowledged(i, n, m, done) /\ UNCHANGED serving
     ELSE IF m.inbox # 0 THEN CatchupFollower(i, n, m, done)
     ELSE /\ UNCHANGED serving
          /\ IF m.term > n.term
             THEN LeaveLead(i, StepDown(NewTerm(n, m.term), None), done)
             ELSE Step(i, n, done, {})
  /\ UNCHANGED <<left, elected>>

\* responses are drained by a node that is not the leader
DrainResponse(i, m) ==
  /\ m.type = "response"
  /\ node[i].role # "leader"
  /\ Step(i, node[i], {m}, {})
  /\ UNCHANGED <<serving, left, elected>>

\* runCatchup begins, unless the node has stepped down
StartCatchup(s) ==
  LET n == node[s.from] IN
  /\ s.term = 0
  /\ serving' = (serving \ {s}) \cup
       (IF n.role = "leader" THEN {[s EXCEPT !.term = n.term, !.last = Pindex(n)]} ELSE {})
  /\ UNCHANGED <<node, msgs, entries, left, elected, chosen>>

\* sendNext of runCatchup; a step down is noticed between batches only
SendNext(s) ==
  LET n == node[s.from]
      e == n.log[s.next]
      m == [type |-> "append", kind |-> e.kind, from |-> s.from, to |-> s.to,
            leader |-> e.leader, term |-> e.term, lterm |-> s.term, pterm |-> e.pterm,
            pindex |-> s.next - 1, commit |-> e.commit, inbox |-> s.inbox, prefix |-> <<>>]
      more == CanLoad(n, s.next) /\ s.next < s.last
  IN
  /\ s.term # 0
  /\ serving' = (serving \ {s}) \cup (IF more THEN {[s EXCEPT !.next = @ + 1]} ELSE {})
  /\ Send(IF CanLoad(n, s.next) THEN {m} ELSE {}, msgs, entries)
  /\ UNCHANGED <<node, left, elected, chosen>>

-----------------------------------------------------------------------------
(* Snapshots and restarts                                                  *)

\* mutant: the snapshot covers entries that are not committed
MutSnapshotUncommitted(i) ==
  LET n == node[i] IN
  /\ Spend("snapshots")
  /\ \E x \in n.base + 1 .. Pindex(n) : Step(i, [n EXCEPT !.base = x], {}, {})
  /\ UNCHANGED <<serving, elected>>

\* the upper layer takes a snapshot of what it has applied
InstallSnapshot(i) ==
  LET n == node[i] IN
  /\ Spend("snapshots")
  /\ \E x \in n.base + 1 .. n.commit : Step(i, [n EXCEPT !.base = x], {}, {})
  /\ UNCHANGED <<serving, elected>>

\* initRaftNode: the term and vote file, the snapshot, the WAL
Stored(n) == {n.log[x] : x \in n.base + 1 .. Pindex(n)}
StoredTerms(n) == {n.disk.term} \cup {Lterm(e) : e \in Stored(n)}
\* mutant: the whole WAL is taken as committed
MutStoredCommits(n) == {Pindex(n)}

StoredCommits(n) == {n.base} \cup {e.commit : e \in Stored(n)}

Recovered(n, term, commit) ==
  [NewNode EXCEPT
     !.term = term, !.vote = IF term = n.disk.term THEN n.disk.vote ELSE None,
     !.disk = n.disk, !.log = n.log, !.base = n.base,
     !.pterm = IF Pindex(n) > n.base THEN n.log[Pindex(n)].term ELSE SnapTerm(n),
     !.commit = commit, !.initializing = FALSE]

\* A server stops and starts again; what was on the way to it is lost
Restart(i) ==
  LET n == node[i] IN
  /\ Spend("restarts")
  /\ \E term \in Term : \E commit \in StoredCommits(n) :
       /\ term \in StoredTerms(n) /\ \A t \in StoredTerms(n) : t <= term
       /\ \A c \in StoredCommits(n) : c <= commit
       /\ Become(i, Recovered(n, term, commit))
  /\ serving' = {s \in serving : s.from # i}
  /\ msgs' = {m \in msgs : m.to # i}
  /\ entries' = [p \in Pair |-> IF p[2] = i THEN <<>> ELSE entries[p]]
  /\ UNCHANGED elected

-----------------------------------------------------------------------------
(* The specification                                                       *)

\* a new group, or one that had stored nothing before a restart
Init ==
  /\ node = [i \in Node |-> NewNode]
  /\ serving = {}
  /\ msgs = {}
  /\ entries = [p \in Pair |-> <<>>]
  /\ left \in Budgets
  /\ elected = {}
  /\ chosen = <<>>

\* the main loop takes up something new when it is done with its batch
MainLoop(i) ==
  /\ node[i].popped = {}
  /\ \/ SwitchToCandidate(i)
     \/ CatchupStalls(i)
     \/ Propose(i)
     \/ SendHeartbeat(i)
     \/ \E m \in msgs :
          /\ m.to = i
          /\ \/ ProcessVoteRequest(i, m)
             \/ CountVote(i, m)
             \/ HigherTermVote(i, m)
             \/ IgnoreVote(i, m)
             \/ DrainResponse(i, m)
     \/ \E f \in Others(i) :
          /\ entries[<<f, i>>] # <<>>
          /\ ProcessAppendEntry(i, Head(entries[<<f, i>>]))

Next ==
  \/ \E i \in Node :
       \/ MainLoop(i)
       \/ StepDownLeader(i)
       \/ \E m \in ResponsesTo(i) \cup node[i].popped : ProcessAppendEntryResponse(i, m)
       \/ InstallSnapshot(i)
       \/ Restart(i)
  \/ \E s \in serving : StartCatchup(s) \/ SendNext(s)

Spec == Init /\ [][Next]_vars

-----------------------------------------------------------------------------
(* Properties                                                              *)

(* The terms, the vote and the indexes of a node fit together: what is on   *)
(* disk is the term and vote in memory unless a catch-up brought a higher   *)
(* term (raft.go:4498), and the snapshot, the commit index and the log are  *)
(* ordered.                                                                 *)
TypeOK ==
  /\ \A i \in Node : LET n == node[i] IN
       /\ n.role \in {"follower", "candidate", "leader"}
       /\ n.vote \in Node \cup {None} /\ n.leader \in Node \cup {None}
       /\ n.log \in Seq(Entry)
       /\ n.votes \cup n.emptyVotes \subseteq Node
       /\ n.disk.term <= n.term /\ n.term \in Term
       /\ n.vote = IF n.disk.term = n.term THEN n.disk.vote ELSE None
       /\ n.role # "follower" => n.disk.term = n.term
       /\ 0 <= n.base /\ n.base <= n.commit /\ n.commit <= Pindex(n)
       /\ n.pterm = IF n.log = <<>> THEN 0 ELSE n.log[Pindex(n)].term
  /\ \A m \in msgs : m.type \in {"voteRequest", "voteResponse", "response"}
  /\ \A s \in serving : s.term \in Term
  /\ elected \subseteq Node \X Term

(* Election safety: no two nodes ever become leader in one term, although   *)
(* a vote may be cast, written (writeTermVote) and forgotten in a restart.  *)
OneLeaderPerTerm ==
  \A a, b \in elected : a[2] = b[2] => a[1] = b[1]

(* Two nodes never have different entries committed at one index: what      *)
(* processAppendEntry and catch-up store agrees with the leader's log.      *)
CommittedAgree ==
  \A i, j \in Node : \A x \in 1 .. Lesser(node[i].commit, node[j].commit) :
    Content(node[i].log[x]) = Content(node[j].log[x])

(* Entries of one term at one index are the same entry, and so is all that  *)
(* precedes them: the pterm and pindex check, truncateWAL and catch-up keep *)
(* every follower's log a copy of its leader's up to there.                 *)
LogMatching ==
  \A i, j \in Node : \A x \in 1 .. Lesser(Pindex(node[i]), Pindex(node[j])) :
    node[i].log[x].term = node[j].log[x].term =>
      \A y \in 1 .. x : Content(node[i].log[y]) = Content(node[j].log[y])

(* A leader has every entry that is committed on a node of its term or of   *)
(* an earlier one: processVoteRequest votes for no candidate that lacks one *)
(* and tryCommit counts only entries that a quorum stored.                  *)
LeaderComplete ==
  \A i, j \in Node :
    (node[i].role = "leader" /\ node[i].term >= node[j].term) =>
      \A x \in 1 .. node[j].commit :
        x <= Pindex(node[i]) /\ Content(node[i].log[x]) = Content(node[j].log[x])

(* The group is one replicated log: what a node commits, by acknowledgement,*)
(* by the leader's commit index, by a snapshot or by replaying its WAL,     *)
(* extends one sequence that never changes.                                 *)
RL == INSTANCE ReplicatedLog WITH
        Replica <- Node, delivered <- [i \in Node |-> Delivered(node[i])]

IsReplicatedLog == RL!Spec
=============================================================================
