----------------------------- MODULE P2PCatchUp -----------------------------
(***************************************************************************)
(* A coordinator that starts beside running ones (catchUpLoopV2, catchUpV2 *)
(* and joinExternalQueueV2): it asks for snapshots in rounds until two     *)
(* rounds agree on the membership and the last one heard every member, and *)
(* only then joins the queue group of the external commands.  Meanwhile    *)
(* the owner of a session goes on changing it, its mutations reach the     *)
(* joiner only over a route that is up, beats of the running coordinators  *)
(* arrive late, and a coordinator may crash.                               *)
(*                                                                         *)
(* One session stands for the state there is to catch up with: what a      *)
(* coordinator knows of it is its revision.  applyMutationV2 checks the    *)
(* revision in owners before it imports and sets it afterwards; it never   *)
(* exceeds the one in the store, which importSessionReplicaV2 compares     *)
(* again, so the application of a mutation is one step here.               *)
(***************************************************************************)
EXTENDS Integers, FiniteSets

CONSTANTS
  Peer,           \* coordinators that run already
  Owner,          \* the one that owns the session
  MaxRev,         \* bound: revisions of the session
  MaxCrashes,     \* bound: coordinators that crash
  MaxEarly,       \* bound: rounds that end before every answer has come in
  InitialMax      \* managerV2.initialMax

ASSUME CatchUpAssumption ==
  /\ Owner \in Peer
  /\ MaxRev \in Nat /\ MaxCrashes \in Nat /\ MaxEarly \in Nat
  /\ InitialMax \in Nat \ {0}

Rev == 0..MaxRev

\* v2SnapshotReply
Reply == [from : Peer, rev : Rev, members : SUBSET Peer]

VARIABLES
  linked,      \* a route connects the joiner's server with the others
  dropped,     \* the route has been lost at some time
  running,     \* peers that have not crashed
  view,        \* peerTracker.alive of each peer
  known,       \* the revision in the store of each peer
  acked,       \* newest revision whose command was answered
  mine,        \* the revision in the joiner's store
  syncs,       \* revisions of mutations on their way to the joiner
  toPeers,     \* mutations on their way to a peer
  alive,       \* peerTracker.alive of the joiner, without itself
  pc,          \* where catchUpLoopV2 is
  asked,       \* peers that have the request of this round and not answered it
  inbox,       \* answers of this round not yet taken
  required,    \* local variables of catchUpV2
  seen,
  discovered,
  catchUpKnown,     \* candidate of the last round
  catchUpKnownSet,
  unstable,    \* initialUnstableRounds
  released,    \* catchUpInitial is closed: startV2 goes on
  early        \* rounds that ended early

link == <<linked, dropped>>
peers == <<running, view, known, acked, toPeers>>
round == <<asked, inbox, required, seen, discovered>>
loop == <<catchUpKnown, catchUpKnownSet, unstable, released, early>>
vars == <<link, peers, mine, syncs, alive, pc, round, loop>>

TypeOK ==
  /\ linked \in BOOLEAN /\ dropped \in BOOLEAN
  /\ running \subseteq Peer
  /\ view \in [Peer -> SUBSET Peer]
  /\ known \in [Peer -> Rev]
  /\ acked \in Rev /\ mine \in Rev
  /\ syncs \subseteq Rev
  /\ toPeers \subseteq Peer \X Rev
  /\ alive \subseteq Peer
  /\ pc \in {"off", "start", "collect", "join", "joined"}
  /\ asked \subseteq Peer
  /\ inbox \subseteq Reply
  /\ required \subseteq Peer /\ seen \subseteq Peer /\ discovered \subseteq Peer
  /\ catchUpKnown \subseteq Peer /\ catchUpKnownSet \in BOOLEAN
  /\ unstable \in 0..InitialMax
  /\ released \in BOOLEAN
  /\ early \in 0..MaxEarly

Init ==
  /\ linked \in BOOLEAN /\ dropped = FALSE
  /\ running = Peer
  /\ view = [p \in Peer |-> Peer]
  /\ known = [p \in Peer |-> 0]
  /\ acked = 0 /\ mine = 0
  /\ syncs = {} /\ toPeers = {}
  /\ alive = {}
  /\ pc = "off"
  /\ asked = {} /\ inbox = {}
  /\ required = {} /\ seen = {} /\ discovered = {}
  /\ catchUpKnown = {} /\ catchUpKnownSet = FALSE
  /\ unstable = 0 /\ released = FALSE /\ early = 0

Newer(r, s) == IF r < s THEN s ELSE r

-----------------------------------------------------------------------------
(* The running coordinators                                                *)

\* a command on the owner: the store, then the mutation to every subscriber; the
\* joiner is one as soon as it has started
Change ==
  /\ Owner \in running
  /\ known[Owner] = acked
  /\ acked < MaxRev
  /\ known' = [known EXCEPT ![Owner] = @ + 1]
  /\ toPeers' = toPeers \cup {<<p, acked + 1>> : p \in running \ {Owner}}
  /\ syncs' = IF linked /\ pc # "off" THEN syncs \cup {acked + 1} ELSE syncs
  /\ UNCHANGED <<link, running, view, acked, mine, alive, pc, round, loop>>

PeerSync(p, r) ==
  /\ <<p, r>> \in toPeers
  /\ toPeers' = toPeers \ {<<p, r>>}
  /\ known' = [known EXCEPT ![p] = Newer(@, r)]
  /\ UNCHANGED <<link, running, view, acked, mine, syncs, alive, pc, round, loop>>

\* syncMutationV2 waits for the coordinators the owner's peer tracker lists, and the
\* joiner need not be among them
Acknowledge ==
  /\ Owner \in running
  /\ acked < known[Owner]
  /\ \A p \in view[Owner] : known[p] = known[Owner]
  /\ acked' = known[Owner]
  /\ UNCHANGED <<link, running, view, known, mine, syncs, toPeers, alive, pc,
                 round, loop>>

Crash(p) ==
  /\ p \in running
  /\ Cardinality(Peer \ running) < MaxCrashes
  /\ running' = running \ {p}
  /\ toPeers' = {t \in toPeers : t[1] # p}
  /\ UNCHANGED <<link, view, known, acked, mine, syncs, alive, pc, round, loop>>

\* peerTracker.alive no longer lists a peer without beats
Prune(p, q) ==
  /\ p \in running
  /\ q \in view[p] \ running
  /\ view' = [view EXCEPT ![p] = @ \ {q}]
  /\ UNCHANGED <<link, running, known, acked, mine, syncs, toPeers, alive, pc,
                 round, loop>>

-----------------------------------------------------------------------------
(* The joiner's route, beats and mutations                                 *)

Link ==
  /\ ~linked
  /\ linked' = TRUE
  /\ UNCHANGED <<dropped, peers, mine, syncs, alive, pc, round, loop>>

\* what was on its way over the route is lost
Unlink ==
  /\ linked
  /\ linked' = FALSE
  /\ dropped' = TRUE
  /\ syncs' = {}
  /\ asked' = {}
  /\ inbox' = {}
  /\ UNCHANGED <<peers, mine, alive, pc, required, seen, discovered, loop>>

\* peerTracker.note and peerTracker.prune
Beat(p) ==
  /\ linked /\ pc # "off"
  /\ p \in running \ alive
  /\ alive' = alive \cup {p}
  /\ UNCHANGED <<link, peers, mine, syncs, pc, round, loop>>

Lapse(p) ==
  /\ p \in alive
  /\ ~linked \/ p \notin running
  /\ alive' = alive \ {p}
  /\ UNCHANGED <<link, peers, mine, syncs, pc, round, loop>>

\* handleV2MgrSync
Sync(r) ==
  /\ r \in syncs
  /\ syncs' = syncs \ {r}
  /\ mine' = Newer(mine, r)
  /\ UNCHANGED <<link, peers, alive, pc, round, loop>>

-----------------------------------------------------------------------------
(* catchUpV2                                                               *)

\* startClusterV2 has subscribed; what was published before is for the snapshots
Start ==
  /\ pc = "off"
  /\ pc' = "start"
  /\ UNCHANGED <<link, peers, mine, syncs, alive, round, loop>>

inCluster == linked \/ alive # {}

\* the request goes to everyone the route reaches
StartRound ==
  /\ pc = "start"
  /\ pc' = "collect"
  /\ asked' = IF linked THEN running ELSE {}
  /\ required' = alive \cup (IF catchUpKnownSet THEN catchUpKnown ELSE {})
  /\ UNCHANGED <<link, peers, mine, syncs, alive, inbox, seen, discovered, loop>>

\* handleV2MgrSnapshot on a running coordinator
Snapshot(p) ==
  /\ p \in asked \cap running
  /\ asked' = asked \ {p}
  /\ inbox' = inbox \cup {[from |-> p, rev |-> known[p], members |-> view[p] \cup {p}]}
  /\ UNCHANGED <<link, peers, mine, syncs, alive, pc, required, seen, discovered,
                 loop>>

\* applySnapshotReplyV2 and discoverSnapshotMembersV2
TakeReply(r) ==
  /\ pc = "collect"
  /\ r \in inbox
  /\ inbox' = inbox \ {r}
  /\ mine' = Newer(mine, r.rev)
  /\ seen' = seen \cup {r.from}
  /\ discovered' = discovered \cup r.members \cup {r.from}
  /\ UNCHANGED <<link, peers, syncs, alive, pc, asked, required, loop>>

\* mutants: the membership may change; members that have left must answer, too
MutRoundUnstable(candidate) ==
  catchUpKnownSet /\ required \subseteq seen

MutRoundEveryone(candidate) ==
  catchUpKnownSet /\ required = candidate /\ Peer \subseteq seen

\* catchUpRoundCompleteV2
RoundComplete(candidate) ==
  catchUpKnownSet /\ required = candidate /\ required \subseteq seen

\* mutants: rounds that miss a member do not release the start; rounds are counted
\* after the start, too
MutReleaseUnstable(missing) ==
  IF released THEN UNCHANGED <<unstable, released>>
  ELSE /\ unstable' = IF missing THEN unstable ELSE unstable + 1
       /\ released' = (unstable' >= InitialMax)

MutReleaseCounts(missing) ==
  /\ unstable' = IF missing THEN unstable ELSE unstable + 1
  /\ released' = (released \/ missing \/ unstable' >= InitialMax)

\* catchUpLoopV2 after a round that failed: startV2 goes on at once when a member was
\* missing, and after initialMax rounds of changing membership
ReleaseInitial(missing) ==
  IF released THEN UNCHANGED <<unstable, released>>
  ELSE /\ unstable' = IF missing THEN unstable ELSE unstable + 1
       /\ released' = (missing \/ unstable' >= InitialMax)

\* the round's time is up; its inbox and its variables end with it
EndRound ==
  LET candidate == alive \cup discovered
      alone == ~inCluster /\ required = {} /\ candidate = {} /\ seen = {}
      done == alone \/ RoundComplete(candidate)
      soon == inbox # {} \/ asked \cap running # {}
  IN
  /\ pc = "collect"
  /\ soon => early < MaxEarly
  /\ early' = IF soon THEN early + 1 ELSE early
  /\ IF alone THEN UNCHANGED <<catchUpKnown, catchUpKnownSet>>
     ELSE catchUpKnown' = candidate /\ catchUpKnownSet' = TRUE
  /\ IF done THEN pc' = "join" /\ UNCHANGED <<unstable, released>>
     ELSE /\ pc' = "start"
          /\ ReleaseInitial(~ (required \subseteq seen))
  /\ asked' = {} /\ inbox' = {} /\ required' = {} /\ seen' = {} /\ discovered' = {}
  /\ UNCHANGED <<link, peers, mine, syncs, alive>>

\* joinExternalQueueV2; the loop ends
Join ==
  /\ pc = "join"
  /\ pc' = "joined"
  /\ released' = TRUE
  /\ UNCHANGED <<link, peers, mine, syncs, alive, round, catchUpKnown,
                 catchUpKnownSet, unstable, early>>

-----------------------------------------------------------------------------
Next ==
  \/ Change \/ Acknowledge \/ Link \/ Unlink
  \/ Start \/ StartRound \/ EndRound \/ Join
  \/ \E p \in Peer :
       \/ Crash(p) \/ Beat(p) \/ Lapse(p) \/ Snapshot(p)
       \/ \E q \in Peer : Prune(p, q)
  \/ \E r \in Rev : Sync(r) \/ \E p \in Peer : PeerSync(p, r)
  \/ \E r \in inbox : TakeReply(r)

Spec == Init /\ [][Next]_vars

\* Beats come every clusterBeatInterval and lapse, requests are answered by a
\* subscription callback, and a round ends after catchUpTimeout.
FairSpec ==
  /\ Spec
  /\ WF_vars(Link) /\ WF_vars(Start) /\ WF_vars(StartRound) /\ WF_vars(EndRound) /\ WF_vars(Join)
  /\ WF_vars(\E r \in inbox : TakeReply(r))
  /\ \A p \in Peer :
       /\ WF_vars(Beat(p)) /\ WF_vars(Lapse(p)) /\ WF_vars(Snapshot(p))
       /\ \A q \in Peer : WF_vars(Prune(p, q))

-----------------------------------------------------------------------------
(* Properties                                                              *)

Joined == pc = "joined"

(* A joiner that has heard of any coordinator, by a beat or by an answer,   *)
(* joins the queue group only when it has, or is about to receive, every    *)
(* revision the owner has answered for, as long as its route is up: nothing *)
(* slips between the snapshots and the mutations, and answers that come too *)
(* late only cost more rounds.  One whose server has no route yet joins     *)
(* after one round as if it were alone, and does not catch up later.        *)
JoinedIsCurrent ==
  Joined /\ ~dropped /\ catchUpKnown # {} => mine >= acked \/ \E r \in syncs : r >= acked

(* The joiner joins in the end when its route stays up at last, also when a *)
(* coordinator that it has heard of crashes while it catches up.            *)
JoinsEventually == <>[]linked => <>Joined

(* TestClusterV2_ContinuousMembershipChurnDoesNotBlockStart: startV2 returns *)
(* however often the membership changes.                                     *)
StartReturns == <>released
=============================================================================
