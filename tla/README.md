# A TLA+ verification of nats-server: the P2P coordinator and Raft

This directory holds TLA+ modules that model parts of the program in `src/`, TLC
configurations that check them on small instances, and proofs that TLAPS checks.
`PROJECT.json` is the index: which definition stands for which lines of which
file, which run checks which property, which hazard of the code each property is
about, and which theorems are proved.

## 1. The system

The repository is nats-server with one addition. `src/server/` is the message
broker: clients, accounts, routes, gateways and leaf nodes, and JetStream on top
of a Raft implementation. `src/p2p/` is the addition: a coordinator that runs
inside every server of a cluster and sets up peer-to-peer sessions between two
agents, a client and a server. The P2P coordinator is the core of this project;
the second part is the Raft implementation of `src/server/raft.go`.

An agent registers its node key (REGISTER). A client creates a session with a
server agent (SESSION.CREATE); both bind to it (BIND), exchange signals over its
connections (SIGNAL.SEND, SIGNAL.ACK) and declare themselves ready (READY), at
which point the connection is active. Connections can be opened, restarted (a
new *generation*, or epoch), closed and rejected. All state is in memory. The
coordinator that allocates a session is its *owner*: it alone executes commands
on it, the others forward commands to it and keep replicas. Every command ends
with a synchronisation, a mutation that all live coordinators must answer before
the agent is told OK. A coordinator that starts catches up with the others before
it takes commands.

### Inventory

| part | where | status | module |
|---|---|---|---|
| signals, retry queue, retry loop | `p2p/signal_v2.go`, `p2p/manager_v2.go` | modelled, proved | `P2PSignal` |
| sessions and connections, expiry, burial | `p2p/store_v2.go`, import in `p2p/cluster.go` | modelled, proved | `P2PSession` |
| request records and event delivery | `p2p/store_v2.go`, `p2p/manager_v2.go` | modelled, proved | `P2PDelivery` |
| registration and occupancy | `handleRegisterV2`, `handleDisconnectV2` | modelled | `P2PRegister` |
| catch-up of a starting coordinator | `catchUpLoopV2`, `catchUpV2` | modelled | `P2PCatchUp` |
| ingress gate, command queue, workers, stop | `p2p/manager_v2.go` | modelled, proved | `P2PIngress` |
| session creation on a cluster | `handleCreateV2` | modelled | `P2PCreate` |
| forwarding, replication, owner loss | `maybeForwardV2`, `applyMutationV2` and others | partly | `P2PCluster` |
| Raft: elections, replication, catch-up, snapshots, restarts | `server/raft.go` | partly, election safety proved | `NatsRaft`, `ReplicatedLog` |
| frame decoding, auth callout, configuration, metrics | rest of `p2p/` | not modelled | |
| rest of `server/`, `conf/` | | not modelled | |

The parts that are not modelled are listed one by one, with reasons, under
`components` in `PROJECT.json`. In short: decoding and validation are pure
functions of one frame; configuration and monitoring hold no protocol; the
broker's client, route, gateway and leaf node code is parsing and I/O around
per-connection state; the file and memory stores, streams and consumers are
candidates for later work (section 8).

### How the parts interact

```
   agents ── REGISTER, commands ──► P2PIngress ──► workers
                                                     │
       P2PRegister   P2PCreate   P2PSession   P2PSignal   P2PDelivery
                                                     │ synchronisation
                         P2PCluster  ◄───────────────┴──►  other coordinators
                              ▲
                         P2PCatchUp (a coordinator that starts)
```

Each module takes one cut through the program and keeps all of the control flow
on it; what the neighbours do appears in it as far as it can be felt there (an
import of a snapshot in `P2PSession`, a handler that ends in `P2PIngress`). The
header comment of a module says what is left to which other module.

## 2. Modules and code

Names follow the source where TLA+ allows it; `map` in `PROJECT.json` gives the
lines of every definition. A critical section of the code is one action, and
where a handler releases a lock and goes on, the rest is an action of its own.

**`P2PSignal`** (one connection on its owner). `dir[n][e]` is
`StoreV2.directions` of sender `n` in generation `e`: next number, highest number
received, cumulative ACK, pending numbers, recent message IDs. `requests` is the
request cache; `retries` the retry queue; `accepting` and `acking` are the
workers that have left the store and not yet reached the queue; `lockDrop` and
`lateDrop` the generations whose retries are still to be dropped, under the
session lock or after it; `fdue`, `fcur`, `fpc` the retry loop
`flushSignalRetriesV2`. Actions: SEND (new, duplicate, cached), ACK, RESTART,
CLOSE and REJECT, READY, the deadline, the expiry loop, and the steps of the
retry loop.

**`P2PSession`** (one session on its owner). `live` and `tomb` are the records in
`StoreV2.sessions` and `StoreV2.tombs`, `worker` the command workers between the
store, `SyncSnapshotV2` and the import of their own snapshot. Actions: BIND, READY,
OPEN, RESTART, CLOSE of a connection and of the session, REJECT, the repetition of a
request, `Expire`, the collection of a tombstone, and the two steps of the
synchronisation. History variables `readied` and `buried` remember which READYs
were accepted and whether the session has ever been buried.

**`P2PDelivery`** (requests on the owner and one replica). `requests` and
`replica` are the records on both sides, `worker` the publish loop, `net` the
synchronisations nobody waits for any more.

**`P2PRegister`** (one node key on all coordinators). `node` and `bind` are
`StoreV2.nodes` and `managerV2.nodes` of each coordinator, which are under two
locks; the agent's connections, their disconnect events and the mutations between
coordinators are messages.

**`P2PCatchUp`** (one joiner, several running coordinators). The state to catch up
with is one session, and what a coordinator knows of it is its revision.

**`P2PIngress`** (one coordinator). The gate (`ingressOpen`, `ingressActive`), the
queue, the callbacks and workers of each command, the joining of the queue group
and the phases of `stopV2`.

**`P2PCreate`** (one request, several coordinators). `copy` is the handling of
each copy of the request, step by step; `sessions`, `stored`, `owners` and
`requests` are the tables of each coordinator; `chan` the mutations in flight.

**`P2PCluster`** (one session, owner and replicas). `live` and `meta` are the
session and the owners entry on each coordinator, `op` the commands with their
synchronisation, and LOST and SYNC are channels of their own, as they are
subscriptions of their own in the code.

**`NatsRaft`** (the nodes of one Raft group). `node[i]` is the `raft` struct of node
`i`: role, term, vote and leader, the term and vote on disk (`writeTermVote`), the
log, of which everything up to `base` has been compacted into a snapshot, the
commit index, the catch-up a follower waits for, and the counters of a candidate
and of a leader. `msgs` are RPCs and replies, lost and reordered at will; `entries`
the append entries between two nodes, in order; `serving` the `runCatchup`
goroutines of leaders, which go on after their leader has stepped down. `elected`
and `chosen` are history: who led in which term, and what was committed where.
Actions: the election timeout, vote requests and answers, append entries
(`processAppendEntry` whole, with the truncations, the start, the restart and the
cancelling of a catch-up, the snapshot it installs and the commits of the leader),
responses and the commits they allow, proposals, heartbeats, the steps of
`runCatchup`, snapshot and compaction, step-down and restart from disk.

**`ReplicatedLog`** (what a Raft group promises). One sequence of entries that only
grows, and of which every replica delivers a prefix; one that restarts delivers it
again. `NatsRaft` implements it (`IsReplicatedLog`): what a replica has delivered is
the committed part of its node's log, and the sequence is the history variable
`chosen`.

## 3. Runs

| run | question | states |
|---|---|---|
| `signal_safety` | does any interleaving of commands, retry loop and expiry lose, forget or revive a signal? Also checks the inductive invariant `SignalInv` | 602,043 |
| `signal_liveness` | does every accepted signal come to an end, and does the queue get rid of dead ones? | |
| `session_sync` | do imports of the owner's own snapshots, in any order, roll a session back, and is a connection active only with both READYs of its generation? | 1,552,087 |
| `session_revived` | violation: does a closed session stay closed? (section 6) | |
| `delivery` | are events published once, and does OK mean delivered and replicated? | 4,260 |
| `register` | does occupancy follow the connection? | 2,639,829 |
| `catchup` | does a joiner serve only what is current, and does it join at all? | 544,772 |
| `ingress` | is nothing inside when a stopping coordinator gives its sessions up, and does the stop end? | 30,118 |
| `create` | does a retried CREATE make one session with one owner? | 167,771 |
| `cluster` | does only the owner execute, and does an OK mean replicated? | 164,844 |
| `raft_log` | one leader per term, logs that agree, leaders that have what was committed; does the group implement `ReplicatedLog`? | 465,100 |
| `raft_snapshot` | violation: do all nodes commit the same entry at an index? (section 6) | |

Every property of a passing run has a mutant: a version of one definition with a
plausible bug, defined beside it as `Mut...`, for which TLC finds the property
violated.

### Bounds

The bounds are constants in the guards and are named in the modules
(`MaxSeq`, `MaxEpoch`, `MaxWorkers`, ...). They are small, and chosen for what
must be able to happen:

* `P2PSignal`: two signals are needed for an ACK that covers one and not the
  other, two generations for items that outlive their generation, two request IDs
  for a duplicate under a new request ID, two workers in flight beside the retry
  loop for a store order that differs from the queue order. The theorems do not
  depend on these bounds.
* `P2PSession`: two connections and two generations. The requests are shared out
  between the workers (`Shares` in `MCSession`): seven in a row, which is enough for
  CREATE, BIND, READY, RESTART, BIND, READY and one more; four with one of the other
  worker somewhere in between, so that a snapshot of a negotiation is imported after
  the connection has become active; two by two.
* `P2PDelivery`: two events, so that a failure can come between them, two workers
  for the delivery lock, two late messages to be reordered.
* `P2PRegister`: two coordinators, two connections (the former one and the
  current one) and three REGISTERs, so that one is a retry.
* `P2PCatchUp`: a third party that can crash, one revision to miss, one round that
  ends early.
* `P2PIngress`: a queue of one slot that three commands fill, two workers, one
  command of every kind.
* `P2PCreate`: three copies on three coordinators: a first one, a retry that finds
  nothing yet, and one that learns of the session second-hand.
* `P2PCluster`: two commands that can overtake each other and one retry, on an owner
  and a replica. A replica never talks to another one about the session, except
  that both hear LOST, so a second one would add only interleavings.
* `NatsRaft`: three nodes. What may happen in one behaviour is a budget (campaigns,
  proposals, restarts, snapshots, catch-ups, messages on their way), and a run has
  a set of them, chosen in `Init` (`Various` in `MCRaft`): every single budget is
  small, and between them they cover three terms, two terms with each of a proposal,
  a restart, entries of both leaders on their way, a snapshot with a catch-up, and one
  term with most of these together. A second vote after a restart that changes an
  election needs more than these budgets hold (a node with an empty log answers with
  an *empty vote* after a restart): that this cannot happen is what the theorem
  `ElectionSafety` shows, for all bounds.

### Fairness

* `P2PSignal`: weak fairness of goroutines and of time. Strong fairness only for
  "a queued item is taken": an item's back-off is at most a second, and the loop
  runs for ever, but an item may be taken out and put back in between. Nothing is
  assumed about delivery or about the peers' ACKs.
* `P2PDelivery`: workers go on; an agent repeats a request until it is answered
  (strong, because a worker may be busy at times); from some moment on publishing
  and synchronising work. Without the last one "busy" for ever is right.
* `P2PCatchUp`: beats and rounds are driven by tickers. The property itself
  assumes that the route stays up at last.
* `P2PIngress`: callbacks, workers, the catch-up loop and a `stopV2` that was
  called are goroutines that run on; every wait in a handler has a timeout.
* `P2PCluster`: timers, callbacks and workers run on; clients need not send.

CHECK_DEADLOCK is FALSE where a run may come to rest: all commands allowed by the
bound have been answered, the coordinator has stopped, or the budget of a Raft group
is used up.

There is a type invariant in every module; in `P2PDelivery`, `P2PRegister`,
`P2PIngress` and `P2PCreate` it only documents the shape of the state and is not
among the properties of the run.

## 4. What the checks show

* **Signals.** No order of SEND, ACK, RESTART, CLOSE, REJECT, expiry and retry
  loses a pending signal (`NoLostRetry`), although the retry loop empties the queue
  while it works and workers touch it after they have released the store. The
  pending numbers are exactly the window after the last ACK (`PendingWindow`); an
  accepted signal of the current generation was delivered or is pending
  (`NoSignalForgotten`); nothing settled comes back (`NoRevival`); pending signals
  and dead queue items come to an end (`PendingResolved`, `DeadRetriesDrained`).
* **Sessions.** Until a session is buried, imports in any order neither roll it
  back (`NoRollback`) nor lose a READY (`ReadyNotLost`), it agrees with its
  connections (`ConnsFollowSession`), and a connection is active only with both
  READYs of its generation (`ActiveMeansBothReady`). After burial, see section 6.
* **Delivery.** An event is published once (`PublishedOnce`), OK means published
  and known to the replica (`OkMeansDelivered`), the replica's record is never
  ahead (`ReplicaNotAhead`), and a repeated request completes
  (`RequestCompletes`).
* **Registration.** One server never lists two connections that were both told OK
  (`OneOccupantPerServer`). When a REGISTER has not met another one or a
  disconnect half way, OK means registered and bound everywhere
  (`OkMeansOccupied`), and an agent that has gone is on its way out everywhere
  (`GoneIsLeaving`).
* **Catch-up.** A joiner that has heard of anyone joins with all the owner has
  answered for (`JoinedIsCurrent`); it joins if the route stays up
  (`JoinsEventually`), and `startV2` returns anyway (`StartReturns`).
* **Ingress and stop.** Nothing is inside when the sessions are given up
  (`QuietExit`), a join under way does not undo the stop (`StopIsFinal`), every
  command is answered unless the coordinator stops (`CommandsAnswered`), and the
  stop ends (`StopReturns`).
* **Creation.** As long as copies of a request are not handled at the same time,
  there is one session and one owner (`OneSession`, `OneOwner`), however late the
  synchronisations; and once a CREATE is answered every coordinator can tell where
  the session is (`BarrierHolds`).
* **Cluster.** After a CREATE that was answered only the owner executes
  (`OnlyOwnerExecutes`), an OK is replicated (`OkIsReplicated`), an active session
  is left alone by replicas that have its last revision (`ActiveKept`), and no copy
  is negotiated for ever (`NegotiationEnds`).
* **Raft.** With lost, reordered and late messages, restarts, compaction and
  catch-ups there is one leader per term (`OneLeaderPerTerm`), two logs that have an
  entry of the same term at an index agree up to it (`LogMatching`), a leader has all
  that is committed on nodes of its own or an earlier term (`LeaderComplete`), and each
  step of the group is
  a step of `ReplicatedLog` (`IsReplicatedLog`): what is committed is never changed, a
  node commits only entries of the sequence, and in order. This holds with at most one
  catch-up of a follower; with two, see section 6.

Several of these have an antecedent (`~buried`, `~raced`, `~overlap`, `Created`,
`~dropped`). Each one excludes exactly a case in which the code behaves
differently, and section 6 says how.

## 5. What is proved

### Signals

Eight theorems are about `P2PSignal`, for every set of messages and requests, any
set of senders and all bounds (`SignalAssumption` asks only that the two members
differ and the bounds are natural numbers, those on signals and generations
positive).

The safety properties are not inductive. Whether a retry is lost depends on what
the goroutines have in their hands, on cached requests that may be replayed, and
on which generations are being dropped. `SignalInv` adds:

* every item held anywhere names a message that its direction remembers, if its
  generation is open (`HeldMatchesStore`); the same for cached requests
  (`RequestsMatchStore`), so that a replay cannot queue something strange;
* an ACK worker drops only what is acknowledged in the store (`AcksApplied`), and
  generations whose retries are being dropped are over (`DropsAreOver`): what is
  removed from the queue was not needed;
* the retry loop is in a consistent place, and what it has decided to throw away
  is past its deadline or no longer pending (`FlushShape`).

`P2PSignalTypes_proofs` shows that every action keeps the types, and what a step may
do to the store; `P2PSignalHeld_proofs` the facts about directions, held items and
cached requests; `P2PSignal_proofs` that a pending signal stays held, and puts them
together:

| theorem | statement |
|---|---|
| `SignalInvariant` | `Spec => []SignalInv` |
| `TypeCorrect` | `Spec => []TypeOK` |
| `RetriesNeverLost` | `Spec => []NoLostRetry` |
| `WindowExact` | `Spec => []PendingWindow` |
| `SeqUnique` | `Spec => []OneMessagePerSeq` |
| `EndedEmpty` | `Spec => []EndedGenerationsEmpty` |
| `NothingForgotten` | `Spec => []NoSignalForgotten` |
| `NothingRevived` | `Spec => NoRevival` |

### Sessions

Six theorems are about `P2PSession`, for any number of connections, generations,
workers and requests. `SessionAssumption` asks that the set of connections that can
be opened is finite (a session has at most `MaxConns`), that the bounds are
positive, and that `None` is not a record.

What can go wrong is an import: a worker reads a snapshot of the session, loses the
lock, and imports it when the session has gone on. None of the invariants says
anything about snapshots, so none is inductive. `SessionInv` adds:

* every snapshot in a worker's hands is an old image of the live record (`Image`): it
  has at most its revision and at most its generations, and one of the same revision
  has the same states and generations (`SnapInv`). Hence `importSessionReplicaV2`
  either refuses a snapshot or changes nothing that a READY or a RESTART has done.
  This holds because every command that changes the record, except the first READY
  of a generation, increases the revision, and an import keeps the READYs of the
  record;
* what was buried has ended, with all its connections (`TombInv`), and the owners
  entry exists as long as the session (`EntryInv`);
* the READYs of the record are exactly those that were accepted for the current
  generation, none was accepted for a later one, and an active connection has both
  (`LiveInv`).

| theorem | statement |
|---|---|
| `SessionInvariant` | `Spec => []SessionInv` |
| `SessionTypes` | `Spec => []TypeOK` |
| `ConnsInStep` | `Spec => []ConnsFollowSession` |
| `ReadyKept` | `Spec => []ReadyNotLost` |
| `ActiveIsReady` | `Spec => []ActiveMeansBothReady` |
| `RecordsGoForward` | `Spec => NoRollback` |

The last one is an action property. The lemmas show for every action that it keeps
`SessionInv` and that it takes no revision and no generation back (`Forward`).

### Delivery

Four theorems are about `P2PDelivery`, for any requests, workers, number of events
and number of late messages (`DeliveryAssumption`). `DeliveryInv` consists of:

* the delivery lock: two workers never have the same request (`LockInv`), so that a
  worker's list of events to publish is what the record has pending (`WorkerInv`);
* an exact account: an event was published once if it is confirmed in the record or
  if a worker is between publishing and confirming it, and otherwise not at all
  (`AccountInv`);
* every copy of a record, in a worker's snapshot, on the network or on the replica,
  is one that the owner had, and one with the owner's `deliverySeq` is the owner's
  record (`Past`, `CopiesInv`). That is why a late synchronisation cannot take the
  replica back behind an answer (`AnsweredInv`).

| theorem | statement |
|---|---|
| `DeliveryInvariant` | `Spec => []DeliveryInv` |
| `NoEventTwice` | `Spec => []PublishedOnce` |
| `OkIsDelivered` | `Spec => []OkMeansDelivered` |
| `ReplicaFollows` | `Spec => []ReplicaNotAhead` |

### Ingress and stop

Three theorems are about `P2PIngress`, for any finite set of commands, any workers
and any length of the queue (`IngressAssumption`). `IngressInv` says that
`ingressActive` is the number of callbacks inside the gate, that the gate is closed
from the second step of `stopV2` on and, once it was seen empty, is empty
(`GateInv`); that the cancelled context, `externalReady` and the subscriptions agree
with the phase of the stop and the place of the join loop (`JoinInv`); and that the
goroutines that were waited for have ended (`GroupInv`).

| theorem | statement |
|---|---|
| `IngressInvariant` | `Spec => []IngressInv` |
| `ExitIsQuiet` | `Spec => []QuietExit` |
| `StopStays` | `Spec => []StopIsFinal` |

### Elections

`ElectionSafety` in `NatsRaft_proofs` is `Spec => []OneLeaderPerTerm`, for every
finite set of two nodes or more (`RaftAssumption`) and every budget, hence for any number of terms, of
messages and of restarts. `OneLeaderPerTerm` alone says nothing about how a node
became leader. The inductive invariant `ElectionInv`, in `NatsRaftVotes_proofs`, is
`Shape` (the types of what elections read and write) and `Ballots`:

* a node *supports* a candidate of a term while its granted vote is on the way or has
  been counted (`Supports`); whoever supports a candidate has that vote on disk, or a
  later term (`Voted`), so that a restart does not forget it;
* a node supports one candidate in a term;
* for every node that has led in a term there is a quorum whose members have voted for
  it, or moved on, and support no other candidate of that term (`Elects`). This
  outlives the messages and the counters of the candidate.

Two quorums share a node (`QuorumsMeet`, from the cardinalities of the library), and
that node cannot have elected two candidates. The lemmas of `NatsRaftVotes_proofs` say what
`StepDown`, `NewTerm`, `WriteTermVote` and the other parts of a handler leave alone;
`NatsRaft_proofs` has one step per action.

### What stays with TLC

Everything else is model-checked only: `P2PRegister`, `P2PCatchUp`, `P2PCreate` and
`P2PCluster`, and of Raft `TypeOK`, `LogMatching`, `LeaderComplete` and the refinement
of `ReplicatedLog`. Their invariants need inductive invariants that are not worked out
yet. Liveness (`PendingResolved`, `RequestCompletes`, `CommandsAnswered`, `StopReturns`
and the others) stays with TLC because the prover has no support for fairness and
ENABLED.

## 6. Disagreements with the documentation and the tests

Two are runs of their own:

* `session_revived`: a synchronisation that took its snapshot before a concurrent
  CLOSE imports it afterwards, and `importSessionReplicaV2` (`p2p/cluster.go:1542`)
  looks only among the live sessions: the closed session is live again.
  `docs/raypx2-integrate.md:312` says that requests after the close do not
  recreate state.
* `raft_snapshot`: a snapshot that is sent for a catch-up carries its own
  `[term:index]` as pterm and pindex, and a follower takes it for a snapshot only if
  that index is above its own (`server/raft.go:4682`). A stalled follower asks again
  (`server/raft.go:4533`), and still accepts the queued entries of its first catch-up
  (`server/raft.go:4488`). If these bring it exactly to the snapshot's index, the
  snapshot matches its log (`server/raft.go:4600`), is stored as the entry after it,
  and committed in place of the entry the other nodes have there.
  `server/raft_chain_of_blocks_helpers_test.go:18` relies on all replicas delivering
  "the same blocks in the same order (the whole point of Raft!)".

The others were met while modelling. They are the cases that the antecedents of
section 4 leave out; without the antecedent TLC finds each of them in the same
model.

* A CLOSE is followed by the import of the tombstone's snapshot as a live record
  with state closed (`p2p/cluster.go:1542`). `Expire` collects the tombstone and
  never that record, so that requests are answered from it for good;
  `p2p/store_v2_test.go:1206` and `docs/raypx2-integrate.md:417` want the session
  collected after the tombstone's time. (`buried`)
* A disconnect event of a former connection, handled between the change of
  `StoreV2.nodes` and of `managerV2.nodes` by a REGISTER, marks the new occupant as
  disconnected (`p2p/cluster.go:1432`); `p2p/cluster_test.go:243`: "Wrong server /
  wrong CID must not mark the live occupant disconnected." (`raced`)
* A disconnect event that comes before its REGISTER is bound is ignored, and the
  node then stays registered (`p2p/cluster.go:1427`); `p2p/README.md:48`: "a node
  key is registered, disconnected (grace), then expired." (`raced`)
* A coordinator without a route that has heard no beat joins after one round and
  never catches up when routes come up later (`p2p/cluster.go:812`);
  `p2p/README.md:44`: "Catch-up must finish before the node joins". (`dropped`,
  `catchUpKnown`)
* Two copies of a CREATE that are handled at the same time on two coordinators
  each allocate a session (`p2p/manager_v2.go:587`);
  `docs/raypx2-integrate.md:391` and `p2p/cluster_v2_test.go:2096` want one.
  (`overlap`)
* `AllocateSession` replays a record that was imported from a peer, and
  `handleCreateV2` then enters itself as the owner (`p2p/manager_v2.go:598`);
  `p2p/cluster_v2_test.go:2099`: "B became second owner for A's request_id".
  (`overlap`)
* After a CREATE that timed out, a replica can be between the import of the session
  and the entry of its owner, and then executes a command itself
  (`p2p/cluster.go:1270`); `docs/raypx2-integrate.md:401` says that it forwards.
  (`Created`)
* When the owner leaves, closed sessions that were imported as live records are
  failed, with an ERROR to the agents (`p2p/cluster.go:1612`); and a replica that
  the change to active has not reached fails an active session
  (`p2p/cluster.go:1341`). `docs/raypx2-integrate.md:414` says that sessions under
  negotiation get the ERROR and active ones are left alone. (`e.rev = final.rev`)

## 7. What is not modelled, and limits

* Messages are model values: decoding, field validation, error codes and metrics
  are not modelled. A command that is refused changes nothing and does not appear.
* Time is abstract: a deadline may pass at any moment after it was set.
* The membership of the cluster is fixed in `P2PRegister` and `P2PCreate`; in
  `P2PCluster` only the owner leaves or fails, and who is alive is known exactly.
  Two owners after a partition are not modelled.
* Request records live as long as the model in `P2PDelivery`; that a late record
  re-creates one that was collected is listed as a hazard without a property.
* Data races on fields of the owners table (`replyKnownCreateOwnerV2`) are listed
  as a hazard; the model reads the entry in one step.
* `NatsRaft`: the members are fixed (no membership changes, no quorum rescue), and
  observers, paused apply and paused quorum, write errors, memory storage and shutdown
  are left out. Append entries between two nodes arrive in order or not at all, as over
  one route; without that assumption `LeaderComplete` does not hold. A crash between
  the end of `switchToCandidate` and `requestVote` is not told apart from one before. A
  step-down that the API asks for on a node that has already left leadership is not
  modelled. Nothing is said about the liveness of a group.
* Each module is a cut: that the cuts together cover every interaction between
  them is argued in the header comments, not checked.

## 8. Plan

1. An abstract specification of a signal direction (a reliable, ordered channel that
   may be abandoned), with `P2PSignal` shown to implement it.
2. Burial and request records composed: `P2PSession` with the records of
   `P2PDelivery`, for late imports after collection.
3. Membership: beats and pruning in `P2PCluster` and `P2PCreate`, two coordinators
   that cannot see each other, and forwarding cycles of busy workers.
4. Proofs: `PublishedOnce` and `OkMeansDelivered` of `P2PDelivery`, `QuietExit` and
   `StopIsFinal` of `P2PIngress`, and `BarrierHolds` of `P2PCreate`; each needs an
   inductive invariant about workers between two steps, which TLC checks first.
5. `server/`: JetStream consumers (pending, redelivery, acknowledgement floor), the
   ordering of `ipQueue`, and the subscription list as a reference algorithm.
