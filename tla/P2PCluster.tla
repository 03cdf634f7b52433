----------------------------- MODULE P2PCluster -----------------------------
(***************************************************************************)
(* One session on a cluster of coordinators: commands that reach any of    *)
(* them and are forwarded to the owner (maybeForwardV2), the replicas the  *)
(* owner keeps on the others (syncSessionSnapshotV2, applyMutationV2), and *)
(* what becomes of the session when the owner leaves in order              *)
(* (publishOwnerExitV2), when it is gone without a word, and when the      *)
(* setup deadline passes (expireLoopV2, which runs on every coordinator).  *)
(*                                                                         *)
(* A command changes the store under one lock and is synchronised after    *)
(* it, so that two commands can be synchronised in either order.  The      *)
(* session has one connection, the READYs of the two agents are one        *)
(* command, and delivery records are the subject of P2PDelivery.  LOST and *)
(* SYNC are subscriptions of their own, with a goroutine each: the order   *)
(* of two messages is kept only within one of them.  Only the owner leaves *)
(* or fails.                                                               *)
(***************************************************************************)
EXTENDS Integers, Sequences, FiniteSets

CONSTANTS
  Coord,       \* coordinators
  Owner,       \* the one that allocated the session
  MaxOps,      \* bound: commands, with the CREATE when it is still synchronised
  MaxRetries,  \* bound: commands sent again after busy
  Expiry,      \* the setup deadline may pass
  None         \* no record

ASSUME ClusterAssumption ==
  /\ IsFiniteSet(Coord)
  /\ Owner \in Coord
  /\ MaxOps \in Nat
  /\ MaxRetries \in Nat
  /\ Expiry \in BOOLEAN
  /\ None \notin Coord

Replica == Coord \ {Owner}
Negotiating == {"allocated", "preparing"}
State == Negotiating \cup {"active", "closed", "failed"}
Rev == 1..(MaxOps + 1)

\* sessionRecordV2 and v2SessionMeta
Session == [rev : Rev, state : State]
Meta == [owner : Coord \cup {None}, lost : BOOLEAN, rev : Rev]

\* the CREATE is number 0
Op == 0..MaxOps
Mutation == [rev : Rev, state : State, owner : Coord \cup {None}, op : Op]

VARIABLES
  up,        \* "up", "left" in order, or "down"
  live,      \* StoreV2.sessions of each coordinator
  tomb,      \* StoreV2.tombs
  meta,      \* managerV2.owners
  op,        \* commands, and how far they have got
  retries,   \* commands sent again
  chan,      \* session mutations on the way: chan[c][d] from c to d
  applying,  \* the mutation a coordinator has imported and not yet entered
  lost,      \* coordinators that the owner's LOST has not reached yet
  final,     \* the session as it was when its owner left
  told,      \* the ERRORs sent to the agents: by whom, why, at which revision
  executed   \* coordinators that changed the session on a command

store == <<live, tomb>>
net == <<chan, applying, lost>>
history == <<final, told, executed>>
vars == <<up, store, meta, op, retries, net, history>>

\* mut: the mutation being synchronised; left: acknowledgements it waits for
Idle == [pc |-> "idle", at |-> None, mut |-> None, left |-> {}]
Running == {"snap", "note", "apply", "publish", "await"}
Answer == {"ok", "busy", "refused", "unavailable"}

TypeOK ==
  /\ up \in [Coord -> {"up", "left", "down"}]
  /\ live \in [Coord -> Session \cup {None}]
  /\ tomb \in [Coord -> Session \cup {None}]
  /\ meta \in [Coord -> Meta \cup {None}]
  /\ op \in [Op -> [pc : {"idle", "taken"} \cup Running \cup Answer,
                    at : Coord \cup {None}, mut : Mutation \cup {None},
                    left : SUBSET Coord]]
  /\ retries \in 0..MaxRetries
  /\ chan \in [Coord -> [Coord -> Seq(Mutation)]]
  /\ applying \in [Coord -> [mut : Mutation, from : Coord] \cup {None}]
  /\ lost \subseteq Replica
  /\ final \in Session \cup {None}
  /\ told \subseteq [by : Coord, why : {"expired", "lost"}, rev : Rev]
  /\ executed \subseteq Coord

\* the owner has allocated the session and entered itself; its CREATE has been
\* synchronised and answered, or not yet
Init ==
  /\ up = [c \in Coord |-> "up"]
  /\ \E synced \in BOOLEAN :
       LET At == IF synced THEN Coord ELSE {Owner}
       IN /\ live = [c \in Coord |-> IF c \in At THEN [rev |-> 1, state |-> "allocated"] ELSE None]
          /\ meta = [c \in Coord |-> IF c \in At THEN [owner |-> Owner, lost |-> FALSE, rev |-> 1]
                                     ELSE None]
          /\ op = [i \in Op |-> IF i > 0 THEN Idle
                                ELSE [Idle EXCEPT !.at = Owner, !.pc = IF synced THEN "ok" ELSE "snap"]]
  /\ tomb = [c \in Coord |-> None]
  /\ retries = 0
  /\ chan = [c \in Coord |-> [d \in Coord |-> << >>]]
  /\ applying = [c \in Coord |-> None]
  /\ lost = {}
  /\ final = None
  /\ told = {}
  /\ executed = {}

-----------------------------------------------------------------------------
(* Commands                                                                *)

\* a bug: when the owner cannot be reached the command is handled here
MutRoute(c) ==
  IF meta[c] = None \/ meta[c].owner = c \/ up[Owner] # "up"
  THEN [Idle EXCEPT !.pc = "taken", !.at = c]
  ELSE [Idle EXCEPT !.pc = "taken", !.at = meta[c].owner]

\* maybeForwardV2: without an entry, or under its own name, a coordinator handles
\* the command itself
Route(c) ==
  IF meta[c] = None \/ meta[c].owner = c THEN [Idle EXCEPT !.pc = "taken", !.at = c]
  ELSE IF meta[c].lost \/ meta[c].owner = None THEN [Idle EXCEPT !.pc = "refused"]
  ELSE IF up[meta[c].owner] # "up" THEN [Idle EXCEPT !.pc = "unavailable"]
  ELSE [Idle EXCEPT !.pc = "taken", !.at = meta[c].owner]

\* a command reaches coordinator c: the client knows the session once its CREATE
\* has been answered, or a retry of it from a table
Arrive(i, c) ==
  /\ i > 0
  /\ up[c] = "up"
  /\ op[i].pc = "idle"
  /\ \A j \in 1..(i - 1) : op[j].pc # "idle"
  /\ op[0].pc \in {"ok", "busy"}
  /\ op[0].mut # None => i < MaxOps
  /\ op' = [op EXCEPT ![i] = Route(c)]
  /\ UNCHANGED <<up, store, meta, retries, net, history>>

\* the command is refused: no such session here, or not in this state
Refuse(i) ==
  /\ op[i].pc = "taken"
  /\ up[op[i].at] = "up"
  /\ op' = [op EXCEPT ![i].pc = "refused"]
  /\ UNCHANGED <<up, store, meta, retries, net, history>>

\* a command that changes the copy of the coordinator that handles it
Change(i, s) ==
  /\ op[i].pc = "taken"
  /\ up[op[i].at] = "up"
  /\ live[op[i].at] # None
  /\ live' = [live EXCEPT ![op[i].at] = IF s = "closed" THEN None
                                        ELSE [rev |-> @.rev + 1, state |-> s]]
  /\ tomb' = [tomb EXCEPT ![op[i].at] = IF s # "closed" THEN @
                 ELSE [rev |-> live[op[i].at].rev + 1, state |-> s]]
  /\ op' = [op EXCEPT ![i].pc = "snap"]
  /\ executed' = executed \cup {op[i].at}
  /\ UNCHANGED <<up, meta, retries, net, final, told>>

StateAt(i) == live[op[i].at].state

\* BindSession: PREPARE goes to both agents
Bind(i) == Change(i, "preparing") /\ StateAt(i) = "allocated"

\* MarkConnectionReady by the second agent: START goes to both
Ready(i) == Change(i, "active") /\ StateAt(i) = "preparing"

\* closeSessionLocked: the record moves to the tombstones
Close(i) == Change(i, "closed") /\ StateAt(i) # "closed"

\* a bug: the record of the request is not looked at
MutRetry(i) ==
  /\ i > 0
  /\ op[i].pc = "busy"
  /\ up[op[i].at] = "up"
  /\ live[op[i].at] # None
  /\ retries < MaxRetries
  /\ retries' = retries + 1
  /\ live' = [live EXCEPT ![op[i].at].rev = @ + 1]
  /\ op' = [op EXCEPT ![i].pc = "snap", ![i].mut = None, ![i].left = {}]
  /\ UNCHANGED <<up, tomb, meta, net, history>>

\* a command that was answered busy is sent again and finds its record
Retry(i) ==
  /\ i > 0
  /\ op[i].pc = "busy"
  /\ up[op[i].at] = "up"
  /\ retries < MaxRetries
  /\ retries' = retries + 1
  /\ op' = [op EXCEPT ![i].pc = "snap", ![i].mut = None, ![i].left = {}]
  /\ UNCHANGED <<up, store, meta, net, history>>

-----------------------------------------------------------------------------
(* Synchronisation                                                         *)

\* SyncSnapshotV2: the session, or its tombstone
Record(c) == IF live[c] # None THEN live[c] ELSE tomb[c]

Snap(i) ==
  /\ op[i].pc = "snap"
  /\ up[op[i].at] = "up"
  /\ op' = [op EXCEPT ![i].pc = "note", ![i].mut =
              [rev |-> Record(op[i].at).rev, state |-> Record(op[i].at).state,
               owner |-> op[i].at, op |-> i]]
  /\ UNCHANGED <<up, store, meta, retries, net, history>>

\* syncSessionSnapshotV2: the entry takes the revision of the snapshot, and the
\* mutation the owner of the entry
NoteMeta(i) ==
  /\ op[i].pc = "note"
  /\ up[op[i].at] = "up"
  /\ LET c == op[i].at
         m == IF meta[c] = None THEN [owner |-> c, lost |-> FALSE, rev |-> op[i].mut.rev]
              ELSE [meta[c] EXCEPT !.rev = op[i].mut.rev]
     IN /\ meta' = [meta EXCEPT ![c] = m]
        /\ op' = [op EXCEPT ![i].pc = "apply", ![i].mut.owner = m.owner]
  /\ UNCHANGED <<up, store, retries, net, history>>

\* applyMutationV2 takes no mutation of another owner and no older one
Accepts(c, mut) ==
  meta[c] # None => /\ None \in {meta[c].owner, mut.owner} \/ meta[c].owner = mut.owner
                    /\ mut.rev >= meta[c].rev

\* importSessionReplicaV2: a session that is not among the live ones is made anew
ImportRecord(c, mut) ==
  live' = [live EXCEPT ![c] = IF @ = None \/ mut.rev >= @.rev
                              THEN [rev |-> mut.rev, state |-> mut.state] ELSE @]

\* the entry is filled in; a lost owner stays lost
EnterMeta(c, mut) ==
  meta' = [meta EXCEPT ![c] = [owner |-> mut.owner, rev |-> mut.rev,
                               lost |-> @ # None /\ @.lost]]

\* syncMutationV2: applied here first and then sent to the others
Apply(i) ==
  /\ op[i].pc = "apply"
  /\ up[op[i].at] = "up"
  /\ IF Accepts(op[i].at, op[i].mut)
     THEN /\ ImportRecord(op[i].at, op[i].mut)
          /\ op' = [op EXCEPT ![i].pc = "publish"]
     ELSE /\ op' = [op EXCEPT ![i].pc = "busy"]
          /\ UNCHANGED live
  /\ UNCHANGED <<up, tomb, meta, retries, net, history>>

Publish(i) ==
  /\ op[i].pc = "publish"
  /\ up[op[i].at] = "up"
  /\ EnterMeta(op[i].at, op[i].mut)
  /\ chan' = [chan EXCEPT ![op[i].at] = [d \in Coord |->
                IF d = op[i].at THEN @[d] ELSE Append(@[d], op[i].mut)]]
  /\ op' = [op EXCEPT ![i].pc = "await", ![i].left = Coord \ {op[i].at}]
  /\ UNCHANGED <<up, store, retries, applying, lost, history>>

Synced(i) ==
  /\ op[i].pc = "await"
  /\ op[i].left = {}
  /\ op' = [op EXCEPT ![i].pc = "ok"]
  /\ UNCHANGED <<up, store, meta, retries, net, history>>

\* a bug: whoever has not answered in time is taken to be gone
MutSyncTimeout(i) ==
  /\ op[i].pc = "await"
  /\ op[i].left # {}
  /\ op' = [op EXCEPT ![i].pc = "ok"]
  /\ UNCHANGED <<up, store, meta, retries, net, history>>

\* v2ClusterSyncTimeout
SyncTimeout(i) ==
  /\ op[i].pc = "await"
  /\ op[i].left # {}
  /\ op' = [op EXCEPT ![i].pc = "busy"]
  /\ UNCHANGED <<up, store, meta, retries, net, history>>

Ack(mut, d, ok) ==
  op' = IF op[mut.op].pc # "await" \/ op[mut.op].mut # mut THEN op
        ELSE IF ok THEN [op EXCEPT ![mut.op].left = @ \ {d}]
        ELSE [op EXCEPT ![mut.op].pc = "busy"]

\* handleV2MgrSync at coordinator d, up to the import
Import(c, d) ==
  /\ up[d] = "up"
  /\ chan[c][d] # << >>
  /\ applying[d] = None
  /\ LET mut == Head(chan[c][d])
     IN IF Accepts(d, mut)
        THEN /\ ImportRecord(d, mut)
             /\ applying' = [applying EXCEPT ![d] = [mut |-> mut, from |-> c]]
             /\ UNCHANGED op
        ELSE /\ Ack(mut, d, FALSE)
             /\ UNCHANGED <<live, applying>>
  /\ chan' = [chan EXCEPT ![c][d] = Tail(@)]
  /\ UNCHANGED <<up, tomb, meta, retries, lost, history>>

Enter(d) ==
  /\ up[d] = "up"
  /\ applying[d] # None
  /\ EnterMeta(d, applying[d].mut)
  /\ Ack(applying[d].mut, d, TRUE)
  /\ applying' = [applying EXCEPT ![d] = None]
  /\ UNCHANGED <<up, store, retries, chan, lost, history>>

-----------------------------------------------------------------------------
(* The end of the owner and of the setup time                              *)

\* failSessionLocked: buried as failed, under the revision it had, with an ERROR
\* to both agents
Fail(c, why) ==
  /\ live' = [live EXCEPT ![c] = None]
  /\ tomb' = [tomb EXCEPT ![c] = [rev |-> live[c].rev, state |-> "failed"]]
  /\ told' = told \cup {[by |-> c, why |-> why, rev |-> live[c].rev]}

\* a bug: whatever is left
MutFailIfNegotiating(c) ==
  IF live[c] # None THEN Fail(c, "lost") ELSE UNCHANGED <<live, tomb, told>>

\* failSessionIfNegotiatingV2: whatever is not active
FailIfNegotiating(c) ==
  IF live[c] # None /\ live[c].state # "active"
  THEN Fail(c, "lost")
  ELSE UNCHANGED <<live, tomb, told>>

MarkLost(c) ==
  meta' = [meta EXCEPT ![c] = IF @ = None THEN @ ELSE [@ EXCEPT !.lost = TRUE, !.owner = None]]

\* stopV2 waits for its workers before publishOwnerExitV2
Leave ==
  /\ up[Owner] = "up"
  /\ \A i \in Op : op[i].at = Owner => op[i].pc \notin Running
  /\ applying[Owner] = None
  /\ up' = [up EXCEPT ![Owner] = "left"]
  /\ final' = Record(Owner)
  /\ IF meta[Owner].owner = Owner /\ ~meta[Owner].lost
     THEN MarkLost(Owner) /\ FailIfNegotiating(Owner) /\ lost' = Replica
     ELSE UNCHANGED <<meta, live, tomb, told, lost>>
  /\ UNCHANGED <<op, retries, chan, applying, executed>>

\* the process or its network ends: nothing is published
Crash ==
  /\ up[Owner] = "up"
  /\ up' = [up EXCEPT ![Owner] = "down"]
  /\ final' = Record(Owner)
  /\ UNCHANGED <<store, meta, op, retries, net, told, executed>>

\* handleV2OwnerLost and applyOwnerLostV2
OwnerLost(d) ==
  /\ d \in lost
  /\ up[d] = "up"
  /\ lost' = lost \ {d}
  /\ MarkLost(d)
  /\ FailIfNegotiating(d)
  /\ UNCHANGED <<up, op, retries, chan, applying, final, executed>>

\* a bug: only the owner looks at the deadline
MutExpire(c) ==
  /\ Expiry
  /\ c = Owner
  /\ up[c] = "up"
  /\ live[c] # None
  /\ live[c].state \in Negotiating
  /\ Fail(c, "expired")
  /\ UNCHANGED <<up, meta, op, retries, net, final, executed>>

\* Expire, on whatever copy a coordinator has
Expire(c) ==
  /\ Expiry
  /\ up[c] = "up"
  /\ live[c] # None
  /\ live[c].state \in Negotiating
  /\ Fail(c, "expired")
  /\ UNCHANGED <<up, meta, op, retries, net, final, executed>>

-----------------------------------------------------------------------------
Command(i) == Refuse(i) \/ Bind(i) \/ Ready(i) \/ Close(i) \/ Retry(i)
Synchronise(i) == Snap(i) \/ NoteMeta(i) \/ Apply(i) \/ Publish(i)
                  \/ Synced(i) \/ SyncTimeout(i)

Next ==
  \/ \E i \in Op, c \in Coord : Arrive(i, c)
  \/ \E i \in Op : Command(i) \/ Synchronise(i)
  \/ \E c, d \in Coord : Import(c, d)
  \/ \E c \in Coord : Enter(c) \/ OwnerLost(c) \/ Expire(c)
  \/ Leave \/ Crash

Spec == Init /\ [][Next]_vars

\* Timers, callbacks and workers run on; a client need not send.
Fairness ==
  /\ \A i \in Op : WF_vars(Synchronise(i))
  /\ \A c, d \in Coord : WF_vars(Import(c, d))
  /\ \A c \in Coord : WF_vars(Enter(c)) /\ WF_vars(OwnerLost(c)) /\ WF_vars(Expire(c))

FairSpec == Spec /\ Fairness

-----------------------------------------------------------------------------
(* Properties                                                              *)

\* The CREATE was answered after its synchronisation.  When it timed out, and the
\* client learnt of the session from a retry, a replica can be caught between the
\* import of the session and the entry of its owner: it then carries a command out
\* itself, enters itself as the owner, and the entry that follows takes its
\* revision back.  The properties below are about sessions without that start.
Created == op[0].pc = "ok"

\* Only the owner changes the session on a command: everyone else forwards it
\* (docs/raypx2-integrate.md, section 6.1).
OnlyOwnerExecutes == Created => executed \subseteq {Owner}

\* The barrier before an OK: the change has reached every replica, or a later one
\* has, also when the mutations of two commands overtake each other.
OkIsReplicated ==
  \A i \in Op : Created /\ op[i].pc = "ok" /\ op[i].mut # None =>
    \A d \in Replica : meta[d] # None /\ meta[d].rev >= op[i].mut.rev

\* When the owner leaves, an active session is not disturbed
\* (docs/raypx2-integrate.md, section 6.2), on a replica that every change has
\* reached: one that the change to active has not reached decides by its own copy
\* and fails the session.
ActiveKept ==
  \A e \in told : e.why = "lost" /\ e.rev = final.rev => final.state # "active"

\* No copy of the session is being negotiated for ever, whatever becomes of the
\* owner and however late its last mutations arrive.
NegotiationEnds ==
  <>[](\A d \in Replica : live[d] # None => live[d].state \notin Negotiating)
=============================================================================
