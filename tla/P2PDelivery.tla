---------------------------- MODULE P2PDelivery ----------------------------
(***************************************************************************)
(* Delivery of the events of state commands (BIND, READY, REJECT, CLOSE):  *)
(* request records of p2p/store_v2.go, the publish loop of                 *)
(* p2p/manager_v2.go and the replication of the records to another         *)
(* coordinator (p2p/cluster.go).                                           *)
(*                                                                         *)
(* The first arrival of a request changes the store and leaves a record    *)
(* with the events the two members must get.  The worker publishes what is *)
(* pending, one event at a time, and after each one confirms it in the     *)
(* record and replicates the records of the session.  Any failure ends the *)
(* loop and makes the reply "busy"; the member then repeats the request,   *)
(* which resumes the delivery.  A lock per (sender, request ID) keeps two  *)
(* workers from delivering the same request.                               *)
(*                                                                         *)
(* Records live until the tombstone of the session expires, which is not   *)
(* modelled; P2PSession models the session.  The replica stands for any of *)
(* the other coordinators: a synchronisation needs the answer of each.     *)
(***************************************************************************)
EXTENDS Integers, FiniteSets

CONSTANTS
  Req,        \* requests: RequestKeyV2
  Worker,     \* command workers
  MaxEvents,  \* bound: events of a request
  MaxNet,     \* bound: late synchronisation messages
  None        \* no record, no event

Event == 1..MaxEvents  \* in the order of the record
\* requestRecordV2 of a state command
Record == [made : SUBSET Event, pending : SUBSET Event, seq : Nat]
Records == [Req -> Record \cup {None}]

ASSUME DeliveryAssumption ==
  /\ MaxEvents \in Nat /\ MaxNet \in Nat
  /\ None \notin Req \cup Record

VARIABLES
  requests,   \* StoreV2.requests on the owner
  replica,    \* StoreV2.requests on another coordinator
  worker,     \* the command workers of the owner
  net,        \* synchronisation messages nobody waits for any more
  published,  \* how often each event of a request was published
  answered,   \* requests whose OK was sent
  healthy     \* from now on nothing fails

vars == <<requests, replica, worker, net, published, answered, healthy>>

\* todo: events still to publish; snap: the snapshot being synchronised; sent: it
\* is on its way; err: the reply will be "busy"
Idle == [pc |-> "idle", req |-> None, todo |-> {}, snap |-> None, sent |-> FALSE,
         err |-> FALSE]
SyncPC == {"delivery", "state", "final"}
WorkerPC == {"idle", "pending", "publish", "mark", "reply"} \cup SyncPC

TypeOK ==
  /\ requests \in Records
  /\ replica \in Records
  /\ worker \in [Worker -> [pc : WorkerPC, req : Req \cup {None}, todo : SUBSET Event,
                            snap : Records \cup {None}, sent : BOOLEAN, err : BOOLEAN]]
  /\ net \in SUBSET Records
  /\ published \in [Req -> [Event -> Nat]]
  /\ answered \in SUBSET Req
  /\ healthy \in BOOLEAN

Init ==
  /\ requests = [r \in Req |-> None]
  /\ replica = [r \in Req |-> None]
  /\ worker = [w \in Worker |-> Idle]
  /\ net = {}
  /\ published = [r \in Req |-> [e \in Event |-> 0]]
  /\ answered = {}
  /\ healthy = FALSE

-----------------------------------------------------------------------------
First(es) == CHOOSE e \in es : \A f \in es : e <= f

\* importRequestSnapshotsLockedV2
ImportRecords(mine, snap) ==
  [r \in Req |-> IF snap[r] = None THEN mine[r]
                 ELSE IF mine[r] # None /\ mine[r].seq >= snap[r].seq THEN mine[r]
                 ELSE snap[r]]

\* mutant: no delivery lock
MutDeliveryUnlocked(w, r) == worker[w].pc = "idle"

\* lockDeliveryV2 is held until the reply
DeliveryUnlocked(w, r) ==
  /\ worker[w].pc = "idle"
  /\ \A v \in Worker : worker[v].req # r

\* A state command: a request seen for the first time leaves a record with the
\* events es, a repeated one finds its record.  A member repeats a request until
\* it is answered.
HandleState(w, r, es) ==
  /\ DeliveryUnlocked(w, r)
  /\ r \notin answered
  /\ IF requests[r] = None
     THEN requests' = [requests EXCEPT ![r] = [made |-> es, pending |-> es, seq |-> 1]]
     ELSE es = requests[r].made /\ UNCHANGED requests
  /\ worker' = [worker EXCEPT ![w].pc = "pending", ![w].req = r]
  /\ UNCHANGED <<replica, net, published, answered, healthy>>

\* publishRequestEventsV2 starts with PendingEvents
PendingEvents(w) ==
  /\ worker[w].pc = "pending"
  /\ worker' = [worker EXCEPT ![w].pc = "publish",
                              ![w].todo = requests[worker[w].req].pending]
  /\ UNCHANGED <<requests, replica, net, published, answered, healthy>>

\* publishV2Event of the next event
PublishEvent(w) ==
  LET e == First(worker[w].todo) IN
  /\ worker[w].pc = "publish"
  /\ worker[w].todo # {}
  /\ published' = [published EXCEPT ![worker[w].req][e] = @ + 1]
  /\ worker' = [worker EXCEPT ![w].pc = "mark"]
  /\ UNCHANGED <<requests, replica, net, answered, healthy>>

\* mutant: an event whose publication failed is confirmed all the same
MutPublishFailsMarks(w) ==
  /\ ~healthy
  /\ worker[w].pc = "publish"
  /\ worker[w].todo # {}
  /\ worker' = [worker EXCEPT ![w].pc = "mark", ![w].err = TRUE]
  /\ UNCHANGED <<requests, replica, net, published, answered, healthy>>

\* the first failure ends the loop
PublishFails(w) ==
  /\ ~healthy
  /\ worker[w].pc = "publish"
  /\ worker[w].todo # {}
  /\ worker' = [worker EXCEPT ![w].pc = "state", ![w].todo = {}, ![w].err = TRUE]
  /\ UNCHANGED <<requests, replica, net, published, answered, healthy>>

\* mutant: the deliverySeq stays
MutMarkKeepsSeq(w) ==
  /\ worker[w].pc = "mark"
  /\ requests' = [requests EXCEPT ![worker[w].req].pending = @ \ {First(worker[w].todo)}]
  /\ worker' = [worker EXCEPT ![w].pc = "delivery",
                              ![w].todo = @ \ {First(worker[w].todo)}]
  /\ UNCHANGED <<replica, net, published, answered, healthy>>

\* MarkEventsPublished
MarkEventsPublished(w) ==
  LET e == First(worker[w].todo) IN
  /\ worker[w].pc = "mark"
  /\ requests' = [requests EXCEPT ![worker[w].req].pending = @ \ {e},
                                  ![worker[w].req].seq = @ + 1]
  /\ worker' = [worker EXCEPT ![w].pc = "delivery", ![w].todo = @ \ {e}]
  /\ UNCHANGED <<replica, net, published, answered, healthy>>

PublishDone(w) ==
  /\ worker[w].pc = "publish"
  /\ worker[w].todo = {}
  /\ worker' = [worker EXCEPT ![w].pc = "state"]
  /\ UNCHANGED <<requests, replica, net, published, answered, healthy>>

-----------------------------------------------------------------------------
(* A synchronisation: syncRequestDeliveriesV2 after an event ("delivery")  *)
(* and at the end ("final"), syncSessionLockedV2 in between ("state").     *)
(* All carry the records of the session.                                   *)

\* where a synchronisation leads
After(pc, ok) ==
  CASE pc = "delivery" -> IF ok THEN "publish" ELSE "state"
    [] pc = "state"    -> "final"
    [] pc = "final"    -> "reply"

Finish(w, ok) ==
  worker' = [worker EXCEPT ![w] =
    [Idle EXCEPT !.pc = After(worker[w].pc, ok), !.req = worker[w].req,
                 !.todo = IF ok THEN worker[w].todo ELSE {},
                 !.err = worker[w].err \/ ~ok]]

Snapshot(w) ==
  /\ worker[w].pc \in SyncPC
  /\ worker[w].snap = None
  /\ worker' = [worker EXCEPT ![w].snap = requests]
  /\ UNCHANGED <<requests, replica, net, published, answered, healthy>>

\* syncMutationV2 applies the mutation to the own store and publishes it
ApplyLocally(w) ==
  /\ worker[w].snap # None
  /\ ~worker[w].sent
  /\ requests' = ImportRecords(requests, worker[w].snap)
  /\ worker' = [worker EXCEPT ![w].sent = TRUE]
  /\ UNCHANGED <<replica, net, published, answered, healthy>>

\* a session mutation is refused locally when a newer revision was noted
Refuse(w) ==
  /\ ~healthy
  /\ worker[w].pc = "state"
  /\ worker[w].snap # None
  /\ ~worker[w].sent
  /\ Finish(w, FALSE)
  /\ UNCHANGED <<requests, replica, net, published, answered, healthy>>

\* the replica applies the mutation (handleV2MgrSync) and its answer arrives
Acknowledged(w) ==
  /\ worker[w].sent
  /\ replica' = ImportRecords(replica, worker[w].snap)
  /\ Finish(w, TRUE)
  /\ UNCHANGED <<requests, net, published, answered, healthy>>

\* no answer in time: the message is lost, or still on its way
SyncTimeout(w, lost) ==
  /\ ~healthy
  /\ worker[w].sent
  /\ Finish(w, FALSE)
  /\ IF lost THEN UNCHANGED net
     ELSE /\ Cardinality(net) < MaxNet
          /\ net' = net \cup {worker[w].snap}
  /\ UNCHANGED <<requests, replica, published, answered, healthy>>

\* a late message reaches the replica
HandleMgrSync(snap) ==
  /\ snap \in net
  /\ net' = net \ {snap}
  /\ replica' = ImportRecords(replica, snap)
  /\ UNCHANGED <<requests, worker, published, answered, healthy>>

\* mutant: a "busy" reply leaves the delivery lock taken
MutReplyKeepsLock(w) ==
  /\ worker[w].pc = "reply"
  /\ answered' = IF worker[w].err THEN answered ELSE answered \cup {worker[w].req}
  /\ worker' = [worker EXCEPT ![w] =
       IF @.err THEN [Idle EXCEPT !.req = worker[w].req] ELSE Idle]
  /\ UNCHANGED <<requests, replica, net, published, healthy>>

\* finishConnectionStateCommandV2: OK only if nothing failed; the locks are released
Reply(w) ==
  /\ worker[w].pc = "reply"
  /\ answered' = IF worker[w].err THEN answered ELSE answered \cup {worker[w].req}
  /\ worker' = [worker EXCEPT ![w] = Idle]
  /\ UNCHANGED <<requests, replica, net, published, healthy>>

\* from here on publishing works and answers come in time
Heal ==
  /\ healthy' = TRUE
  /\ UNCHANGED <<requests, replica, worker, net, published, answered>>

-----------------------------------------------------------------------------
Work(w) ==
  \/ PendingEvents(w) \/ PublishEvent(w) \/ MarkEventsPublished(w)
  \/ PublishDone(w) \/ Snapshot(w) \/ ApplyLocally(w) \/ Acknowledged(w) \/ Reply(w)

Fail(w) ==
  \/ PublishFails(w) \/ Refuse(w)
  \/ \E lost \in BOOLEAN : SyncTimeout(w, lost)

Arrive(r) == \E w \in Worker : \E es \in SUBSET Event : HandleState(w, r, es)

Next ==
  \/ \E r \in Req : Arrive(r)
  \/ \E w \in Worker : Work(w) \/ Fail(w)
  \/ \E snap \in net : HandleMgrSync(snap)
  \/ Heal

Spec == Init /\ [][Next]_vars

\* workers are scheduled, members repeat unanswered requests, the network heals
FairSpec ==
  /\ Spec
  /\ \A w \in Worker : WF_vars(Work(w))
  /\ \A r \in Req : SF_vars(Arrive(r))
  /\ WF_vars(Heal)

-----------------------------------------------------------------------------
(* Properties                                                              *)

(* The owner publishes no event of a request twice, however often the       *)
(* request is repeated and wherever the loop of an earlier attempt failed.  *)
PublishedOnce == \A r \in Req : \A e \in Event : published[r][e] <= 1

(* A request is answered OK only when all its events have been published    *)
(* and the other coordinator's record says so too.                          *)
OkMeansDelivered ==
  \A r \in answered :
    /\ \A e \in requests[r].made : published[r][e] = 1
    /\ replica[r] # None
    /\ replica[r].pending = {}

(* The replica's record is one the owner had: it never takes an event as    *)
(* delivered that the owner has not published.                              *)
ReplicaNotAhead ==
  \A r \in Req : replica[r] # None =>
    /\ replica[r].seq <= requests[r].seq
    /\ \A e \in replica[r].made \ replica[r].pending : published[r][e] > 0

(* Once publishing and synchronising work, a member that repeats its        *)
(* request is answered OK: no failure leaves a request stuck.               *)
RequestCompletes ==
  \A r \in Req : requests[r] # None ~> r \in answered
=============================================================================
