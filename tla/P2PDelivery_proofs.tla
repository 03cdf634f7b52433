------------------------- MODULE P2PDelivery_proofs -------------------------
(***************************************************************************)
(* Proofs about P2PDelivery: events are published once and OK means        *)
(* delivered, for any number of requests, workers, events and late         *)
(* synchronisation messages.                                               *)
(*                                                                         *)
(* None of the three invariants is inductive.  They rest on the delivery   *)
(* lock (a request is in the hands of one worker, whose list of events is  *)
(* then exactly what the record has pending), on deliverySeq (every        *)
(* snapshot, in a worker, on the network or imported by the replica, is a  *)
(* record the owner had, and one with the same number is the same record), *)
(* and on an exact account of what was published.                          *)
(***************************************************************************)
EXTENDS P2PDelivery, WellFoundedInduction, TLAPS

(* A snapshot the owner took: its records are at most as far as the        *)
(* owner's, and a record with the owner's deliverySeq is the owner's.      *)
Past(snap) ==
  \A r \in Req : snap[r] # None =>
    /\ requests[r] # None
    /\ snap[r].seq <= requests[r].seq
    /\ snap[r].made = requests[r].made
    /\ requests[r].pending \subseteq snap[r].pending
    /\ snap[r].seq = requests[r].seq => snap[r] = requests[r]

(* lockDeliveryV2: a request is in the hands of at most one worker.        *)
LockInv ==
  \A v, w \in Worker : worker[v].pc # "idle" /\ worker[v].req = worker[w].req => v = w

(* What a worker knows of the request it delivers.                         *)
WorkerInv(w) ==
  LET k == worker[w] IN
  /\ k.pc = "idle" => k = Idle
  /\ k.pc # "idle" => k.req \in Req /\ requests[k.req] # None /\ k.req \notin answered
  /\ k.pc \in {"publish", "mark", "delivery"} => k.todo = requests[k.req].pending
  /\ k.pc = "mark" => k.todo # {}
  /\ k.pc \in {"state", "final", "reply"} /\ ~k.err => requests[k.req].pending = {}
  /\ k.snap # None => k.pc \in SyncPC /\ k.snap[k.req] = requests[k.req] /\ Past(k.snap)
  /\ k.sent => k.snap # None
  /\ k.pc = "reply" /\ ~k.err => replica[k.req] = requests[k.req]

(* The events of a request that have left: the confirmed ones and the one  *)
(* a worker has published and is about to confirm.                         *)
Gone(r) ==
  (IF requests[r] = None THEN {} ELSE requests[r].made \ requests[r].pending)
    \cup {First(worker[w].todo) : w \in {v \in Worker : worker[v].req = r /\ worker[v].pc = "mark"}}

(* The record accounts for every publication.                              *)
AccountInv ==
  \A r \in Req :
    /\ requests[r] # None => requests[r].pending \subseteq requests[r].made
    /\ \A e \in Event : published[r][e] = IF e \in Gone(r) THEN 1 ELSE 0

(* Everything the replica has or may get is a record the owner had.        *)
CopiesInv == Past(replica) /\ \A snap \in net : Past(snap)

AnsweredInv ==
  \A r \in answered : /\ requests[r] # None
                      /\ requests[r].pending = {}
                      /\ replica[r] = requests[r]

DeliveryInv ==
  /\ TypeOK
  /\ LockInv
  /\ \A w \in Worker : WorkerInv(w)
  /\ AccountInv
  /\ CopiesInv
  /\ AnsweredInv

\* what TypeOK says of one worker
WorkerRecord ==
  [pc : WorkerPC, req : Req \cup {None}, todo : SUBSET Event,
   snap : Records \cup {None}, sent : BOOLEAN, err : BOOLEAN]

-----------------------------------------------------------------------------
(* The operators                                                           *)

(* The publish loop takes an event of its list: the first one exists.      *)
LEMMA FirstIn ==
  ASSUME NEW es \in SUBSET Event, es # {}
  PROVE  First(es) \in es
<1> DEFINE R == OpToRel(<, Nat)
<1>1. es \subseteq Nat
  BY DeliveryAssumption DEF Event
<1>2. \A x, y \in Nat : y < x => <<y, x>> \in R
  BY DEF OpToRel
<1>3. IsWellFoundedOn(R, Nat)
  BY NatLessThanWellFounded
<1> HIDE DEF R
<1>4. PICK x \in es : \A y \in es : ~(<<y, x>> \in R)
  BY <1>1, <1>3, WFMin
<1>5. ASSUME NEW y \in es PROVE x <= y
  <2>1. x \in Nat /\ y \in Nat
    BY <1>1
  <2>2. ~(y < x)
    BY Zenon, <1>2, <1>4, <2>1
  <2>3. QED BY <2>1, <2>2
<1>6. QED
  BY <1>5 DEF First

(* Importing a snapshot it took earlier changes nothing on the owner:      *)
(* importRequestSnapshotsLockedV2 compares the deliverySeq.                *)
LEMMA ImportOwn ==
  ASSUME TypeOK, NEW snap \in Records, Past(snap)
  PROVE  ImportRecords(requests, snap) = requests
<1>1. ASSUME NEW r \in Req
      PROVE  ImportRecords(requests, snap)[r] = requests[r]
  <2>1. snap[r] # None => /\ requests[r] # None
                          /\ snap[r].seq <= requests[r].seq
                          /\ snap[r].seq \in Nat /\ requests[r].seq \in Nat
    BY DEF TypeOK, Records, Record, Past
  <2>2. QED BY <2>1 DEF ImportRecords
<1>2. QED
  BY <1>1 DEF ImportRecords, TypeOK, Records

(* What the replica has after an import is the owner's past again, and a   *)
(* record as new as the owner's stays or arrives.                          *)
LEMMA ImportReplica ==
  ASSUME TypeOK, Past(replica), NEW snap \in Records, Past(snap)
  PROVE  /\ ImportRecords(replica, snap) \in Records
         /\ Past(ImportRecords(replica, snap))
         /\ \A r \in Req : requests[r] # None
                             /\ (replica[r] = requests[r] \/ snap[r] = requests[r])
              => ImportRecords(replica, snap)[r] = requests[r]
<1> DEFINE new == ImportRecords(replica, snap)
<1>1. \A r \in Req : new[r] = replica[r] \/ new[r] = snap[r]
  BY DEF ImportRecords
<1>2. new \in Records
  BY DEF ImportRecords, TypeOK, Records
<1>3. Past(new)
  BY <1>1 DEF Past
<1>4. ASSUME NEW r \in Req, requests[r] # None,
             replica[r] = requests[r] \/ snap[r] = requests[r]
      PROVE  new[r] = requests[r]
  <2>1. snap[r] # None => /\ snap[r].seq \in Nat
                          /\ snap[r].seq <= requests[r].seq
                          /\ snap[r].seq = requests[r].seq => snap[r] = requests[r]
    BY DEF Records, Record, Past
  <2>2. replica[r] # None => /\ replica[r].seq \in Nat
                             /\ replica[r].seq <= requests[r].seq
                             /\ replica[r].seq = requests[r].seq => replica[r] = requests[r]
    BY DEF TypeOK, Records, Record, Past
  <2>3. requests[r].seq \in Nat
    BY <1>4 DEF TypeOK, Records, Record
  <2>4. QED
    BY <1>4, <2>1, <2>2, <2>3 DEF ImportRecords
<1>5. QED BY <1>2, <1>3, <1>4

-----------------------------------------------------------------------------
(* Every step preserves the invariant                                      *)

(* Past and Gone look at the records only, or at the workers that confirm. *)
LEMMA PastUnchanged ==
  ASSUME UNCHANGED requests, NEW snap, Past(snap)
  PROVE  Past(snap)'
BY DEF Past

LEMMA GoneUnchanged ==
  ASSUME UNCHANGED requests, NEW r \in Req, NEW w \in Worker,
         worker[w].pc # "mark", worker'[w].pc # "mark",
         \A v \in Worker \ {w} : worker'[v] = worker[v]
  PROVE  Gone(r)' = Gone(r)
<1>1. {v \in Worker : worker[v].req = r /\ worker[v].pc = "mark"}
        = {v \in Worker : worker'[v].req = r /\ worker'[v].pc = "mark"}
  OBVIOUS
<1>2. \A v \in {x \in Worker : worker[x].req = r /\ worker[x].pc = "mark"} :
        worker'[v] = worker[v]
  OBVIOUS
<1>3. QED BY <1>1, <1>2 DEF Gone

(* A step of a worker that changes nothing but its own state, holds on to  *)
(* its request and neither publishes nor confirms an event.                *)
LEMMA OwnStep ==
  ASSUME DeliveryInv, NEW w \in Worker, NEW k \in WorkerRecord,
         worker' = [worker EXCEPT ![w] = k],
         UNCHANGED <<requests, replica, published, answered>>,
         net' \in SUBSET Records, \A snap \in net' : Past(snap),
         healthy' \in BOOLEAN,
         k.req = worker[w].req, worker[w].pc # "idle",
         k.pc # "idle", worker[w].pc # "mark", k.pc # "mark",
         WorkerInv(w)'
  PROVE  DeliveryInv'
<1> USE DEF DeliveryInv
<1>1. worker'[w] = k /\ \A v \in Worker \ {w} : worker'[v] = worker[v]
  BY DEF TypeOK
<1>2. TypeOK'
  BY DEF TypeOK, WorkerRecord
<1>3. LockInv'
  BY <1>1 DEF LockInv
<1>4. ASSUME NEW v \in Worker PROVE WorkerInv(v)'
  <2>1. CASE v = w BY <2>1
  <2>2. CASE v # w
    BY <1>1, <2>2, PastUnchanged DEF WorkerInv
  <2>3. QED BY <2>1, <2>2
<1>5. AccountInv'
  <2>1. \A r \in Req : Gone(r)' = Gone(r)
    BY <1>1, GoneUnchanged
  <2>2. QED BY <2>1 DEF AccountInv
<1>6. CopiesInv'
  BY PastUnchanged DEF CopiesInv
<1>7. AnsweredInv'
  BY DEF AnsweredInv
<1>8. QED BY <1>2, <1>3, <1>4, <1>5, <1>6, <1>7

(* publishRequestEventsV2 up to the next event, and its ends.              *)
LEMMA LoopPreserves ==
  ASSUME DeliveryInv, NEW w \in Worker,
         PendingEvents(w) \/ PublishDone(w) \/ PublishFails(w) \/ Snapshot(w)
  PROVE  DeliveryInv'
<1> USE DEF DeliveryInv
<1> DEFINE k == worker'[w]
<1>1. WorkerInv(w) BY DEF DeliveryInv
<1>2. worker[w].pc \notin {"idle", "mark", "reply"} /\ worker[w] \in WorkerRecord
  BY DEF PendingEvents, PublishDone, PublishFails, Snapshot, SyncPC, TypeOK, WorkerRecord
<1>3. /\ worker' = [worker EXCEPT ![w] = k]
      /\ k \in WorkerRecord
      /\ k.req = worker[w].req
      /\ k.pc \notin {"idle", "mark"}
  <2>1. requests \in Records
    BY DEF TypeOK
  <2>2. requests[worker[w].req].pending \in SUBSET Event
    BY <1>1, <1>2 DEF WorkerInv, TypeOK, Records, Record
  <2>3. CASE PendingEvents(w)
    BY <1>2, <2>2, <2>3 DEF PendingEvents, TypeOK, WorkerRecord, WorkerPC
  <2>4. CASE PublishDone(w)
    BY <1>2, <2>4 DEF PublishDone, TypeOK, WorkerRecord, WorkerPC, SyncPC
  <2>5. CASE PublishFails(w)
    BY <1>2, <2>5 DEF PublishFails, TypeOK, WorkerRecord, WorkerPC, SyncPC
  <2>6. CASE Snapshot(w)
    BY <1>2, <2>1, <2>6 DEF Snapshot, TypeOK, WorkerRecord, WorkerPC, SyncPC
  <2>7. QED BY <2>3, <2>4, <2>5, <2>6
<1>4. UNCHANGED <<requests, replica, net, published, answered, healthy>>
  BY DEF PendingEvents, PublishDone, PublishFails, Snapshot
<1>5. WorkerInv(w)'
  <2>1. CASE PendingEvents(w)
    BY <1>1, <1>4, <2>1, PastUnchanged DEF PendingEvents, WorkerInv, TypeOK, SyncPC
  <2>2. CASE PublishDone(w)
    BY <1>1, <1>4, <2>2, PastUnchanged DEF PublishDone, WorkerInv, TypeOK, SyncPC
  <2>3. CASE PublishFails(w)
    BY <1>1, <1>4, <2>3, PastUnchanged DEF PublishFails, WorkerInv, TypeOK, SyncPC
  <2>4. CASE Snapshot(w)
    <3>1. Past(requests)'
      BY <1>4 DEF Past, TypeOK, Records, Record
    <3>2. QED
      BY <1>1, <1>4, <2>4, <3>1 DEF Snapshot, WorkerInv, TypeOK, SyncPC
  <2>5. QED BY <2>1, <2>2, <2>3, <2>4
<1>6. net' \in SUBSET Records /\ (\A snap \in net' : Past(snap)) /\ healthy' \in BOOLEAN
  BY <1>4 DEF TypeOK, CopiesInv
<1> HIDE DEF k, DeliveryInv
<1>7. QED BY <1>2, <1>3, <1>4, <1>5, <1>6, OwnStep

(* The worker's record after a synchronisation.                            *)
LEMMA FinishEffect ==
  ASSUME TypeOK, NEW w \in Worker, NEW ok \in BOOLEAN, Finish(w, ok),
         worker[w].pc \in SyncPC
  PROVE  /\ worker' = [worker EXCEPT ![w] = worker'[w]]
         /\ worker'[w] \in WorkerRecord
         /\ worker'[w].req = worker[w].req
         /\ worker'[w].pc = After(worker[w].pc, ok)
         /\ worker'[w].todo = IF ok THEN worker[w].todo ELSE {}
         /\ worker'[w].err = (worker[w].err \/ ~ok)
         /\ worker'[w].snap = None /\ worker'[w].sent = FALSE
         /\ worker'[w].pc \in {"publish", "state", "final", "reply"}
<1>1. worker[w] \in WorkerRecord
  BY DEF TypeOK, WorkerRecord
<1>2. After(worker[w].pc, ok) \in {"publish", "state", "final", "reply"}
  BY DEF After, SyncPC
<1>3. QED
  BY <1>1, <1>2 DEF Finish, Idle, TypeOK, WorkerRecord, WorkerPC, SyncPC

(* A synchronisation that goes out or comes to nothing: the owner's own    *)
(* import changes nothing, and a failure keeps the request unanswered.     *)
LEMMA SyncPreserves ==
  ASSUME DeliveryInv, NEW w \in Worker,
         ApplyLocally(w) \/ Refuse(w) \/ \E lost \in BOOLEAN : SyncTimeout(w, lost)
  PROVE  DeliveryInv'
<1> DEFINE k == worker'[w]
<1>1. WorkerInv(w) /\ TypeOK BY DEF DeliveryInv
<1>2. /\ worker[w].snap # None
      /\ worker[w].pc \in SyncPC
      /\ worker[w].snap \in Records
      /\ Past(worker[w].snap)
      /\ worker[w].pc \notin {"idle", "mark", "reply"}
  BY <1>1 DEF ApplyLocally, Refuse, SyncTimeout, WorkerInv, TypeOK, SyncPC
<1>3. UNCHANGED <<requests, replica, published, answered, healthy>>
  BY <1>1, <1>2, ImportOwn DEF ApplyLocally, Refuse, SyncTimeout
<1>4. net' \in SUBSET Records /\ (\A snap \in net' : Past(snap)) /\ healthy' \in BOOLEAN
  BY <1>1, <1>2, <1>3 DEF DeliveryInv, CopiesInv, TypeOK, ApplyLocally, Refuse, SyncTimeout
<1>5. CASE ApplyLocally(w)
  <2>1. /\ worker' = [worker EXCEPT ![w] = k]
        /\ k \in WorkerRecord
        /\ k.req = worker[w].req
        /\ k.pc \notin {"idle", "mark"}
    BY <1>1, <1>2, <1>5 DEF ApplyLocally, TypeOK, WorkerRecord
  <2>2. WorkerInv(w)'
    BY <1>1, <1>2, <1>3, <1>5, PastUnchanged DEF ApplyLocally, WorkerInv, TypeOK, SyncPC
  <2> HIDE DEF k
  <2>3. QED BY <1>2, <1>3, <1>4, <2>1, <2>2, OwnStep
<1>6. CASE ~ApplyLocally(w)
  <2>1. Finish(w, FALSE)
    BY <1>6 DEF Refuse, SyncTimeout
  <2>2. /\ worker' = [worker EXCEPT ![w] = k]
        /\ k \in WorkerRecord
        /\ k.req = worker[w].req
        /\ k.pc \in {"state", "final", "reply"}
        /\ k.err
        /\ k.snap = None /\ k.sent = FALSE
    BY <1>1, <1>2, <2>1, FinishEffect DEF After, SyncPC
  <2>3. WorkerInv(w)'
    BY <1>1, <1>2, <1>3, <2>2 DEF WorkerInv, SyncPC
  <2> HIDE DEF k
  <2>4. QED BY <1>2, <1>3, <1>4, <2>2, <2>3, OwnStep
<1>7. QED BY <1>5, <1>6

(* The publication of the first event of the list: it is pending, so it    *)
(* has not left before.                                                    *)
LEMMA PublishPreserves ==
  ASSUME DeliveryInv, NEW w \in Worker, PublishEvent(w)
  PROVE  DeliveryInv'
<1>1. TypeOK /\ WorkerInv(w) /\ LockInv BY DEF DeliveryInv
<1>2. PICK q \in Req, e \in Event :
        /\ q = worker[w].req /\ e = First(worker[w].todo)
        /\ worker[w] \in WorkerRecord
        /\ worker[w].pc = "publish"
        /\ requests[q] # None
        /\ worker[w].todo = requests[q].pending
        /\ e \in requests[q].pending
  BY <1>1, FirstIn DEF PublishEvent, WorkerInv, TypeOK, WorkerRecord
<1>3. /\ worker' = [worker EXCEPT ![w].pc = "mark"]
      /\ published' = [published EXCEPT ![q][e] = @ + 1]
      /\ UNCHANGED <<requests, replica, net, answered, healthy>>
  BY <1>2 DEF PublishEvent
<1>4. worker'[w].pc = "mark" /\ worker'[w].req = q /\ worker'[w].todo = worker[w].todo
        /\ \A v \in Worker \ {w} : worker'[v] = worker[v]
  BY <1>1, <1>2, <1>3 DEF TypeOK, WorkerRecord
<1>5. TypeOK'
  <2>1. published' \in [Req -> [Event -> Nat]]
    BY <1>1, <1>2, <1>3 DEF TypeOK
  <2>2. worker' \in [Worker -> WorkerRecord]
    BY <1>1, <1>2, <1>3 DEF TypeOK, WorkerRecord, WorkerPC
  <2>3. QED BY <1>1, <1>3, <2>1, <2>2 DEF TypeOK, WorkerRecord
<1>6. LockInv'
  BY <1>1, <1>2, <1>4 DEF LockInv
<1>7. ASSUME NEW v \in Worker PROVE WorkerInv(v)'
  <2>1. CASE v = w
    BY <1>1, <1>2, <1>3, <2>1 DEF WorkerInv, TypeOK, WorkerRecord, SyncPC
  <2>2. CASE v # w
    BY <1>3, <1>4, <2>2, PastUnchanged DEF DeliveryInv, WorkerInv
  <2>3. QED BY <2>1, <2>2
<1>8. AccountInv'
  <2>1. Gone(q)' = Gone(q) \cup {e}
    BY <1>2, <1>3, <1>4 DEF Gone
  <2>2. \A r \in Req \ {q} : Gone(r)' = Gone(r)
    BY <1>2, <1>3, <1>4 DEF Gone
  <2>3. e \notin Gone(q)
    BY <1>1, <1>2 DEF Gone, LockInv
  <2>4. QED
    BY <1>1, <1>2, <1>3, <2>1, <2>2, <2>3 DEF DeliveryInv, AccountInv, TypeOK
<1>9. CopiesInv' /\ AnsweredInv'
  BY <1>3, PastUnchanged DEF DeliveryInv, CopiesInv, AnsweredInv
<1>10. QED BY <1>5, <1>6, <1>7, <1>8, <1>9 DEF DeliveryInv

(* The confirmation: the event that left goes from pending to delivered,   *)
(* and the record is one step ahead of every copy.                         *)
LEMMA MarkPreserves ==
  ASSUME DeliveryInv, NEW w \in Worker, MarkEventsPublished(w)
  PROVE  DeliveryInv'
<1>1. TypeOK /\ WorkerInv(w) /\ LockInv BY DEF DeliveryInv
<1>2. PICK q \in Req, e \in Event :
        /\ q = worker[w].req /\ e = First(worker[w].todo)
        /\ worker[w] \in WorkerRecord
        /\ worker[w].pc = "mark"
        /\ q \notin answered
        /\ requests[q] # None /\ requests[q] \in Record
        /\ worker[w].todo = requests[q].pending
        /\ worker[w].snap = None /\ worker[w].sent = FALSE
        /\ e \in requests[q].pending
  BY <1>1, FirstIn DEF MarkEventsPublished, WorkerInv, TypeOK, WorkerRecord, Records, SyncPC
<1>3. /\ worker' = [worker EXCEPT ![w].pc = "delivery", ![w].todo = @ \ {e}]
      /\ requests' = [requests EXCEPT ![q].pending = @ \ {e}, ![q].seq = @ + 1]
  BY <1>2 DEF MarkEventsPublished
<1>3u. UNCHANGED <<replica, net, published, answered, healthy>>
  BY DEF MarkEventsPublished
<1>4. /\ worker'[w].pc = "delivery" /\ worker'[w].todo = worker[w].todo \ {e}
      /\ worker'[w].req = q /\ worker'[w].snap = None /\ worker'[w].sent = FALSE
      /\ \A v \in Worker \ {w} : worker'[v] = worker[v]
  BY <1>1, <1>2, <1>3 DEF TypeOK, WorkerRecord
<1>5. /\ requests'[q] \in Record
      /\ requests'[q].made = requests[q].made
      /\ requests'[q].pending = requests[q].pending \ {e}
      /\ requests'[q].seq = requests[q].seq + 1
      /\ \A r \in Req \ {q} : requests'[r] = requests[r]
  <2>1. PICK one : one = [requests[q] EXCEPT !.pending = @ \ {e}]
    OBVIOUS
  <2>2. one \in Record /\ one.made = requests[q].made /\ one.seq = requests[q].seq
          /\ one.pending = requests[q].pending \ {e}
    BY <1>2, <2>1 DEF Record
  <2>3. requests'[q] = [one EXCEPT !.seq = @ + 1]
          /\ \A r \in Req \ {q} : requests'[r] = requests[r]
    BY <1>1, <1>3, <2>1 DEF TypeOK, Records
  <2>4. QED BY <2>2, <2>3 DEF Record
<1>6. requests'[q] # None
  BY <1>5, DeliveryAssumption
<1>7. ASSUME NEW snap \in Records, Past(snap) PROVE Past(snap)'
  <2> SUFFICES ASSUME NEW r \in Req, snap[r] # None
               PROVE  /\ requests'[r] # None
                      /\ snap[r].seq <= requests'[r].seq
                      /\ snap[r].made = requests'[r].made
                      /\ requests'[r].pending \subseteq snap[r].pending
                      /\ snap[r].seq = requests'[r].seq => snap[r] = requests'[r]
    BY DEF Past
  <2>1. CASE r # q
    BY <1>5, <1>7, <2>1 DEF Past
  <2>2. CASE r = q
    <3>1. /\ snap[q].seq <= requests[q].seq
          /\ snap[q].made = requests[q].made
          /\ requests[q].pending \subseteq snap[q].pending
          /\ snap[q].seq \in Nat /\ requests[q].seq \in Nat
      BY <1>2, <1>7, <2>2 DEF Past, Records, Record
    <3>2. /\ requests'[q].seq = requests[q].seq + 1
          /\ requests'[q].made = requests[q].made
          /\ requests'[q].pending \subseteq requests[q].pending
      BY <1>2, <1>5 DEF Record
    <3>3. QED BY <1>6, <2>2, <3>1, <3>2
  <2>3. QED BY <2>1, <2>2
<1>8. TypeOK'
  <2>1. requests' \in Records
    BY <1>1, <1>3, <1>5 DEF TypeOK, Records
  <2>2. worker' \in [Worker -> WorkerRecord]
    BY <1>1, <1>2, <1>3 DEF TypeOK, WorkerRecord, WorkerPC, SyncPC
  <2>3. QED BY <1>1, <1>3u, <2>1, <2>2 DEF TypeOK, WorkerRecord
<1>9. LockInv'
  BY <1>1, <1>2, <1>4 DEF LockInv, WorkerRecord
<1>10. ASSUME NEW v \in Worker PROVE WorkerInv(v)'
  <2>1. CASE v = w
    <3>1. worker'[w].todo = requests'[q].pending
      BY <1>2, <1>4, <1>5 DEF WorkerRecord, Record
    <3>2. QED
      BY <1>2, <1>4, <1>6, <1>3u, <2>1, <3>1 DEF WorkerInv
  <2>2. CASE v # w
    <3>1. WorkerInv(v) /\ worker'[v] = worker[v] /\ worker[v] \in WorkerRecord
      BY <1>1, <1>4, <2>2 DEF DeliveryInv, TypeOK, WorkerRecord
    <3>2. worker[v].pc # "idle" => worker[v].req # q
      BY <1>1, <1>2, <2>2 DEF LockInv
    <3>3. worker[v].pc # "idle" => worker[v].req \in Req \ {q}
      BY <3>1, <3>2 DEF WorkerInv
    <3>4. worker[v].pc # "idle" => requests'[worker[v].req] = requests[worker[v].req]
      BY <1>5, <3>3
    <3>5. worker[v].snap # None => Past(worker[v].snap)'
      BY <1>7, <3>1 DEF WorkerInv, WorkerRecord
    <3>6. QED
      BY <1>3u, <3>1, <3>4, <3>5 DEF WorkerInv, SyncPC
  <2>3. QED BY <2>1, <2>2
<1>11. AccountInv'
  <2>1. ASSUME NEW r \in Req \ {q} PROVE Gone(r)' = Gone(r)
    BY <1>2, <1>4, <1>5, <2>1 DEF Gone, WorkerRecord
  <2>2. \A v \in Worker : worker[v].req = q /\ worker[v].pc = "mark" => v = w
    BY <1>1, <1>2 DEF LockInv
  <2>3. Gone(q) = (requests[q].made \ requests[q].pending) \cup {e}
    BY <1>2, <2>2 DEF Gone
  <2>4. Gone(q)' = requests'[q].made \ requests'[q].pending
    <3>1. \A v \in Worker : ~(worker'[v].req = q /\ worker'[v].pc = "mark")
      BY <1>2, <1>4, <2>2 DEF WorkerRecord
    <3>2. QED BY <1>6, <3>1 DEF Gone
  <2>5. requests[q].pending \subseteq requests[q].made
    BY <1>2 DEF DeliveryInv, AccountInv
  <2>6. /\ requests'[q].made = requests[q].made
        /\ requests'[q].pending = requests[q].pending \ {e}
    BY <1>2, <1>5 DEF Record
  <2>7. Gone(q)' = Gone(q)
    BY <1>2, <2>3, <2>4, <2>5, <2>6
  <2>8. \A r \in Req : requests'[r] # None => requests'[r].pending \subseteq requests'[r].made
    BY <1>5, <2>5, <2>6 DEF DeliveryInv, AccountInv
  <2>9. QED
    BY <1>3u, <2>1, <2>7, <2>8 DEF DeliveryInv, AccountInv
<1>12. CopiesInv'
  BY <1>1, <1>7, <1>3u DEF DeliveryInv, CopiesInv, TypeOK
<1>13. AnsweredInv'
  BY <1>1, <1>2, <1>5, <1>3u DEF DeliveryInv, AnsweredInv, TypeOK
<1>14. QED BY <1>8, <1>9, <1>10, <1>11, <1>12, <1>13 DEF DeliveryInv

(* The replica imports, when the worker waits for it or later: its copy    *)
(* stays the owner's past, and a copy that is up to date stays so.         *)
LEMMA ImportPreserves ==
  ASSUME DeliveryInv, NEW snap \in Records, Past(snap),
         replica' = ImportRecords(replica, snap),
         UNCHANGED <<requests, published, answered>>,
         net' \in SUBSET net
  PROVE  /\ replica' \in Records
         /\ CopiesInv' /\ AnsweredInv'
         /\ \A r \in Req : requests[r] # None
                             /\ (replica[r] = requests[r] \/ snap[r] = requests[r])
              => replica'[r] = requests'[r]
<1>1. TypeOK /\ Past(replica) BY DEF DeliveryInv, CopiesInv
<1>2. /\ replica' \in Records
      /\ Past(replica')
      /\ \A r \in Req : requests[r] # None
                          /\ (replica[r] = requests[r] \/ snap[r] = requests[r])
           => replica'[r] = requests[r]
  BY <1>1, ImportReplica
<1>3. Past(replica)'
  BY <1>2 DEF Past
<1>4. CopiesInv'
  BY <1>3, PastUnchanged DEF DeliveryInv, CopiesInv
<1>5. AnsweredInv'
  BY <1>1, <1>2 DEF DeliveryInv, AnsweredInv, TypeOK
<1>6. QED BY <1>2, <1>4, <1>5

(* A message of an earlier synchronisation that reaches the replica late.  *)
LEMMA LatePreserves ==
  ASSUME DeliveryInv, NEW snap \in net, HandleMgrSync(snap)
  PROVE  DeliveryInv'
<1>1. TypeOK /\ snap \in Records /\ Past(snap)
  BY DEF DeliveryInv, CopiesInv, TypeOK
<1>2. /\ replica' = ImportRecords(replica, snap)
      /\ UNCHANGED <<requests, worker, published, answered, healthy>>
      /\ net' \in SUBSET net
  BY DEF HandleMgrSync
<1>3. /\ replica' \in Records
      /\ CopiesInv' /\ AnsweredInv'
      /\ \A r \in Req : requests[r] # None
                          /\ (replica[r] = requests[r] \/ snap[r] = requests[r])
           => replica'[r] = requests'[r]
  BY Zenon, <1>1, <1>2, ImportPreserves
<1>4. TypeOK'
  BY <1>1, <1>2, <1>3 DEF TypeOK
<1>5. LockInv'
  BY <1>2 DEF DeliveryInv, LockInv
<1>6. ASSUME NEW v \in Worker PROVE WorkerInv(v)'
  BY <1>2, <1>3, PastUnchanged DEF DeliveryInv, WorkerInv
<1>7. AccountInv'
  <2>1. \A r \in Req : Gone(r)' = Gone(r)
    BY <1>2 DEF Gone
  <2>2. QED BY <1>2, <2>1 DEF DeliveryInv, AccountInv
<1>8. QED BY <1>3, <1>4, <1>5, <1>6, <1>7 DEF DeliveryInv

(* The answer of the replica: at the end of a delivery without an error    *)
(* its copy is the owner's record, which has nothing pending.              *)
LEMMA AcknowledgedPreserves ==
  ASSUME DeliveryInv, NEW w \in Worker, Acknowledged(w)
  PROVE  DeliveryInv'
<1>1. TypeOK /\ WorkerInv(w) /\ LockInv BY DEF DeliveryInv
<1>2. PICK q \in Req, s \in Records :
        /\ q = worker[w].req /\ s = worker[w].snap
        /\ worker[w].pc \in SyncPC
        /\ requests[q] # None /\ q \notin answered
        /\ s[q] = requests[q] /\ Past(s)
  BY <1>1 DEF Acknowledged, WorkerInv, TypeOK, SyncPC
<1>3. /\ replica' = ImportRecords(replica, s)
      /\ Finish(w, TRUE)
      /\ UNCHANGED <<requests, net, published, answered, healthy>>
  BY <1>2 DEF Acknowledged
<1>4. /\ worker' = [worker EXCEPT ![w] = worker'[w]]
      /\ worker'[w] \in WorkerRecord
      /\ worker'[w].req = q
      /\ worker'[w].pc = After(worker[w].pc, TRUE)
      /\ worker'[w].todo = worker[w].todo
      /\ worker'[w].err = worker[w].err
      /\ worker'[w].snap = None /\ worker'[w].sent = FALSE
      /\ worker'[w].pc \in {"publish", "state", "final", "reply"}
  BY <1>1, <1>2, <1>3, FinishEffect DEF TypeOK
<1>5. \A v \in Worker \ {w} : worker'[v] = worker[v]
  BY <1>1, <1>4 DEF TypeOK
<1>6. /\ replica' \in Records
      /\ CopiesInv' /\ AnsweredInv'
      /\ \A r \in Req : requests[r] # None
                          /\ (replica[r] = requests[r] \/ s[r] = requests[r])
           => replica'[r] = requests'[r]
  BY Zenon, <1>2, <1>3, ImportPreserves
<1>7. TypeOK'
  <2>1. worker' \in [Worker -> WorkerRecord]
    BY <1>1, <1>4 DEF TypeOK, WorkerRecord
  <2>2. QED BY <1>1, <1>3, <1>6, <2>1 DEF TypeOK, WorkerRecord
<1>8. LockInv'
  BY <1>1, <1>2, <1>4, <1>5 DEF LockInv, SyncPC
<1>9. ASSUME NEW v \in Worker PROVE WorkerInv(v)'
  <2>1. CASE v = w
    <3>1. worker[w].pc = "delivery" => worker'[w].pc = "publish"
      BY <1>4 DEF After
    <3>2. worker[w].pc # "delivery" => worker'[w].pc \in {"final", "reply"}
      BY <1>2, <1>4 DEF After, SyncPC
    <3>3. QED
      BY <1>1, <1>2, <1>3, <1>4, <1>6, <2>1, <3>1, <3>2 DEF WorkerInv, SyncPC
  <2>2. CASE v # w
    BY <1>3, <1>5, <1>6, <2>2, PastUnchanged DEF DeliveryInv, WorkerInv
  <2>3. QED BY <2>1, <2>2
<1>10. AccountInv'
  <2>1. worker[w].pc # "mark" /\ worker'[w].pc # "mark"
    BY <1>2, <1>4 DEF SyncPC
  <2>2. \A r \in Req : Gone(r)' = Gone(r)
    BY <1>3, <1>5, <2>1, GoneUnchanged
  <2>3. QED BY <1>3, <2>2 DEF DeliveryInv, AccountInv
<1>11. QED BY <1>6, <1>7, <1>8, <1>9, <1>10 DEF DeliveryInv

(* A state command: a request seen for the first time is in no snapshot,   *)
(* and nobody else has it in hand.                                         *)
LEMMA ArrivePreserves ==
  ASSUME DeliveryInv, NEW r \in Req, NEW w \in Worker, NEW es \in SUBSET Event,
         HandleState(w, r, es)
  PROVE  DeliveryInv'
<1>1. TypeOK /\ WorkerInv(w) /\ LockInv BY DEF DeliveryInv
<1>2. /\ worker[w].pc = "idle" /\ worker[w] = Idle
      /\ \A v \in Worker : worker[v].req # r
      /\ r \notin answered
  BY <1>1 DEF HandleState, DeliveryUnlocked, WorkerInv
<1>3. UNCHANGED <<replica, net, published, answered, healthy>>
  BY DEF HandleState
<1>4. /\ worker'[w].pc = "pending" /\ worker'[w].req = r
      /\ worker'[w].todo = {} /\ worker'[w].snap = None
      /\ worker'[w].sent = FALSE /\ worker'[w].err = FALSE
      /\ \A v \in Worker \ {w} : worker'[v] = worker[v]
      /\ worker' \in [Worker -> WorkerRecord]
  BY <1>1, <1>2 DEF HandleState, TypeOK, WorkerRecord, WorkerPC, Idle
<1>5. /\ requests' \in Records
      /\ requests'[r] # None
      /\ \A q \in Req : q # r \/ requests[r] # None => requests'[q] = requests[q]
      /\ requests[r] = None => requests'[r].made = es /\ requests'[r].pending = es
  <2>1. [made |-> es, pending |-> es, seq |-> 1] \in Record
    BY DEF Record
  <2>2. CASE requests[r] = None
    <3>1. requests' = [requests EXCEPT ![r] = [made |-> es, pending |-> es, seq |-> 1]]
      BY <2>2 DEF HandleState
    <3>2. [made |-> es, pending |-> es, seq |-> 1] # None
      BY <2>1, DeliveryAssumption
    <3>3. QED BY <1>1, <2>1, <2>2, <3>1, <3>2 DEF TypeOK, Records
  <2>3. CASE requests[r] # None
    BY <1>1, <2>3 DEF HandleState, TypeOK
  <2>4. QED BY <2>2, <2>3
<1>6. ASSUME NEW snap, Past(snap) PROVE Past(snap)'
  BY <1>5, <1>6 DEF Past
<1>7. TypeOK'
  BY <1>1, <1>3, <1>4, <1>5 DEF TypeOK, WorkerRecord
<1>8. LockInv'
  BY <1>1, <1>2, <1>4 DEF LockInv
<1>9. ASSUME NEW v \in Worker PROVE WorkerInv(v)'
  <2>1. CASE v = w
    BY <1>2, <1>3, <1>4, <1>5, <2>1 DEF WorkerInv
  <2>2. CASE v # w
    <3>1. WorkerInv(v) /\ worker'[v] = worker[v]
      BY <1>4, <2>2 DEF DeliveryInv
    <3>2. worker[v].pc # "idle" => requests'[worker[v].req] = requests[worker[v].req]
      BY <1>2, <1>5, <3>1 DEF WorkerInv
    <3>3. worker[v].snap # None => Past(worker[v].snap)'
      BY <1>6, <3>1 DEF WorkerInv
    <3>4. QED
      BY <1>3, <3>1, <3>2, <3>3 DEF WorkerInv, SyncPC
  <2>3. QED BY <2>1, <2>2
<1>10. AccountInv'
  <2>1. ASSUME NEW q \in Req PROVE Gone(q)' = Gone(q)
    <3>1. {v \in Worker : worker[v].req = q /\ worker[v].pc = "mark"}
            = {v \in Worker : worker'[v].req = q /\ worker'[v].pc = "mark"}
      BY <1>2, <1>4
    <3>2. \A v \in {x \in Worker : worker[x].req = q /\ worker[x].pc = "mark"} :
            worker'[v] = worker[v]
      BY <1>2, <1>4
    <3>3. (IF requests'[q] = None THEN {} ELSE requests'[q].made \ requests'[q].pending)
            = (IF requests[q] = None THEN {} ELSE requests[q].made \ requests[q].pending)
      BY <1>5
    <3>4. QED BY <3>1, <3>2, <3>3 DEF Gone
  <2>2. \A q \in Req : requests'[q] # None => requests'[q].pending \subseteq requests'[q].made
    BY <1>5 DEF DeliveryInv, AccountInv
  <2>3. QED BY <1>3, <2>1, <2>2 DEF DeliveryInv, AccountInv
<1>11. CopiesInv'
  BY <1>3, <1>6 DEF DeliveryInv, CopiesInv
<1>12. AnsweredInv'
  BY <1>1, <1>2, <1>3, <1>5 DEF DeliveryInv, AnsweredInv, TypeOK
<1>13. QED BY <1>7, <1>8, <1>9, <1>10, <1>11, <1>12 DEF DeliveryInv

(* The reply: OK only after a delivery without an error.                   *)
LEMMA ReplyPreserves ==
  ASSUME DeliveryInv, NEW w \in Worker, Reply(w)
  PROVE  DeliveryInv'
<1>1. TypeOK /\ WorkerInv(w) /\ LockInv BY DEF DeliveryInv
<1>2. PICK q \in Req :
        /\ q = worker[w].req /\ worker[w].pc = "reply"
        /\ requests[q] # None
        /\ ~worker[w].err => requests[q].pending = {} /\ replica[q] = requests[q]
  BY <1>1 DEF Reply, WorkerInv
<1>3. /\ worker' = [worker EXCEPT ![w] = Idle]
      /\ answered' = IF worker[w].err THEN answered ELSE answered \cup {q}
      /\ UNCHANGED <<requests, replica, net, published, healthy>>
  BY <1>2 DEF Reply
<1>4. /\ worker'[w] = Idle
      /\ \A v \in Worker \ {w} : worker'[v] = worker[v]
      /\ worker' \in [Worker -> WorkerRecord]
  BY <1>1, <1>3 DEF TypeOK, WorkerRecord, WorkerPC, Idle
<1>5. TypeOK'
  BY <1>1, <1>3, <1>4 DEF TypeOK, WorkerRecord
<1>6. \A v \in Worker \ {w} : worker[v].pc # "idle" => worker[v].req \in Req /\ worker[v].req # q
  BY <1>1, <1>2 DEF DeliveryInv, LockInv, WorkerInv
<1>7. LockInv'
  BY <1>1, <1>4, <1>6, DeliveryAssumption DEF LockInv, Idle
<1>8. ASSUME NEW v \in Worker PROVE WorkerInv(v)'
  <2>1. CASE v = w
    BY <1>4, <2>1 DEF WorkerInv, Idle
  <2>2. CASE v # w
    BY <1>3, <1>4, <1>6, <2>2, PastUnchanged DEF DeliveryInv, WorkerInv
  <2>3. QED BY <2>1, <2>2
<1>9. AccountInv'
  <2>1. worker[w].pc # "mark" /\ worker'[w].pc # "mark"
    BY <1>2, <1>4 DEF Idle
  <2>2. \A r \in Req : Gone(r)' = Gone(r)
    BY <1>3, <1>4, <2>1, GoneUnchanged
  <2>3. QED BY <1>3, <2>2 DEF DeliveryInv, AccountInv
<1>10. CopiesInv'
  BY <1>3, PastUnchanged DEF DeliveryInv, CopiesInv
<1>11. AnsweredInv'
  BY <1>2, <1>3 DEF DeliveryInv, AnsweredInv
<1>12. QED BY <1>5, <1>7, <1>8, <1>9, <1>10, <1>11 DEF DeliveryInv

(* A step that changes nothing but the fault model, or nothing at all.     *)
LEMMA StutterPreserves ==
  ASSUME DeliveryInv, UNCHANGED <<requests, replica, worker, net, published, answered>>,
         healthy' \in BOOLEAN
  PROVE  DeliveryInv'
<1>1. \A r \in Req : Gone(r)' = Gone(r)
  BY DEF Gone
<1>2. AccountInv'
  BY <1>1 DEF DeliveryInv, AccountInv
<1>3. ASSUME NEW v \in Worker PROVE WorkerInv(v)'
  BY PastUnchanged DEF DeliveryInv, WorkerInv
<1>4. TypeOK' /\ LockInv' /\ AnsweredInv'
  BY DEF DeliveryInv, TypeOK, LockInv, AnsweredInv
<1>5. CopiesInv'
  BY PastUnchanged DEF DeliveryInv, CopiesInv
<1>6. QED BY <1>2, <1>3, <1>4, <1>5 DEF DeliveryInv

-----------------------------------------------------------------------------
(* Theorems                                                                *)

(* The inductive invariant of the delivery: the lock, the workers' lists,  *)
(* the account of the publications and the copies of the records agree.    *)
THEOREM DeliveryInvariant == Spec => []DeliveryInv
<1>1. Init => DeliveryInv
  <2> SUFFICES ASSUME Init PROVE DeliveryInv OBVIOUS
  <2>1. TypeOK
    BY DEF Init, TypeOK, Idle, WorkerPC, Records
  <2>2. LockInv /\ AnsweredInv /\ CopiesInv
    BY DEF Init, LockInv, Idle, AnsweredInv, CopiesInv, Past
  <2>3. ASSUME NEW w \in Worker PROVE WorkerInv(w)
    BY DEF Init, WorkerInv, Idle
  <2>4. \A r \in Req : Gone(r) = {}
    BY DEF Init, Gone, Idle
  <2>5. AccountInv
    BY <2>4 DEF Init, AccountInv
  <2>6. QED BY <2>1, <2>2, <2>3, <2>5 DEF DeliveryInv
<1>2. DeliveryInv /\ [Next]_vars => DeliveryInv'
  <2> SUFFICES ASSUME DeliveryInv, [Next]_vars PROVE DeliveryInv' OBVIOUS
  <2>1. CASE \E r \in Req : Arrive(r)
    BY <2>1, ArrivePreserves DEF Arrive
  <2>2. CASE \E w \in Worker : Work(w) \/ Fail(w)
    BY <2>2, LoopPreserves, PublishPreserves, MarkPreserves, SyncPreserves,
       AcknowledgedPreserves, ReplyPreserves DEF Work, Fail
  <2>3. CASE \E snap \in net : HandleMgrSync(snap)
    BY <2>3, LatePreserves
  <2>4. CASE Heal \/ UNCHANGED vars
    <3>1. healthy' \in BOOLEAN
      BY <2>4 DEF Heal, vars, DeliveryInv, TypeOK
    <3>2. QED BY <2>4, <3>1, StutterPreserves DEF Heal, vars
  <2>5. QED BY <2>1, <2>2, <2>3, <2>4 DEF Next
<1>3. QED BY <1>1, <1>2, PTL DEF Spec

(* The owner publishes no event of a request twice, for any number of      *)
(* repetitions, workers, events and failures.                              *)
THEOREM NoEventTwice == Spec => []PublishedOnce
<1>1. DeliveryInv => PublishedOnce
  BY DEF DeliveryInv, AccountInv, PublishedOnce
<1>2. QED BY <1>1, DeliveryInvariant, PTL

(* An answer OK means that every event of the request was published and    *)
(* that the other coordinator's record has nothing pending.                *)
THEOREM OkIsDelivered == Spec => []OkMeansDelivered
<1>1. DeliveryInv => OkMeansDelivered
  BY DEF DeliveryInv, TypeOK, Records, Record, AccountInv, AnsweredInv, Gone, OkMeansDelivered
<1>2. QED BY <1>1, DeliveryInvariant, PTL

(* The replica never takes an event as delivered that the owner has not    *)
(* published, however late the synchronisations reach it.                  *)
THEOREM ReplicaFollows == Spec => []ReplicaNotAhead
<1>1. DeliveryInv => ReplicaNotAhead
  <2> SUFFICES ASSUME DeliveryInv, NEW r \in Req, replica[r] # None
               PROVE  /\ replica[r].seq <= requests[r].seq
                      /\ \A e \in replica[r].made \ replica[r].pending : published[r][e] > 0
    BY DEF ReplicaNotAhead
  <2>1. /\ requests[r] # None
        /\ replica[r].seq <= requests[r].seq
        /\ replica[r].made = requests[r].made
        /\ requests[r].pending \subseteq replica[r].pending
        /\ requests[r].made \subseteq Event
    BY DEF DeliveryInv, CopiesInv, Past, TypeOK, Records, Record
  <2>2. ASSUME NEW e \in replica[r].made \ replica[r].pending PROVE published[r][e] > 0
    <3>1. e \in Gone(r) /\ e \in Event
      BY <2>1 DEF Gone
    <3>2. QED BY <3>1 DEF DeliveryInv, AccountInv
  <2>3. QED BY <2>1, <2>2
<1>2. QED BY <1>1, DeliveryInvariant, PTL
=============================================================================
