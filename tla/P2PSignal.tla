------------------------------ MODULE P2PSignal ------------------------------
(***************************************************************************)
(* Reliable signalling of one connection of a P2P session on the           *)
(* coordinator that owns it (p2p/signal_v2.go, the retry queue of          *)
(* p2p/manager_v2.go and the generation life cycle of p2p/store_v2.go).    *)
(*                                                                         *)
(* A generation is one epoch of the connection.  Each member numbers the   *)
(* signals it sends in a generation 1, 2, ...; the coordinator accepts     *)
(* them strictly in order, republishes each one until the other member     *)
(* acknowledges it cumulatively, and gives up at the setup deadline of the *)
(* generation.  Three kinds of goroutine touch the state: the command      *)
(* workers, the retry loop and the expiry loop.  A command changes the     *)
(* store under the session lock and the retry queue afterwards, mostly     *)
(* after the lock is released; the retry loop takes items out of the queue *)
(* and consults the store item by item.                                    *)
(*                                                                         *)
(* P2PRegister models the registrations.  Here a command of a sender that  *)
(* is not registered, which is refused without effect, does not happen,    *)
(* and an event for a target that is not registered is lost.  Imports of   *)
(* replicas into the owner's store are left to P2PSession: they change     *)
(* nothing here unless one brings a closed session back.                   *)
(***************************************************************************)
EXTENDS Integers, FiniteSets

CONSTANTS
  Client, Server,  \* the two members of the session
  Msg,             \* message IDs
  Req,             \* request IDs
  Senders,         \* the members that send signals
  MaxSeq,          \* bound: signals per direction
  MaxEpoch,        \* bound: generations of the connection
  MaxWorkers       \* bound: signal commands between store and retry queue

Member == {Client, Server}

ASSUME SignalAssumption ==
  /\ Client # Server
  /\ Senders \subseteq Member
  /\ MaxSeq \in Nat \ {0}
  /\ MaxEpoch \in Nat \ {0}
  /\ MaxWorkers \in Nat

Epoch == 1..MaxEpoch
SeqNo == 1..MaxSeq
ConnState == {"allocated", "preparing", "active", "closed"}

\* sessionRecordV2.peer
Peer(n) == IF n = Client THEN Server ELSE Client

\* signalRetryItemV2, identified by its direction (snd, ep) and message ID
Item == [snd : Member, ep : Epoch, seq : SeqNo, msg : Msg]
AckCmd == [snd : Member, ep : Epoch, seq : SeqNo]

\* directionRecordV2; an absent direction behaves like an empty one
Direction == [nextSeq  : 1..(MaxSeq + 1),
              received : 0..MaxSeq,
              acked    : 0..MaxSeq,
              recent   : [Msg -> 0..MaxSeq],  \* 0: not seen
              pending  : SUBSET SeqNo]
EmptyDirection == [nextSeq |-> 1, received |-> 0, acked |-> 0,
                   recent |-> [m \in Msg |-> 0], pending |-> {}]

\* requestRecordV2 of SIGNAL_SEND and SIGNAL_ACK: what the command was, and
\* whether an event was cached with it
ReqKind == {"none", "send", "send_dup", "ack"}
Request == [kind : ReqKind, ep : 0..MaxEpoch, seq : 0..MaxSeq,
            msg : Msg \cup {"none"}]
NoRequest == [kind |-> "none", ep |-> 0, seq |-> 0, msg |-> "none"]

VARIABLES
  epoch,      \* connectionRecordV2.epoch
  connState,  \* connectionRecordV2.state; closed also when the session is
  ready,      \* connectionRecordV2.ready
  sessActive, \* sessionRecordV2.state has become active
  past,       \* the clock has reached connectionRecordV2.setupDeadline
  dir,        \* StoreV2.directions, by sender and epoch
  requests,   \* StoreV2.requests, by sender and request ID
  lockDrop,   \* generations whose retries the session-lock holder still drops
  retries,    \* managerV2.retries
  accepting,  \* SEND workers between AcceptSignal and enqueueSignalRetryV2
  acking,     \* ACK workers between AckSignal and dropSignalRetriesV2
  lateDrop,   \* REJECT workers between unlock and dropSignalRetriesForGenerationV2
  fpc,        \* program counter of flushSignalRetriesV2
  fpast,      \* the epoch already past its deadline at the flush's now (0: none)
  fdue,       \* items the flush took out of the queue
  fcur,       \* the item the flush works on
  delivered   \* signals that reached the peer, by sender and epoch

storeVars == <<epoch, connState, ready, sessActive, past, dir, requests>>
queueVars == <<retries, accepting, acking, lateDrop>>
flushVars == <<fpc, fpast, fdue, fcur>>
vars == <<storeVars, lockDrop, queueVars, flushVars, delivered>>

FlushPC == {"idle", "drop", "collect", "loop", "fetch", "publish", "requeue", "put"}

TypeOK ==
  /\ epoch \in Epoch
  /\ connState \in ConnState
  /\ ready \in SUBSET Member
  /\ sessActive \in BOOLEAN
  /\ past \in BOOLEAN
  /\ dir \in [Member -> [Epoch -> Direction]]
  /\ requests \in [Member -> [Req -> Request]]
  /\ lockDrop \in SUBSET Epoch
  /\ retries \in SUBSET Item
  /\ accepting \in SUBSET Item
  /\ acking \in SUBSET AckCmd
  /\ lateDrop \in SUBSET Epoch
  /\ fpc \in FlushPC
  /\ fpast \in 0..MaxEpoch
  /\ fdue \in SUBSET Item
  /\ fcur \in SUBSET Item
  /\ delivered \in [Member -> [Epoch -> SUBSET SeqNo]]

Init ==
  /\ epoch = 1
  /\ connState = "allocated"
  /\ ready = {}
  /\ sessActive = FALSE
  /\ past = FALSE
  /\ dir = [n \in Member |-> [e \in Epoch |-> EmptyDirection]]
  /\ requests = [n \in Member |-> [r \in Req |-> NoRequest]]
  /\ lockDrop = {}
  /\ retries = {}
  /\ accepting = {}
  /\ acking = {}
  /\ lateDrop = {}
  /\ fpc = "idle"
  /\ fpast = 0
  /\ fdue = {}
  /\ fcur = {}
  /\ delivered = [n \in Member |-> [e \in Epoch |-> {}]]

-----------------------------------------------------------------------------
(* Helpers of the store                                                    *)

\* dropGenerationLocked: both directions of generation e
DropGeneration(d, e) == [n \in Member |-> [d[n] EXCEPT ![e] = EmptyDirection]]

\* dropSessionDirectionsLocked
DropSessionDirections == [n \in Member |-> [e \in Epoch |-> EmptyDirection]]

\* mutant: only the server's direction is looked at
MutHasPendingOneSide(e) == dir[Server][e].pending # {}

\* generationHasPendingLocked
GenerationHasPending(e) == \E n \in Member : dir[n][e].pending # {}

\* StoreV2.pendingSignal: the generation is current, open, and seq unacked
PendingSignal(it) ==
  /\ connState # "closed"
  /\ it.ep = epoch
  /\ it.seq \in dir[it.snd][it.ep].pending

\* the session lock is free: no command is between its store change and unlock
SessionUnlocked == lockDrop = {}

FreeWorker == Cardinality(accepting) + Cardinality(acking) + Cardinality(lateDrop)
                < MaxWorkers

-----------------------------------------------------------------------------
(* The clock                                                               *)

DeadlinePasses ==
  /\ ~past
  /\ past' = TRUE
  /\ UNCHANGED <<epoch, connState, ready, sessActive, dir, requests, lockDrop,
                 queueVars, flushVars, delivered>>

-----------------------------------------------------------------------------
(* Life cycle of the generation                                            *)

BindConnection ==
  /\ SessionUnlocked
  /\ connState = "allocated"
  /\ connState' = "preparing"
  /\ UNCHANGED <<epoch, ready, sessActive, past, dir, requests, lockDrop,
                 queueVars, flushVars, delivered>>

MarkConnectionReady(n) ==
  /\ SessionUnlocked
  /\ connState = "preparing"
  /\ ready' = ready \cup {n}
  /\ connState' = IF ready' = Member THEN "active" ELSE "preparing"
  /\ sessActive' = (sessActive \/ ready' = Member)
  /\ UNCHANGED <<epoch, past, dir, requests, lockDrop,
                 queueVars, flushVars, delivered>>

\* RESTART: AllocateRestart opens the next generation, and the worker drops the
\* old one's retries before it releases the session lock
AllocateRestart ==
  /\ SessionUnlocked
  /\ connState # "closed"
  /\ epoch < MaxEpoch
  /\ dir' = DropGeneration(dir, epoch)
  /\ epoch' = epoch + 1
  /\ connState' = "allocated"
  /\ ready' = {}
  /\ past' = FALSE
  /\ lockDrop' = {epoch}
  /\ UNCHANGED <<sessActive, requests, queueVars, flushVars, delivered>>

\* connection CLOSE: retries are dropped before the session lock is released
CloseConnection ==
  /\ SessionUnlocked
  /\ connState # "closed"
  /\ connState' = "closed"
  /\ dir' = DropGeneration(dir, epoch)
  /\ lockDrop' = {epoch}
  /\ UNCHANGED <<epoch, ready, sessActive, past, requests, queueVars, flushVars, delivered>>

\* session CLOSE: closeSessionLocked, then dropSignalRetriesForSessionV2
CloseSession ==
  /\ SessionUnlocked
  /\ connState # "closed"
  /\ connState' = "closed"
  /\ dir' = DropSessionDirections
  /\ lockDrop' = Epoch
  /\ UNCHANGED <<epoch, ready, sessActive, past, requests, queueVars, flushVars, delivered>>

\* connection REJECT: retries are dropped after the session lock is released
RejectConnection ==
  /\ SessionUnlocked /\ FreeWorker
  /\ connState \in {"allocated", "preparing"}
  /\ connState' = "closed"
  /\ dir' = DropGeneration(dir, epoch)
  /\ lateDrop' = lateDrop \cup {epoch}
  /\ UNCHANGED <<epoch, ready, sessActive, past, requests, lockDrop,
                 retries, accepting, acking, flushVars, delivered>>

\* Expire: a generation past its deadline fails while it is being set up, or
\* while a signal of it is unacknowledged; until the session has been active,
\* the session's own deadline counts, which RESTART does not extend.  The
\* expiry loop takes no session lock.
Expire ==
  /\ \/ /\ connState \in {"allocated", "preparing"}
        /\ sessActive \/ epoch = 1 => past
     \/ past /\ connState = "active" /\ GenerationHasPending(epoch)
  /\ connState' = "closed"
  /\ dir' = DropGeneration(dir, epoch)
  /\ UNCHANGED <<epoch, ready, sessActive, past, requests, lockDrop,
                 queueVars, flushVars, delivered>>

\* dropSignalRetriesForGenerationV2 / dropSignalRetriesForSessionV2 of the worker
\* that holds the session lock, and the unlock that follows
DropRetriesAndUnlock ==
  /\ lockDrop # {}
  /\ retries' = {it \in retries : it.ep \notin lockDrop}
  /\ lockDrop' = {}
  /\ UNCHANGED <<storeVars, accepting, acking, lateDrop, flushVars, delivered>>

DropRetriesLate(e) ==
  /\ e \in lateDrop
  /\ retries' = {it \in retries : it.ep # e}
  /\ lateDrop' = lateDrop \ {e}
  /\ UNCHANGED <<storeVars, lockDrop, accepting, acking, flushVars, delivered>>

-----------------------------------------------------------------------------
(* SIGNAL_SEND: AcceptSignal under the session lock, then the retry queue  *)

\* a new signal: its message ID is unseen and its number is the next one
AcceptNew(n, r, e, q, m) ==
  LET d == dir[n][e]  IN
  /\ d.recent[m] = 0
  /\ q = d.nextSeq
  /\ dir' = [dir EXCEPT ![n][e] =
       [nextSeq |-> q + 1, received |-> q, acked |-> d.acked,
        recent |-> [d.recent EXCEPT ![m] = q], pending |-> d.pending \cup {q}]]
  /\ requests' = [requests EXCEPT ![n][r] = [kind |-> "send", ep |-> e, seq |-> q, msg |-> m]]
  /\ accepting' = accepting \cup {[snd |-> n, ep |-> e, seq |-> q, msg |-> m]}

\* a known message ID with its own number: returned again while unacknowledged
AcceptDuplicate(n, r, e, q, m) ==
  /\ dir[n][e].recent[m] = q
  /\ IF q \in dir[n][e].pending
     THEN /\ requests' = [requests EXCEPT ![n][r] = [kind |-> "send", ep |-> e, seq |-> q, msg |-> m]]
          /\ accepting' = accepting \cup {[snd |-> n, ep |-> e, seq |-> q, msg |-> m]}
     ELSE /\ requests' = [requests EXCEPT ![n][r] = [kind |-> "send_dup", ep |-> e, seq |-> q, msg |-> m]]
          /\ UNCHANGED accepting
  /\ UNCHANGED dir

AcceptSignal(n, r, e, q, m) ==
  /\ SessionUnlocked /\ FreeWorker
  /\ requests[n][r].kind = "none"
  /\ e = epoch
  /\ connState = "active"
  /\ AcceptNew(n, r, e, q, m) \/ AcceptDuplicate(n, r, e, q, m)
  /\ UNCHANGED <<epoch, connState, ready, sessActive, past, lockDrop, retries, acking,
                 lateDrop, flushVars, delivered>>

\* mutant: the cached event is returned without asking whether it is pending
MutCachedUnchecked(n, r) ==
  LET c == requests[n][r] IN
  /\ SessionUnlocked /\ FreeWorker
  /\ c.kind = "send"
  /\ accepting' = accepting \cup {[snd |-> n, ep |-> c.ep, seq |-> c.seq, msg |-> c.msg]}
  /\ UNCHANGED <<storeVars, lockDrop, retries, acking, lateDrop, flushVars, delivered>>

\* a repeated request: the cached event again if its signal is still pending
AcceptCached(n, r) ==
  LET c == requests[n][r] IN
  /\ SessionUnlocked /\ FreeWorker
  /\ c.kind = "send"
  /\ c.seq \in dir[n][c.ep].pending
  /\ accepting' = accepting \cup {[snd |-> n, ep |-> c.ep, seq |-> c.seq, msg |-> c.msg]}
  /\ UNCHANGED <<storeVars, lockDrop, retries, acking, lateDrop, flushVars, delivered>>

\* enqueueSignalRetryV2: an item already queued under the same key is kept
EnqueueRetry(it) ==
  /\ it \in accepting
  /\ accepting' = accepting \ {it}
  /\ retries' = IF \E x \in retries : x.snd = it.snd /\ x.ep = it.ep /\ x.msg = it.msg
                THEN retries ELSE retries \cup {it}
  /\ UNCHANGED <<storeVars, lockDrop, acking, lateDrop, flushVars, delivered>>

-----------------------------------------------------------------------------
(* SIGNAL_ACK: AckSignal under the session lock, then the retry queue.  The *)
(* members acknowledge only a prefix they received, and repeat a request   *)
(* only with the same contents (docs/raypx2-integrate.md, section 5).       *)

\* mutant: an ACK moves the window back, and everything received is dropped
MutAckWindow(n, r, e, q) ==
  LET d == dir[Peer(n)][e] IN
  /\ SessionUnlocked /\ FreeWorker
  /\ 1..q \subseteq delivered[Peer(n)][e]
  /\ requests[n][r].kind = "none"
  /\ e = epoch
  /\ q <= d.received
  /\ dir' = [dir EXCEPT ![Peer(n)][e] = [d EXCEPT !.acked = q, !.pending = {}]]
  /\ requests' = [requests EXCEPT ![n][r] = [kind |-> "ack", ep |-> e, seq |-> q, msg |-> "none"]]
  /\ acking' = acking \cup {[snd |-> Peer(n), ep |-> e, seq |-> q]}
  /\ UNCHANGED <<epoch, connState, ready, sessActive, past, lockDrop, retries, accepting,
                 lateDrop, flushVars, delivered>>

AckSignal(n, r, e, q) ==
  LET d == dir[Peer(n)][e] IN
  /\ SessionUnlocked /\ FreeWorker
  /\ 1..q \subseteq delivered[Peer(n)][e]
  /\ requests[n][r].kind = "none"
  /\ e = epoch
  /\ q <= d.received
  /\ dir' = IF q > d.acked
            THEN [dir EXCEPT ![Peer(n)][e] =
                    [d EXCEPT !.acked = q, !.pending = d.pending \ ((d.acked + 1)..q)]]
            ELSE dir
  /\ requests' = [requests EXCEPT ![n][r] = [kind |-> "ack", ep |-> e, seq |-> q, msg |-> "none"]]
  /\ acking' = acking \cup {[snd |-> Peer(n), ep |-> e, seq |-> q]}
  /\ UNCHANGED <<epoch, connState, ready, sessActive, past, lockDrop, retries, accepting,
                 lateDrop, flushVars, delivered>>

\* a repeated ACK request changes nothing in the store, but drops retries again
AckCached(n, r) ==
  LET c == requests[n][r] IN
  /\ SessionUnlocked /\ FreeWorker
  /\ c.kind = "ack"
  /\ acking' = acking \cup {[snd |-> Peer(n), ep |-> c.ep, seq |-> c.seq]}
  /\ UNCHANGED <<storeVars, lockDrop, retries, accepting, lateDrop, flushVars, delivered>>

\* dropSignalRetriesV2
DropAcked(a) ==
  /\ a \in acking
  /\ acking' = acking \ {a}
  /\ retries' = {it \in retries : ~(it.snd = a.snd /\ it.ep = a.ep /\ it.seq <= a.seq)}
  /\ UNCHANGED <<storeVars, lockDrop, accepting, lateDrop, flushVars, delivered>>

-----------------------------------------------------------------------------
(* The retry loop: flushSignalRetriesV2, one action per visit to shared    *)
(* state                                                                   *)

\* now is read and ExpirePendingSignals fails an active generation past it
FlushExpire ==
  /\ fpc = "idle"
  /\ fpast' = IF past THEN epoch ELSE 0
  /\ IF past /\ connState = "active" /\ GenerationHasPending(epoch)
     THEN /\ connState' = "closed"
          /\ dir' = DropGeneration(dir, epoch)
          /\ fpc' = "drop"
     ELSE /\ fpc' = "collect"
          /\ UNCHANGED <<connState, dir>>
  /\ UNCHANGED <<epoch, ready, sessActive, past, requests, lockDrop, queueVars,
                 fdue, fcur, delivered>>

\* dropSignalRetriesMatchingEventsV2
FlushDrop ==
  /\ fpc = "drop"
  /\ retries' = {it \in retries : it.ep # fpast}
  /\ fpc' = "collect"
  /\ UNCHANGED <<storeVars, lockDrop, accepting, acking, lateDrop,
                 fpast, fdue, fcur, delivered>>

\* the due items leave the queue; which ones are due is a matter of back-off
FlushCollect ==
  /\ fpc = "collect"
  /\ \E due \in SUBSET retries :
       /\ fdue' = due
       /\ retries' = retries \ due
  /\ fpc' = "loop"
  /\ UNCHANGED <<storeVars, lockDrop, accepting, acking, lateDrop, fpast, fcur, delivered>>

FlushDone ==
  /\ fpc = "loop"
  /\ fdue = {}
  /\ fpc' = "idle"
  /\ fcur' = {}
  /\ UNCHANGED <<storeVars, lockDrop, queueVars, fpast, fdue, delivered>>

\* mutant: an item of a generation that is over goes back to the queue
MutNextKeepsDead(it) ==
  /\ fpc = "loop"
  /\ it \in fdue
  /\ fdue' = fdue \ {it}
  /\ IF connState # "closed" /\ it.ep = epoch /\ it.ep # fpast
     THEN fcur' = {it} /\ fpc' = "fetch" /\ UNCHANGED retries
     ELSE fcur' = {}   /\ fpc' = "loop" /\ retries' = retries \cup {it}
  /\ UNCHANGED <<storeVars, lockDrop, accepting, acking, lateDrop, fpast, delivered>>

\* generationDeadline: the next item is dropped if its generation is over
FlushNext(it) ==
  /\ fpc = "loop"
  /\ it \in fdue
  /\ fdue' = fdue \ {it}
  /\ IF connState # "closed" /\ it.ep = epoch /\ it.ep # fpast
     THEN fcur' = {it} /\ fpc' = "fetch"
     ELSE fcur' = {}   /\ fpc' = "loop"
  /\ UNCHANGED <<storeVars, lockDrop, queueVars, fpast, delivered>>

FlushFetch(it) ==
  /\ fpc = "fetch" /\ it \in fcur
  /\ IF PendingSignal(it)
     THEN fpc' = "publish" /\ UNCHANGED fcur
     ELSE fpc' = "loop" /\ fcur' = {}
  /\ UNCHANGED <<storeVars, lockDrop, queueVars, fpast, fdue, delivered>>

\* mutant: an item whose publication failed is not requeued
MutPublishFailedDropped(it) ==
  /\ fpc = "publish" /\ it \in fcur
  /\ fpc' = "loop" /\ fcur' = {}
  /\ UNCHANGED <<storeVars, lockDrop, queueVars, fpast, fdue, delivered>>

\* publishV2Event fails, or the message is lost on its way
FlushPublishLost(it) ==
  /\ fpc = "publish" /\ it \in fcur
  /\ fpc' = "requeue"
  /\ UNCHANGED <<storeVars, lockDrop, queueVars, fpast, fdue, fcur, delivered>>

FlushPublishDelivered(it) ==
  /\ fpc = "publish" /\ it \in fcur
  /\ delivered' = [delivered EXCEPT ![it.snd][it.ep] = @ \cup {it.seq}]
  /\ fpc' = "requeue"
  /\ UNCHANGED <<storeVars, lockDrop, queueVars, fpast, fdue, fcur>>

\* requeueSignalRetryV2: still pending? then, in a second step, back in the queue
FlushRequeue(it) ==
  /\ fpc = "requeue" /\ it \in fcur
  /\ IF PendingSignal(it)
     THEN fpc' = "put" /\ UNCHANGED fcur
     ELSE fpc' = "loop" /\ fcur' = {}
  /\ UNCHANGED <<storeVars, lockDrop, queueVars, fpast, fdue, delivered>>

FlushPut(it) ==
  /\ fpc = "put" /\ it \in fcur
  /\ retries' = {x \in retries : ~(x.snd = it.snd /\ x.ep = it.ep /\ x.msg = it.msg)}
                  \cup {it}
  /\ fcur' = {}
  /\ fpc' = "loop"
  /\ UNCHANGED <<storeVars, lockDrop, accepting, acking, lateDrop, fpast, fdue, delivered>>

FlushItem(it) ==
  \/ FlushNext(it) \/ FlushFetch(it) \/ FlushPublishLost(it)
  \/ FlushPublishDelivered(it) \/ FlushRequeue(it) \/ FlushPut(it)

Flush ==
  \/ FlushExpire \/ FlushDrop \/ FlushCollect \/ FlushDone
  \/ \E it \in fdue \cup fcur : FlushItem(it)

-----------------------------------------------------------------------------
Lifecycle ==
  \/ BindConnection \/ AllocateRestart
  \/ \E n \in Member : MarkConnectionReady(n)
  \/ CloseConnection \/ CloseSession \/ RejectConnection

Worker ==
  \/ DropRetriesAndUnlock
  \/ \E e \in lateDrop : DropRetriesLate(e)
  \/ \E it \in accepting : EnqueueRetry(it)
  \/ \E a \in acking : DropAcked(a)

Signalling ==
  \/ \E n \in Senders, r \in Req :
       \/ \E e \in Epoch, q \in SeqNo, m \in Msg : AcceptSignal(n, r, e, q, m)
       \/ AcceptCached(n, r)
  \/ \E n \in Member, r \in Req :
       \/ \E e \in Epoch, q \in SeqNo : AckSignal(n, r, e, q)
       \/ AckCached(n, r)

Next ==
  \/ DeadlinePasses \/ Expire \/ Lifecycle
  \/ Signalling \/ Worker \/ Flush

Spec == Init /\ [][Next]_vars

\* Every goroutine is scheduled, time passes, and a queued item becomes due (its
\* back-off is at most a second); delivery and acknowledgement are not promised
FairSpec ==
  /\ Spec
  /\ WF_vars(Flush) /\ WF_vars(DeadlinePasses) /\ WF_vars(Expire)
  /\ WF_vars(DropRetriesAndUnlock)
  /\ \A e \in Epoch : WF_vars(DropRetriesLate(e))
  /\ \A it \in Item : WF_vars(EnqueueRetry(it))
  /\ \A a \in AckCmd : WF_vars(DropAcked(a))
  /\ \A it \in Item : SF_vars(FlushCollect /\ it \in fdue')

-----------------------------------------------------------------------------
(* Properties                                                              *)

\* The generation is open and its setup deadline has not been reached
Live(e) == e = epoch /\ connState # "closed" /\ ~past

\* Items some goroutine is responsible for: queued, about to be queued by a
\* SEND worker, or in the hands of the retry loop
Held == retries \cup accepting \cup fdue \cup fcur

(* Every unacknowledged signal of a live generation is held by the retry    *)
(* queue or by a goroutine that will put it there: no interleaving of SEND, *)
(* ACK, RESTART, CLOSE, REJECT and flushSignalRetriesV2 (which empties the  *)
(* queue while it works) loses a retry.                                     *)
NoLostRetry ==
  \A n \in Member : \A e \in Epoch : \A q \in SeqNo :
    Live(e) /\ q \in dir[n][e].pending
      => \E it \in Held : it.snd = n /\ it.ep = e /\ it.seq = q

(* The unacknowledged signals of a direction are exactly the window after   *)
(* the last cumulative ACK, whatever duplicates, cached requests and stale  *)
(* ACKs AcceptSignal and AckSignal saw.                                     *)
PendingWindow ==
  \A n \in Member : \A e \in Epoch :
    LET d == dir[n][e] IN
    /\ d.nextSeq = d.received + 1
    /\ d.acked <= d.received
    /\ d.pending = (d.acked + 1)..d.received

(* A signal AcceptSignal took for the current generation is never forgotten *)
(* before it reached the peer: it was delivered or it is still pending.     *)
NoSignalForgotten ==
  \A n \in Member : \A q \in SeqNo :
    q <= dir[n][epoch].received
      => q \in dir[n][epoch].pending \cup delivered[n][epoch]

(* Two message IDs never share a sequence number of a direction, so         *)
(* republishing by number (pendingSignal) always sends the same message.    *)
OneMessagePerSeq ==
  \A n \in Member : \A e \in Epoch : \A m1, m2 \in Msg :
    /\ dir[n][e].recent[m1] # 0
    /\ dir[n][e].recent[m1] = dir[n][e].recent[m2]
    => m1 = m2

(* RESTART, CLOSE, REJECT and the setup timeout clear the generation they   *)
(* end: nothing is kept, and nothing is accepted, for an earlier epoch or   *)
(* for a closed connection.                                                 *)
EndedGenerationsEmpty ==
  \A n \in Member : \A e \in Epoch :
    e # epoch \/ connState = "closed" => dir[n][e] = EmptyDirection

(* Nothing revives a settled signal: a step puts an item into the hands of  *)
(* the retry machinery (AcceptSignal for a new, a duplicate or a cached     *)
(* request) only for a signal that is pending in the open generation, so    *)
(* once the last item of an acknowledged or dead signal is gone it is never *)
(* published again.                                                         *)
NoRevival ==
  [][\A it \in Item : it \in Held' \ Held =>
       PendingSignal(it)']_vars

(* A signal does not stay unacknowledged for ever: it is acknowledged, or   *)
(* its generation ends, at the latest at the setup deadline.                *)
PendingResolved ==
  \A n \in Member : \A e \in Epoch : \A q \in SeqNo :
    q \in dir[n][e].pending ~> q \notin dir[n][e].pending

(* The retry queue keeps no garbage: items that a late enqueueSignalRetryV2 *)
(* or requeueSignalRetryV2 put back for a dead generation are removed.      *)
DeadRetriesDrained ==
  \A e \in Epoch :
    (e # epoch \/ connState = "closed") ~> ~\E it \in Held : it.ep = e
-----------------------------------------------------------------------------
(* The inductive invariant behind the safety properties                    *)

Open(e) == e = epoch /\ connState # "closed"

\* an item in anyone's hands names a message its direction remembers
HeldMatchesStore ==
  \A it \in Held :
    /\ it.ep <= epoch
    /\ Open(it.ep) => dir[it.snd][it.ep].recent[it.msg] = it.seq

\* so does a cached request; a cached ACK has been applied
RequestsMatchStore ==
  \A n \in Member : \A r \in Req :
    LET c == requests[n][r] IN
    /\ c.kind # "none" => c.ep \in Epoch /\ c.ep <= epoch /\ c.seq \in SeqNo
    /\ c.kind = "send" =>
         /\ c.msg \in Msg
         /\ Open(c.ep) => dir[n][c.ep].recent[c.msg] = c.seq
    /\ c.kind = "ack" => (Open(c.ep) => dir[Peer(n)][c.ep].acked >= c.seq)

\* an ACK worker drops only retries of signals already acknowledged
AcksApplied ==
  \A a \in acking :
    /\ a.ep <= epoch
    /\ Open(a.ep) => dir[a.snd][a.ep].acked >= a.seq

\* every generation whose retries are being dropped is over
DropsAreOver ==
  /\ \A e \in lockDrop \cup lateDrop : e < epoch \/ connState = "closed"
  /\ fpc = "drop" => connState = "closed"

FlushShape ==
  /\ fpast <= epoch
  /\ fpast = epoch => past
  /\ fpc \in {"idle", "drop", "collect"} => fdue = {}
  /\ fpc \in {"idle", "drop", "collect", "loop"} => fcur = {}
  /\ \A x, y \in fcur : x = y

RecentBounded ==
  \A n \in Member : \A e \in Epoch : \A m \in Msg :
    dir[n][e].recent[m] <= dir[n][e].received

AckedDelivered ==
  \A n \in Member : \A e \in Epoch : \A q \in SeqNo :
    q <= dir[n][e].acked => q \in delivered[n][e]

(* The state of the store, of the queue and of every goroutine between two  *)
(* visits to them agree: the strengthening from which NoLostRetry,          *)
(* PendingWindow, NoSignalForgotten and OneMessagePerSeq follow.            *)
SignalInv ==
  /\ TypeOK
  /\ PendingWindow
  /\ OneMessagePerSeq
  /\ EndedGenerationsEmpty
  /\ NoLostRetry
  /\ HeldMatchesStore
  /\ RequestsMatchStore
  /\ AcksApplied
  /\ DropsAreOver
  /\ FlushShape
  /\ RecentBounded
  /\ AckedDelivered
=============================================================================
