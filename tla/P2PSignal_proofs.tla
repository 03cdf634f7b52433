-------------------------- MODULE P2PSignal_proofs --------------------------
(***************************************************************************)
(* Proofs that the safety properties of P2PSignal hold for any number of   *)
(* messages, requests, signals per direction, generations and workers.     *)
(* SignalInv is inductive; every property is one of its conjuncts or       *)
(* follows from them.  P2PSignalTypes_proofs and P2PSignalHeld_proofs have *)
(* the lemmas about the store and what is held; here are the retry loop,   *)
(* which keeps every unacknowledged signal of a live generation in         *)
(* somebody's hands, and the theorems.                                     *)
(***************************************************************************)
EXTENDS P2PSignalHeld_proofs, TLAPS

USE DEF storeVars, queueVars, flushVars

-----------------------------------------------------------------------------
(* The retry loop                                                          *)

LEMMA DropsAreOverStep ==
  TypeOK /\ TypeOK' /\ DropsAreOver /\ [Next]_vars => DropsAreOver'
<1> SUFFICES ASSUME TypeOK, TypeOK', DropsAreOver, [Next]_vars PROVE DropsAreOver'
  OBVIOUS
<1>0. /\ epoch \in Nat /\ epoch' \in Nat /\ epoch <= epoch'
      /\ connState = "closed" => connState' = "closed"
      /\ lockDrop \subseteq Nat /\ lateDrop \subseteq Nat
  BY StoreMonotone, SignalAssumption DEF TypeOK, Epoch
<1>00. /\ \A e \in lockDrop : e < epoch \/ connState = "closed"
       /\ \A e \in lateDrop : e < epoch \/ connState = "closed"
       /\ fpc = "drop" => connState = "closed"
  BY DEF DropsAreOver
<1>1. CASE AllocateRestart
  <2>1. lockDrop' = {epoch} /\ epoch' = epoch + 1 /\ UNCHANGED <<lateDrop, fpc>> /\ connState # "closed"
    BY <1>1 DEF AllocateRestart
  <2> QED BY <1>0, <1>00, <2>1 DEF DropsAreOver
<1>2. CASE CloseConnection \/ CloseSession \/ RejectConnection
  BY <1>2 DEF CloseConnection, CloseSession, RejectConnection, DropsAreOver
<1>3. CASE FlushExpire
  BY <1>0, <1>00, <1>3 DEF FlushExpire, DropsAreOver
<1>4. ASSUME lockDrop' \subseteq lockDrop, lateDrop' \subseteq lateDrop,
             fpc' = "drop" => fpc = "drop"
      PROVE  DropsAreOver'
  BY <1>0, <1>00, <1>4 DEF DropsAreOver
<1>5. CASE UNCHANGED vars \/ DeadlinePasses \/ Expire \/ BindConnection
  BY <1>4, <1>5 DEF vars, DeadlinePasses, Expire, BindConnection
<1>6. ASSUME NEW n, MarkConnectionReady(n) PROVE DropsAreOver'
  BY <1>4, <1>6 DEF MarkConnectionReady
<1>7. ASSUME NEW n, NEW r, NEW e, NEW q, NEW m, AcceptSignal(n, r, e, q, m) PROVE DropsAreOver'
  BY <1>4, <1>7 DEF AcceptSignal
<1>8. ASSUME NEW n, NEW r, NEW e, NEW q, AckSignal(n, r, e, q) PROVE DropsAreOver'
  BY <1>4, <1>8 DEF AckSignal
<1>9. ASSUME NEW n, NEW r, AcceptCached(n, r) \/ AckCached(n, r) PROVE DropsAreOver'
  BY <1>4, <1>9 DEF AcceptCached, AckCached
<1>10. CASE Worker
  BY <1>4, <1>10 DEF Worker, DropRetriesAndUnlock, DropRetriesLate, EnqueueRetry, DropAcked
<1>11. CASE FlushDrop \/ FlushCollect \/ FlushDone
  BY <1>4, <1>11 DEF FlushDrop, FlushCollect, FlushDone
<1>12. ASSUME NEW i, FlushItem(i) PROVE DropsAreOver'
  BY <1>4, <1>12 DEF FlushItem, FlushNext, FlushFetch, FlushPublishLost,
              FlushPublishDelivered, FlushRequeue, FlushPut
<1>13. CASE Signalling
  BY <1>7, <1>8, <1>9, <1>13 DEF Signalling
<1> QED BY <1>1, <1>2, <1>3, <1>5, <1>6, <1>10, <1>11, <1>12, <1>13 DEF Next, Flush, Lifecycle

LEMMA FlushShapeStep ==
  TypeOK /\ TypeOK' /\ FlushShape /\ [Next]_vars => FlushShape'
<1> SUFFICES ASSUME TypeOK, TypeOK', FlushShape, [Next]_vars PROVE FlushShape'
  OBVIOUS
<1>0. epoch \in Nat /\ epoch' \in Nat /\ epoch <= epoch' /\ fpast \in Nat
  BY StoreMonotone, SignalAssumption DEF TypeOK, Epoch
<1>1. ASSUME UNCHANGED flushVars PROVE FlushShape'
  <2>1. fpast' = epoch' => past'
    <3>1. CASE Restarts
      BY <1>0, <1>1, <3>1 DEF Restarts, FlushShape
    <3>2. CASE Accepts
      BY <1>1, <3>2 DEF Accepts, AcceptSignal, FlushShape
    <3>3. CASE Acks
      <4> PICK n \in Member, r \in Req, e \in Epoch, q \in SeqNo : AckSignal(n, r, e, q)
        BY <3>3 DEF Acks
      <4> QED BY <1>1 DEF AckSignal, FlushShape
    <3>4. CASE Ends \/ SetsUp \/ Quiet
      BY Zenon, <1>1, <3>4 DEF Ends, SetsUp, Quiet, FlushShape, TypeOK
    <3> QED BY <3>1, <3>2, <3>3, <3>4, StoreCases
  <2>2. fpast' <= epoch'
    BY <1>0, <1>1 DEF FlushShape
  <2> QED BY <1>1, <2>1, <2>2 DEF FlushShape
<1>2. CASE UNCHANGED vars \/ DeadlinePasses \/ Expire \/ Lifecycle
  BY <1>1, <1>2 DEF vars, DeadlinePasses, Expire, Lifecycle, BindConnection, AllocateRestart,
              MarkConnectionReady, CloseConnection, CloseSession, RejectConnection
<1>3. ASSUME NEW n, NEW r, NEW e, NEW q, NEW m, AcceptSignal(n, r, e, q, m) PROVE FlushShape'
  BY <1>1, <1>3 DEF AcceptSignal
<1>4. ASSUME NEW n, NEW r, NEW e, NEW q, AckSignal(n, r, e, q) PROVE FlushShape'
  BY <1>1, <1>4 DEF AckSignal
<1>5. ASSUME NEW n, NEW r, AcceptCached(n, r) \/ AckCached(n, r) PROVE FlushShape'
  BY <1>1, <1>5 DEF AcceptCached, AckCached
<1>6. CASE Worker
  BY <1>1, <1>6 DEF Worker, DropRetriesAndUnlock, DropRetriesLate, EnqueueRetry, DropAcked
<1>7. CASE FlushExpire
  <2>1. fpast' <= epoch' /\ (fpast' = epoch' => past')
    BY <1>0, <1>7, SignalAssumption DEF FlushExpire, TypeOK, Epoch
  <2>2. fdue' = {} /\ fcur' = {}
    BY <1>7 DEF FlushExpire, FlushShape
  <2> QED BY <2>1, <2>2 DEF FlushShape
<1>8. ASSUME UNCHANGED <<epoch, past, fpast>>
      PROVE  fpast' <= epoch' /\ (fpast' = epoch' => past')
  BY <1>0, <1>8 DEF FlushShape
<1>9. CASE FlushDrop
  BY <1>8, <1>9 DEF FlushDrop, FlushShape
<1>10. CASE FlushCollect
  BY <1>8, <1>10 DEF FlushCollect, FlushShape
<1>11. CASE FlushDone
  BY <1>8, <1>11 DEF FlushDone, FlushShape
<1>12. ASSUME NEW i \in fdue \cup fcur, FlushItem(i) PROVE FlushShape'
  <2>1. CASE FlushNext(i)
    BY <1>8, <2>1 DEF FlushNext, FlushShape
  <2>2. CASE FlushFetch(i)
    BY <1>8, <2>2 DEF FlushFetch, FlushShape
  <2>3. CASE FlushPublishLost(i)
    BY <1>8, <2>3 DEF FlushPublishLost, FlushShape
  <2>4. CASE FlushPublishDelivered(i)
    BY <1>8, <2>4 DEF FlushPublishDelivered, FlushShape
  <2>5. CASE FlushRequeue(i)
    BY <1>8, <2>5 DEF FlushRequeue, FlushShape
  <2>6. CASE FlushPut(i)
    BY <1>8, <2>6 DEF FlushPut, FlushShape
  <2> QED BY <1>12, <2>1, <2>2, <2>3, <2>4, <2>5, <2>6 DEF FlushItem
<1>13. CASE Signalling
  BY <1>3, <1>4, <1>5, <1>13 DEF Signalling
<1> QED BY <1>2, <1>6, <1>7, <1>9, <1>10, <1>11, <1>12, <1>13 DEF Next, Flush

-----------------------------------------------------------------------------
(* No retry is lost                                                        *)

\* what an unacknowledged signal needs: an item for it in somebody's hands
Kept(n, e, q) == \E it \in Held : it.snd = n /\ it.ep = e /\ it.seq = q

\* two held items with the same key of an open generation carry the same number
LEMMA SameKeySameSeq ==
  ASSUME HeldMatchesStore, NEW x \in Held, NEW y \in Held, Open(x.ep),
         x.snd = y.snd, x.ep = y.ep, x.msg = y.msg
  PROVE  x.seq = y.seq
BY DEF HeldMatchesStore

\* a worker never takes away the last item of an unacknowledged signal
LEMMA WorkerKeeps ==
  ASSUME TypeOK, PendingWindow, HeldMatchesStore, AcksApplied, DropsAreOver, Worker,
         NEW it \in Held, Live(it.ep), it.seq \in dir[it.snd][it.ep].pending
  PROVE  Kept(it.snd, it.ep, it.seq)'
<1>0. it \in Item /\ it.snd \in Member /\ it.ep \in Epoch /\ it.seq \in SeqNo /\ Open(it.ep)
  BY DEF TypeOK, Held, Item, Live, Open
<1>00. epoch \in Nat /\ it.ep = epoch /\ connState # "closed"
  BY SignalAssumption DEF TypeOK, Epoch, Live
<1>1. CASE DropRetriesAndUnlock
  <2>1. it.ep \notin lockDrop
    BY <1>00 DEF DropsAreOver
  <2> QED BY <1>1, <2>1 DEF DropRetriesAndUnlock, Held, Kept
<1>2. ASSUME NEW e \in lateDrop, DropRetriesLate(e) PROVE Kept(it.snd, it.ep, it.seq)'
  <2>1. it.ep # e
    BY <1>00 DEF DropsAreOver
  <2> QED BY <1>2, <2>1 DEF DropRetriesLate, Held, Kept
<1>3. ASSUME NEW i \in accepting, EnqueueRetry(i) PROVE Kept(it.snd, it.ep, it.seq)'
  <2>1. CASE it # i \/ it \in retries
    BY <1>3, <2>1 DEF EnqueueRetry, Held, Kept
  <2>2. CASE it = i /\ ~\E x \in retries : x.snd = i.snd /\ x.ep = i.ep /\ x.msg = i.msg
    BY <1>3, <2>2 DEF EnqueueRetry, Held, Kept
  <2>3. ASSUME it = i, NEW x \in retries, x.snd = i.snd, x.ep = i.ep, x.msg = i.msg
        PROVE  Kept(it.snd, it.ep, it.seq)'
    <3>1. x \in Held /\ Open(x.ep)
      BY <1>0, <2>3 DEF Held
    <3>2. x.seq = it.seq
      BY <2>3, <3>1, SameKeySameSeq
    <3>3. x \in Held'
      BY <1>3, <2>3 DEF EnqueueRetry, Held
    <3> QED BY <2>3, <3>2, <3>3 DEF Kept
  <2> QED BY <2>1, <2>2, <2>3
<1>4. ASSUME NEW a \in acking, DropAcked(a) PROVE Kept(it.snd, it.ep, it.seq)'
  <2>1. ~(it.snd = a.snd /\ it.ep = a.ep /\ it.seq <= a.seq)
    <3>1. SUFFICES ASSUME it.snd = a.snd, it.ep = a.ep, it.seq <= a.seq PROVE FALSE
      OBVIOUS
    <3>2. dir[it.snd][it.ep].acked >= a.seq
      BY <1>0, <3>1 DEF AcksApplied
    <3>3. dir[it.snd][it.ep].acked \in Nat /\ it.seq \in Nat /\ a.seq \in Nat
      BY <1>0, SignalAssumption DEF TypeOK, Direction, SeqNo, AckCmd
    <3>4. it.seq \in (dir[it.snd][it.ep].acked + 1)..dir[it.snd][it.ep].received
      BY Zenon, <1>0 DEF PendingWindow
    <3> QED BY <3>1, <3>2, <3>3, <3>4
  <2> QED BY <1>4, <2>1 DEF DropAcked, Held, Kept
<1> QED BY <1>1, <1>2, <1>3, <1>4 DEF Worker

\* nor does the retry loop
LEMMA FlushKeeps ==
  ASSUME TypeOK, HeldMatchesStore, DropsAreOver, FlushShape, Flush,
         NEW it \in Held, Live(it.ep), it.seq \in dir[it.snd][it.ep].pending
  PROVE  Kept(it.snd, it.ep, it.seq)'
<1>0. it \in Item /\ it.ep = epoch /\ connState # "closed" /\ ~past /\ Open(it.ep)
  BY DEF TypeOK, Held, Live, Open
<1>1. PendingSignal(it)
  BY <1>0 DEF PendingSignal
<1>2. CASE FlushExpire
  BY <1>2 DEF FlushExpire, Held, Kept
<1>3. CASE FlushDrop
  BY <1>0, <1>3 DEF FlushDrop, DropsAreOver
<1>4. CASE FlushCollect
  BY <1>4 DEF FlushCollect, FlushShape, Held, Kept
<1>5. CASE FlushDone
  BY <1>5 DEF FlushDone, FlushShape, Held, Kept
<1>6. ASSUME NEW i \in fdue \cup fcur, FlushItem(i) PROVE Kept(it.snd, it.ep, it.seq)'
  <2>1. CASE FlushNext(i)
    <3>1. fcur = {} /\ it.ep # fpast
      BY <1>0, <2>1 DEF FlushNext, FlushShape
    <3> QED BY <1>0, <2>1, <3>1 DEF FlushNext, Held, Kept
  <2>2. CASE FlushFetch(i)
    BY <1>1, <2>2 DEF FlushFetch, FlushShape, Held, Kept
  <2>3. CASE FlushPublishLost(i)
    BY <2>3 DEF FlushPublishLost, Held, Kept
  <2>4. CASE FlushPublishDelivered(i)
    BY <2>4 DEF FlushPublishDelivered, Held, Kept
  <2>5. CASE FlushRequeue(i)
    BY <1>1, <2>5 DEF FlushRequeue, FlushShape, Held, Kept
  <2>6. CASE FlushPut(i)
    <3>1. i \in fcur /\ i \in Held /\ i \in Held'
      BY <2>6 DEF FlushPut, Held
    <3>2. CASE it \in fcur
      BY <3>1, <3>2 DEF FlushShape, Kept
    <3>3. CASE it \in fdue \cup accepting
      BY <2>6, <3>3 DEF FlushPut, Held, Kept
    <3>4. CASE it \in retries
      <4>1. CASE it.snd = i.snd /\ it.ep = i.ep /\ it.msg = i.msg
        BY <1>0, <3>1, <4>1, SameKeySameSeq DEF Kept
      <4>2. CASE ~(it.snd = i.snd /\ it.ep = i.ep /\ it.msg = i.msg)
        BY <2>6, <3>4, <4>2 DEF FlushPut, Held, Kept
      <4> QED BY <4>1, <4>2
    <3> QED BY <3>2, <3>3, <3>4 DEF Held
  <2> QED BY <1>6, <2>1, <2>2, <2>3, <2>4, <2>5, <2>6 DEF FlushItem
<1> QED BY <1>2, <1>3, <1>4, <1>5, <1>6 DEF Flush

\* the other goroutines leave the items alone or add some
LEMMA OthersKeep ==
  ASSUME [Next]_vars, ~Worker, ~Flush PROVE Held \subseteq Held'
<1> USE DEF Held
<1>1. CASE UNCHANGED vars
  BY <1>1 DEF vars
<1>2. CASE DeadlinePasses \/ Expire \/ Lifecycle
  BY <1>2 DEF DeadlinePasses, Expire, Lifecycle, BindConnection, AllocateRestart,
              MarkConnectionReady, CloseConnection, CloseSession, RejectConnection
<1>3. ASSUME NEW n, NEW r, NEW e, NEW q, NEW m, AcceptSignal(n, r, e, q, m)
      PROVE  Held \subseteq Held'
  BY <1>3 DEF AcceptSignal, AcceptNew, AcceptDuplicate
<1>4. ASSUME NEW n, NEW r, NEW e, NEW q, AckSignal(n, r, e, q) PROVE Held \subseteq Held'
  BY SMTT(30), <1>4 DEF AckSignal
<1>5. ASSUME NEW n, NEW r, AcceptCached(n, r) \/ AckCached(n, r) PROVE Held \subseteq Held'
  BY SMTT(30), <1>5 DEF AcceptCached, AckCached
<1> QED BY <1>1, <1>2, <1>3, <1>4, <1>5 DEF Next, Signalling

\* a signal unacknowledged after a step was so before it, or was just accepted
LEMMA PendingBefore ==
  ASSUME TypeOK, EndedGenerationsEmpty, [Next]_vars, NEW n \in Member, NEW e \in Epoch,
         NEW q \in SeqNo, Live(e)', q \in dir'[n][e].pending
  PROVE  \/ Live(e) /\ q \in dir[n][e].pending
         \/ \E r \in Req, m \in Msg : AcceptSignal(n, r, e, q, m) /\ AcceptNew(n, r, e, q, m)
<1> USE DEF Live
<1>0. epoch \in Nat
  BY SMTT(20), SignalAssumption DEF TypeOK, Epoch
<1>1. CASE Ends
  BY SMTT(20), <1>1 DEF Ends
<1>2. CASE SetsUp
  BY <1>2 DEF SetsUp
<1>3. CASE Quiet
  BY ZenonT(30), <1>3 DEF Quiet, TypeOK
<1>4. CASE Restarts
  <2>1. e # epoch
    BY <1>0, <1>4 DEF Restarts
  <2>2. dir'[n][e] = EmptyDirection
    BY <2>1, <1>4, DropGenerationDir DEF Restarts, EndedGenerationsEmpty
  <2> QED BY <2>2 DEF EmptyDirection
<1>5. CASE Accepts
  <2> PICK n1 \in Member, r \in Req, e1 \in Epoch, q1 \in SeqNo, m \in Msg :
         AcceptSignal(n1, r, e1, q1, m) /\ AcceptNew(n1, r, e1, q1, m)
    BY <1>5 DEF Accepts
  <2>1. DirAfterAccept(n1, e1, q1, m)
    BY AcceptNewDir
  <2>2. UNCHANGED <<epoch, connState, past>>
    BY DEF AcceptSignal
  <2>3. CASE n1 = n /\ e1 = e /\ q1 = q
    BY <2>3
  <2>4. CASE ~(n1 = n /\ e1 = e /\ q1 = q)
    BY SMTT(30), <2>1, <2>2, <2>4 DEF DirAfterAccept
  <2> QED BY <2>3, <2>4
<1>6. CASE Acks
  <2> PICK n1 \in Member, r \in Req, e1 \in Epoch, q1 \in SeqNo : AckSignal(n1, r, e1, q1)
    BY <1>6 DEF Acks
  <2>1. DirAfterAck(Peer(n1), e1, q1)
    BY AckDir
  <2>2. UNCHANGED <<epoch, connState, past>>
    BY SMTT(30) DEF AckSignal
  <2>3. q \in dir[n][e].pending
    BY ZenonT(30), <2>1 DEF DirAfterAck
  <2> QED BY <2>2, <2>3
<1> QED BY ZenonT(30), StoreCases, <1>1, <1>2, <1>3, <1>4, <1>5, <1>6

LEMMA NoLostRetryStep ==
  /\ TypeOK /\ PendingWindow /\ EndedGenerationsEmpty /\ NoLostRetry /\ HeldMatchesStore
  /\ AcksApplied /\ DropsAreOver /\ FlushShape
  /\ [Next]_vars
  => NoLostRetry'
<1> SUFFICES ASSUME TypeOK, PendingWindow, EndedGenerationsEmpty, NoLostRetry,
                    HeldMatchesStore, AcksApplied, DropsAreOver, FlushShape, [Next]_vars,
                    NEW n \in Member, NEW e \in Epoch, NEW q \in SeqNo,
                    Live(e)', q \in dir'[n][e].pending
             PROVE  Kept(n, e, q)'
  BY DEF NoLostRetry, Kept
<1>1. CASE Live(e) /\ q \in dir[n][e].pending
  <2>1. PICK it \in Held : it.snd = n /\ it.ep = e /\ it.seq = q
    BY <1>1 DEF NoLostRetry
  <2>2. CASE Worker
    BY <1>1, <2>1, <2>2, WorkerKeeps
  <2>3. CASE Flush
    BY <1>1, <2>1, <2>3, FlushKeeps
  <2>4. CASE ~Worker /\ ~Flush
    BY <2>1, <2>4, OthersKeep DEF Kept
  <2> QED BY <2>2, <2>3, <2>4
<1>2. ASSUME NEW r \in Req, NEW m \in Msg, AcceptNew(n, r, e, q, m) PROVE Kept(n, e, q)'
  <2> DEFINE it == [snd |-> n, ep |-> e, seq |-> q, msg |-> m]
  <2>1. it \in Held'
    BY <1>2 DEF AcceptNew, Held
  <2>2. it.snd = n /\ it.ep = e /\ it.seq = q
    OBVIOUS
  <2> QED BY SMTT(30), <2>1, <2>2 DEF Kept
<1> QED BY <1>1, <1>2, PendingBefore


-----------------------------------------------------------------------------
(* The theorems                                                            *)

LEMMA SignalInvInit == Init => SignalInv
<1> SUFFICES ASSUME Init PROVE SignalInv
  OBVIOUS
<1>1. TypeOK
  BY TypeInit
<1>2. \A n \in Member : \A e \in Epoch : dir[n][e] = EmptyDirection /\ delivered[n][e] = {}
  BY DEF Init
<1>3. \A n \in Member : \A r \in Req : requests[n][r].kind = "none"
  BY DEF Init, NoRequest
<1>4. retries = {} /\ accepting = {} /\ acking = {} /\ fdue = {} /\ fcur = {} /\ Held = {}
  BY DEF Init, Held
<1>5. epoch = 1 /\ fpast = 0 /\ fpc = "idle" /\ lockDrop = {} /\ lateDrop = {}
  BY DEF Init
<1>6. PendingWindow
  <2> SUFFICES ASSUME NEW n \in Member, NEW e \in Epoch
               PROVE  /\ dir[n][e].nextSeq = dir[n][e].received + 1
                      /\ dir[n][e].acked <= dir[n][e].received
                      /\ dir[n][e].pending = (dir[n][e].acked + 1)..dir[n][e].received
    BY DEF PendingWindow
  <2>1. /\ dir[n][e].nextSeq = 1 /\ dir[n][e].received = 0
        /\ dir[n][e].acked = 0 /\ dir[n][e].pending = {}
    BY <1>2 DEF EmptyDirection
  <2>2. (0 + 1)..0 = {}
    OBVIOUS
  <2> QED BY <2>1, <2>2
<1>7. OneMessagePerSeq /\ RecentBounded
  BY <1>2 DEF OneMessagePerSeq, RecentBounded, EmptyDirection
<1>8. EndedGenerationsEmpty
  BY <1>2 DEF EndedGenerationsEmpty
<1>9. NoLostRetry
  BY <1>2 DEF NoLostRetry, EmptyDirection
<1>10. AckedDelivered
  BY SMTT(30), <1>2 DEF AckedDelivered, EmptyDirection, SeqNo
<1>11. HeldMatchesStore /\ RequestsMatchStore /\ AcksApplied
  BY <1>3, <1>4 DEF HeldMatchesStore, RequestsMatchStore, AcksApplied
<1>12. DropsAreOver /\ FlushShape
  BY <1>4, <1>5 DEF DropsAreOver, FlushShape
<1> QED BY <1>1, <1>6, <1>7, <1>8, <1>9, <1>10, <1>11, <1>12 DEF SignalInv

LEMMA SignalInvStep == SignalInv /\ [Next]_vars => SignalInv'
<1> SUFFICES ASSUME SignalInv, [Next]_vars PROVE SignalInv'
  OBVIOUS
<1>1. TypeOK'
  BY TypeStep DEF SignalInv
<1>2. PendingWindow' /\ RecentBounded' /\ OneMessagePerSeq' /\ EndedGenerationsEmpty'
  BY PendingWindowStep, RecentBoundedStep, OneMessagePerSeqStep, EndedGenerationsEmptyStep
     DEF SignalInv
<1>3. AckedDelivered' /\ NoLostRetry'
  BY AckedDeliveredStep, NoLostRetryStep DEF SignalInv
<1>4. HeldMatchesStore' /\ RequestsMatchStore' /\ AcksApplied'
  BY <1>1, HeldMatchesStoreStep, RequestsMatchStoreStep, AcksAppliedStep DEF SignalInv
<1>5. DropsAreOver' /\ FlushShape'
  BY <1>1, DropsAreOverStep, FlushShapeStep DEF SignalInv
<1> QED BY <1>1, <1>2, <1>3, <1>4, <1>5 DEF SignalInv

(* The store, the retry queue and the goroutines between two visits to them *)
(* agree in every reachable state.                                          *)
THEOREM SignalInvariant == Spec => []SignalInv
<1>1. Init => SignalInv
  BY SignalInvInit
<1>2. SignalInv /\ [Next]_vars => SignalInv'
  BY SignalInvStep
<1> QED BY <1>1, <1>2, PTL DEF Spec

(* Every variable of the signalling state keeps its type.                   *)
THEOREM TypeCorrect == Spec => []TypeOK
BY SignalInvariant, PTL DEF SignalInv

(* No interleaving of the SEND and ACK workers, of RESTART, CLOSE and       *)
(* REJECT, and of flushSignalRetriesV2 loses the retry of an unacknowledged *)
(* signal of a live generation.                                             *)
THEOREM RetriesNeverLost == Spec => []NoLostRetry
BY SignalInvariant, PTL DEF SignalInv

(* AcceptSignal and AckSignal keep the unacknowledged signals of a          *)
(* direction equal to the window after the last cumulative ACK.             *)
THEOREM WindowExact == Spec => []PendingWindow
BY SignalInvariant, PTL DEF SignalInv

(* AcceptSignal never gives one sequence number to two message IDs.         *)
THEOREM SeqUnique == Spec => []OneMessagePerSeq
BY SignalInvariant, PTL DEF SignalInv

(* A generation that RESTART, CLOSE, REJECT or the setup timeout ended      *)
(* leaves nothing behind in StoreV2.directions.                             *)
THEOREM EndedEmpty == Spec => []EndedGenerationsEmpty
BY SignalInvariant, PTL DEF SignalInv

LEMMA ForgottenNone == SignalInv => NoSignalForgotten
<1> SUFFICES ASSUME SignalInv, NEW n \in Member, NEW q \in SeqNo,
                    q <= dir[n][epoch].received
             PROVE  q \in dir[n][epoch].pending \cup delivered[n][epoch]
  BY DEF NoSignalForgotten
<1> DEFINE d == dir[n][epoch]
<1>1. /\ epoch \in Epoch /\ d.acked \in Nat /\ d.received \in Nat /\ q \in Nat
      /\ d.pending = (d.acked + 1)..d.received
      /\ q <= d.acked => q \in delivered[n][epoch]
  BY SignalAssumption DEF SignalInv, TypeOK, Direction, PendingWindow, AckedDelivered, SeqNo
<1> QED BY <1>1

(* A signal AcceptSignal took for the current generation reached the peer   *)
(* or is still pending.                                                     *)
THEOREM NothingForgotten == Spec => []NoSignalForgotten
BY SignalInvariant, ForgottenNone, PTL

LEMMA RevivalNone == SignalInv /\ SignalInv' /\ [Next]_vars =>
                       \A it \in Item : it \in Held' \ Held => PendingSignal(it)'
<1> SUFFICES ASSUME SignalInv, SignalInv', [Next]_vars, NEW it \in Item, it \in Held',
                    it \notin Held
             PROVE  PendingSignal(it)'
  OBVIOUS
<1> USE DEF PendingSignal
<1>0. TypeOK /\ EndedGenerationsEmpty /\ RequestsMatchStore
  BY DEF SignalInv
<1>1. ASSUME NEW n \in Member, NEW r \in Req, NEW e \in Epoch, NEW q \in SeqNo, NEW m \in Msg,
             AcceptSignal(n, r, e, q, m), it = [snd |-> n, ep |-> e, seq |-> q, msg |-> m]
      PROVE  PendingSignal(it)'
  <2>1. it.snd = n /\ it.ep = e /\ it.seq = q
    BY ZenonT(30), <1>1
  <2>2. e = epoch' /\ connState' = "active" /\ UNCHANGED <<retries, fdue, fcur>>
    BY ZenonT(30), <1>1 DEF AcceptSignal, flushVars, queueVars
  <2>3. q \in dir'[n][e].pending
    <3>1. CASE AcceptNew(n, r, e, q, m)
      <4>1. DirAfterAccept(n, e, q, m)
        BY <1>0, <3>1, AcceptNewDir
      <4> QED BY ZenonT(30), <4>1 DEF DirAfterAccept
    <3>2. CASE AcceptDuplicate(n, r, e, q, m)
      <4>1. CASE q \in dir[n][e].pending
        BY <3>2, <4>1 DEF AcceptDuplicate
      <4>2. CASE q \notin dir[n][e].pending
        <5>1. accepting' = accepting
          BY <3>2, <4>2 DEF AcceptDuplicate
        <5> QED BY <2>2, <5>1 DEF Held
      <4> QED BY <4>1, <4>2
    <3> QED BY ZenonT(30), <1>1, <3>1, <3>2 DEF AcceptSignal
  <2> QED BY <2>1, <2>2, <2>3
<1>2. ASSUME NEW n \in Member, NEW r \in Req, AcceptCached(n, r),
             it = [snd |-> n, ep |-> requests[n][r].ep, seq |-> requests[n][r].seq,
                   msg |-> requests[n][r].msg]
      PROVE  PendingSignal(it)'
  <2>1. it.snd = n /\ it.ep = requests[n][r].ep /\ it.seq = requests[n][r].seq
    BY ZenonT(30), <1>2
  <2>2. UNCHANGED <<epoch, connState, dir>> /\ it.seq \in dir[n][it.ep].pending
    BY <1>2, <2>1 DEF AcceptCached
  <2>3. it.ep \in Epoch
    BY DEF Item
  <2>4. dir[n][it.ep] # EmptyDirection
    BY <2>2 DEF EmptyDirection
  <2> QED BY <1>0, <2>1, <2>2, <2>3, <2>4 DEF EndedGenerationsEmpty
<1> QED BY <1>0, <1>1, <1>2, HeldOnlyFromSend

(* No step retries a signal that is acknowledged or whose generation is     *)
(* over: what enters the retry machinery is pending at that moment.         *)
THEOREM NothingRevived == Spec => NoRevival
<1>1. SignalInv /\ SignalInv' /\ [Next]_vars =>
        [\A it \in Item : it \in Held' \ Held => PendingSignal(it)']_vars
  BY RevivalNone
<1> QED BY <1>1, SignalInvariant, PTL DEF Spec, NoRevival

=============================================================================
