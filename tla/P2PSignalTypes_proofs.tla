----------------------- MODULE P2PSignalTypes_proofs -----------------------
(***************************************************************************)
(* Proofs about P2PSignal, part 1: the types of its state, what one step   *)
(* may do to the store, and the numbering and the bound of a direction.    *)
(***************************************************************************)
EXTENDS P2PSignal, TLAPS

USE DEF storeVars, queueVars, flushVars

-----------------------------------------------------------------------------
(* Types                                                                   *)

Directions == [Member -> [Epoch -> Direction]]

LEMMA EmptyDirectionType == EmptyDirection \in Direction
BY SignalAssumption DEF EmptyDirection, Direction, SeqNo

LEMMA DropGenerationType ==
  ASSUME NEW d \in Directions, NEW e \in Epoch
  PROVE  DropGeneration(d, e) \in Directions
BY EmptyDirectionType DEF DropGeneration, Directions

LEMMA DropSessionType == DropSessionDirections \in Directions
BY EmptyDirectionType DEF DropSessionDirections, Directions

LEMMA PeerType ==
  ASSUME NEW n \in Member
  PROVE  Peer(n) \in Member /\ Peer(Peer(n)) = n
BY DEF Peer, Member

\* What AcceptNew writes: a direction with one more signal
DirAfterAccept(n, e, q, m) ==
  /\ dir' \in Directions
  /\ dir'[n][e].nextSeq = q + 1
  /\ dir'[n][e].received = q
  /\ dir'[n][e].acked = dir[n][e].acked
  /\ dir'[n][e].recent = [dir[n][e].recent EXCEPT ![m] = q]
  /\ dir'[n][e].pending = dir[n][e].pending \cup {q}
  /\ \A n2 \in Member : \A e2 \in Epoch :
       (n2 # n \/ e2 # e) => dir'[n2][e2] = dir[n2][e2]

LEMMA AcceptNewDir ==
  ASSUME TypeOK,
         NEW n \in Member, NEW r \in Req, NEW e \in Epoch, NEW q \in SeqNo, NEW m \in Msg,
         AcceptNew(n, r, e, q, m)
  PROVE  DirAfterAccept(n, e, q, m)
<1> DEFINE d == dir[n][e]
           d2 == [nextSeq |-> q + 1, received |-> q, acked |-> d.acked,
                  recent |-> [d.recent EXCEPT ![m] = q], pending |-> d.pending \cup {q}]
<1>1. d \in Direction
  BY DEF TypeOK
<1>2. d2 \in Direction
  BY <1>1, SignalAssumption DEF Direction, SeqNo
<1>3. dir' = [dir EXCEPT ![n][e] = d2]
  BY DEF AcceptNew
<1>4. dir'[n][e] = d2
  BY Zenon, <1>3 DEF TypeOK
<1>5. \A n2 \in Member : \A e2 \in Epoch : (n2 # n \/ e2 # e) => dir'[n2][e2] = dir[n2][e2]
  BY <1>3 DEF TypeOK
<1>6. dir' \in Directions
  <2> HIDE DEF d2
  <2> QED BY <1>2, <1>3 DEF TypeOK, Directions
<1> QED BY <1>4, <1>5, <1>6 DEF DirAfterAccept

\* What AckSignal writes: the acknowledged direction with a window that moved up
DirAfterAck(p, e, q) ==
  /\ dir' \in Directions
  /\ dir'[p][e].nextSeq = dir[p][e].nextSeq
  /\ dir'[p][e].received = dir[p][e].received
  /\ dir'[p][e].recent = dir[p][e].recent
  /\ q <= dir[p][e].received
  /\ q > dir[p][e].acked =>
       /\ dir'[p][e].acked = q
       /\ dir'[p][e].pending = dir[p][e].pending \ ((dir[p][e].acked + 1)..q)
  /\ ~(q > dir[p][e].acked) => dir'[p][e] = dir[p][e]
  /\ \A n2 \in Member : \A e2 \in Epoch :
       (n2 # p \/ e2 # e) => dir'[n2][e2] = dir[n2][e2]

LEMMA AckDir ==
  ASSUME TypeOK,
         NEW n \in Member, NEW r \in Req, NEW e \in Epoch, NEW q \in SeqNo,
         AckSignal(n, r, e, q)
  PROVE  DirAfterAck(Peer(n), e, q)
<1> DEFINE p == Peer(n)
           d == dir[p][e]
           d2 == [d EXCEPT !.acked = q, !.pending = d.pending \ ((d.acked + 1)..q)]
<1>1. p \in Member /\ d \in Direction
  BY PeerType DEF TypeOK
<1>2. /\ d2 \in Direction
      /\ d2.nextSeq = d.nextSeq /\ d2.received = d.received /\ d2.recent = d.recent
      /\ d2.acked = q /\ d2.pending = d.pending \ ((d.acked + 1)..q)
  <2>1. q \in 0..MaxSeq
    BY SignalAssumption DEF SeqNo
  <2> DEFINE P == d.pending \ ((d.acked + 1)..q)
  <2>2. P \in SUBSET SeqNo
    BY <1>1 DEF Direction
  <2>3. d2 = [d EXCEPT !.acked = q, !.pending = P]
    OBVIOUS
  <2> HIDE DEF P, d2, d
  <2>4. /\ d2 \in Direction
        /\ d2.nextSeq = d.nextSeq /\ d2.received = d.received /\ d2.recent = d.recent
        /\ d2.acked = q /\ d2.pending = P
    BY Zenon, <1>1, <2>1, <2>2, <2>3 DEF Direction
  <2> QED BY <2>4 DEF P, d, d2
<1>3. q <= d.received /\ dir' = IF q > d.acked THEN [dir EXCEPT ![p][e] = d2] ELSE dir
  BY DEF AckSignal
<1> HIDE DEF d2, p
<1>4. CASE q > d.acked
  <2>1. dir' = [dir EXCEPT ![p][e] = d2]
    BY <1>3, <1>4
  <2>2. dir'[p][e] = d2 /\ dir' \in Directions
    BY <2>1, <1>1, <1>2 DEF TypeOK, Directions
  <2>3. \A n2 \in Member : \A e2 \in Epoch : (n2 # p \/ e2 # e) => dir'[n2][e2] = dir[n2][e2]
    BY <2>1, <1>1 DEF TypeOK
  <2> QED BY <1>2, <1>3, <1>4, <2>2, <2>3 DEF p, DirAfterAck
<1>5. CASE ~(q > d.acked)
  <2>1. dir' = dir
    BY <1>3, <1>5
  <2> QED BY <2>1, <1>3, <1>5 DEF p, TypeOK, Directions, DirAfterAck
<1> QED BY <1>4, <1>5

LEMMA TypeInit == Init => TypeOK
<1> SUFFICES ASSUME Init PROVE TypeOK
  OBVIOUS
<1>1. NoRequest \in Request /\ 1 \in Epoch /\ 0 \in 0..MaxEpoch
  BY SignalAssumption DEF Request, NoRequest, ReqKind, Epoch
<1>2. dir \in [Member -> [Epoch -> Direction]]
  BY EmptyDirectionType DEF Init
<1>3. requests \in [Member -> [Req -> Request]]
  BY <1>1 DEF Init
<1>4. delivered \in [Member -> [Epoch -> SUBSET SeqNo]]
  BY DEF Init
<1> QED BY Zenon, <1>1, <1>2, <1>3, <1>4 DEF Init, TypeOK, ConnState, FlushPC

LEMMA TypeLifecycle ==
  TypeOK /\ (DeadlinePasses \/ Expire \/ Lifecycle) => TypeOK'
<1> SUFFICES ASSUME TypeOK, DeadlinePasses \/ Expire \/ Lifecycle PROVE TypeOK'
  OBVIOUS
<1>1. DropGeneration(dir, epoch) \in [Member -> [Epoch -> Direction]]
  BY DropGenerationType DEF TypeOK, Directions
<1>2. DropSessionDirections \in [Member -> [Epoch -> Direction]]
  BY DropSessionType DEF Directions
<1>3. CASE DeadlinePasses
  BY <1>3 DEF TypeOK, DeadlinePasses
<1>4. CASE Expire
  BY <1>4, <1>1 DEF TypeOK, Expire, ConnState
<1>5. CASE BindConnection
  BY <1>5 DEF TypeOK, BindConnection, ConnState
<1>6. CASE AllocateRestart
  <2>1. epoch + 1 \in Epoch
    BY <1>6, SignalAssumption DEF TypeOK, AllocateRestart, Epoch
  <2> QED BY Zenon, <1>6, <1>1, <2>1 DEF TypeOK, AllocateRestart, ConnState
<1>7. CASE \E n \in Member : MarkConnectionReady(n)
  BY <1>7 DEF TypeOK, MarkConnectionReady, ConnState
<1>8. CASE CloseConnection
  BY <1>8, <1>1 DEF TypeOK, CloseConnection, ConnState
<1>9. CASE CloseSession
  BY <1>9, <1>2 DEF TypeOK, CloseSession, ConnState
<1>10. CASE RejectConnection
  BY <1>10, <1>1 DEF TypeOK, RejectConnection, ConnState
<1> QED BY <1>3, <1>4, <1>5, <1>6, <1>7, <1>8, <1>9, <1>10 DEF Lifecycle

LEMMA TypeSignalling == TypeOK /\ RequestsMatchStore /\ Signalling => TypeOK'
<1> SUFFICES ASSUME TypeOK, RequestsMatchStore, Signalling PROVE TypeOK'
  OBVIOUS
<1>1. ASSUME NEW n \in Senders, NEW r \in Req, NEW e \in Epoch, NEW q \in SeqNo, NEW m \in Msg,
             AcceptSignal(n, r, e, q, m)
      PROVE  TypeOK'
  <2>1. n \in Member
    BY SignalAssumption
  <2>2. \A k \in {"send", "send_dup"} :
          [kind |-> k, ep |-> e, seq |-> q, msg |-> m] \in Request
    BY SignalAssumption DEF Request, ReqKind, Epoch, SeqNo
  <2>3. [snd |-> n, ep |-> e, seq |-> q, msg |-> m] \in Item
    BY <2>1 DEF Item
  <2>4. CASE AcceptNew(n, r, e, q, m)
    <3>1. dir' \in [Member -> [Epoch -> Direction]]
      BY Zenon, <2>1, <2>4, AcceptNewDir DEF Directions, DirAfterAccept
    <3> QED BY <1>1, <2>1, <2>2, <2>3, <2>4, <3>1 DEF TypeOK, AcceptSignal, AcceptNew
  <2>5. CASE AcceptDuplicate(n, r, e, q, m)
    <3>1. dir' = dir /\ accepting' \in SUBSET Item
      BY <2>3, <2>5 DEF TypeOK, AcceptDuplicate
    <3>2. PICK rec \in Request : requests' = [requests EXCEPT ![n][r] = rec]
      BY <2>2, <2>5 DEF AcceptDuplicate
    <3>3. requests' \in [Member -> [Req -> Request]]
      BY <2>1, <3>2 DEF TypeOK
    <3> QED BY <1>1, <3>1, <3>3 DEF TypeOK, AcceptSignal
  <2> QED BY <1>1, <2>4, <2>5 DEF AcceptSignal
<1>2. ASSUME NEW n \in Senders, NEW r \in Req, AcceptCached(n, r)
      PROVE  TypeOK'
  <2>1. n \in Member
    BY SignalAssumption
  <2>2. [snd |-> n, ep |-> requests[n][r].ep, seq |-> requests[n][r].seq,
         msg |-> requests[n][r].msg] \in Item
    BY Zenon, <1>2, <2>1 DEF Item, AcceptCached, RequestsMatchStore
  <2> QED BY <1>2, <2>2 DEF TypeOK, AcceptCached
<1>3. ASSUME NEW n \in Member, NEW r \in Req, NEW e \in Epoch, NEW q \in SeqNo,
             AckSignal(n, r, e, q)
      PROVE  TypeOK'
  <2>1. [kind |-> "ack", ep |-> e, seq |-> q, msg |-> "none"] \in Request
    BY SignalAssumption DEF Request, ReqKind, Epoch, SeqNo
  <2>2. [snd |-> Peer(n), ep |-> e, seq |-> q] \in AckCmd
    BY PeerType DEF AckCmd
  <2>3. dir' \in [Member -> [Epoch -> Direction]]
    BY <1>3, AckDir DEF Directions, DirAfterAck
  <2> QED BY <1>3, <2>1, <2>2, <2>3 DEF TypeOK, AckSignal
<1>4. ASSUME NEW n \in Member, NEW r \in Req, AckCached(n, r)
      PROVE  TypeOK'
  <2>1. [snd |-> Peer(n), ep |-> requests[n][r].ep, seq |-> requests[n][r].seq] \in AckCmd
    BY <1>4, PeerType DEF AckCmd, AckCached, RequestsMatchStore
  <2> QED BY ZenonT(30), <1>4, <2>1 DEF TypeOK, AckCached
<1> QED BY <1>1, <1>2, <1>3, <1>4 DEF Signalling

LEMMA TypeWorker == TypeOK /\ Worker => TypeOK'
BY DEF TypeOK, Worker, DropRetriesAndUnlock, DropRetriesLate, EnqueueRetry, DropAcked

LEMMA TypeFlush == TypeOK /\ Flush => TypeOK'
<1> SUFFICES ASSUME TypeOK, Flush PROVE TypeOK'
  OBVIOUS
<1>1. CASE FlushExpire
  <2>1. DropGeneration(dir, epoch) \in [Member -> [Epoch -> Direction]]
    BY DropGenerationType DEF TypeOK, Directions
  <2>2. epoch \in 0..MaxEpoch /\ 0 \in 0..MaxEpoch
    BY SignalAssumption DEF TypeOK, Epoch
  <2> QED BY <1>1, <2>1, <2>2 DEF TypeOK, FlushExpire, ConnState, FlushPC
<1>2. CASE FlushDrop
  BY <1>2 DEF TypeOK, FlushDrop, FlushPC
<1>3. CASE FlushCollect
  BY <1>3 DEF TypeOK, FlushCollect, FlushPC
<1>4. CASE FlushDone
  BY <1>4 DEF TypeOK, FlushDone, FlushPC
<1>5. ASSUME NEW it \in fdue \cup fcur, FlushItem(it)
      PROVE  TypeOK'
  <2>1. it \in Item
    BY DEF TypeOK
  <2>2. CASE FlushNext(it)
    BY <2>1, <2>2 DEF TypeOK, FlushNext, FlushPC
  <2>3. CASE FlushFetch(it)
    BY <2>1, <2>3 DEF TypeOK, FlushFetch, FlushPC
  <2>4. CASE FlushPublishLost(it)
    BY <2>1, <2>4 DEF TypeOK, FlushPublishLost, FlushPC
  <2>5. CASE FlushPublishDelivered(it)
    <3>1. it.snd \in Member /\ it.ep \in Epoch /\ it.seq \in SeqNo
      BY <2>1 DEF Item
    <3>2. delivered' \in [Member -> [Epoch -> SUBSET SeqNo]]
      BY <2>5, <3>1 DEF TypeOK, FlushPublishDelivered
    <3> QED BY <2>5, <3>2 DEF TypeOK, FlushPublishDelivered, FlushPC
  <2>6. CASE FlushRequeue(it)
    BY <2>1, <2>6 DEF TypeOK, FlushRequeue, FlushPC
  <2>7. CASE FlushPut(it)
    BY <2>1, <2>7 DEF TypeOK, FlushPut, FlushPC
  <2> QED BY <1>5, <2>2, <2>3, <2>4, <2>5, <2>6, <2>7 DEF FlushItem
<1> QED BY <1>1, <1>2, <1>3, <1>4, <1>5 DEF Flush

LEMMA TypeStep == TypeOK /\ RequestsMatchStore /\ [Next]_vars => TypeOK'
<1> SUFFICES ASSUME TypeOK, RequestsMatchStore, [Next]_vars PROVE TypeOK'
  OBVIOUS
<1>1. CASE UNCHANGED vars
  BY <1>1 DEF TypeOK, vars
<1> QED BY <1>1, TypeLifecycle, TypeSignalling, TypeWorker, TypeFlush DEF Next

-----------------------------------------------------------------------------
(* What one step may do to the store                                       *)

\* A step leaves the store alone, ends the generation, opens the next one,
\* advances the set-up, accepts a signal or acknowledges some
Ends == /\ connState # "closed" /\ connState' = "closed" /\ epoch' = epoch
        /\ dir' = DropGeneration(dir, epoch) \/ dir' = DropSessionDirections
        /\ past' = past
SetsUp == /\ connState # "closed" /\ connState' # "closed"
          /\ UNCHANGED <<epoch, dir, past>>
Restarts == /\ connState # "closed" /\ connState' = "allocated"
            /\ epoch' = epoch + 1 /\ epoch' \in Epoch
            /\ dir' = DropGeneration(dir, epoch)
Accepts == \E n \in Member, r \in Req, e \in Epoch, q \in SeqNo, m \in Msg :
             /\ AcceptSignal(n, r, e, q, m)
             /\ AcceptNew(n, r, e, q, m)
Acks == \E n \in Member, r \in Req, e \in Epoch, q \in SeqNo : AckSignal(n, r, e, q)
Quiet == UNCHANGED <<epoch, connState, dir>> /\ past \in {FALSE, past'}

LEMMA StoreCases ==
  ASSUME TypeOK, [Next]_vars
  PROVE  Ends \/ SetsUp \/ Restarts \/ Accepts \/ Acks \/ Quiet
<1>1. CASE UNCHANGED vars
  BY <1>1 DEF vars, Quiet
<1>2. CASE DeadlinePasses
  BY Zenon, <1>2 DEF DeadlinePasses, Quiet, TypeOK
<1>3. CASE Expire
  BY <1>3 DEF Expire, Ends
<1>4. CASE BindConnection
  BY <1>4 DEF BindConnection, SetsUp
<1>5. CASE AllocateRestart
  <2>1. epoch + 1 \in Epoch
    BY <1>5, SignalAssumption DEF TypeOK, AllocateRestart, Epoch
  <2> QED BY <1>5, <2>1 DEF AllocateRestart, Restarts
<1>6. CASE \E n \in Member : MarkConnectionReady(n)
  BY <1>6 DEF MarkConnectionReady, SetsUp
<1>7. CASE CloseConnection \/ CloseSession \/ RejectConnection
  BY <1>7 DEF CloseConnection, CloseSession, RejectConnection, Ends
<1>8. CASE Signalling
  <2>1. ASSUME NEW n \in Senders, NEW r \in Req, NEW e \in Epoch, NEW q \in SeqNo, NEW m \in Msg,
               AcceptSignal(n, r, e, q, m)
        PROVE  Accepts \/ Quiet
    <3>1. n \in Member
      BY SignalAssumption
    <3>2. CASE AcceptNew(n, r, e, q, m)
      BY <2>1, <3>1, <3>2 DEF Accepts
    <3>3. CASE AcceptDuplicate(n, r, e, q, m)
      BY <2>1, <3>3 DEF AcceptSignal, AcceptDuplicate, Quiet
    <3> QED BY <2>1, <3>2, <3>3 DEF AcceptSignal
  <2>2. ASSUME NEW n \in Member, NEW r \in Req, NEW e \in Epoch, NEW q \in SeqNo,
               AckSignal(n, r, e, q)
        PROVE  Acks
    BY <2>2 DEF Acks
  <2>3. ASSUME NEW n, NEW r, AcceptCached(n, r) \/ AckCached(n, r)
        PROVE  Quiet
    BY Zenon, <2>3 DEF AcceptCached, AckCached, Quiet
  <2> QED BY <1>8, <2>1, <2>2, <2>3 DEF Signalling
<1>9. CASE Worker
  BY Zenon, <1>9 DEF Worker, DropRetriesAndUnlock, DropRetriesLate, EnqueueRetry, DropAcked, Quiet
<1>10. CASE FlushExpire
  BY <1>10 DEF FlushExpire, Ends, Quiet
<1>11. CASE FlushDrop \/ FlushCollect \/ FlushDone
  BY Zenon, <1>11 DEF FlushDrop, FlushCollect, FlushDone, Quiet
<1>12. ASSUME NEW it, FlushItem(it) PROVE Quiet
  BY ZenonT(30), <1>12 DEF FlushItem, FlushNext, FlushFetch, FlushPublishLost, FlushPublishDelivered,
               FlushRequeue, FlushPut, Quiet
<1> QED BY <1>1, <1>2, <1>3, <1>4, <1>5, <1>6, <1>7, <1>8, <1>9, <1>10, <1>11, <1>12
        DEF Next, Lifecycle, Flush

\* Epochs only grow, a closed connection stays closed, and within an open
\* generation remembered messages stay and the ACK window only moves up
LEMMA StoreMonotone ==
  ASSUME TypeOK, [Next]_vars
  PROVE  /\ epoch <= epoch'
         /\ connState = "closed" => connState' = "closed"
         /\ \A n \in Member : \A e \in Epoch : e <= epoch /\ Open(e)' =>
              /\ Open(e)
              /\ \A m \in Msg : dir[n][e].recent[m] # 0
                                  => dir'[n][e].recent[m] = dir[n][e].recent[m]
              /\ dir'[n][e].acked >= dir[n][e].acked
<1> USE DEF Open
<1>0. epoch \in Nat /\ \A n \in Member : \A e \in Epoch : dir[n][e].acked \in Nat
  BY SMTT(30), SignalAssumption DEF TypeOK, Epoch, Direction
<1>1. CASE Ends
  BY <1>0, <1>1 DEF Ends
<1>2. CASE SetsUp
  BY <1>0, <1>2 DEF SetsUp
<1>3. CASE Restarts
  BY <1>0, <1>3 DEF Restarts, Epoch
<1>4. CASE Accepts
  <2> PICK n \in Member, r \in Req, e \in Epoch, q \in SeqNo, m \in Msg :
         AcceptSignal(n, r, e, q, m) /\ AcceptNew(n, r, e, q, m)
    BY ZenonT(30), <1>4 DEF Accepts
  <2>1. UNCHANGED <<epoch, connState>>
    BY DEF AcceptSignal
  <2>2. DirAfterAccept(n, e, q, m)
    BY AcceptNewDir
  <2>3. dir[n][e].recent[m] = 0 /\ dir[n][e].recent \in [Msg -> 0..MaxSeq]
    BY DEF AcceptNew, TypeOK, Direction
  <2>4. \A m2 \in Msg : dir[n][e].recent[m2] # 0 => dir'[n][e].recent[m2] = dir[n][e].recent[m2]
    BY <2>2, <2>3 DEF DirAfterAccept
  <2>5. ASSUME NEW n2 \in Member, NEW e2 \in Epoch
        PROVE  /\ \A m2 \in Msg : dir[n2][e2].recent[m2] # 0
                                    => dir'[n2][e2].recent[m2] = dir[n2][e2].recent[m2]
               /\ dir'[n2][e2].acked >= dir[n2][e2].acked
    <3>1. CASE n2 = n /\ e2 = e
      <4>1. dir'[n][e].acked = dir[n][e].acked
        BY <2>2 DEF DirAfterAccept
      <4> QED BY <1>0, <2>4, <3>1, <4>1
    <3>2. CASE n2 # n \/ e2 # e
      <4>1. dir'[n2][e2] = dir[n2][e2]
        BY <2>2, <3>2 DEF DirAfterAccept
      <4> QED BY <1>0, <4>1
    <3> QED BY ZenonT(30), <3>1, <3>2
  <2> QED BY <1>0, <2>1, <2>5
<1>5. CASE Acks
  <2> PICK n \in Member, r \in Req, e \in Epoch, q \in SeqNo : AckSignal(n, r, e, q)
    BY <1>5 DEF Acks
  <2>1. UNCHANGED <<epoch, connState>>
    BY DEF AckSignal
  <2> DEFINE p == Peer(n)
  <2>2. p \in Member /\ DirAfterAck(p, e, q)
    BY AckDir, PeerType
  <2>3. q \in Nat
    BY DEF SeqNo
  <2> HIDE DEF p
  <2>4. dir'[p][e].acked >= dir[p][e].acked /\ dir'[p][e].recent = dir[p][e].recent
    BY <1>0, <2>2, <2>3 DEF DirAfterAck
  <2>5. \A n2 \in Member : \A e2 \in Epoch : (n2 # p \/ e2 # e) => dir'[n2][e2] = dir[n2][e2]
    BY <2>2 DEF DirAfterAck
  <2> QED BY <1>0, <2>1, <2>4, <2>5
<1>6. CASE Quiet
  BY <1>0, <1>6 DEF Quiet
<1> QED BY StoreCases, <1>1, <1>2, <1>3, <1>4, <1>5, <1>6

\* Dropping directions resets them
LEMMA DropGenerationDir ==
  ASSUME TypeOK, NEW n \in Member, NEW e \in Epoch
  PROVE  /\ DropGeneration(dir, epoch)[n][e] = IF e = epoch THEN EmptyDirection ELSE dir[n][e]
         /\ DropSessionDirections[n][e] = EmptyDirection
BY DEF TypeOK, DropGeneration, DropSessionDirections

\* A direction after a step is as before, empty, or the work of AcceptSignal or AckSignal
LEMMA DirCases ==
  ASSUME TypeOK, [Next]_vars, ~Accepts, ~Acks, NEW n \in Member, NEW e \in Epoch
  PROVE  dir'[n][e] = dir[n][e] \/ dir'[n][e] = EmptyDirection
<1>1. CASE Ends
  BY <1>1, DropGenerationDir DEF Ends
<1>2. CASE Restarts
  BY <1>2, DropGenerationDir DEF Restarts
<1>3. CASE SetsUp \/ Quiet
  BY Zenon, <1>3 DEF SetsUp, Quiet
<1> QED BY StoreCases, <1>1, <1>2, <1>3

-----------------------------------------------------------------------------
(* The conjuncts of SignalInv that speak of the store alone                *)

LEMMA PendingWindowStep ==
  TypeOK /\ PendingWindow /\ [Next]_vars => PendingWindow'
<1> SUFFICES ASSUME TypeOK, PendingWindow, [Next]_vars, NEW n \in Member, NEW e \in Epoch
             PROVE  /\ dir'[n][e].nextSeq = dir'[n][e].received + 1
                    /\ dir'[n][e].acked <= dir'[n][e].received
                    /\ dir'[n][e].pending = (dir'[n][e].acked + 1)..dir'[n][e].received
  BY DEF PendingWindow
<1> DEFINE d == dir[n][e]
<1>0. /\ d.received \in Nat /\ d.acked \in Nat /\ d.nextSeq = d.received + 1
      /\ d.acked <= d.received /\ d.pending = (d.acked + 1)..d.received
  BY SignalAssumption DEF TypeOK, PendingWindow, Direction
<1>1. CASE ~Accepts /\ ~Acks
  <2>1. CASE dir'[n][e] = EmptyDirection
    BY <2>1 DEF EmptyDirection
  <2> QED BY <1>0, <1>1, <2>1, DirCases
<1>2. CASE Accepts
  <2> PICK n1 \in Member, r \in Req, e1 \in Epoch, q \in SeqNo, m \in Msg :
         AcceptSignal(n1, r, e1, q, m) /\ AcceptNew(n1, r, e1, q, m)
    BY <1>2 DEF Accepts
  <2>0. DirAfterAccept(n1, e1, q, m)
    BY AcceptNewDir
  <2>1. CASE n1 = n /\ e1 = e
    <3>1. q = d.nextSeq
      BY <2>1 DEF AcceptNew
    <3>2. /\ dir'[n][e].nextSeq = q + 1
          /\ dir'[n][e].received = q
          /\ dir'[n][e].acked = d.acked
          /\ dir'[n][e].pending = d.pending \cup {q}
      BY <2>0, <2>1 DEF DirAfterAccept
    <3> HIDE DEF d
    <3>3. d.pending \cup {q} = (d.acked + 1)..q
      BY <1>0, <3>1
    <3> QED BY <1>0, <3>1, <3>2, <3>3
  <2>2. CASE n1 # n \/ e1 # e
    BY <1>0, <2>0, <2>2 DEF DirAfterAccept
  <2> QED BY <2>1, <2>2
<1>3. CASE Acks
  <2> PICK n1 \in Member, r \in Req, e1 \in Epoch, q \in SeqNo : AckSignal(n1, r, e1, q)
    BY <1>3 DEF Acks
  <2>0. DirAfterAck(Peer(n1), e1, q)
    BY AckDir
  <2>1. CASE Peer(n1) = n /\ e1 = e
    <3>1. /\ dir'[n][e].nextSeq = d.nextSeq
          /\ dir'[n][e].received = d.received
          /\ q <= d.received
          /\ q > d.acked => /\ dir'[n][e].acked = q
                            /\ dir'[n][e].pending = d.pending \ ((d.acked + 1)..q)
          /\ ~(q > d.acked) => dir'[n][e] = d
      BY <2>0, <2>1 DEF DirAfterAck
    <3>2. q \in Nat
      BY DEF SeqNo
    <3> HIDE DEF d
    <3>3. q > d.acked => d.pending \ ((d.acked + 1)..q) = (q + 1)..d.received
      BY <1>0, <3>2
    <3> QED BY Zenon, <1>0, <3>1, <3>2, <3>3
  <2>2. CASE Peer(n1) # n \/ e1 # e
    BY <1>0, <2>0, <2>2 DEF DirAfterAck
  <2> QED BY <2>1, <2>2
<1> QED BY <1>1, <1>2, <1>3

LEMMA RecentBoundedStep ==
  TypeOK /\ PendingWindow /\ RecentBounded /\ [Next]_vars => RecentBounded'
<1> SUFFICES ASSUME TypeOK, PendingWindow, RecentBounded, [Next]_vars,
                    NEW n \in Member, NEW e \in Epoch, NEW m \in Msg
             PROVE  dir'[n][e].recent[m] <= dir'[n][e].received
  BY DEF RecentBounded
<1> DEFINE d == dir[n][e]
<1>0. /\ d.recent \in [Msg -> 0..MaxSeq] /\ d.received \in Nat /\ d.nextSeq = d.received + 1
      /\ d.recent[m] \in Nat /\ d.recent[m] <= d.received
  BY SignalAssumption DEF TypeOK, PendingWindow, Direction, RecentBounded
<1>1. CASE ~Accepts /\ ~Acks
  <2>1. CASE dir'[n][e] = EmptyDirection
    BY <2>1 DEF EmptyDirection
  <2> QED BY <1>0, <1>1, <2>1, DirCases
<1>2. CASE Accepts
  <2> PICK n1 \in Member, r \in Req, e1 \in Epoch, q \in SeqNo, m1 \in Msg :
         AcceptSignal(n1, r, e1, q, m1) /\ AcceptNew(n1, r, e1, q, m1)
    BY <1>2 DEF Accepts
  <2>0. DirAfterAccept(n1, e1, q, m1) /\ q = dir[n1][e1].nextSeq
    BY Zenon, AcceptNewDir DEF AcceptNew
  <2>1. CASE n1 = n /\ e1 = e
    <3>1. dir'[n][e].received = q /\ dir'[n][e].recent = [d.recent EXCEPT ![m1] = q]
      BY <2>0, <2>1 DEF DirAfterAccept
    <3>2. q = d.received + 1
      BY <1>0, <2>0, <2>1
    <3> HIDE DEF d
    <3> QED BY <1>0, <3>1, <3>2
  <2>2. CASE n1 # n \/ e1 # e
    BY <1>0, <2>0, <2>2 DEF DirAfterAccept
  <2> QED BY <2>1, <2>2
<1>3. CASE Acks
  <2> PICK n1 \in Member, r \in Req, e1 \in Epoch, q \in SeqNo : AckSignal(n1, r, e1, q)
    BY <1>3 DEF Acks
  <2>0. DirAfterAck(Peer(n1), e1, q)
    BY AckDir
  <2>1. dir'[n][e].recent = d.recent /\ dir'[n][e].received = d.received
    BY <2>0 DEF DirAfterAck
  <2> QED BY <1>0, <2>1
<1> QED BY <1>1, <1>2, <1>3

=============================================================================
