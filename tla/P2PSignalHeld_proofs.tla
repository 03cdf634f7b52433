------------------------ MODULE P2PSignalHeld_proofs ------------------------
(***************************************************************************)
(* Proofs about P2PSignal, part 2: one step preserves the other conjuncts  *)
(* of SignalInv that speak of the store, and those that relate the         *)
(* goroutines' items, the cached requests and the ACK workers to it.       *)
(***************************************************************************)
EXTENDS P2PSignalTypes_proofs, TLAPS

USE DEF storeVars, queueVars, flushVars

-----------------------------------------------------------------------------
(* What an ACK or an ended generation leaves of the store                  *)

LEMMA OneMessagePerSeqStep ==
  TypeOK /\ PendingWindow /\ RecentBounded /\ OneMessagePerSeq /\ [Next]_vars
    => OneMessagePerSeq'
<1> SUFFICES ASSUME TypeOK, PendingWindow, RecentBounded, OneMessagePerSeq, [Next]_vars,
                    NEW n \in Member, NEW e \in Epoch, NEW m1 \in Msg, NEW m2 \in Msg,
                    dir'[n][e].recent[m1] # 0,
                    dir'[n][e].recent[m1] = dir'[n][e].recent[m2]
             PROVE  m1 = m2
  BY DEF OneMessagePerSeq
<1> DEFINE d == dir[n][e]
<1>0. /\ d.recent \in [Msg -> 0..MaxSeq] /\ d.received \in Nat /\ d.nextSeq = d.received + 1
      /\ d.recent[m1] \in Nat /\ d.recent[m1] <= d.received
      /\ d.recent[m2] \in Nat /\ d.recent[m2] <= d.received
      /\ d.recent[m1] # 0 /\ d.recent[m1] = d.recent[m2] => m1 = m2
  BY SMTT(30), SignalAssumption DEF TypeOK, PendingWindow, Direction, RecentBounded, OneMessagePerSeq
<1>1. CASE ~Accepts /\ ~Acks
  <2>1. CASE dir'[n][e] = EmptyDirection
    BY <2>1 DEF EmptyDirection
  <2> QED BY <1>0, <1>1, <2>1, DirCases
<1>2. CASE Accepts
  <2> PICK n1 \in Member, r \in Req, e1 \in Epoch, q \in SeqNo, m \in Msg :
         AcceptSignal(n1, r, e1, q, m) /\ AcceptNew(n1, r, e1, q, m)
    BY <1>2 DEF Accepts
  <2>0. DirAfterAccept(n1, e1, q, m) /\ q = dir[n1][e1].nextSeq
    BY Zenon, AcceptNewDir DEF AcceptNew
  <2>1. CASE n1 = n /\ e1 = e
    <3>1. dir'[n][e].recent = [d.recent EXCEPT ![m] = q]
      BY <2>0, <2>1 DEF DirAfterAccept
    <3>2. q = d.received + 1
      BY SMTT(30), <1>0, <2>0, <2>1
    <3> HIDE DEF d
    <3> QED BY <1>0, <3>1, <3>2
  <2>2. CASE n1 # n \/ e1 # e
    BY <1>0, <2>0, <2>2 DEF DirAfterAccept
  <2> QED BY <2>1, <2>2
<1>3. CASE Acks
  <2> PICK n1 \in Member, r \in Req, e1 \in Epoch, q \in SeqNo : AckSignal(n1, r, e1, q)
    BY <1>3 DEF Acks
  <2>0. DirAfterAck(Peer(n1), e1, q)
    BY AckDir
  <2>1. dir'[n][e].recent = d.recent
    BY <2>0 DEF DirAfterAck
  <2> QED BY <1>0, <2>1
<1> QED BY <1>1, <1>2, <1>3

\* an ACK is accepted only in an open generation
LEMMA AckOpen ==
  ASSUME TypeOK, EndedGenerationsEmpty, NEW n \in Member, NEW r \in Req, NEW e \in Epoch,
         NEW q \in SeqNo, AckSignal(n, r, e, q)
  PROVE  e = epoch /\ connState # "closed"
<1>1. e = epoch /\ q <= dir[Peer(n)][e].received /\ Peer(n) \in Member
  BY PeerType DEF AckSignal
<1>2. SUFFICES ASSUME connState = "closed" PROVE FALSE
  BY <1>1
<1>3. dir[Peer(n)][e] = EmptyDirection
  BY <1>1, <1>2 DEF EndedGenerationsEmpty
<1> QED BY <1>1, <1>3 DEF EmptyDirection, SeqNo

LEMMA EndedGenerationsEmptyStep ==
  TypeOK /\ EndedGenerationsEmpty /\ [Next]_vars => EndedGenerationsEmpty'
<1> SUFFICES ASSUME TypeOK, EndedGenerationsEmpty, [Next]_vars,
                    NEW n \in Member, NEW e \in Epoch, (e # epoch \/ connState = "closed")'
             PROVE  dir'[n][e] = EmptyDirection
  BY DEF EndedGenerationsEmpty
<1>0. e # epoch \/ connState = "closed" => dir[n][e] = EmptyDirection
  BY DEF EndedGenerationsEmpty
<1>1. CASE Ends
  BY <1>0, <1>1, DropGenerationDir DEF Ends
<1>2. CASE Restarts
  BY <1>0, <1>2, DropGenerationDir DEF Restarts
<1>3. CASE SetsUp \/ Quiet
  BY Zenon, <1>0, <1>3 DEF SetsUp, Quiet
<1>4. CASE Accepts
  <2> PICK n1 \in Member, r \in Req, e1 \in Epoch, q \in SeqNo, m \in Msg :
         AcceptSignal(n1, r, e1, q, m) /\ AcceptNew(n1, r, e1, q, m)
    BY <1>4 DEF Accepts
  <2>1. DirAfterAccept(n1, e1, q, m)
    BY AcceptNewDir
  <2>2. e1 = epoch /\ connState = "active" /\ UNCHANGED <<epoch, connState>>
    BY DEF AcceptSignal
  <2> QED BY <1>0, <2>1, <2>2 DEF DirAfterAccept
<1>5. CASE Acks
  <2> PICK n1 \in Member, r \in Req, e1 \in Epoch, q \in SeqNo : AckSignal(n1, r, e1, q)
    BY <1>5 DEF Acks
  <2>1. DirAfterAck(Peer(n1), e1, q)
    BY AckDir
  <2>2. e1 = epoch /\ connState # "closed"
    BY AckOpen
  <2>3. UNCHANGED <<epoch, connState>>
    BY DEF AckSignal
  <2> QED BY <1>0, <2>1, <2>2, <2>3 DEF DirAfterAck
<1> QED BY StoreCases, <1>1, <1>2, <1>3, <1>4, <1>5

\* what reached a member stays there
LEMMA DeliveredGrows ==
  ASSUME TypeOK, [Next]_vars, NEW n \in Member, NEW e \in Epoch
  PROVE  delivered[n][e] \subseteq delivered'[n][e]
<1>1. CASE \E it \in fdue \cup fcur : FlushPublishDelivered(it)
  BY <1>1 DEF TypeOK, FlushPublishDelivered
<1>2. CASE ~\E it \in fdue \cup fcur : FlushPublishDelivered(it)
  <2>1. delivered' = delivered
    <3>1. CASE UNCHANGED vars
      BY <3>1 DEF vars
    <3>2. CASE DeadlinePasses \/ Expire \/ Lifecycle
      BY <3>2 DEF DeadlinePasses, Expire, Lifecycle, BindConnection, AllocateRestart,
                  MarkConnectionReady, CloseConnection, CloseSession, RejectConnection
    <3>3. CASE Signalling
      <4>1. ASSUME NEW n1, NEW r, NEW e1, NEW q, NEW m, AcceptSignal(n1, r, e1, q, m)
            PROVE  delivered' = delivered
        BY <4>1 DEF AcceptSignal
      <4>2. ASSUME NEW n1, NEW r, NEW e1, NEW q, AckSignal(n1, r, e1, q)
            PROVE  delivered' = delivered
        BY <4>2 DEF AckSignal
      <4>3. ASSUME NEW n1, NEW r, AcceptCached(n1, r) \/ AckCached(n1, r)
            PROVE  delivered' = delivered
        BY ZenonT(30), <4>3 DEF AcceptCached, AckCached
      <4> QED BY SMTT(20), <3>3, <4>1, <4>2, <4>3 DEF Signalling
    <3>4. CASE Worker
      BY <3>4 DEF Worker, DropRetriesAndUnlock, DropRetriesLate, EnqueueRetry, DropAcked
    <3>5. CASE Flush
      BY <3>5, <1>2 DEF Flush, FlushExpire, FlushDrop, FlushCollect, FlushDone, FlushItem,
                  FlushNext, FlushFetch, FlushPublishLost, FlushRequeue, FlushPut
    <3> QED BY <3>1, <3>2, <3>3, <3>4, <3>5 DEF Next
  <2> QED BY <2>1
<1> QED BY <1>1, <1>2

LEMMA AckedDeliveredStep ==
  TypeOK /\ AckedDelivered /\ [Next]_vars => AckedDelivered'
<1> SUFFICES ASSUME TypeOK, AckedDelivered, [Next]_vars,
                    NEW n \in Member, NEW e \in Epoch, NEW k \in SeqNo,
                    k <= dir'[n][e].acked
             PROVE  k \in delivered'[n][e]
  BY SMTT(30) DEF AckedDelivered
<1>0. /\ dir[n][e].acked \in Nat /\ k \in Nat \ {0}
      /\ k <= dir[n][e].acked => k \in delivered[n][e]
      /\ delivered[n][e] \subseteq delivered'[n][e]
  BY SMTT(30), SignalAssumption, DeliveredGrows DEF TypeOK, Direction, AckedDelivered, SeqNo
<1>1. CASE ~Accepts /\ ~Acks
  <2>1. CASE dir'[n][e] = EmptyDirection
    BY <1>0, <2>1 DEF EmptyDirection
  <2> QED BY <1>0, <1>1, <2>1, DirCases
<1>2. CASE Accepts
  <2> PICK n1 \in Member, r \in Req, e1 \in Epoch, q \in SeqNo, m \in Msg :
         AcceptSignal(n1, r, e1, q, m) /\ AcceptNew(n1, r, e1, q, m)
    BY <1>2 DEF Accepts
  <2>1. DirAfterAccept(n1, e1, q, m)
    BY AcceptNewDir
  <2>2. dir'[n][e].acked = dir[n][e].acked
    BY <2>1 DEF DirAfterAccept
  <2> QED BY <1>0, <2>2
<1>3. CASE Acks
  <2> PICK n1 \in Member, r \in Req, e1 \in Epoch, q \in SeqNo : AckSignal(n1, r, e1, q)
    BY <1>3 DEF Acks
  <2>1. DirAfterAck(Peer(n1), e1, q)
    BY AckDir
  <2>2. 1..q \subseteq delivered[Peer(n1)][e1]
    BY DEF AckSignal
  <2>3. q \in Nat
    BY DEF SeqNo
  <2>4. CASE Peer(n1) = n /\ e1 = e /\ q > dir[n][e].acked
    <3>1. dir'[n][e].acked = q
      BY <2>1, <2>4 DEF DirAfterAck
    <3>2. k \in 1..q
      BY <1>0, <2>3, <3>1
    <3> QED BY <1>0, <2>2, <2>4, <3>2
  <2>5. CASE ~(Peer(n1) = n /\ e1 = e /\ q > dir[n][e].acked)
    <3>1. dir'[n][e] = dir[n][e]
      BY <2>1, <2>5 DEF DirAfterAck
    <3> QED BY <1>0, <3>1
  <2> QED BY <2>4, <2>5
<1> QED BY <1>1, <1>2, <1>3

-----------------------------------------------------------------------------
(* The conjuncts that relate the goroutines to the store                   *)

\* HeldMatchesStore for one item
ItemMatches(it) ==
  /\ it.ep <= epoch
  /\ Open(it.ep) => dir[it.snd][it.ep].recent[it.msg] = it.seq

\* an item that was right stays right
LEMMA ItemStays ==
  ASSUME TypeOK, [Next]_vars, TypeOK', NEW it \in Item, ItemMatches(it)
  PROVE  ItemMatches(it)'
<1>1. it.snd \in Member /\ it.ep \in Epoch /\ it.seq \in SeqNo /\ it.msg \in Msg
  BY DEF Item
<1>2. epoch \in Nat /\ epoch' \in Nat /\ it.ep \in Nat /\ it.seq # 0
  BY <1>1, SignalAssumption DEF TypeOK, Epoch, SeqNo
<1>3. it.ep <= epoch
  BY DEF ItemMatches
<1>4. epoch <= epoch'
  BY ZenonT(30), StoreMonotone
<1>5. ASSUME Open(it.ep)' PROVE dir'[it.snd][it.ep].recent[it.msg] = it.seq
  <2>1. /\ Open(it.ep)
        /\ dir[it.snd][it.ep].recent[it.msg] # 0
             => dir'[it.snd][it.ep].recent[it.msg] = dir[it.snd][it.ep].recent[it.msg]
    BY ZenonT(30), <1>1, <1>3, <1>5, StoreMonotone
  <2> QED BY ZenonT(30), <1>2, <2>1 DEF ItemMatches
<1> QED BY <1>2, <1>3, <1>4, <1>5 DEF ItemMatches

\* who else touches the goroutines' items, apart from SIGNAL_SEND
LEMMA HeldOnlyFromSend ==
  ASSUME TypeOK, [Next]_vars, NEW it \in Held', it \notin Held
  PROVE  \/ \E n \in Member, r \in Req, e \in Epoch, q \in SeqNo, m \in Msg :
              /\ AcceptSignal(n, r, e, q, m)
              /\ it = [snd |-> n, ep |-> e, seq |-> q, msg |-> m]
         \/ \E n \in Member, r \in Req :
              /\ AcceptCached(n, r)
              /\ it = [snd |-> n, ep |-> requests[n][r].ep, seq |-> requests[n][r].seq,
                       msg |-> requests[n][r].msg]
<1> USE DEF Held
<1>1. CASE UNCHANGED vars
  BY ZenonT(30), <1>1 DEF vars
<1>2. CASE DeadlinePasses \/ Expire \/ Lifecycle
  BY ZenonT(30), <1>2 DEF DeadlinePasses, Expire, Lifecycle, BindConnection, AllocateRestart,
              MarkConnectionReady, CloseConnection, CloseSession, RejectConnection
<1>3. CASE Signalling
  <2>1. ASSUME NEW n \in Senders, NEW r \in Req, NEW e \in Epoch, NEW q \in SeqNo, NEW m \in Msg,
               AcceptSignal(n, r, e, q, m)
        PROVE  n \in Member /\ it = [snd |-> n, ep |-> e, seq |-> q, msg |-> m]
    BY <2>1, SignalAssumption DEF AcceptSignal, AcceptNew, AcceptDuplicate
  <2>2. ASSUME NEW n, NEW r, NEW e, NEW q, AckSignal(n, r, e, q)
        PROVE  FALSE
    BY ZenonT(30), <2>2 DEF AckSignal
  <2>3. ASSUME NEW n \in Senders, NEW r \in Req, AcceptCached(n, r)
        PROVE  n \in Member /\ it = [snd |-> n, ep |-> requests[n][r].ep,
                                     seq |-> requests[n][r].seq, msg |-> requests[n][r].msg]
    BY <2>3, SignalAssumption DEF AcceptCached
  <2>4. ASSUME NEW n, NEW r, AckCached(n, r) PROVE FALSE
    BY <2>4 DEF AckCached
  <2>5. CASE \E n \in Senders, r \in Req, e \in Epoch, q \in SeqNo, m \in Msg :
               AcceptSignal(n, r, e, q, m)
    <3>1. PICK n \in Senders, r \in Req, e \in Epoch, q \in SeqNo, m \in Msg :
            AcceptSignal(n, r, e, q, m)
      BY <2>5
    <3>2. n \in Member /\ it = [snd |-> n, ep |-> e, seq |-> q, msg |-> m]
      BY <2>1, <3>1
    <3> QED BY Zenon, <3>1, <3>2
  <2>6. CASE \E n \in Senders, r \in Req : AcceptCached(n, r)
    <3>1. PICK n \in Senders, r \in Req : AcceptCached(n, r)
      BY <2>6
    <3>2. n \in Member /\ it = [snd |-> n, ep |-> requests[n][r].ep,
                                seq |-> requests[n][r].seq, msg |-> requests[n][r].msg]
      BY SMTT(30), <2>3, <3>1
    <3> QED BY Zenon, <3>1, <3>2
  <2> QED BY ZenonT(30), <1>3, <2>2, <2>4, <2>5, <2>6 DEF Signalling
<1>4. CASE Worker
  BY ZenonT(30), <1>4 DEF Worker, DropRetriesAndUnlock, DropRetriesLate, EnqueueRetry, DropAcked
<1>5. CASE FlushExpire \/ FlushDrop \/ FlushCollect \/ FlushDone
  BY ZenonT(30), <1>5 DEF FlushExpire, FlushDrop, FlushCollect, FlushDone
<1>6. ASSUME NEW i \in fdue \cup fcur, FlushItem(i) PROVE FALSE
  BY <1>6 DEF FlushItem, FlushNext, FlushFetch, FlushPublishLost, FlushPublishDelivered,
              FlushRequeue, FlushPut
<1> QED BY ZenonT(30), <1>1, <1>2, <1>3, <1>4, <1>5, <1>6 DEF Next, Flush

\* what AcceptSignal leaves behind, whether the signal is new or known
LEMMA AcceptedIsRecent ==
  ASSUME TypeOK, NEW n \in Member, NEW r \in Req, NEW e \in Epoch, NEW q \in SeqNo,
         NEW m \in Msg, AcceptSignal(n, r, e, q, m)
  PROVE  e = epoch' /\ dir'[n][e].recent[m] = q
<1>1. e = epoch'
  BY Zenon DEF AcceptSignal
<1>2. CASE AcceptNew(n, r, e, q, m)
  <2>1. dir'[n][e].recent = [dir[n][e].recent EXCEPT ![m] = q]
    BY <1>2, AcceptNewDir DEF DirAfterAccept
  <2>2. dir[n][e].recent \in [Msg -> 0..MaxSeq]
    BY DEF TypeOK, Direction
  <2> QED BY ZenonT(30), <1>1, <2>1, <2>2
<1>3. CASE AcceptDuplicate(n, r, e, q, m)
  BY ZenonT(30), <1>1, <1>3 DEF AcceptDuplicate
<1> QED BY Zenon, <1>2, <1>3 DEF AcceptSignal

LEMMA HeldMatchesStoreStep ==
  TypeOK /\ TypeOK' /\ HeldMatchesStore /\ RequestsMatchStore /\ [Next]_vars
    => HeldMatchesStore'
<1> SUFFICES ASSUME TypeOK, TypeOK', HeldMatchesStore, RequestsMatchStore, [Next]_vars,
                    NEW it \in Held'
             PROVE  ItemMatches(it)'
  BY DEF HeldMatchesStore, ItemMatches
<1>1. CASE it \in Held
  <2>1. it \in Item /\ ItemMatches(it)
    BY <1>1 DEF TypeOK, Held, HeldMatchesStore, ItemMatches
  <2> QED BY ZenonT(30), <2>1, ItemStays
<1>2. ASSUME NEW n \in Member, NEW r \in Req, NEW e \in Epoch, NEW q \in SeqNo, NEW m \in Msg,
             AcceptSignal(n, r, e, q, m), it = [snd |-> n, ep |-> e, seq |-> q, msg |-> m]
      PROVE  ItemMatches(it)'
  <2>1. e = epoch' /\ dir'[n][e].recent[m] = q
    BY <1>2, AcceptedIsRecent
  <2>2. it.snd = n /\ it.ep = e /\ it.seq = q /\ it.msg = m /\ e \in Nat
    BY <1>2, SignalAssumption DEF Epoch
  <2> QED BY <2>1, <2>2 DEF ItemMatches
<1>3. ASSUME NEW n \in Member, NEW r \in Req, AcceptCached(n, r),
             it = [snd |-> n, ep |-> requests[n][r].ep, seq |-> requests[n][r].seq,
                   msg |-> requests[n][r].msg]
      PROVE  ItemMatches(it)'
  <2>1. UNCHANGED <<epoch, connState, dir>> /\ requests[n][r].kind = "send"
    BY Zenon, <1>3 DEF AcceptCached
  <2> QED BY Zenon, <1>3, <2>1 DEF RequestsMatchStore, ItemMatches, Open
<1> QED BY ZenonT(30), <1>1, <1>2, <1>3, HeldOnlyFromSend

\* RequestsMatchStore for one request record
RequestMatches(n, c) ==
  /\ c.kind # "none" => c.ep \in Epoch /\ c.ep <= epoch /\ c.seq \in SeqNo
  /\ c.kind = "send" =>
       /\ c.msg \in Msg
       /\ Open(c.ep) => dir[n][c.ep].recent[c.msg] = c.seq
  /\ c.kind = "ack" => (Open(c.ep) => dir[Peer(n)][c.ep].acked >= c.seq)

LEMMA RequestStays ==
  ASSUME TypeOK, TypeOK', [Next]_vars, NEW n \in Member, NEW c, RequestMatches(n, c)
  PROVE  RequestMatches(n, c)'
<1>1. CASE c.kind = "none"
  BY ZenonT(30), <1>1 DEF RequestMatches
<1>2. CASE c.kind # "none"
  <2>1. c.ep \in Epoch /\ c.ep <= epoch /\ c.seq \in SeqNo /\ c.seq \in Nat /\ c.seq # 0
    BY SMTT(30), <1>2 DEF RequestMatches, SeqNo
  <2>2. /\ Peer(n) \in Member /\ epoch \in Nat /\ epoch' \in Nat /\ c.ep \in Nat
        /\ epoch <= epoch'
    BY <2>1, SignalAssumption, PeerType, StoreMonotone DEF TypeOK, Epoch
  <2>3. c.ep <= epoch'
    BY SMTT(30), <2>1, <2>2
  <2>4. ASSUME c.kind = "send", Open(c.ep)'
        PROVE  dir'[n][c.ep].recent[c.msg] = c.seq
    <3>1. c.msg \in Msg /\ (Open(c.ep) => dir[n][c.ep].recent[c.msg] = c.seq)
      BY ZenonT(30), <2>4 DEF RequestMatches
    <3>2. /\ Open(c.ep)
          /\ dir[n][c.ep].recent[c.msg] # 0
               => dir'[n][c.ep].recent[c.msg] = dir[n][c.ep].recent[c.msg]
      BY <2>1, <2>4, <3>1, StoreMonotone
    <3> QED BY <2>1, <3>1, <3>2
  <2>5. ASSUME c.kind = "ack", Open(c.ep)'
        PROVE  dir'[Peer(n)][c.ep].acked >= c.seq
    <3>1. Open(c.ep) => dir[Peer(n)][c.ep].acked >= c.seq
      BY ZenonT(30), <2>5 DEF RequestMatches
    <3>2. Open(c.ep) /\ dir'[Peer(n)][c.ep].acked >= dir[Peer(n)][c.ep].acked
      BY ZenonT(30), <2>1, <2>2, <2>5, StoreMonotone
    <3>3. dir[Peer(n)][c.ep].acked \in Nat /\ dir'[Peer(n)][c.ep].acked \in Nat
      BY <2>1, <2>2, SignalAssumption DEF TypeOK, Direction
    <3> QED BY <2>1, <3>1, <3>2, <3>3
  <2>6. c.kind = "send" => c.msg \in Msg
    BY ZenonT(30) DEF RequestMatches
  <2> QED BY <2>1, <2>3, <2>4, <2>5, <2>6 DEF RequestMatches
<1> QED BY <1>1, <1>2

\* the window an ACK leaves covers what it acknowledged
LEMMA AckCovers ==
  ASSUME TypeOK, NEW n \in Member, NEW r \in Req, NEW e \in Epoch, NEW q \in SeqNo,
         AckSignal(n, r, e, q)
  PROVE  e = epoch' /\ dir'[Peer(n)][e].acked >= q
<1>1. e = epoch'
  BY DEF AckSignal
<1>2. dir[Peer(n)][e].acked \in Nat /\ q \in Nat
  BY PeerType, SignalAssumption DEF TypeOK, Direction, SeqNo
<1>3. DirAfterAck(Peer(n), e, q)
  BY AckDir
<1> QED BY <1>1, <1>2, <1>3 DEF DirAfterAck

\* only SIGNAL_SEND and SIGNAL_ACK write request records
LEMMA RequestsOnlyFromSignals ==
  ASSUME TypeOK, [Next]_vars, NEW n \in Member, NEW r \in Req
  PROVE  \/ requests'[n][r] = requests[n][r]
         \/ \E e \in Epoch, q \in SeqNo, m \in Msg, k \in {"send", "send_dup"} :
              /\ AcceptSignal(n, r, e, q, m)
              /\ requests'[n][r] = [kind |-> k, ep |-> e, seq |-> q, msg |-> m]
         \/ \E e \in Epoch, q \in SeqNo :
              /\ AckSignal(n, r, e, q)
              /\ requests'[n][r] = [kind |-> "ack", ep |-> e, seq |-> q, msg |-> "none"]
<1>1. CASE UNCHANGED vars
  BY ZenonT(30), <1>1 DEF vars
<1>2. CASE DeadlinePasses \/ Expire \/ Lifecycle
  BY ZenonT(30), <1>2 DEF DeadlinePasses, Expire, Lifecycle, BindConnection, AllocateRestart,
              MarkConnectionReady, CloseConnection, CloseSession, RejectConnection
<1>3. ASSUME NEW n1 \in Senders, NEW r1 \in Req, NEW e \in Epoch, NEW q \in SeqNo, NEW m \in Msg,
             AcceptSignal(n1, r1, e, q, m)
      PROVE  \/ requests'[n][r] = requests[n][r]
             \/ /\ n1 = n /\ r1 = r
                /\ \E k \in {"send", "send_dup"} :
                     requests'[n][r] = [kind |-> k, ep |-> e, seq |-> q, msg |-> m]
  <2>1. PICK k \in {"send", "send_dup"} :
          requests' = [requests EXCEPT ![n1][r1] = [kind |-> k, ep |-> e, seq |-> q, msg |-> m]]
    BY <1>3 DEF AcceptSignal, AcceptNew, AcceptDuplicate
  <2>2. n1 \in Member
    BY SignalAssumption
  <2> QED BY ZenonT(30), <2>1, <2>2 DEF TypeOK
<1>4. ASSUME NEW n1 \in Member, NEW r1 \in Req, NEW e \in Epoch, NEW q \in SeqNo,
             AckSignal(n1, r1, e, q)
      PROVE  \/ requests'[n][r] = requests[n][r]
             \/ /\ n1 = n /\ r1 = r
                /\ requests'[n][r] = [kind |-> "ack", ep |-> e, seq |-> q, msg |-> "none"]
  <2>1. requests' = [requests EXCEPT ![n1][r1] =
                       [kind |-> "ack", ep |-> e, seq |-> q, msg |-> "none"]]
    BY <1>4 DEF AckSignal
  <2> QED BY <2>1 DEF TypeOK
<1>5. ASSUME NEW n1, NEW r1, AcceptCached(n1, r1) \/ AckCached(n1, r1)
      PROVE  requests'[n][r] = requests[n][r]
  BY Zenon, <1>5 DEF AcceptCached, AckCached
<1>6. CASE Worker
  BY Zenon, <1>6 DEF Worker, DropRetriesAndUnlock, DropRetriesLate, EnqueueRetry, DropAcked
<1>7. CASE FlushExpire \/ FlushDrop \/ FlushCollect \/ FlushDone
  BY ZenonT(30), <1>7 DEF FlushExpire, FlushDrop, FlushCollect, FlushDone
<1>8. ASSUME NEW i \in fdue \cup fcur, FlushItem(i)
      PROVE  requests'[n][r] = requests[n][r]
  BY <1>8 DEF FlushItem, FlushNext, FlushFetch, FlushPublishLost, FlushPublishDelivered,
              FlushRequeue, FlushPut
<1>9. CASE Signalling
  <2>1. CASE \E n1 \in Senders, r1 \in Req, e \in Epoch, q \in SeqNo, m \in Msg :
               AcceptSignal(n1, r1, e, q, m)
    <3>1. PICK n1 \in Senders, r1 \in Req, e \in Epoch, q \in SeqNo, m \in Msg :
            AcceptSignal(n1, r1, e, q, m)
      BY Zenon, <2>1
    <3>2. CASE requests'[n][r] = requests[n][r]
      BY Zenon, <3>2
    <3>3. CASE n1 = n /\ r1 = r
      <4>1. requests'[n][r] # requests[n][r] => \E k \in {"send", "send_dup"} :
              requests'[n][r] = [kind |-> k, ep |-> e, seq |-> q, msg |-> m]
        BY ZenonT(30), <1>3, <3>1
      <4>2. AcceptSignal(n, r, e, q, m)
        BY Zenon, <3>1, <3>3
      <4> QED BY Zenon, <4>1, <4>2
    <3> QED BY Zenon, <1>3, <3>1, <3>2, <3>3
  <2>2. CASE \E n1 \in Member, r1 \in Req, e \in Epoch, q \in SeqNo : AckSignal(n1, r1, e, q)
    BY Zenon, <2>2, <1>4
  <2> QED BY Zenon, <1>5, <1>9, <2>1, <2>2 DEF Signalling
<1> QED BY Zenon, <1>1, <1>2, <1>6, <1>7, <1>8, <1>9 DEF Next, Flush

LEMMA RequestsMatchStoreStep ==
  TypeOK /\ TypeOK' /\ RequestsMatchStore /\ [Next]_vars => RequestsMatchStore'
<1> SUFFICES ASSUME TypeOK, TypeOK', RequestsMatchStore, [Next]_vars,
                    NEW n \in Member, NEW r \in Req
             PROVE  RequestMatches(n, requests[n][r])'
  BY Zenon DEF RequestsMatchStore, RequestMatches
<1>1. CASE requests'[n][r] = requests[n][r]
  <2> DEFINE c == requests[n][r]
  <2>1. RequestMatches(n, c)
    BY Zenon DEF RequestsMatchStore, RequestMatches
  <2> HIDE DEF c
  <2>2. RequestMatches(n, c)'
    BY ZenonT(30), <2>1, RequestStays, <1>1 DEF RequestMatches, c
  <2> QED BY <2>2 DEF c
<1>2. ASSUME NEW e \in Epoch, NEW q \in SeqNo, NEW m \in Msg, NEW k \in {"send", "send_dup"},
             AcceptSignal(n, r, e, q, m),
             requests'[n][r] = [kind |-> k, ep |-> e, seq |-> q, msg |-> m]
      PROVE  RequestMatches(n, requests[n][r])'
  <2>1. e = epoch' /\ dir'[n][e].recent[m] = q
    BY ZenonT(30), <1>2, AcceptedIsRecent
  <2> QED BY SMTT(30), <1>2, <2>1, SignalAssumption DEF RequestMatches, Epoch
<1>3. ASSUME NEW e \in Epoch, NEW q \in SeqNo, AckSignal(n, r, e, q),
             requests'[n][r] = [kind |-> "ack", ep |-> e, seq |-> q, msg |-> "none"]
      PROVE  RequestMatches(n, requests[n][r])'
  <2>1. e = epoch' /\ dir'[Peer(n)][e].acked >= q
    BY <1>3, AckCovers
  <2> QED BY SMTT(30), <1>3, <2>1, SignalAssumption DEF RequestMatches, Epoch
<1> QED BY Zenon, <1>1, <1>2, <1>3, RequestsOnlyFromSignals

\* AcksApplied for one ACK worker
AckMatches(a) ==
  /\ a.ep <= epoch
  /\ Open(a.ep) => dir[a.snd][a.ep].acked >= a.seq

LEMMA AckStays ==
  ASSUME TypeOK, TypeOK', [Next]_vars, NEW a \in AckCmd, AckMatches(a)
  PROVE  AckMatches(a)'
<1>1. a.snd \in Member /\ a.ep \in Epoch /\ a.seq \in SeqNo
  BY DEF AckCmd
<1>2. epoch \in Nat /\ epoch' \in Nat /\ a.ep \in Nat /\ a.seq \in Nat
  BY <1>1, SignalAssumption DEF TypeOK, Epoch, SeqNo
<1>3. a.ep <= epoch /\ epoch <= epoch'
  BY StoreMonotone DEF AckMatches
<1>4. ASSUME Open(a.ep)' PROVE dir'[a.snd][a.ep].acked >= a.seq
  <2>1. Open(a.ep) /\ dir'[a.snd][a.ep].acked >= dir[a.snd][a.ep].acked
    BY ZenonT(30), <1>1, <1>3, <1>4, StoreMonotone
  <2>2. dir[a.snd][a.ep].acked \in Nat /\ dir'[a.snd][a.ep].acked \in Nat
    BY <1>1, SignalAssumption DEF TypeOK, Direction
  <2>3. dir[a.snd][a.ep].acked >= a.seq
    BY <2>1 DEF AckMatches
  <2> QED BY <1>2, <2>1, <2>2, <2>3
<1>5. a.ep <= epoch'
  BY <1>2, <1>3
<1> QED BY <1>4, <1>5 DEF AckMatches

LEMMA AcksAppliedStep ==
  TypeOK /\ TypeOK' /\ AcksApplied /\ RequestsMatchStore /\ [Next]_vars => AcksApplied'
<1> SUFFICES ASSUME TypeOK, TypeOK', AcksApplied, RequestsMatchStore, [Next]_vars,
                    NEW a \in acking'
             PROVE  AckMatches(a)'
  BY DEF AcksApplied, AckMatches
<1>1. CASE a \in acking
  <2>1. a \in AckCmd /\ AckMatches(a)
    BY <1>1 DEF TypeOK, AcksApplied, AckMatches
  <2> QED BY <2>1, AckStays
<1>2. ASSUME NEW n \in Member, NEW r \in Req, NEW e \in Epoch, NEW q \in SeqNo,
             AckSignal(n, r, e, q), a \notin acking
      PROVE  AckMatches(a)'
  <2>1. e = epoch' /\ dir'[Peer(n)][e].acked >= q
    BY <1>2, AckCovers
  <2>2. a = [snd |-> Peer(n), ep |-> e, seq |-> q]
    BY <1>2 DEF AckSignal
  <2>3. a.snd = Peer(n) /\ a.ep = e /\ a.seq = q /\ e \in Nat
    BY <2>2, SignalAssumption DEF Epoch
  <2> QED BY SMTT(30), <2>1, <2>3 DEF AckMatches
<1>3. ASSUME NEW n \in Member, NEW r \in Req, AckCached(n, r), a \notin acking
      PROVE  AckMatches(a)'
  <2>1. /\ a = [snd |-> Peer(n), ep |-> requests[n][r].ep, seq |-> requests[n][r].seq]
        /\ requests[n][r].kind = "ack" /\ UNCHANGED <<epoch, connState, dir>>
    BY Zenon, <1>3 DEF AckCached
  <2> QED BY Zenon, <2>1 DEF RequestsMatchStore, AckMatches, Open
<1>4. CASE ~Signalling /\ a \notin acking
  <2>1. CASE UNCHANGED vars
    BY ZenonT(30), <1>4, <2>1 DEF vars
  <2>2. CASE DeadlinePasses \/ Expire \/ Lifecycle
    BY <1>4, <2>2 DEF DeadlinePasses, Expire, Lifecycle, BindConnection, AllocateRestart,
                MarkConnectionReady, CloseConnection, CloseSession, RejectConnection
  <2>3. CASE Worker
    BY Zenon, <1>4, <2>3 DEF Worker, DropRetriesAndUnlock, DropRetriesLate, EnqueueRetry, DropAcked
  <2>4. CASE FlushExpire \/ FlushDrop \/ FlushCollect \/ FlushDone
    BY ZenonT(30), <1>4, <2>4 DEF FlushExpire, FlushDrop, FlushCollect, FlushDone
  <2>5. ASSUME NEW i \in fdue \cup fcur, FlushItem(i) PROVE FALSE
    BY ZenonT(30), <1>4, <2>5 DEF FlushItem, FlushNext, FlushFetch, FlushPublishLost,
                FlushPublishDelivered, FlushRequeue, FlushPut
  <2> QED BY <1>4, <2>1, <2>2, <2>3, <2>4, <2>5 DEF Next, Flush
<1>5. ASSUME NEW n, NEW r, NEW e, NEW q, NEW m, AcceptSignal(n, r, e, q, m)
      PROVE  acking' = acking
  BY <1>5 DEF AcceptSignal
<1>6. ASSUME NEW n, NEW r, AcceptCached(n, r) PROVE acking' = acking
  BY Zenon, <1>6 DEF AcceptCached
<1> QED BY <1>1, <1>2, <1>3, <1>4, <1>5, <1>6 DEF Signalling

=============================================================================
