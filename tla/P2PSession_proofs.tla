-------------------------- MODULE P2PSession_proofs --------------------------
(***************************************************************************)
(* Proofs about P2PSession: what the owner's store promises of a session   *)
(* that has not been buried, for any number of connections, generations,   *)
(* workers and requests.                                                   *)
(*                                                                         *)
(* The invariants are not inductive: an import could take a READY back or  *)
(* reopen a generation unless the snapshots that the workers hold are old  *)
(* images of the live record.  Every change of the record increases its    *)
(* revision, except the first READY of a generation, and a snapshot does   *)
(* not carry READY flags; so a snapshot with the record's revision differs *)
(* from it in nothing, and the import of an older one is refused.          *)
(***************************************************************************)
EXTENDS P2PSession, FiniteSetTheorems, TLAPS

(* An old image of the live record: at most its revision and epochs, and   *)
(* with the same revision the same states and epochs.                      *)
Image(snap) ==
  /\ live # None
  /\ snap.rev <= live.rev
  /\ \A c \in Conn : snap.conns[c] # None =>
       live.conns[c] # None /\ snap.conns[c].epoch <= live.conns[c].epoch
  /\ snap.rev = live.rev =>
       /\ snap.state = live.state
       /\ \A c \in Conn :
            /\ (snap.conns[c] = None) = (live.conns[c] = None)
            /\ snap.conns[c] # None =>
                 /\ snap.conns[c].epoch = live.conns[c].epoch
                 /\ snap.conns[c].state = live.conns[c].state

(* A worker has a snapshot from reading it to the end of the               *)
(* synchronisation.                                                        *)
SnapInv ==
  \A w \in Worker :
    /\ worker[w].pc \in {"idle", "snapshot"} <=> worker[w].snap = None
    /\ worker[w].snap # None => worker[w].snap.rev >= 1
    /\ worker[w].snap # None /\ ~buried => Image(worker[w].snap)

(* What is buried has ended, with all its connections.                     *)
TombInv ==
  tomb # None =>
    /\ buried
    /\ tomb.rev >= 1
    /\ tomb.state \in Ended
    /\ \A c \in Existing(tomb) : tomb.conns[c].state = "closed"

(* The owners entry exists from the creation of the session on.            *)
EntryInv ==
  /\ metaRev = 0 => live = None /\ ~buried
  /\ metaRev # 0 /\ ~buried => live # None
  /\ live # None => live.rev >= 1

(* One connection of the live record.                                      *)
ConnInv(c) ==
  LET k == live.conns[c] IN
  /\ k = None => \A e \in Epoch : readied[c][e] = {}
  /\ k # None =>
       /\ k.ready = readied[c][k.epoch]
       /\ k.state = "active" => live.state = "active" /\ k.ready = Member
       /\ \A e \in Epoch : e > k.epoch => readied[c][e] = {}

LiveInv ==
  ~buried =>
    /\ live = None => \A c \in Conn, e \in Epoch : readied[c][e] = {}
    /\ live # None => live.state \notin Ended /\ \A c \in Conn : ConnInv(c)

SessionInv == TypeOK /\ SnapInv /\ TombInv /\ EntryInv /\ LiveInv

WorkerRecord == [pc : WorkerPC, snap : SessionRec \cup {None}]

-----------------------------------------------------------------------------
(* Records                                                                 *)

LEMMA NewConnRec ==
  NewConn \in ConnRec /\ NewConn # None /\ NewConn.epoch = 1
    /\ NewConn.ready = {} /\ NewConn.state = "allocated" /\ 1 \in Epoch
<1>1. NewConn \in ConnRec
  BY SessionAssumption DEF NewConn, ConnRec, ConnState, Negotiating, Epoch
<1>2. QED BY <1>1, SessionAssumption DEF NewConn, Epoch

(* The parts of a record and of a connection.                              *)
LEMMA Parts ==
  ASSUME NEW s \in SessionRec
  PROVE  /\ s.state \in SessionState /\ s.rev \in Nat /\ s # None
         /\ s.conns \in [Conn -> ConnRec \cup {None}]
         /\ \A c \in Conn : s.conns[c] # None =>
              /\ s.conns[c] \in ConnRec
              /\ s.conns[c].state \in ConnState
              /\ s.conns[c].epoch \in Epoch /\ s.conns[c].epoch \in Nat
              /\ s.conns[c].ready \subseteq Member
BY SessionAssumption DEF SessionRec, ConnRec, Epoch

(* The change most commands make: the next revision, with one connection   *)
(* set anew.                                                               *)
Becomes(s, t, st, c, k) ==
  /\ t \in SessionRec
  /\ t.rev = s.rev + 1
  /\ t.state = st
  /\ t.conns[c] = k
  /\ \A d \in Conn \ {c} : t.conns[d] = s.conns[d]

LEMMA SetConn ==
  ASSUME NEW s \in SessionRec, NEW c \in Conn, NEW k \in ConnRec
  PROVE  Becomes(s, [s EXCEPT !.rev = @ + 1, !.conns[c] = k], s.state, c, k)
<1> DEFINE t == [s EXCEPT !.rev = @ + 1, !.conns[c] = k]
<1>1. s.rev + 1 \in Nat BY DEF SessionRec
<1>2. [s.conns EXCEPT ![c] = k] \in [Conn -> ConnRec \cup {None}] BY DEF SessionRec
<1>3. t \in SessionRec BY Zenon, <1>1, <1>2 DEF SessionRec
<1>4. t.rev = s.rev + 1 /\ t.state = s.state /\ t.conns = [s.conns EXCEPT ![c] = k]
  BY DEF SessionRec
<1>5. QED BY <1>3, <1>4 DEF SessionRec, Becomes

LEMMA SetConnState ==
  ASSUME NEW s \in SessionRec, NEW c \in Conn, s.conns[c] # None,
         NEW x \in ConnState
  PROVE  Becomes(s, [s EXCEPT !.rev = @ + 1, !.conns[c].state = x],
                 s.state, c, [s.conns[c] EXCEPT !.state = x])
<1> DEFINE t == [s EXCEPT !.rev = @ + 1, !.conns[c].state = x]
<1>1. PICK k \in ConnRec : k = [s.conns[c] EXCEPT !.state = x]
  BY Zenon DEF SessionRec, ConnRec
<1>2. s.rev + 1 \in Nat BY DEF SessionRec
<1>3. [s.conns EXCEPT ![c] = [s.conns[c] EXCEPT !.state = x]]
        \in [Conn -> ConnRec \cup {None}]
  BY <1>1 DEF SessionRec
<1>4. t \in SessionRec BY Zenon, <1>2, <1>3 DEF SessionRec
<1>5. t.rev = s.rev + 1 /\ t.state = s.state
        /\ t.conns = [s.conns EXCEPT ![c] = [s.conns[c] EXCEPT !.state = x]]
  BY DEF SessionRec
<1>6. QED BY <1>1, <1>4, <1>5 DEF SessionRec, Becomes

LEMMA SetBothStates ==
  ASSUME NEW s \in SessionRec, NEW c \in Conn, s.conns[c] # None,
         NEW x \in ConnState, NEW st \in SessionState
  PROVE  Becomes(s, [s EXCEPT !.rev = @ + 1, !.state = st, !.conns[c].state = x],
                 st, c, [s.conns[c] EXCEPT !.state = x])
<1> DEFINE t == [s EXCEPT !.rev = @ + 1, !.state = st, !.conns[c].state = x]
<1>1. PICK k \in ConnRec : k = [s.conns[c] EXCEPT !.state = x]
  BY Zenon DEF SessionRec, ConnRec
<1>2. s.rev + 1 \in Nat BY DEF SessionRec
<1>3. [s.conns EXCEPT ![c] = [s.conns[c] EXCEPT !.state = x]]
        \in [Conn -> ConnRec \cup {None}]
  BY <1>1 DEF SessionRec
<1>4. t \in SessionRec BY Zenon, <1>2, <1>3 DEF SessionRec
<1>5. t.rev = s.rev + 1 /\ t.state = st
        /\ t.conns = [s.conns EXCEPT ![c] = [s.conns[c] EXCEPT !.state = x]]
  BY DEF SessionRec
<1>6. QED BY <1>1, <1>4, <1>5 DEF SessionRec, Becomes

LEMMA SetReady ==
  ASSUME NEW s \in SessionRec, NEW c \in Conn, s.conns[c] # None,
         NEW st \in SessionState, NEW r \in SUBSET Member
  PROVE  Becomes(s, [s EXCEPT !.rev = @ + 1, !.state = st,
                              !.conns[c].ready = r, !.conns[c].state = "active"],
                 st, c, [s.conns[c] EXCEPT !.ready = r, !.state = "active"])
<1> DEFINE t == [s EXCEPT !.rev = @ + 1, !.state = st,
                          !.conns[c].ready = r, !.conns[c].state = "active"]
<1>1. PICK k \in ConnRec : k = [s.conns[c] EXCEPT !.ready = r, !.state = "active"]
  BY Zenon DEF SessionRec, ConnRec, ConnState
<1>2. s.rev + 1 \in Nat BY DEF SessionRec
<1>3. /\ [s.conns EXCEPT ![c].ready = r, ![c].state = "active"]
           = [s.conns EXCEPT ![c] = k]
      /\ [s.conns EXCEPT ![c] = k] \in [Conn -> ConnRec \cup {None}]
  BY Zenon, <1>1 DEF SessionRec
<1>4. t = [s EXCEPT !.rev = s.rev + 1, !.state = st, !.conns = [s.conns EXCEPT ![c] = k]]
  BY Zenon, <1>3 DEF SessionRec
<1>5. t \in SessionRec BY Zenon, <1>2, <1>3, <1>4 DEF SessionRec
<1>6. t.rev = s.rev + 1 /\ t.state = st /\ t.conns = [s.conns EXCEPT ![c] = k]
  BY Zenon, <1>4 DEF SessionRec
<1>7. QED BY Zenon, <1>1, <1>5, <1>6 DEF SessionRec, Becomes

(* Closing connections leaves epochs and READY flags.                      *)
LEMMA ClosedConns ==
  ASSUME NEW s \in SessionRec, NEW cs \in SUBSET Existing(s)
  PROVE  /\ CloseConns(s, cs) \in [Conn -> ConnRec \cup {None}]
         /\ \A c \in Conn \ cs : CloseConns(s, cs)[c] = s.conns[c]
         /\ \A c \in cs : /\ CloseConns(s, cs)[c] \in ConnRec
                          /\ CloseConns(s, cs)[c].state = "closed"
                          /\ CloseConns(s, cs)[c].epoch = s.conns[c].epoch
                          /\ CloseConns(s, cs)[c].ready = s.conns[c].ready
<1>1. \A c \in cs : c \in Conn /\ s.conns[c] \in ConnRec
  BY DEF Existing, SessionRec
<1>2. \A c \in cs : [s.conns[c] EXCEPT !.state = "closed"] \in ConnRec
  BY <1>1 DEF ConnRec, ConnState
<1>3. \A c \in cs : /\ [s.conns[c] EXCEPT !.state = "closed"].state = "closed"
                    /\ [s.conns[c] EXCEPT !.state = "closed"].epoch = s.conns[c].epoch
                    /\ [s.conns[c] EXCEPT !.state = "closed"].ready = s.conns[c].ready
  BY <1>1 DEF ConnRec
<1>4. QED
  BY <1>1, <1>2, <1>3 DEF CloseConns, SessionRec

-----------------------------------------------------------------------------
(* Images and workers                                                      *)

(* A record that grows, with a new revision, leaves its images behind.     *)
Grows ==
  /\ live \in SessionRec /\ live' \in SessionRec
  /\ live'.rev > live.rev
  /\ \A c \in Existing(live) :
       live'.conns[c] # None /\ live'.conns[c].epoch >= live.conns[c].epoch

LEMMA ImageGrows ==
  ASSUME Grows, NEW snap \in SessionRec, Image(snap)
  PROVE  Image(snap)'
<1>1. live' # None /\ live.rev \in Nat /\ live'.rev \in Nat /\ snap.rev \in Nat
  BY Parts DEF Grows
<1>2. snap.rev <= live'.rev /\ snap.rev # live'.rev
  BY <1>1 DEF Grows, Image
<1>3. ASSUME NEW c \in Conn, snap.conns[c] # None
      PROVE  live'.conns[c] # None /\ snap.conns[c].epoch <= live'.conns[c].epoch
  <2>1. live.conns[c] # None /\ snap.conns[c].epoch <= live.conns[c].epoch
    BY <1>3 DEF Image
  <2>2. live'.conns[c] # None /\ live'.conns[c].epoch >= live.conns[c].epoch
    BY <1>1, <2>1, Parts DEF Grows, Existing
  <2>3. /\ snap.conns[c].epoch \in Nat
        /\ live.conns[c].epoch \in Nat
        /\ live'.conns[c].epoch \in Nat
    BY <1>3, <2>1, <2>2, Parts DEF Grows
  <2>4. QED BY <2>1, <2>2, <2>3
<1>4. QED BY <1>1, <1>2, <1>3 DEF Image

LEMMA ImageUnchanged ==
  ASSUME UNCHANGED live, NEW snap, Image(snap)
  PROVE  Image(snap)'
BY DEF Image

(* A command keeps the snapshots the workers have.                         *)
LEMMA CommandEffect ==
  ASSUME TypeOK, SnapInv, NEW w \in Worker, Command(w)
  PROVE  /\ worker' \in [Worker -> WorkerRecord]
         /\ requests' \in [Worker -> Nat]
         /\ \A v \in Worker :
              /\ worker'[v].snap = worker[v].snap
              /\ worker'[v].pc \in {"idle", "snapshot"} <=> worker[v].pc \in {"idle", "snapshot"}
<1>1. worker' = [worker EXCEPT ![w].pc = "snapshot"] /\ worker[w].pc = "idle"
  BY DEF Command
<1>2. worker[w] \in WorkerRecord
  BY DEF TypeOK, WorkerRecord
<1>3. worker' \in [Worker -> WorkerRecord]
  BY <1>1, <1>2 DEF TypeOK, WorkerRecord, WorkerPC
<1>4. requests' \in [Worker -> Nat]
  BY DEF Command, TypeOK
<1>5. QED BY <1>1, <1>2, <1>3, <1>4 DEF TypeOK, WorkerRecord

(* Snapshots that are kept stay images, or the session has been buried.    *)
LEMMA SnapsKept ==
  ASSUME TypeOK, SnapInv,
         \A v \in Worker :
           /\ worker'[v].snap = worker[v].snap
           /\ worker'[v].pc \in {"idle", "snapshot"} <=> worker[v].pc \in {"idle", "snapshot"},
         ~buried' => ~buried,
         ~buried' => Grows \/ UNCHANGED live
  PROVE  SnapInv'
<1> SUFFICES ASSUME NEW v \in Worker
             PROVE  /\ worker'[v].pc \in {"idle", "snapshot"} <=> worker'[v].snap = None
                    /\ worker'[v].snap # None => worker'[v].snap.rev >= 1
                    /\ worker'[v].snap # None /\ ~buried' => Image(worker[v].snap)'
  BY DEF SnapInv
<1>1. ASSUME NEW x, x = worker[v].snap, x # None, ~buried' PROVE Image(x)'
  <2>1. Image(x) /\ x \in SessionRec
    BY <1>1 DEF SnapInv, TypeOK
  <2>2. QED BY <1>1, <2>1, ImageGrows, ImageUnchanged
<1>2. QED BY <1>1 DEF SnapInv

-----------------------------------------------------------------------------
(* Commands                                                                *)

(* A command that changes nothing but its worker.                          *)
LEMMA CommandOnly ==
  ASSUME SessionInv, NEW w \in Worker, Command(w),
         UNCHANGED <<live, tomb, metaRev, readied, buried>>
  PROVE  SessionInv'
<1> USE DEF SessionInv
<1>1. TypeOK'
  BY CommandEffect DEF TypeOK, WorkerRecord
<1>2. SnapInv'
  BY CommandEffect, SnapsKept
<1>3. TombInv' /\ EntryInv'
  BY DEF TombInv, EntryInv, Existing
<1>4. LiveInv'
  BY DEF LiveInv, ConnInv
<1>5. QED BY <1>1, <1>2, <1>3, <1>4

(* A command that sets one connection anew, in the next revision.          *)
LEMMA ConnChange ==
  ASSUME SessionInv, NEW w \in Worker, Command(w),
         live # None, NEW c \in Conn, NEW k \in ConnRec, NEW st \in SessionState,
         Becomes(live, live', st, c, k),
         live.conns[c] # None => k.epoch >= live.conns[c].epoch,
         UNCHANGED <<tomb, metaRev, buried>>,
         readied' \in [Conn -> [Epoch -> SUBSET Member]],
         \A d \in Conn \ {c} : readied'[d] = readied[d],
         ~buried => st \notin Ended /\ (live.state = "active" => st = "active"),
         ~buried => ConnInv(c)'
  PROVE  SessionInv' /\ Grows
<1> USE DEF SessionInv
<1>1. live \in SessionRec /\ live' \in SessionRec /\ live' # None
  BY SessionAssumption DEF TypeOK, Becomes
<1>2. live.rev \in Nat /\ live'.rev = live.rev + 1
  BY <1>1, Parts DEF Becomes
<1>3. k # None
  BY SessionAssumption
<1>4. Grows
  <2> SUFFICES ASSUME NEW d \in Existing(live)
               PROVE  live'.conns[d] # None /\ live'.conns[d].epoch >= live.conns[d].epoch
    BY <1>1, <1>2 DEF Grows
  <2>1. d \in Conn /\ live.conns[d] # None /\ live.conns[d].epoch \in Nat
    BY <1>1, Parts DEF Existing
  <2>2. CASE d = c
    BY <1>3, <2>1, <2>2 DEF Becomes
  <2>3. CASE d # c
    BY <2>1, <2>3 DEF Becomes
  <2>4. QED BY <2>2, <2>3
<1>5. TypeOK'
  BY <1>1, CommandEffect DEF TypeOK, WorkerRecord
<1>6. SnapInv'
  BY <1>4, CommandEffect, SnapsKept
<1>7. TombInv' /\ EntryInv'
  BY <1>1, <1>2 DEF TombInv, EntryInv, Existing
<1>8. LiveInv'
  <2> SUFFICES ASSUME ~buried
               PROVE  live'.state \notin Ended /\ \A d \in Conn : ConnInv(d)'
    BY <1>1 DEF LiveInv
  <2>1. live'.state = st /\ st \notin Ended
    BY DEF Becomes
  <2>2. ASSUME NEW d \in Conn, d # c PROVE ConnInv(d)'
    <3>1. ConnInv(d)
      BY DEF LiveInv
    <3>2. live'.conns[d] = live.conns[d] /\ readied'[d] = readied[d]
      BY <2>2 DEF Becomes
    <3>3. QED BY <2>1, <3>1, <3>2 DEF ConnInv
  <2>3. QED BY <2>1, <2>2
<1>9. QED BY <1>4, <1>5, <1>6, <1>7, <1>8

(* Setting the state of a connection to one that is not active keeps what  *)
(* is known of its READYs.                                                 *)
LEMMA ConnStateKept ==
  ASSUME SessionInv, live # None, ~buried, NEW c \in Existing(live), NEW x \in ConnState,
         x # "active", UNCHANGED readied,
         live'.conns[c] = [live.conns[c] EXCEPT !.state = x]
  PROVE  ConnInv(c)'
<1>1. /\ live \in SessionRec /\ c \in Conn
      /\ live.conns[c] \in ConnRec /\ live.conns[c] # None
  BY SessionAssumption DEF SessionInv, TypeOK, Existing, SessionRec
<1>2. [live.conns[c] EXCEPT !.state = x] \in ConnRec
  BY <1>1 DEF ConnRec
<1>3. /\ live'.conns[c] # None
      /\ live'.conns[c].state = x
      /\ live'.conns[c].epoch = live.conns[c].epoch
      /\ live'.conns[c].ready = live.conns[c].ready
  BY <1>1, <1>2, SessionAssumption DEF ConnRec
<1>4. ConnInv(c)
  BY <1>1 DEF SessionInv, LiveInv
<1>5. QED BY <1>1, <1>3, <1>4 DEF ConnInv

(* The commands that set the state of one connection: BIND of the session  *)
(* and of a connection, REJECT, and CLOSE of an open connection.           *)
LEMMA StateCommand ==
  ASSUME SessionInv, NEW w \in Worker, Command(w),
         NEW c \in Existing(live), NEW x \in {"preparing", "closed"},
         NEW st \in SessionState,
         \/ live' = [live EXCEPT !.rev = @ + 1, !.conns[c].state = x] /\ st = live.state
         \/ /\ live' = [live EXCEPT !.rev = @ + 1, !.state = st, !.conns[c].state = x]
            /\ live.state # "active" /\ st \notin Ended,
         UNCHANGED <<tomb, metaRev, readied, buried>>
  PROVE  SessionInv' /\ Grows
<1>1. /\ live # None /\ live \in SessionRec /\ c \in Conn
      /\ live.conns[c] # None /\ live.conns[c] \in ConnRec
      /\ live.conns[c].epoch \in Nat
      /\ x \in ConnState /\ x # "active"
  <2>1. live # None /\ live \in SessionRec
    BY DEF Existing, SessionInv, TypeOK
  <2>2. QED BY <2>1, Parts DEF Existing, ConnState, Negotiating
<1>2. PICK k \in ConnRec : k = [live.conns[c] EXCEPT !.state = x]
  BY Zenon, <1>1 DEF ConnRec
<1>3. Becomes(live, live', st, c, k)
  <2>1. CASE live' = [live EXCEPT !.rev = @ + 1, !.conns[c].state = x] /\ st = live.state
    <3>1. Becomes(live, [live EXCEPT !.rev = @ + 1, !.conns[c].state = x], live.state,
                  c, [live.conns[c] EXCEPT !.state = x])
      BY Zenon, <1>1, SetConnState
    <3>2. QED BY Zenon, <1>2, <2>1, <3>1
  <2>2. CASE live' = [live EXCEPT !.rev = @ + 1, !.state = st, !.conns[c].state = x]
    <3>1. Becomes(live, [live EXCEPT !.rev = @ + 1, !.state = st, !.conns[c].state = x],
                  st, c, [live.conns[c] EXCEPT !.state = x])
      BY Zenon, <1>1, SetBothStates
    <3>2. QED BY Zenon, <1>2, <2>2, <3>1
  <2>3. QED BY <2>1, <2>2
<1>4. k.epoch = live.conns[c].epoch
  BY <1>1, <1>2 DEF ConnRec
<1>5. ~buried => ConnInv(c)'
  BY <1>1, <1>2, <1>3, ConnStateKept DEF Becomes
<1>6. (live.state = "active" => st = "active") /\ (~buried => st \notin Ended)
  BY <1>1 DEF SessionInv, LiveInv
<1>7. readied' \in [Conn -> [Epoch -> SUBSET Member]]
  BY DEF SessionInv, TypeOK
<1>8. QED
  BY <1>1, <1>3, <1>4, <1>5, <1>6, <1>7, ConnChange

(* The step NoRollback speaks of.                                          *)
Forward ==
  ~buried /\ live # None /\ live' # None =>
    /\ live'.rev >= live.rev
    /\ \A c \in Existing(live) :
         c \in Existing(live') /\ live'.conns[c].epoch >= live.conns[c].epoch

LEMMA ForwardCases ==
  ASSUME TypeOK, Grows \/ UNCHANGED live \/ live = None \/ live' = None
  PROVE  Forward
<1>1. CASE Grows
  <2>1. live.rev \in Nat /\ live'.rev \in Nat
    BY <1>1, Parts DEF Grows
  <2>2. QED BY <1>1, <2>1 DEF Grows, Forward, Existing
<1>2. CASE UNCHANGED live /\ live # None
  <2>1. live \in SessionRec BY <1>2 DEF TypeOK
  <2>2. live.rev \in Nat /\ \A c \in Existing(live) : live.conns[c].epoch \in Nat
    BY <2>1, Parts DEF Existing
  <2>3. QED BY <1>2, <2>2 DEF Forward
<1>3. QED BY <1>1, <1>2 DEF Forward

(* requireSession: what the commands find.                                 *)
LEMMA SessionFound ==
  ASSUME SessionInv, Session # None
  PROVE  \/ live # None /\ Session = live /\ live \in SessionRec
         \/ /\ live = None /\ Session = tomb /\ tomb \in SessionRec /\ buried
            /\ tomb.state = "closed"
            /\ \A c \in Existing(tomb) : tomb.conns[c].state = "closed"
BY DEF SessionInv, TypeOK, TombInv, Session

LEMMA AllocateSessionPreserves ==
  ASSUME SessionInv, NEW w \in Worker, AllocateSession(w)
  PROVE  SessionInv' /\ live = None
<1> USE DEF SessionInv
<1>1. Command(w) /\ metaRev = 0 /\ live = None /\ ~buried /\ metaRev' = 1
        /\ UNCHANGED <<tomb, readied, buried>>
  BY DEF AllocateSession, EntryInv
<1>2. /\ live' \in SessionRec
      /\ live'.rev = 1 /\ live'.state = "allocated"
      /\ live'.conns[Conn0] = NewConn
      /\ \A c \in Conn \ {Conn0} : live'.conns[c] = None
  <2>1. Conn0 \in Conn /\ "allocated" \in SessionState
    BY DEF Conn, SessionState, Negotiating
  <2>2. QED BY <2>1, NewConnRec DEF AllocateSession, SessionRec
<1>3. live' # None
  BY <1>2, SessionAssumption
<1>4. TypeOK'
  BY <1>1, <1>2, CommandEffect DEF TypeOK, WorkerRecord
<1>5. SnapInv'
  <2>1. \A v \in Worker : worker[v].snap = None
    BY <1>1 DEF SnapInv, Image
  <2>2. QED BY <1>1, <2>1, CommandEffect DEF SnapInv
<1>6. TombInv' /\ EntryInv'
  BY <1>1, <1>2, <1>3 DEF TombInv, EntryInv, Existing
<1>7. LiveInv'
  <2>1. \A c \in Conn, e \in Epoch : readied'[c][e] = {}
    BY <1>1 DEF LiveInv
  <2>2. ASSUME NEW c \in Conn PROVE ConnInv(c)'
    BY Zenon, <1>2, <2>1, NewConnRec DEF ConnInv
  <2>3. live'.state \notin Ended
    BY <1>2 DEF Ended
  <2>4. QED BY <1>3, <2>2, <2>3 DEF LiveInv
<1>8. QED BY <1>1, <1>4, <1>5, <1>6, <1>7

(* The next generation of a connection starts with no READY of its own.    *)
LEMMA NewConnOpens ==
  ASSUME SessionInv, NEW w \in Worker, Command(w), live # None,
         NEW c \in Conn, NEW k \in ConnRec,
         live' = [live EXCEPT !.rev = @ + 1, !.conns[c] = k],
         k.state = "allocated", k.ready = {},
         live.conns[c] # None => k.epoch = live.conns[c].epoch + 1,
         UNCHANGED <<tomb, metaRev, readied, buried>>
  PROVE  SessionInv' /\ Grows
<1>1. live \in SessionRec /\ k # None /\ k.epoch \in Epoch /\ k.epoch \in Nat
  BY SessionAssumption DEF SessionInv, TypeOK, ConnRec, Epoch
<1>2. Becomes(live, live', live.state, c, k)
  <2>1. Becomes(live, [live EXCEPT !.rev = @ + 1, !.conns[c] = k], live.state, c, k)
    BY Zenon, <1>1, SetConn
  <2>2. QED BY Zenon, <2>1
<1>3. live.conns[c] # None =>
        k.epoch >= live.conns[c].epoch /\ live.conns[c].epoch \in Nat
  BY <1>1, Parts
<1>4. ASSUME ~buried PROVE ConnInv(c)'
  <2>1. ConnInv(c)
    BY <1>1, <1>4 DEF SessionInv, LiveInv
  <2>2. \A e \in Epoch : e >= k.epoch => readied'[c][e] = {}
    BY <1>1, <1>3, <2>1 DEF ConnInv, Epoch
  <2>3. live'.conns[c] = k
    BY <1>2 DEF Becomes
  <2>4. k.epoch >= k.epoch /\ \A e \in Epoch : e > k.epoch => e >= k.epoch
    BY <1>1 DEF Epoch
  <2>5. QED BY Zenon, <1>1, <2>2, <2>3, <2>4 DEF ConnInv
<1>5. live.state \in SessionState /\ (~buried => live.state \notin Ended)
  BY <1>1, Parts DEF SessionInv, LiveInv
<1>6. readied' \in [Conn -> [Epoch -> SUBSET Member]]
  BY DEF SessionInv, TypeOK
<1>7. QED
  BY <1>1, <1>2, <1>3, <1>4, <1>5, <1>6, ConnChange

LEMMA OpenPreserves ==
  ASSUME SessionInv, NEW w \in Worker, NEW c \in Conn,
         \/ AllocateConnection(w, c)
         \/ \E e \in Epoch \cup {0} : AllocateRestart(w, c, e)
  PROVE  SessionInv' /\ Forward
<1>1. TypeOK /\ Command(w) /\ Session # None /\ UNCHANGED <<tomb, metaRev, readied, buried>>
  BY DEF SessionInv, AllocateConnection, AllocateRestart, Existing
<1>2. CASE UNCHANGED live
  BY <1>1, <1>2, CommandOnly, ForwardCases
<1>3. CASE ~UNCHANGED live
  <2>1. live # None /\ live \in SessionRec
    BY <1>1, <1>3, SessionFound DEF AllocateConnection, AllocateRestart, Ended
  <2>2. CASE AllocateConnection(w, c)
    <3>1. live' = [live EXCEPT !.rev = @ + 1, !.conns[c] = NewConn] /\ live.conns[c] = None
      BY SMTT(60), <1>3, <2>2 DEF AllocateConnection
    <3>2. SessionInv' /\ Grows
      BY Zenon, <1>1, <2>1, <3>1, NewConnRec, NewConnOpens
    <3>3. QED BY <1>1, <3>2, ForwardCases
  <2>3. CASE \E e \in Epoch \cup {0} : AllocateRestart(w, c, e)
    <3>1. /\ live' = [live EXCEPT !.rev = @ + 1,
                        !.conns[c] = [NewConn EXCEPT !.epoch = live.conns[c].epoch + 1]]
          /\ live.conns[c] # None
          /\ live.conns[c].epoch < MaxEpoch
      <4>1. Session = live
        BY <2>1 DEF Session
      <4>2. QED BY <1>3, <2>1, <2>3, <4>1 DEF AllocateRestart, Existing
    <3>2. live.conns[c].epoch \in Epoch
      BY <2>1, <3>1, Parts
    <3>3. live.conns[c].epoch + 1 \in Epoch
      BY <3>1, <3>2, SessionAssumption DEF Epoch
    <3>4. PICK k \in ConnRec : /\ k = [NewConn EXCEPT !.epoch = live.conns[c].epoch + 1]
                               /\ k.state = "allocated" /\ k.ready = {}
                               /\ k.epoch = live.conns[c].epoch + 1
      <4>1. PICK n \in Epoch : n = live.conns[c].epoch + 1
        BY <3>3
      <4>2. NewConn \in ConnRec /\ NewConn.state = "allocated" /\ NewConn.ready = {}
        BY NewConnRec
      <4>3. /\ [NewConn EXCEPT !.epoch = n] \in ConnRec
            /\ [NewConn EXCEPT !.epoch = n].state = "allocated"
            /\ [NewConn EXCEPT !.epoch = n].ready = {}
            /\ [NewConn EXCEPT !.epoch = n].epoch = n
        BY <4>2 DEF ConnRec
      <4>4. QED BY Zenon, <4>1, <4>3
    <3>5. live' = [live EXCEPT !.rev = @ + 1, !.conns[c] = k]
      BY SMTT(60), <3>1, <3>4
    <3>6. SessionInv' /\ Grows
      BY Zenon, <1>1, <2>1, <3>4, <3>5, NewConnOpens
    <3>7. QED BY <1>1, <3>6, ForwardCases
  <2>4. QED BY <2>2, <2>3
<1>4. QED BY <1>2, <1>3

(* BIND, REJECT, CLOSE of a connection                                     *)
LEMMA StateCommandsPreserve ==
  ASSUME SessionInv, NEW w \in Worker, NEW c \in Conn, NEW e \in Epoch,
         \/ BindSession(w, e) \/ BindConnection(w, c, e)
         \/ RejectConnection(w, c, e) \/ CloseConnection(w, c, e)
  PROVE  SessionInv' /\ Forward
<1> USE DEF Ended, SessionState, Negotiating
<1>1. TypeOK /\ Command(w) /\ UNCHANGED <<tomb, metaRev, readied, buried>>
  BY DEF SessionInv, BindSession, BindConnection, RejectConnection, CloseConnection
<1>2. CASE BindSession(w, e)
  <2>1. /\ Conn0 \in Existing(live)
        /\ live' = [live EXCEPT !.rev = @ + 1, !.state = "preparing",
                                !.conns[Conn0].state = "preparing"]
        /\ live.state # "active"
    BY SMTT(60), <1>2 DEF BindSession
  <2>2. SessionInv' /\ Grows
    BY Zenon, <1>1, <2>1, StateCommand
  <2>3. QED BY <1>1, <2>2, ForwardCases
<1>3. CASE BindConnection(w, c, e) \/ RejectConnection(w, c, e)
  <2>1. PICK x \in {"preparing", "closed"} :
          /\ c \in Existing(live)
          /\ live' = [live EXCEPT !.rev = @ + 1, !.conns[c].state = x]
    BY <1>3 DEF BindConnection, RejectConnection
  <2>2. live.state \in SessionState
    BY SMTT(60), <2>1, Parts DEF SessionInv, TypeOK, Existing
  <2>3. SessionInv' /\ Grows
    BY Zenon, <1>1, <2>1, <2>2, StateCommand
  <2>4. QED BY <1>1, <2>3, ForwardCases
<1>4. CASE CloseConnection(w, c, e)
  <2>1. CASE Session.conns[c].state = "closed"
    BY <1>1, <1>4, <2>1, CommandOnly, ForwardCases DEF CloseConnection
  <2>2. CASE Session.conns[c].state # "closed"
    <3>1. Session # None /\ c \in Existing(Session)
      BY <1>4 DEF CloseConnection, Existing
    <3>2. live # None /\ Session = live /\ live \in SessionRec
      BY <2>2, <3>1, SessionFound
    <3>3. live' = [live EXCEPT !.rev = @ + 1, !.conns[c].state = "closed"]
      BY <1>4, <2>2 DEF CloseConnection
    <3>4. live.state \in SessionState
      BY SMTT(60), <3>2, Parts
    <3>5. SessionInv' /\ Grows
      BY Zenon, <1>1, <3>1, <3>2, <3>3, <3>4, StateCommand
    <3>6. QED BY <1>1, <3>5, ForwardCases
  <2>3. QED BY <2>1, <2>2
<1>5. QED BY <1>2, <1>3, <1>4

(* CLOSE of the session buries it with its connections closed.             *)
LEMMA BuryPreserves ==
  ASSUME SessionInv, live # None, live' = None, buried' = TRUE,
         tomb' \in SessionRec, tomb'.rev >= 1, tomb'.state \in Ended,
         tomb'.conns = CloseConns(live, Existing(live)),
         UNCHANGED <<metaRev, readied>>,
         worker' \in [Worker -> WorkerRecord], requests' \in [Worker -> Nat],
         \A v \in Worker :
           /\ worker'[v].snap = worker[v].snap
           /\ worker'[v].pc \in {"idle", "snapshot"} <=> worker[v].pc \in {"idle", "snapshot"}
  PROVE  SessionInv'
<1> USE DEF SessionInv
<1>1. live \in SessionRec /\ Existing(live) \in SUBSET Existing(live)
  BY DEF TypeOK
<1>2. TypeOK'
  BY DEF TypeOK, WorkerRecord
<1>3. SnapInv'
  BY SnapsKept
<1>4. TombInv'
  <2>1. ASSUME NEW c \in Conn, tomb'.conns[c] # None PROVE tomb'.conns[c].state = "closed"
    BY <1>1, <2>1, ClosedConns DEF Existing
  <2>2. tomb' # None
    BY SessionAssumption
  <2>3. QED BY <2>1, <2>2 DEF TombInv, Existing
<1>5. EntryInv'
  BY DEF EntryInv
<1>6. LiveInv'
  BY DEF LiveInv
<1>7. QED BY <1>2, <1>3, <1>4, <1>5, <1>6

LEMMA CloseSessionPreserves ==
  ASSUME SessionInv, NEW w \in Worker, CloseSession(w)
  PROVE  SessionInv' /\ Forward
<1>1. TypeOK /\ Command(w) /\ Session # None /\ UNCHANGED <<metaRev, readied>>
  BY DEF SessionInv, CloseSession
<1>2. CASE Session.state = "closed"
  BY <1>1, <1>2, CommandOnly, ForwardCases DEF CloseSession
<1>3. CASE Session.state # "closed"
  <2>1. live # None /\ live \in SessionRec
    BY <1>1, <1>3, SessionFound
  <2>2. /\ tomb' = [live EXCEPT !.rev = @ + 1, !.state = "closed",
                                !.conns = CloseConns(live, Existing(live))]
        /\ live' = None /\ buried' = TRUE
    BY <1>3 DEF CloseSession
  <2>3. CloseConns(live, Existing(live)) \in [Conn -> ConnRec \cup {None}]
    BY <2>1, ClosedConns
  <2>4. live.rev + 1 \in Nat /\ live.rev + 1 >= 1 /\ "closed" \in SessionState
    BY <2>1, Parts DEF SessionState, Ended
  <2>5. /\ tomb' \in SessionRec /\ tomb'.rev >= 1 /\ tomb'.state = "closed"
        /\ tomb'.conns = CloseConns(live, Existing(live))
    BY Zenon, <2>1, <2>2, <2>3, <2>4 DEF SessionRec
  <2>6. SessionInv'
    BY <1>1, <2>1, <2>2, <2>5, CommandEffect, BuryPreserves DEF SessionInv, Ended
  <2>7. QED BY <1>1, <2>2, <2>6, ForwardCases
<1>4. QED BY <1>2, <1>3

(* READY: the flag of the member in the current generation, in the record  *)
(* and in the history alike; with the second one the generation is active. *)
LEMMA ReadyPreserves ==
  ASSUME SessionInv, NEW w \in Worker, NEW m \in Member, NEW c \in Conn, NEW e \in Epoch,
         MarkConnectionReady(w, m, c, e)
  PROVE  SessionInv' /\ Forward
<1>1. TypeOK /\ Command(w) /\ UNCHANGED <<tomb, metaRev, buried>>
  BY DEF SessionInv, MarkConnectionReady
<1>2. /\ live # None /\ live \in SessionRec
      /\ live.conns[c] # None /\ live.conns[c] \in ConnRec
      /\ e = live.conns[c].epoch /\ e \in Nat
      /\ live.conns[c].state = "preparing"
      /\ live.state \in SessionState /\ live.rev \in Nat
      /\ live.conns[c].ready \subseteq Member
  <2>1. c \in Existing(live) /\ e = live.conns[c].epoch /\ live.conns[c].state = "preparing"
    BY DEF MarkConnectionReady
  <2>2. live # None /\ live \in SessionRec /\ live.conns[c] # None
    BY <1>1, <2>1 DEF Existing, TypeOK
  <2>3. QED BY <2>1, <2>2, Parts
<1>3. PICK ready \in SUBSET Member : ready = live.conns[c].ready \cup {m}
  BY Zenon, <1>2
<1>4. /\ readied' = [readied EXCEPT ![c][e] = @ \cup {m}]
      /\ readied' \in [Conn -> [Epoch -> SUBSET Member]]
      /\ readied'[c][e] = readied[c][e] \cup {m}
      /\ \A d \in Conn \ {c} : readied'[d] = readied[d]
      /\ \A f \in Epoch \ {e} : readied'[c][f] = readied[c][f]
  BY <1>1 DEF MarkConnectionReady, TypeOK
<1>5. ~buried => ConnInv(c) /\ live.state \notin Ended
  BY <1>2 DEF SessionInv, LiveInv
<1>6. ASSUME ~buried, NEW k \in ConnRec, live'.conns[c] = k, k.ready = ready, k.epoch = e,
             k.state = "active" => live'.state = "active" /\ ready = Member
      PROVE  ConnInv(c)'
  <2>1. k # None
    BY SessionAssumption
  <2>2. live.conns[c].ready = readied[c][e] /\ \A f \in Epoch : f > e => readied[c][f] = {}
    BY <1>2, <1>5, <1>6 DEF ConnInv
  <2>3. ASSUME NEW f \in Epoch, f > e PROVE readied'[c][f] = {}
    <3>1. f # e
      BY <1>2, <2>3
    <3>2. readied'[c][f] = readied[c][f]
      BY <1>4, <3>1
    <3>3. QED BY <2>2, <2>3, <3>2
  <2>4. QED BY ZenonT(60), <1>3, <1>4, <1>6, <2>1, <2>2, <2>3 DEF ConnInv
<1>7. CASE ready = Member
  <2>1. PICK st \in SessionState : st = IF live.state \in Negotiating THEN "active" ELSE live.state
    BY <1>2 DEF SessionState
  <2>2. PICK k \in ConnRec :
          /\ k = [live.conns[c] EXCEPT !.ready = ready, !.state = "active"]
          /\ k.ready = ready /\ k.state = "active" /\ k.epoch = e
    <3>1. "active" \in ConnState
      BY DEF ConnState
    <3>2. PICK old \in ConnRec : old = live.conns[c]
      BY <1>2
    <3>3. /\ [old EXCEPT !.ready = ready, !.state = "active"] \in ConnRec
          /\ [old EXCEPT !.ready = ready, !.state = "active"].ready = ready
          /\ [old EXCEPT !.ready = ready, !.state = "active"].state = "active"
          /\ [old EXCEPT !.ready = ready, !.state = "active"].epoch = old.epoch
      BY Zenon, <3>1 DEF ConnRec
    <3>4. QED BY Zenon, <1>2, <3>2, <3>3
  <2>3. live' = [live EXCEPT !.rev = @ + 1, !.state = st,
                             !.conns[c].ready = ready, !.conns[c].state = "active"]
    BY <1>3, <1>7, <2>1 DEF MarkConnectionReady
  <2>4. Becomes(live, live', st, c, k)
    <3>1. Becomes(live, [live EXCEPT !.rev = @ + 1, !.state = st,
                             !.conns[c].ready = ready, !.conns[c].state = "active"],
                  st, c, [live.conns[c] EXCEPT !.ready = ready, !.state = "active"])
      BY Zenon, <1>2, SetReady
    <3>2. QED BY Zenon, <2>2, <2>3, <3>1
  <2>5. ~buried => st = "active"
    BY <1>2, <1>5, <2>1 DEF SessionState
  <2>6. ~buried => ConnInv(c)'
    BY Zenon, <1>6, <1>7, <2>2, <2>4, <2>5 DEF Becomes
  <2>7. SessionInv' /\ Grows
    <3>1. ~buried => st \notin Ended /\ (live.state = "active" => st = "active")
      BY <2>5 DEF Ended
    <3>2. k.epoch >= live.conns[c].epoch
      BY <1>2, <2>2
    <3>3. QED BY Zenon, <1>1, <1>2, <1>4, <2>4, <2>6, <3>1, <3>2, ConnChange
  <2>8. QED BY <1>1, <2>7, ForwardCases
<1>8. CASE ready # Member
  <2>1. live' = [live EXCEPT !.conns[c].ready = ready]
    BY <1>3, <1>8 DEF MarkConnectionReady
  <2>2. PICK k \in ConnRec :
          /\ k = [live.conns[c] EXCEPT !.ready = ready]
          /\ k.ready = ready /\ k.state = "preparing" /\ k.epoch = e
    <3>1. "preparing" \in ConnState
      BY DEF ConnState, Negotiating
    <3>2. PICK old \in ConnRec : old = live.conns[c]
      BY <1>2
    <3>3. /\ [old EXCEPT !.ready = ready] \in ConnRec
          /\ [old EXCEPT !.ready = ready].ready = ready
          /\ [old EXCEPT !.ready = ready].state = old.state
          /\ [old EXCEPT !.ready = ready].epoch = old.epoch
      BY <3>1 DEF ConnRec
    <3>4. QED BY Zenon, <1>2, <3>2, <3>3
  <2>3. live' = [live EXCEPT !.conns[c] = k]
    BY <2>1, <2>2
  <2>4. /\ live'.rev = live.rev /\ live'.state = live.state
        /\ live'.conns = [live.conns EXCEPT ![c] = k]
    BY <1>2, <2>3 DEF SessionRec
  <2>5. /\ live' \in SessionRec
        /\ live'.conns[c] = k
        /\ \A d \in Conn \ {c} : live'.conns[d] = live.conns[d]
    <3>1. [live.conns EXCEPT ![c] = k] \in [Conn -> ConnRec \cup {None}]
      BY <1>2 DEF SessionRec
    <3>2. live' \in SessionRec
      BY <1>2, <2>3, <3>1 DEF SessionRec
    <3>3. QED BY <1>2, <2>4, <3>2 DEF SessionRec
  <2>6. live' # None /\ k # None
    BY <2>5, SessionAssumption
  <2>7. ASSUME NEW snap, Image(snap) PROVE Image(snap)'
    BY SMTT(60), <1>2, <2>2, <2>4, <2>5, <2>6, <2>7 DEF Image
  <2>8. SnapInv'
    <3>1. ASSUME NEW v \in Worker, NEW x, x = worker[v].snap, x # None, ~buried
          PROVE  Image(x)'
      BY <2>7, <3>1 DEF SessionInv, SnapInv
    <3>2. QED BY <1>1, <3>1, CommandEffect DEF SessionInv, SnapInv
  <2>9. TypeOK'
    BY <1>1, <1>4, <2>5, CommandEffect DEF SessionInv, TypeOK, WorkerRecord
  <2>10. TombInv' /\ EntryInv'
    BY <1>1, <1>2, <2>4, <2>6 DEF SessionInv, TombInv, EntryInv, Existing
  <2>11. LiveInv'
    <3> SUFFICES ASSUME ~buried PROVE live'.state \notin Ended /\ \A d \in Conn : ConnInv(d)'
      BY <1>1, <2>6 DEF LiveInv
    <3>1. ConnInv(c)'
      BY Zenon, <1>6, <2>2, <2>5
    <3>2. ASSUME NEW d \in Conn \ {c} PROVE ConnInv(d)'
      <4>1. ConnInv(d) /\ live'.conns[d] = live.conns[d] /\ readied'[d] = readied[d]
        BY <1>2, <1>4, <2>5 DEF SessionInv, LiveInv
      <4>2. QED BY <2>4, <4>1 DEF ConnInv
    <3>3. QED BY <1>5, <2>4, <3>1, <3>2
  <2>12. Forward
    <3>1. \A d \in Existing(live) : live.conns[d].epoch \in Nat
      BY <1>2, Parts DEF Existing
    <3>2. QED BY <1>2, <2>2, <2>4, <2>5, <2>6, <3>1 DEF Forward, Existing
  <2>13. QED BY <2>8, <2>9, <2>10, <2>11, <2>12 DEF SessionInv
<1>9. QED BY <1>7, <1>8

-----------------------------------------------------------------------------
(* Synchronisation                                                         *)

LEMMA ReplicaOf ==
  ASSUME NEW s \in SessionRec
  PROVE  /\ Replica(s) \in SessionRec
         /\ Replica(s).rev = s.rev /\ Replica(s).state = s.state
         /\ \A c \in Conn :
              /\ (Replica(s).conns[c] = None) = (s.conns[c] = None)
              /\ s.conns[c] # None =>
                   /\ Replica(s).conns[c].epoch = s.conns[c].epoch
                   /\ Replica(s).conns[c].state = s.conns[c].state
<1> DEFINE bare(c) == IF s.conns[c] = None THEN None ELSE [s.conns[c] EXCEPT !.ready = {}]
           cs == [c \in Conn |-> bare(c)]
<1>1. ASSUME NEW c \in Conn, s.conns[c] # None
      PROVE  /\ bare(c) \in ConnRec /\ bare(c) # None
             /\ bare(c).epoch = s.conns[c].epoch /\ bare(c).state = s.conns[c].state
  <2>1. PICK k \in ConnRec : k = s.conns[c]
    BY <1>1, Parts
  <2>2. /\ [k EXCEPT !.ready = {}] \in ConnRec
        /\ [k EXCEPT !.ready = {}].epoch = k.epoch
        /\ [k EXCEPT !.ready = {}].state = k.state
    BY DEF ConnRec
  <2>3. QED BY <1>1, <2>1, <2>2, SessionAssumption
<1>2. cs \in [Conn -> ConnRec \cup {None}]
  BY <1>1
<1>3. Replica(s) = [s EXCEPT !.conns = cs]
  BY DEF Replica, SessionRec
<1>4. \A c \in Conn : cs[c] = bare(c)
  OBVIOUS
<1> HIDE DEF cs
<1>5. /\ Replica(s) \in SessionRec
      /\ Replica(s).rev = s.rev /\ Replica(s).state = s.state /\ Replica(s).conns = cs
  BY <1>2, <1>3 DEF SessionRec
<1>6. QED BY ZenonT(60), <1>1, <1>4, <1>5

(* One worker takes a step of its synchronisation and the record stays.    *)
LEMMA SnapSet ==
  ASSUME TypeOK, SnapInv, UNCHANGED <<live, buried>>, NEW w \in Worker,
         NEW r \in WorkerRecord, worker' = [worker EXCEPT ![w] = r],
         r.pc \in {"idle", "snapshot"} <=> r.snap = None,
         r.snap # None => r.snap.rev >= 1,
         r.snap # None /\ ~buried => Image(r.snap)
  PROVE  worker' \in [Worker -> WorkerRecord] /\ SnapInv'
<1>1. worker' \in [Worker -> WorkerRecord]
  BY DEF TypeOK, WorkerRecord
<1>2. /\ worker'[w] = r
      /\ \A v \in Worker \ {w} : worker'[v] = worker[v]
  BY DEF TypeOK
<1>3. ASSUME NEW v \in Worker, NEW x \in WorkerRecord, x = worker'[v]
      PROVE  /\ x.pc \in {"idle", "snapshot"} <=> x.snap = None
             /\ x.snap # None => x.snap.rev >= 1
             /\ x.snap # None /\ ~buried => Image(x.snap)'
  <2>1. /\ x.pc \in {"idle", "snapshot"} <=> x.snap = None
        /\ x.snap # None => x.snap.rev >= 1
        /\ x.snap # None /\ ~buried => Image(x.snap)
    BY <1>2, <1>3 DEF SnapInv
  <2>2. QED BY <2>1, ImageUnchanged
<1>4. QED BY <1>1, <1>3 DEF SnapInv

(* What is left to show of a step that changes workers and the entry.      *)
LEMMA OthersKept ==
  ASSUME SessionInv, UNCHANGED <<live, tomb, readied, buried>>,
         requests' \in [Worker -> Nat], worker' \in [Worker -> WorkerRecord],
         metaRev' \in Nat, SnapInv', EntryInv'
  PROVE  SessionInv'
<1>1. TypeOK'
  BY DEF SessionInv, TypeOK, WorkerRecord
<1>2. TombInv'
  BY DEF SessionInv, TombInv, Existing
<1>3. LiveInv'
  BY DEF SessionInv, LiveInv, ConnInv
<1>4. QED BY <1>1, <1>2, <1>3 DEF SessionInv

LEMMA SyncSnapshotPreserves ==
  ASSUME SessionInv, NEW w \in Worker, SyncSnapshot(w)
  PROVE  SessionInv'
<1>1. PICK s \in SessionRec \cup {None} : s = IF live # None THEN live ELSE tomb
  BY DEF SessionInv, TypeOK
<1>2. worker' = [worker EXCEPT ![w] =
        IF s = None THEN Idle ELSE [pc |-> "note", snap |-> Replica(s)]]
  BY <1>1 DEF SyncSnapshot
<1>3. UNCHANGED <<live, tomb, metaRev, readied, buried, requests>>
  BY DEF SyncSnapshot
<1>4. PICK r : /\ r = IF s = None THEN Idle ELSE [pc |-> "note", snap |-> Replica(s)]
               /\ worker' = [worker EXCEPT ![w] = r]
  BY Zenon, <1>2
<1>5. ASSUME s # None
      PROVE  /\ Replica(s).rev >= 1
             /\ ~buried => Image(Replica(s))
  <2>1. s \in SessionRec
    BY <1>1, <1>5
  <2>2. s.rev >= 1
    BY <1>1, <1>5 DEF SessionInv, TombInv, EntryInv
  <2>3. ASSUME ~buried PROVE Image(Replica(s))
    <3>1. live # None /\ s = live
      BY <1>1, <1>5, <2>3 DEF SessionInv, TombInv
    <3>2. live.rev \in Nat /\ \A c \in Conn : live.conns[c] # None => live.conns[c].epoch \in Nat
      BY <2>1, <3>1, Parts
    <3>3. QED BY <2>1, <3>1, <3>2, ReplicaOf DEF Image
  <2>4. QED BY <2>1, <2>2, <2>3, ReplicaOf
<1>6. /\ r \in WorkerRecord
      /\ r.pc \in {"idle", "snapshot"} <=> r.snap = None
      /\ r.snap # None => r.snap.rev >= 1
      /\ r.snap # None /\ ~buried => Image(r.snap)
  <2>1. CASE s = None
    BY <1>4, <2>1 DEF Idle, WorkerRecord, WorkerPC
  <2>2. CASE s # None
    <3>1. PICK x \in SessionRec : x = Replica(s)
      BY <2>2, ReplicaOf
    <3>2. r = [pc |-> "note", snap |-> x] /\ x # None /\ x.rev >= 1 /\ (~buried => Image(x))
      BY <1>4, <1>5, <2>2, <3>1, SessionAssumption
    <3>3. r \in WorkerRecord /\ r.pc = "note" /\ r.snap = x
      BY <3>2 DEF WorkerRecord, WorkerPC
    <3>4. QED BY <3>2, <3>3
  <2>3. QED BY <2>1, <2>2
<1>7. worker' \in [Worker -> WorkerRecord] /\ SnapInv'
  BY Zenon, <1>3, <1>4, <1>6, SnapSet DEF SessionInv
<1>8. EntryInv' /\ requests' \in [Worker -> Nat] /\ metaRev' \in Nat
  BY <1>3 DEF SessionInv, EntryInv, TypeOK
<1>9. QED BY <1>3, <1>7, <1>8, OthersKept

(* A worker that has a snapshot goes on to pc, or is done.                 *)
LEMMA SnapshotStep ==
  ASSUME SessionInv, NEW w \in Worker, worker[w].pc \in {"note", "check", "import", "applied"},
         NEW pc \in {"check", "import", "applied"},
         \/ worker' = [worker EXCEPT ![w].pc = pc]
         \/ worker' = [worker EXCEPT ![w] = Idle],
         UNCHANGED <<live, buried>>
  PROVE  worker' \in [Worker -> WorkerRecord] /\ SnapInv'
<1>1. PICK x \in WorkerRecord : x = worker[w]
  BY DEF SessionInv, TypeOK, WorkerRecord
<1>2. CASE worker' = [worker EXCEPT ![w].pc = pc]
  <2>1. PICK r \in WorkerRecord : r = [x EXCEPT !.pc = pc] /\ r.pc = pc /\ r.snap = x.snap
    <3>1. /\ [x EXCEPT !.pc = pc] \in WorkerRecord
          /\ [x EXCEPT !.pc = pc].pc = pc /\ [x EXCEPT !.pc = pc].snap = x.snap
      BY DEF WorkerRecord, WorkerPC
    <3>2. QED BY Zenon, <3>1
  <2>2. worker' = [worker EXCEPT ![w] = r]
    BY <1>1, <1>2, <2>1
  <2>3. /\ x.snap # None
        /\ r.snap.rev >= 1
        /\ ~buried => Image(r.snap)
    BY <1>1, <2>1 DEF SessionInv, SnapInv
  <2>4. QED BY Zenon, <2>1, <2>2, <2>3, SnapSet DEF SessionInv
<1>3. CASE worker' = [worker EXCEPT ![w] = Idle]
  <2>1. Idle \in WorkerRecord /\ Idle.pc = "idle" /\ Idle.snap = None
    BY DEF Idle, WorkerRecord, WorkerPC
  <2>2. QED BY Zenon, <1>3, <2>1, SnapSet DEF SessionInv
<1>4. QED BY <1>2, <1>3

(* The revision of a snapshot in the entry.                                *)
LEMMA RevisionNoted ==
  ASSUME SessionInv, NEW w \in Worker, worker[w].pc \in {"note", "applied"},
         metaRev' = worker[w].snap.rev, UNCHANGED <<live, buried>>
  PROVE  EntryInv' /\ metaRev' \in Nat
<1>1. /\ worker[w].snap # None
      /\ worker[w].snap.rev >= 1
      /\ ~buried => Image(worker[w].snap)
  BY DEF SessionInv, SnapInv
<1>2. worker[w].snap \in SessionRec
  BY <1>1 DEF SessionInv, TypeOK
<1>3. metaRev' \in Nat /\ metaRev' # 0
  BY <1>1, <1>2, Parts
<1>4. QED BY <1>1, <1>3 DEF SessionInv, EntryInv, Image

LEMMA NotePreserves ==
  ASSUME SessionInv, NEW w \in Worker,
         NoteRevision(w) \/ CheckRevision(w) \/ Applied(w)
  PROVE  SessionInv' /\ UNCHANGED live
<1>1. UNCHANGED <<live, tomb, readied, buried, requests>>
  BY DEF NoteRevision, CheckRevision, Applied
<1>2. requests' \in [Worker -> Nat]
  BY <1>1 DEF SessionInv, TypeOK
<1>3. CASE NoteRevision(w)
  <2>1. /\ worker[w].pc = "note" /\ metaRev' = worker[w].snap.rev
        /\ worker' = [worker EXCEPT ![w].pc = "check"]
    BY <1>3 DEF NoteRevision
  <2>2. QED BY Zenon, <1>1, <1>2, <2>1, SnapshotStep, RevisionNoted, OthersKept
<1>4. CASE CheckRevision(w)
  <2>1. /\ worker[w].pc = "check" /\ metaRev' = metaRev
        /\ \/ worker' = [worker EXCEPT ![w] = Idle]
           \/ worker' = [worker EXCEPT ![w].pc = "import"]
    BY Zenon, <1>4 DEF CheckRevision
  <2>2. EntryInv' /\ metaRev' \in Nat
    BY <1>1, <2>1 DEF SessionInv, EntryInv, TypeOK
  <2>3. QED BY <1>1, <1>2, <2>1, <2>2, SnapshotStep, OthersKept
<1>5. CASE Applied(w)
  <2>1. /\ worker[w].pc = "applied" /\ metaRev' = worker[w].snap.rev
        /\ worker' = [worker EXCEPT ![w] = Idle]
    BY <1>5 DEF Applied
  <2>2. QED BY Zenon, <1>1, <1>2, <2>1, SnapshotStep, RevisionNoted, OthersKept
<1>6. QED BY <1>3, <1>4, <1>5

(* importSessionReplicaV2 changes nothing when the snapshot is an image.   *)
LEMMA ImportOfImage ==
  ASSUME live \in SessionRec, NEW snap \in SessionRec, Image(snap)
  PROVE  Import(live, snap) = live
<1>1. live # None /\ live.rev \in Nat /\ snap.rev \in Nat
  BY Parts
<1>2. CASE snap.rev < live.rev
  BY <1>1, <1>2 DEF Import
<1>3. CASE ~(snap.rev < live.rev)
  <2>1. snap.rev = live.rev /\ snap.state = live.state
    BY <1>1, <1>3 DEF Image
  <2> DEFINE merged(c) == IF snap.conns[c] = None THEN live.conns[c]
                          ELSE IF live.conns[c] = None THEN snap.conns[c]
                          ELSE [live.conns[c] EXCEPT !.epoch = snap.conns[c].epoch,
                                                     !.state = snap.conns[c].state]
  <2>2. ASSUME NEW c \in Conn PROVE merged(c) = live.conns[c]
    <3>1. (snap.conns[c] = None) = (live.conns[c] = None)
      BY <2>1 DEF Image
    <3>2. CASE snap.conns[c] = None
      BY <3>2
    <3>3. CASE snap.conns[c] # None
      <4>1. /\ live.conns[c] # None /\ live.conns[c] \in ConnRec
            /\ snap.conns[c].epoch = live.conns[c].epoch
            /\ snap.conns[c].state = live.conns[c].state
        BY <2>1, <3>1, <3>3, Parts DEF Image
      <4>2. PICK k \in ConnRec : k = live.conns[c]
        BY <4>1
      <4>3. [k EXCEPT !.epoch = k.epoch, !.state = k.state] = k
        BY Zenon DEF ConnRec
      <4>4. QED BY <3>3, <4>1, <4>2, <4>3
    <3>4. QED BY <3>2, <3>3
  <2>3. Import(live, snap) = [state |-> live.state, rev |-> live.rev,
                              conns |-> [c \in Conn |-> merged(c)]]
    BY <1>1, <1>3, <2>1 DEF Import
  <2> HIDE DEF merged
  <2>4. [c \in Conn |-> merged(c)] = live.conns
    BY <2>2, Parts DEF SessionRec
  <2>5. QED BY <2>3, <2>4 DEF SessionRec
<1>4. QED BY <1>2, <1>3

(* Whatever it imports, the store has a record afterwards.                 *)
LEMMA ImportRecord ==
  ASSUME NEW s \in SessionRec \cup {None}, NEW snap \in SessionRec,
         snap.rev >= 1, s # None => s.rev >= 1
  PROVE  Import(s, snap) \in SessionRec /\ Import(s, snap).rev >= 1
<1>1. CASE s = None \/ snap.rev < s.rev
  BY Zenon, <1>1 DEF Import
<1>2. CASE s # None /\ ~(snap.rev < s.rev)
  <2> DEFINE merged(c) == IF snap.conns[c] = None THEN s.conns[c]
                          ELSE IF s.conns[c] = None THEN snap.conns[c]
                          ELSE [s.conns[c] EXCEPT !.epoch = snap.conns[c].epoch,
                                                  !.state = snap.conns[c].state]
  <2>1. ASSUME NEW c \in Conn PROVE merged(c) \in ConnRec \cup {None}
    <3>1. CASE snap.conns[c] = None \/ s.conns[c] = None
      BY <1>2, <3>1, Parts
    <3>2. CASE snap.conns[c] # None /\ s.conns[c] # None
      <4>1. PICK k \in ConnRec, j \in ConnRec : k = s.conns[c] /\ j = snap.conns[c]
        BY <1>2, <3>2, Parts
      <4>2. [k EXCEPT !.epoch = j.epoch, !.state = j.state] \in ConnRec
        BY ZenonT(60) DEF ConnRec
      <4>3. QED BY <3>2, <4>1, <4>2
    <3>3. QED BY <3>1, <3>2
  <2>2. Import(s, snap) = [state |-> snap.state, rev |-> snap.rev,
                           conns |-> [c \in Conn |-> merged(c)]]
    BY <1>2 DEF Import
  <2> HIDE DEF merged
  <2>3. [c \in Conn |-> merged(c)] \in [Conn -> ConnRec \cup {None}]
    BY <2>1
  <2>4. QED BY <2>2, <2>3 DEF SessionRec
<1>3. QED BY <1>1, <1>2

LEMMA ImportPreserves ==
  ASSUME SessionInv, NEW w \in Worker, ImportReplica(w)
  PROVE  SessionInv' /\ Forward
<1>1. UNCHANGED <<tomb, metaRev, readied, buried, requests>>
  BY DEF ImportReplica
<1>2. worker[w].pc = "import" /\ worker' = [worker EXCEPT ![w].pc = "applied"]
  BY DEF ImportReplica
<1>3. PICK snap \in SessionRec : /\ snap = worker[w].snap /\ snap.rev >= 1
                                 /\ ~buried => Image(snap)
  BY <1>2 DEF SessionInv, SnapInv, TypeOK
<1>4. live' = Import(live, snap)
  BY <1>3 DEF ImportReplica
<1>5. TypeOK /\ requests' \in [Worker -> Nat] /\ metaRev' \in Nat
  BY <1>1 DEF SessionInv, TypeOK
<1>6. CASE ~buried
  <2>1. live \in SessionRec
    BY <1>3, <1>6 DEF SessionInv, TypeOK, Image
  <2>2. UNCHANGED live
    BY <1>3, <1>4, <1>6, <2>1, ImportOfImage
  <2>3. EntryInv'
    BY <1>1, <2>2 DEF SessionInv, EntryInv
  <2>4. worker' \in [Worker -> WorkerRecord] /\ SnapInv'
    BY Zenon, <1>1, <1>2, <2>2, SnapshotStep
  <2>5. QED BY <1>1, <1>5, <2>2, <2>3, <2>4, OthersKept, ForwardCases
<1>7. CASE buried
  <2>1. live' \in SessionRec /\ live'.rev >= 1
    <3>1. live \in SessionRec \cup {None} /\ (live # None => live.rev >= 1)
      BY DEF SessionInv, TypeOK, EntryInv
    <3>2. QED BY <1>3, <1>4, <3>1, ImportRecord
  <2>2. worker[w] \in WorkerRecord
    BY DEF SessionInv, TypeOK, WorkerRecord
  <2>3. /\ worker' \in [Worker -> WorkerRecord]
        /\ \A v \in Worker :
             /\ worker'[v].snap = worker[v].snap
             /\ worker'[v].pc \in {"idle", "snapshot"} <=> worker[v].pc \in {"idle", "snapshot"}
    BY <1>2, <2>2 DEF SessionInv, TypeOK, WorkerRecord, WorkerPC
  <2>4. SnapInv'
    BY <1>1, <1>5, <1>7, <2>3, SnapsKept DEF SessionInv
  <2>5. TypeOK'
    BY SMTT(60), <1>1, <1>5, <2>1, <2>3 DEF SessionInv, TypeOK, WorkerRecord
  <2>6. TombInv' /\ EntryInv' /\ LiveInv'
    BY <1>1, <1>7, <2>1 DEF SessionInv, TombInv, EntryInv, LiveInv, Existing
  <2>7. Forward
    BY <1>7 DEF Forward
  <2>8. QED BY <2>4, <2>5, <2>6, <2>7 DEF SessionInv
<1>8. QED BY <1>6, <1>7

-----------------------------------------------------------------------------
(* Expiry                                                                  *)

LEMMA DueCounted ==
  ASSUME NEW cs \in SUBSET Conn, cs # {}
  PROVE  Cardinality(cs) \in Nat /\ Cardinality(cs) >= 1
<1>1. IsFiniteSet(Opened \cup {Conn0})
  BY SessionAssumption, FS_AddElement
<1>2. cs \subseteq Opened \cup {Conn0}
  BY DEF Conn
<1>3. IsFiniteSet(cs)
  BY <1>1, <1>2, FS_Subset
<1>4. Cardinality(cs) \in Nat /\ Cardinality(cs) # 0
  BY <1>3, FS_CardinalityType, FS_EmptySet
<1>5. QED BY <1>4

(* failConnectionLocked: each connection that fails takes a revision.      *)
LEMMA FailedConns ==
  ASSUME SessionInv, NEW due \in SUBSET Expirable, due # {},
         live' = FailConnections(due), tomb' \in {tomb, None},
         UNCHANGED <<metaRev, worker, readied, buried, requests>>
  PROVE  SessionInv' /\ Forward
<1> USE DEF SessionInv
<1>1. /\ live # None /\ live \in SessionRec /\ live.state = "active"
      /\ due \in SUBSET Existing(live) /\ due \in SUBSET Conn
  BY DEF Expirable, TypeOK, Existing
<1>2. PICK cs \in [Conn -> ConnRec \cup {None}] :
        /\ cs = CloseConns(live, due)
        /\ \A c \in Conn \ due : cs[c] = live.conns[c]
        /\ \A c \in due : /\ cs[c] \in ConnRec
                          /\ cs[c].state = "closed"
                          /\ cs[c].epoch = live.conns[c].epoch
                          /\ cs[c].ready = live.conns[c].ready
  BY <1>1, ClosedConns
<1>3. PICK n \in Nat : n = live.rev + Cardinality(due) /\ n > live.rev /\ live.rev \in Nat
  BY <1>1, DueCounted, Parts
<1>4. live' = [live EXCEPT !.rev = n, !.conns = cs]
  BY <1>2, <1>3 DEF FailConnections
<1>5. /\ live' \in SessionRec /\ live'.rev = n
      /\ live'.conns = cs /\ live'.state = "active"
  BY Zenon, <1>1, <1>4 DEF SessionRec
<1>6. live' # None /\ \A c \in due : cs[c] # None
  BY <1>2, <1>5, SessionAssumption
<1>7. \A c \in Conn : live.conns[c] # None => cs[c] # None /\ cs[c].epoch >= live.conns[c].epoch
  BY <1>1, <1>2, <1>6, Parts
<1>8. Grows
  BY <1>1, <1>3, <1>5, <1>7 DEF Grows, Existing
<1>9. TypeOK'
  BY <1>5 DEF TypeOK, WorkerRecord
<1>10. SnapInv'
  BY <1>8, SnapsKept
<1>11. TombInv' /\ EntryInv'
  <2>1. TombInv'
    BY DEF TombInv, Existing
  <2>2. EntryInv'
    BY <1>1, <1>3, <1>5, <1>6 DEF EntryInv
  <2>3. QED BY <2>1, <2>2
<1>12. LiveInv'
  <2> SUFFICES ASSUME ~buried, NEW c \in Conn PROVE ConnInv(c)'
    BY <1>5, <1>6 DEF LiveInv, Ended
  <2>1. ConnInv(c)
    BY SMTT(60), <1>1 DEF LiveInv
  <2>2. CASE c \in due
    <3>1. live.conns[c] # None
      BY SMTT(60), <1>1, <2>2 DEF Existing
    <3>2. QED BY <1>2, <1>5, <1>6, <2>1, <2>2, <3>1 DEF ConnInv
  <2>3. CASE c \notin due
    BY <1>1, <1>2, <1>5, <2>1, <2>3 DEF ConnInv
  <2>4. QED BY <2>2, <2>3
<1>13. QED BY <1>8, <1>9, <1>10, <1>11, <1>12, ForwardCases

LEMMA ExpirePreserves ==
  ASSUME SessionInv, NEW due \in SUBSET Expirable,
         NEW sessDue \in BOOLEAN, NEW tombDue \in BOOLEAN, Expire(due, sessDue, tombDue)
  PROVE  SessionInv' /\ Forward
<1>1. UNCHANGED <<metaRev, worker, readied, requests>> /\ TypeOK
  BY DEF Expire, SessionInv
<1>2. CASE sessDue
  <2>1. live # None /\ live \in SessionRec /\ FailSession
    BY <1>2 DEF Expire, SessionInv, TypeOK
  <2>2. CloseConns(live, Existing(live)) \in [Conn -> ConnRec \cup {None}]
    BY <2>1, ClosedConns
  <2>3. /\ tomb' \in SessionRec /\ tomb'.rev = live.rev /\ tomb'.state = "failed"
        /\ tomb'.conns = CloseConns(live, Existing(live))
    BY Zenon, <2>1, <2>2 DEF FailSession, SessionRec, SessionState, Ended
  <2>4. tomb'.rev >= 1 /\ tomb'.state \in Ended
    BY <2>1, <2>3 DEF SessionInv, EntryInv, Ended
  <2>5. live' = None /\ buried' = TRUE
    BY <2>1 DEF FailSession
  <2>6. worker' \in [Worker -> WorkerRecord] /\ requests' \in [Worker -> Nat]
    BY <1>1 DEF TypeOK, WorkerRecord
  <2>7. QED BY <1>1, <2>1, <2>3, <2>4, <2>5, <2>6, BuryPreserves, ForwardCases
<1>3. CASE ~sessDue
  <2>1. /\ live' = IF due = {} THEN live ELSE FailConnections(due)
        /\ tomb' \in {tomb, None} /\ UNCHANGED buried
    BY <1>3 DEF Expire
  <2>2. CASE due # {}
    BY <1>1, <2>1, <2>2, FailedConns
  <2>3. CASE due = {}
    <3>1. UNCHANGED live
      BY <2>1, <2>3
    <3>2. TypeOK'
      BY <1>1, <2>1, <3>1 DEF TypeOK
    <3>3. SnapInv'
      BY SMTT(60), <1>1, <2>1, <3>1, SnapsKept DEF SessionInv
    <3>4. TombInv'
      BY SMTT(60), <2>1 DEF SessionInv, TombInv, Existing
    <3>5. EntryInv' /\ LiveInv'
      BY Zenon, <1>1, <2>1, <3>1 DEF SessionInv, EntryInv, LiveInv, ConnInv
    <3>6. QED BY <1>1, <3>1, <3>2, <3>3, <3>4, <3>5, ForwardCases DEF SessionInv
  <2>4. QED BY <2>2, <2>3
<1>4. QED BY <1>2, <1>3

-----------------------------------------------------------------------------
(* The theorems                                                            *)

LEMMA InitEstablishes ==
  ASSUME Init PROVE SessionInv
<1>1. TypeOK
  <2>1. worker \in [Worker -> [pc : WorkerPC, snap : SessionRec \cup {None}]]
    BY DEF Init, Idle, WorkerPC
  <2>2. readied \in [Conn -> [Epoch -> SUBSET Member]]
    BY DEF Init
  <2>3. requests \in [Worker -> Nat]
    BY SessionAssumption DEF Init
  <2>4. QED BY Zenon, <2>1, <2>2, <2>3 DEF Init, TypeOK
<1>2. SnapInv
  BY DEF Init, SnapInv, Idle
<1>3. TombInv /\ EntryInv
  BY DEF Init, TombInv, EntryInv
<1>4. LiveInv
  BY DEF Init, LiveInv
<1>5. QED BY <1>1, <1>2, <1>3, <1>4 DEF SessionInv

LEMMA ExecutePreserves ==
  ASSUME SessionInv, NEW w \in Worker, Execute(w) \/ Repeat(w)
  PROVE  SessionInv' /\ Forward
<1>1. TypeOK
  BY DEF SessionInv
<1>2. CASE AllocateSession(w)
  BY <1>1, <1>2, AllocateSessionPreserves, ForwardCases
<1>3. CASE ResumeSession(w) \/ Repeat(w)
  BY <1>1, <1>3, CommandOnly, ForwardCases DEF ResumeSession, Repeat
<1>4. CASE CloseSession(w)
  BY <1>4, CloseSessionPreserves
<1>5. CASE \E e \in Epoch : BindSession(w, e)
  <2>1. Conn0 \in Conn
    BY DEF Conn
  <2>2. QED BY <1>5, <2>1, StateCommandsPreserve
<1>6. ASSUME NEW c \in Conn,
             AllocateConnection(w, c) \/ \E e \in Epoch \cup {0} : AllocateRestart(w, c, e)
      PROVE  SessionInv' /\ Forward
  BY <1>6, OpenPreserves
<1>7. ASSUME NEW c \in Conn, NEW e \in Epoch,
             BindConnection(w, c, e) \/ RejectConnection(w, c, e) \/ CloseConnection(w, c, e)
      PROVE  SessionInv' /\ Forward
  BY <1>7, StateCommandsPreserve
<1>8. ASSUME NEW c \in Conn, NEW e \in Epoch, NEW m \in Member,
             MarkConnectionReady(w, m, c, e)
      PROVE  SessionInv' /\ Forward
  BY <1>8, ReadyPreserves
<1>9. QED
  BY <1>2, <1>3, <1>4, <1>5, <1>6, <1>7, <1>8 DEF Execute

LEMMA NextPreserves ==
  ASSUME SessionInv, [Next]_vars
  PROVE  SessionInv' /\ Forward
<1>1. TypeOK
  BY DEF SessionInv
<1>2. CASE UNCHANGED vars
  <2>1. UNCHANGED <<live, tomb, metaRev, worker, readied, buried, requests>>
    BY SMTT(60), <1>2 DEF vars
  <2>2. TypeOK' /\ TombInv' /\ EntryInv' /\ LiveInv'
    BY Zenon, <2>1 DEF SessionInv, TypeOK, TombInv, EntryInv, LiveInv, ConnInv, Existing
  <2>3. SnapInv'
    BY <1>1, <2>1, SnapsKept DEF SessionInv
  <2>4. QED BY <1>1, <2>1, <2>2, <2>3, ForwardCases DEF SessionInv
<1>3. ASSUME NEW w \in Worker, Execute(w) \/ Repeat(w)
      PROVE  SessionInv' /\ Forward
  BY <1>3, ExecutePreserves
<1>4. ASSUME NEW w \in Worker, Synchronise(w)
      PROVE  SessionInv' /\ Forward
  <2>1. CASE SyncSnapshot(w)
    BY Zenon, <1>1, <2>1, SyncSnapshotPreserves, ForwardCases DEF SyncSnapshot
  <2>2. CASE NoteRevision(w) \/ CheckRevision(w) \/ Applied(w)
    BY <1>1, <2>2, NotePreserves, ForwardCases
  <2>3. CASE ImportReplica(w)
    BY <2>3, ImportPreserves
  <2>4. QED BY <1>4, <2>1, <2>2, <2>3 DEF Synchronise
<1>5. ASSUME NEW due \in SUBSET Expirable, NEW sessDue \in BOOLEAN, NEW tombDue \in BOOLEAN,
             Expire(due, sessDue, tombDue)
      PROVE  SessionInv' /\ Forward
  BY <1>5, ExpirePreserves
<1>6. ASSUME NEW due \in SUBSET Expirable, ExpirePendingSignals(due)
      PROVE  SessionInv' /\ Forward
  BY <1>6, FailedConns DEF ExpirePendingSignals
<1>7. QED BY <1>2, <1>3, <1>4, <1>5, <1>6 DEF Next

(* The inductive invariant: the snapshots the workers hold are images of   *)
(* the record as long as it is not buried, and what is buried has ended.   *)
THEOREM SessionInvariant == Spec => []SessionInv
<1>1. Init => SessionInv
  BY InitEstablishes
<1>2. SessionInv /\ [Next]_vars => SessionInv'
  BY NextPreserves
<1>3. QED BY <1>1, <1>2, PTL DEF Spec

(* The records of the store, the snapshots and the entry have their types. *)
THEOREM SessionTypes == Spec => []TypeOK
<1>1. SessionInv => TypeOK
  BY DEF SessionInv
<1>2. QED BY <1>1, SessionInvariant, PTL

(* closeSessionLocked, failSessionLocked, MarkConnectionReady and imports  *)
(* keep a session and its connections in step.                             *)
THEOREM ConnsInStep == Spec => []ConnsFollowSession
<1>1. SessionInv => ConnsFollowSession
  <2> SUFFICES ASSUME SessionInv, NEW s \in IF buried THEN {tomb} ELSE {live, tomb},
                      NEW c \in Existing(s)
               PROVE  /\ s.state \in Ended => s.conns[c].state = "closed"
                      /\ s.conns[c].state = "active" => s.state = "active"
    BY DEF ConnsFollowSession
  <2>1. CASE s = tomb
    BY <2>1 DEF SessionInv, TombInv, Existing
  <2>2. CASE s = live /\ ~buried
    <3>1. live # None /\ c \in Conn /\ live.conns[c] # None
      BY SMTT(60), <2>2 DEF Existing
    <3>2. QED BY <2>2, <3>1 DEF SessionInv, LiveInv, ConnInv
  <2>3. QED BY <2>1, <2>2
<1>2. QED BY <1>1, SessionInvariant, PTL

(* A READY the store has taken stays, whatever is imported after it.       *)
THEOREM ReadyKept == Spec => []ReadyNotLost
<1>1. SessionInv => ReadyNotLost
  BY DEF SessionInv, LiveInv, ConnInv, ReadyNotLost, Existing
<1>2. QED BY <1>1, SessionInvariant, PTL

(* A generation of a connection is active only after both READYs for it.   *)
THEOREM ActiveIsReady == Spec => []ActiveMeansBothReady
<1>1. SessionInv => ActiveMeansBothReady
  BY DEF SessionInv, LiveInv, ConnInv, ActiveMeansBothReady, Existing
<1>2. QED BY <1>1, SessionInvariant, PTL

(* No command, import or expiry takes the revision or an epoch back before *)
(* the session is buried.                                                  *)
THEOREM RecordsGoForward == Spec => NoRollback
<1>1. SessionInv /\ [Next]_vars =>
        [~buried /\ live # None /\ live' # None =>
           /\ live'.rev >= live.rev
           /\ \A c \in Existing(live) :
                /\ c \in Existing(live')
                /\ live'.conns[c].epoch >= live.conns[c].epoch]_vars
  BY NextPreserves DEF Forward
<1>2. QED BY <1>1, SessionInvariant, PTL DEF Spec, NoRollback
=============================================================================
