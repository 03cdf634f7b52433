----------------------------- MODULE P2PSession -----------------------------
(***************************************************************************)
(* One session on the coordinator that owns it: the state machine of       *)
(* p2p/store_v2.go, and the state synchronisation every command ends with  *)
(* (p2p/cluster.go), as seen by the owner's own store.                     *)
(*                                                                         *)
(* A command changes the store in one critical section of StoreV2.mu.  Its *)
(* worker then reads a snapshot of the session, notes its revision in      *)
(* managerV2.owners, and imports the snapshot into the coordinator's OWN   *)
(* store before it asks the other coordinators.  The session lock has been *)
(* released by then, so other commands and the expiry loop run between any *)
(* two of these steps.                                                     *)
(*                                                                         *)
(* The clock is abstract: a deadline may pass at any moment.  Refused      *)
(* commands change nothing and are left out, as are commands of nodes that *)
(* are not registered.  Request records and events are the subject of      *)
(* P2PDelivery: here a command is a request the store has not seen, and a  *)
(* repeated request only synchronises again.  Signals are the subject of   *)
(* P2PSignal.                                                              *)
(***************************************************************************)
EXTENDS Integers, FiniteSets

CONSTANTS
  Client, Server,  \* the members of the session
  Conn0,           \* "conn-0", the connection a session is created with
  Opened,          \* further connection IDs, for OPEN
  Worker,          \* command workers
  MaxConns,        \* StoreV2.maxConns
  Budgets,         \* bound: how many requests each worker handles, one of these
  MaxEpoch,        \* bound: generations of a connection
  None             \* no record

Member == {Client, Server}
Conn == {Conn0} \cup Opened
Epoch == 1..MaxEpoch

Negotiating == {"allocated", "preparing"}
Ended == {"closed", "failed"}
SessionState == Negotiating \cup {"active"} \cup Ended
ConnState == Negotiating \cup {"active", "closed"}

\* connectionRecordV2
ConnRec == [state : ConnState, epoch : Epoch, ready : SUBSET Member]
NewConn == [state |-> "allocated", epoch |-> 1, ready |-> {}]

\* sessionRecordV2
SessionRec ==
  [state : SessionState, rev : Nat, conns : [Conn -> ConnRec \cup {None}]]

ASSUME SessionAssumption ==
  /\ Client # Server
  /\ Conn0 \notin Opened /\ IsFiniteSet(Opened)
  /\ MaxConns \in Nat \ {0}
  /\ Budgets \subseteq [Worker -> Nat]
  /\ MaxEpoch \in Nat \ {0}
  /\ None \notin SessionRec \cup ConnRec

VARIABLES
  live,      \* StoreV2.sessions: the record of the session, or None
  tomb,      \* StoreV2.tombs: its buried record, or None
  metaRev,   \* managerV2.owners[..].Revision
  worker,    \* how far each command worker is with its synchronisation
  readied,   \* READY commands executed: the members, by connection and epoch
  buried,    \* the session has been closed or failed at some time
  requests   \* how many requests each worker will still handle

vars == <<live, tomb, metaRev, worker, readied, buried, requests>>

Idle == [pc |-> "idle", snap |-> None]
WorkerPC == {"idle", "snapshot", "note", "check", "import", "applied"}

TypeOK ==
  /\ live \in SessionRec \cup {None}
  /\ tomb \in SessionRec \cup {None}
  /\ metaRev \in Nat
  /\ worker \in [Worker -> [pc : WorkerPC, snap : SessionRec \cup {None}]]
  /\ readied \in [Conn -> [Epoch -> SUBSET Member]]
  /\ buried \in BOOLEAN
  /\ requests \in [Worker -> Nat]

Init ==
  /\ live = None
  /\ tomb = None
  /\ metaRev = 0
  /\ worker = [w \in Worker |-> Idle]
  /\ readied = [c \in Conn |-> [e \in Epoch |-> {}]]
  /\ buried = FALSE
  /\ requests \in Budgets

-----------------------------------------------------------------------------
(* Helpers of the store                                                    *)

\* requireSession: a live record, or a buried one that was closed
Session ==
  IF live # None THEN live
  ELSE IF tomb # None /\ tomb.state = "closed" THEN tomb ELSE None

Existing(s) == IF s = None THEN {} ELSE {c \in Conn : s.conns[c] # None}

\* the connections cs of s closed
CloseConns(s, cs) ==
  [c \in Conn |-> IF c \in cs THEN [s.conns[c] EXCEPT !.state = "closed"]
                  ELSE s.conns[c]]

\* an idle worker takes a request, and is left to synchronise
Command(w) ==
  /\ worker[w].pc = "idle"
  /\ requests[w] > 0
  /\ requests' = [requests EXCEPT ![w] = @ - 1]
  /\ worker' = [worker EXCEPT ![w].pc = "snapshot"]

-----------------------------------------------------------------------------
(* SESSION.CREATE and SESSION.COMMAND                                      *)

\* AllocateSession, and the owners entry of handleCreateV2
AllocateSession(w) ==
  /\ Command(w)
  /\ metaRev = 0
  /\ live' = [state |-> "allocated", rev |-> 1,
              conns |-> [c \in Conn |-> IF c = Conn0 THEN NewConn ELSE None]]
  /\ metaRev' = 1
  /\ UNCHANGED <<tomb, readied, buried>>

BindSession(w, e) ==
  /\ Command(w)
  /\ Conn0 \in Existing(live)
  /\ e = live.conns[Conn0].epoch
  /\ live.state = "allocated"
  /\ live.conns[Conn0].state = "allocated"
  /\ live' = [live EXCEPT !.rev = @ + 1, !.state = "preparing",
                          !.conns[Conn0].state = "preparing"]
  /\ UNCHANGED <<tomb, metaRev, readied, buried>>

ResumeSession(w) ==
  /\ Command(w)
  /\ Session # None
  /\ Session.state # "closed"
  /\ UNCHANGED <<live, tomb, metaRev, readied, buried>>

\* closeSessionLocked and buryLocked; a closed session is left as it is
CloseSession(w) ==
  /\ Command(w)
  /\ Session # None
  /\ IF Session.state = "closed" THEN UNCHANGED <<live, tomb, buried>>
     ELSE /\ tomb' = [live EXCEPT !.rev = @ + 1, !.state = "closed",
                                  !.conns = CloseConns(live, Existing(live))]
          /\ live' = None
          /\ buried' = TRUE
  /\ UNCHANGED <<metaRev, readied>>

-----------------------------------------------------------------------------
(* CONNECTION.COMMAND                                                      *)

\* OPEN of an ended session is answered with a closed snapshot
AllocateConnection(w, c) ==
  /\ Command(w)
  /\ Session # None
  /\ IF Session.state \in Ended THEN UNCHANGED live
     ELSE /\ Cardinality(Existing(live)) < MaxConns
          /\ live.conns[c] = None
          /\ live' = [live EXCEPT !.rev = @ + 1, !.conns[c] = NewConn]
  /\ UNCHANGED <<tomb, metaRev, readied, buried>>

\* mutant: RESTART writes the protocol's "restarting"
MutRestartState(w, c, e) ==
  /\ Command(w)
  /\ c \in Existing(live)
  /\ e \in {0, live.conns[c].epoch}
  /\ live' = [live EXCEPT !.rev = @ + 1, !.conns[c].state = "restarting"]
  /\ UNCHANGED <<tomb, metaRev, readied, buried>>

\* e = 0: the member names no epoch
AllocateRestart(w, c, e) ==
  /\ Command(w)
  /\ c \in Existing(Session)
  /\ IF Session.state \in Ended \/ Session.conns[c].state = "closed"
     THEN UNCHANGED live
     ELSE /\ e \in {0, live.conns[c].epoch}
          /\ live.conns[c].epoch < MaxEpoch
          /\ live' = [live EXCEPT !.rev = @ + 1,
               !.conns[c] = [NewConn EXCEPT !.epoch = live.conns[c].epoch + 1]]
  /\ UNCHANGED <<tomb, metaRev, readied, buried>>

\* the member names the current revision or none
BindConnection(w, c, e) ==
  /\ Command(w)
  /\ c \in Existing(live)
  /\ e = live.conns[c].epoch
  /\ live.conns[c].state = "allocated"
  /\ live' = [live EXCEPT !.rev = @ + 1, !.conns[c].state = "preparing"]
  /\ UNCHANGED <<tomb, metaRev, readied, buried>>

\* mutant: a READY that a member repeats counts for the other one
MutReadyCounted(w, m, c, e) ==
  /\ Command(w)
  /\ c \in Existing(live)
  /\ e = live.conns[c].epoch
  /\ live.conns[c].state = "preparing"
  /\ LET ready == live.conns[c].ready \cup {m}
     IN live' = IF ready = Member \/ m \in live.conns[c].ready
                THEN [live EXCEPT !.rev = @ + 1,
                        !.state = IF @ \in Negotiating THEN "active" ELSE @,
                        !.conns[c].ready = ready, !.conns[c].state = "active"]
                ELSE [live EXCEPT !.conns[c].ready = ready]
  /\ readied' = [readied EXCEPT ![c][e] = @ \cup {m}]
  /\ UNCHANGED <<tomb, metaRev, buried>>

\* the second READY of the generation makes it, and its session, active
MarkConnectionReady(w, m, c, e) ==
  /\ Command(w)
  /\ c \in Existing(live)
  /\ e = live.conns[c].epoch
  /\ live.conns[c].state = "preparing"
  /\ LET ready == live.conns[c].ready \cup {m}
     IN live' = IF ready = Member
                THEN [live EXCEPT !.rev = @ + 1,
                        !.state = IF @ \in Negotiating THEN "active" ELSE @,
                        !.conns[c].ready = ready, !.conns[c].state = "active"]
                ELSE [live EXCEPT !.conns[c].ready = ready]
  /\ readied' = [readied EXCEPT ![c][e] = @ \cup {m}]
  /\ UNCHANGED <<tomb, metaRev, buried>>

RejectConnection(w, c, e) ==
  /\ Command(w)
  /\ c \in Existing(live)
  /\ e = live.conns[c].epoch
  /\ live.conns[c].state \in Negotiating
  /\ live' = [live EXCEPT !.rev = @ + 1, !.conns[c].state = "closed"]
  /\ UNCHANGED <<tomb, metaRev, readied, buried>>

\* a closed connection is left as it is
CloseConnection(w, c, e) ==
  /\ Command(w)
  /\ c \in Existing(Session)
  /\ e = Session.conns[c].epoch
  /\ live' = IF Session.conns[c].state = "closed" THEN live
             ELSE [live EXCEPT !.rev = @ + 1, !.conns[c].state = "closed"]
  /\ UNCHANGED <<tomb, metaRev, readied, buried>>

\* a repeated request finds its record and only synchronises
Repeat(w) ==
  /\ Command(w)
  /\ metaRev # 0
  /\ UNCHANGED <<live, tomb, metaRev, readied, buried>>

-----------------------------------------------------------------------------
(* syncSessionLockedV2                                                     *)

\* what a snapshot carries of a connection: its state and epoch
Replica(s) ==
  [s EXCEPT !.conns = [c \in Conn |->
     IF @[c] = None THEN None ELSE [@[c] EXCEPT !.ready = {}]]]

SyncSnapshot(w) ==
  LET s == IF live # None THEN live ELSE tomb IN
  /\ worker[w].pc = "snapshot"
  /\ worker' = [worker EXCEPT ![w] =
       IF s = None THEN Idle ELSE [pc |-> "note", snap |-> Replica(s)]]
  /\ UNCHANGED <<live, tomb, metaRev, readied, buried, requests>>

\* syncSessionSnapshotV2 copies the revision into owners, whatever is there
NoteRevision(w) ==
  /\ worker[w].pc = "note"
  /\ metaRev' = worker[w].snap.rev
  /\ worker' = [worker EXCEPT ![w].pc = "check"]
  /\ UNCHANGED <<live, tomb, readied, buried, requests>>

\* applyMutationV2 refuses a revision older than the one noted
CheckRevision(w) ==
  /\ worker[w].pc = "check"
  /\ worker' = [worker EXCEPT ![w] =
       IF @.snap.rev < metaRev THEN Idle ELSE [@ EXCEPT !.pc = "import"]]
  /\ UNCHANGED <<live, tomb, metaRev, readied, buried, requests>>

\* mutants: the revision is not compared; the connection record is replaced
MutImportOlder(s, snap) ==
  IF s = None THEN snap
  ELSE [snap EXCEPT !.conns = [c \in Conn |->
          IF snap.conns[c] = None THEN s.conns[c] ELSE snap.conns[c]]]

MutImportReplaces(s, snap) ==
  IF s = None THEN snap
  ELSE IF snap.rev < s.rev THEN s
  ELSE [snap EXCEPT !.conns = [c \in Conn |->
          IF snap.conns[c] = None THEN s.conns[c] ELSE snap.conns[c]]]

\* importSessionReplicaV2 on a record s of the store
Import(s, snap) ==
  IF s = None THEN snap
  ELSE IF snap.rev < s.rev THEN s
  ELSE [state |-> snap.state, rev |-> snap.rev,
        conns |-> [c \in Conn |->
          IF snap.conns[c] = None THEN s.conns[c]
          ELSE IF s.conns[c] = None THEN snap.conns[c]
          ELSE [s.conns[c] EXCEPT !.epoch = snap.conns[c].epoch,
                                  !.state = snap.conns[c].state]]]

ImportReplica(w) ==
  /\ worker[w].pc = "import"
  /\ live' = Import(live, worker[w].snap)
  /\ worker' = [worker EXCEPT ![w].pc = "applied"]
  /\ UNCHANGED <<tomb, metaRev, readied, buried, requests>>

\* the rest of applyMutationV2: the revision goes into owners once more; then the
\* other coordinators are asked and the member is answered
Applied(w) ==
  /\ worker[w].pc = "applied"
  /\ metaRev' = worker[w].snap.rev
  /\ worker' = [worker EXCEPT ![w] = Idle]
  /\ UNCHANGED <<live, tomb, readied, buried, requests>>

-----------------------------------------------------------------------------
(* The expiry loops, which take no lock but the store's                    *)

\* failConnectionLocked for each of cs
FailConnections(cs) ==
  [live EXCEPT !.rev = @ + Cardinality(cs), !.conns = CloseConns(live, cs)]

\* mutant: the connections of a failed session are left open
MutFailSessionOpen ==
  /\ tomb' = [live EXCEPT !.state = "failed"]
  /\ live' = None
  /\ buried' = TRUE

\* failSessionLocked and buryLocked: the revision stays
FailSession ==
  /\ tomb' = [live EXCEPT !.state = "failed",
                          !.conns = CloseConns(live, Existing(live))]
  /\ live' = None
  /\ buried' = TRUE

\* the connections Expire looks at: those of an active session that are open
Expirable ==
  IF live # None /\ live.state = "active"
  THEN {c \in Existing(live) : live.conns[c].state # "closed"} ELSE {}

\* StoreV2.Expire.  due: the connections that are past their deadline and, when
\* active, have unacknowledged signals; sessDue, tombDue: the session is past its
\* setup deadline, the tombstone is tombTTL old.  Something is.
Expire(due, sessDue, tombDue) ==
  /\ due # {} \/ sessDue \/ tombDue
  /\ sessDue => live # None /\ live.state \in Negotiating
  /\ tombDue => tomb # None
  /\ IF sessDue THEN FailSession
     ELSE /\ live' = IF due = {} THEN live ELSE FailConnections(due)
          /\ tomb' = IF tombDue THEN None ELSE tomb
          /\ UNCHANGED buried
  /\ UNCHANGED <<metaRev, worker, readied, requests>>

\* the flush of the retry queue: active connections with unacknowledged signals
ExpirePendingSignals(due) ==
  /\ due # {}
  /\ \A c \in due : live.conns[c].state = "active"
  /\ live' = FailConnections(due)
  /\ UNCHANGED <<tomb, metaRev, worker, readied, buried, requests>>

-----------------------------------------------------------------------------
Execute(w) ==
  \/ AllocateSession(w) \/ ResumeSession(w) \/ CloseSession(w)
  \/ \E e \in Epoch : BindSession(w, e)
  \/ \E c \in Conn :
       \/ AllocateConnection(w, c)
       \/ AllocateRestart(w, c, 0)
       \/ \E e \in Epoch :
            \/ AllocateRestart(w, c, e)
            \/ BindConnection(w, c, e)
            \/ \E m \in Member : MarkConnectionReady(w, m, c, e)
            \/ RejectConnection(w, c, e)
            \/ CloseConnection(w, c, e)

Synchronise(w) ==
  \/ SyncSnapshot(w) \/ NoteRevision(w) \/ CheckRevision(w)
  \/ ImportReplica(w) \/ Applied(w)

Next ==
  \/ \E w \in Worker : Execute(w) \/ Repeat(w) \/ Synchronise(w)
  \/ \E due \in SUBSET Expirable :
       \/ \E sessDue, tombDue \in BOOLEAN : Expire(due, sessDue, tombDue)
       \/ ExpirePendingSignals(due)

Spec == Init /\ [][Next]_vars

-----------------------------------------------------------------------------
(* Properties                                                              *)

(* As long as the session has not been buried, a connection is active only  *)
(* in a generation for which both members sent READY: neither a READY of an *)
(* earlier generation nor the import of an old snapshot makes it so.        *)
ActiveMeansBothReady ==
  ~buried => \A c \in Existing(live) :
    live.conns[c].state = "active" => readied[c][live.conns[c].epoch] = Member

(* The session and its connections agree, also after an import: an ended    *)
(* session has only closed connections, an active connection an active      *)
(* session.  A session that an import revived after its burial is left out: *)
(* a later import of its tombstone ends it and not the connections opened   *)
(* since.                                                                   *)
ConnsFollowSession ==
  \A s \in IF buried THEN {tomb} ELSE {live, tomb} : \A c \in Existing(s) :
    /\ s.state \in Ended => s.conns[c].state = "closed"
    /\ s.conns[c].state = "active" => s.state = "active"

(* As long as a session has not been buried, its revision and the epochs of *)
(* its connections never go back, whatever order the imports of concurrent  *)
(* commands come in.                                                        *)
NoRollback ==
  [][~buried /\ live # None /\ live' # None =>
       /\ live'.rev >= live.rev
       /\ \A c \in Existing(live) :
            /\ c \in Existing(live')
            /\ live'.conns[c].epoch >= live.conns[c].epoch]_vars

(* A READY is never lost: as long as the session has not been buried, the    *)
(* store knows every READY of a connection's current generation, although   *)
(* imports of snapshots, which carry no READY flags, come in between.       *)
ReadyNotLost ==
  ~buried => \A c \in Existing(live) :
    live.conns[c].ready = readied[c][live.conns[c].epoch]

(* docs/raypx2-integrate.md: requests after the close do not recreate       *)
(* state.  A session that was closed is not brought back to life.           *)
ClosedNotRevived ==
  tomb # None /\ tomb.state = "closed" /\ live # None => live.state \in Ended
=============================================================================
