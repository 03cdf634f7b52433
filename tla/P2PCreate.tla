----------------------------- MODULE P2PCreate -----------------------------
(***************************************************************************)
(* SESSION.CREATE on a cluster of coordinators (handleCreateV2): one       *)
(* request of one client, sent again under the same request ID until the   *)
(* client has its answer.  The queue group hands every copy to some        *)
(* coordinator, whose workers handle several at a time.                    *)
(*                                                                         *)
(* A coordinator first looks in its own owners table, then asks its peers  *)
(* for a snapshot of theirs, then allocates in its store, then enters      *)
(* itself as the owner, then synchronises.  Each of these steps is a       *)
(* critical section of its own, and mutations of the peers are applied     *)
(* between any two of them.                                                *)
(*                                                                         *)
(* The store keeps one session for each request, so a session is named by  *)
(* the coordinator that allocated it.  The members of the cluster are      *)
(* fixed and know each other; a message that is delayed for ever is a lost *)
(* one.  A coordinator receives its own mutations too and finds them       *)
(* applied, which is left out.                                             *)
(***************************************************************************)
EXTENDS Integers, Sequences, FiniteSets

CONSTANTS
  Coord,        \* coordinators
  MaxSends,     \* bound: copies of the request
  MaxInFlight,  \* copies the client has in the cluster at the same time
  None          \* no record

ASSUME CreateAssumption ==
  /\ IsFiniteSet(Coord)
  /\ MaxSends \in Nat \ {0}
  /\ MaxInFlight \in 1..MaxSends
  /\ None \notin Coord

Copy == 1..MaxSends

\* v2SessionMeta as it is told to others: a session and its owner
Meta == [sid : Coord, owner : Coord]

VARIABLES
  copy,      \* what became of each copy of the request
  sessions,  \* StoreV2.sessions of each coordinator
  stored,    \* StoreV2.requests: the session the store keeps for the request
  owners,    \* managerV2.owners: the owner each coordinator knows of a session
  requests,  \* managerV2.requests: the session of the request
  chan,      \* session mutations on the way: chan[c][d] from c to d
  applying,  \* the mutation a coordinator has imported and not yet entered
  overlap    \* a copy was sent while an earlier one was being handled

store == <<sessions, stored>>
table == <<owners, requests>>
vars == <<copy, store, table, chan, applying, overlap>>

\* left: peers still to be heard of; found: what peers said of the request;
\* answer: the session and the owner in the ALLOCATED reply; synced: the reply
\* came out of a synchronisation and not out of a table
Idle == [pc |-> "idle", at |-> None, left |-> {}, found |-> {}, sid |-> None,
         owner |-> None, answer |-> None, synced |-> FALSE]

Working == {"lookup", "allocate", "note", "sync", "publish", "await"}
Answered == {"ok", "busy", "error"}
Mutation == [sid : Coord, owner : Coord, copy : Copy]

TypeOK ==
  /\ copy \in [Copy -> [pc : {"idle", "sent"} \cup Working \cup Answered,
                        at : Coord \cup {None}, left : SUBSET Coord,
                        found : SUBSET Meta, sid : Coord \cup {None},
                        owner : Coord \cup {None}, answer : Meta \cup {None},
                        synced : BOOLEAN]]
  /\ sessions \in [Coord -> SUBSET Coord]
  /\ stored \in [Coord -> Coord \cup {None}]
  /\ owners \in [Coord -> [Coord -> Coord \cup {None}]]
  /\ requests \in [Coord -> Coord \cup {None}]
  /\ chan \in [Coord -> [Coord -> Seq(Mutation)]]
  /\ applying \in [Coord -> [mut : Mutation, from : Coord] \cup {None}]
  /\ overlap \in BOOLEAN

Init ==
  /\ copy = [i \in Copy |-> Idle]
  /\ sessions = [c \in Coord |-> {}]
  /\ stored = [c \in Coord |-> None]
  /\ owners = [c \in Coord |-> [s \in Coord |-> None]]
  /\ requests = [c \in Coord |-> None]
  /\ chan = [c \in Coord |-> [d \in Coord |-> << >>]]
  /\ applying = [c \in Coord |-> None]
  /\ overlap = FALSE

Others(c) == Coord \ {c}

\* every entry of coordinator c for this request
Known(c) == {[sid |-> s, owner |-> owners[c][s]] : s \in {t \in Coord : owners[c][t] # None}}

Finish(i, how) == copy' = [copy EXCEPT ![i].pc = how]

\* replyAllocatedOwnerV2
Allocated(i, meta) ==
  copy' = [copy EXCEPT ![i].pc = "ok", ![i].answer = meta]

-----------------------------------------------------------------------------
(* The client                                                              *)

InHand == {j \in Copy : copy[j].pc \in {"sent"} \cup Working}

\* the request, or a retry of it: the reply may have been lost
Send(i) ==
  /\ copy[i].pc = "idle"
  /\ \A j \in 1..(i - 1) : copy[j].pc # "idle"
  /\ Cardinality(InHand) < MaxInFlight
  /\ copy' = [copy EXCEPT ![i].pc = "sent"]
  /\ overlap' = (overlap \/ InHand # {})
  /\ UNCHANGED <<store, table, chan, applying>>

-----------------------------------------------------------------------------
(* handleCreateV2                                                          *)

\* a request this coordinator knows is answered from its tables; the index by
\* request is looked at before the owners themselves
AnswerKnown(c) ==
  IF requests[c] # None /\ owners[c][requests[c]] # None
  THEN {[sid |-> requests[c], owner |-> owners[c][requests[c]]]}
  ELSE Known(c)

\* a bug: a request that is new here is new everywhere
MutReceive(i, c) ==
  /\ copy[i].pc = "sent"
  /\ \/ \E meta \in AnswerKnown(c) : Allocated(i, meta)
     \/ /\ AnswerKnown(c) = {}
        /\ copy' = [copy EXCEPT ![i].pc = "allocate", ![i].at = c]
  /\ UNCHANGED <<store, table, chan, applying, overlap>>

Receive(i, c) ==
  /\ copy[i].pc = "sent"
  /\ \/ \E meta \in AnswerKnown(c) : Allocated(i, meta)
     \/ /\ AnswerKnown(c) = {}
        /\ copy' = [copy EXCEPT ![i].pc = IF Others(c) = {} THEN "allocate" ELSE "lookup",
                                ![i].at = c, ![i].left = Others(c)]
  /\ UNCHANGED <<store, table, chan, applying, overlap>>

\* a peer answers the snapshot request of lookupPeerCreateOwnerV2
Snapshot(i, d) ==
  /\ copy[i].pc = "lookup"
  /\ d \in copy[i].left
  /\ copy' = [copy EXCEPT ![i].left = @ \ {d}, ![i].found = @ \cup Known(d)]
  /\ UNCHANGED <<store, table, chan, applying, overlap>>

\* an owner that a peer named is passed on as it is: whichever was read last
Found(i) ==
  /\ copy[i].pc = "lookup"
  /\ \E meta \in copy[i].found : Allocated(i, meta)
  /\ UNCHANGED <<store, table, chan, applying, overlap>>

\* a bug: peers that did not answer in time are taken to know nothing
MutNotFound(i) ==
  /\ copy[i].pc = "lookup"
  /\ copy[i].found = {}
  /\ Finish(i, "allocate")
  /\ UNCHANGED <<store, table, chan, applying, overlap>>

\* with every peer heard of and no owner among the answers, allocate; with a
\* peer missing at the deadline the client has to come again
NotFound(i) ==
  /\ copy[i].pc = "lookup"
  /\ copy[i].found = {}
  /\ Finish(i, IF copy[i].left = {} THEN "allocate" ELSE "busy")
  /\ UNCHANGED <<store, table, chan, applying, overlap>>

\* AllocateSession: the store replays a request it has a record of
Allocate(i) ==
  /\ copy[i].pc = "allocate"
  /\ LET c == copy[i].at
         s == IF stored[c] # None THEN stored[c] ELSE c
     IN /\ stored' = [stored EXCEPT ![c] = s]
        /\ sessions' = [sessions EXCEPT ![c] = @ \cup {s}]
        /\ copy' = [copy EXCEPT ![i].pc = "note", ![i].sid = s]
  /\ UNCHANGED <<table, chan, applying, overlap>>

\* the client or its peer is not registered here
Refuse(i) ==
  /\ copy[i].pc = "allocate"
  /\ stored[copy[i].at] = None
  /\ Finish(i, "error")
  /\ UNCHANGED <<store, table, chan, applying, overlap>>

\* the new entry replaces whatever was there
NoteOwner(i) ==
  /\ copy[i].pc = "note"
  /\ owners' = [owners EXCEPT ![copy[i].at][copy[i].sid] = copy[i].at]
  /\ requests' = [requests EXCEPT ![copy[i].at] = copy[i].sid]
  /\ Finish(i, "sync")
  /\ UNCHANGED <<store, chan, applying, overlap>>

\* syncSessionLockedV2: the mutation names the owner of the entry
Sync(i) ==
  /\ copy[i].pc = "sync"
  /\ copy' = [copy EXCEPT ![i].pc = "publish", ![i].owner = owners[copy[i].at][copy[i].sid]]
  /\ UNCHANGED <<store, table, chan, applying, overlap>>

\* syncMutationV2: the mutation is applied here, where it may be refused like
\* everywhere else, and sent to everyone
Publish(i) ==
  /\ copy[i].pc = "publish"
  /\ LET c == copy[i].at
         s == copy[i].sid
         mut == [sid |-> s, owner |-> copy[i].owner, copy |-> i]
     IN IF owners[c][s] # mut.owner
        THEN Finish(i, "busy") /\ UNCHANGED <<requests, chan>>
        ELSE /\ requests' = [requests EXCEPT ![c] = s]
             /\ chan' = [chan EXCEPT ![c] = [d \in Coord |->
                           IF d = c THEN @[d] ELSE Append(@[d], mut)]]
             /\ copy' = [copy EXCEPT ![i].pc = "await", ![i].left = Others(c)]
  /\ UNCHANGED <<store, owners, applying, overlap>>

\* all peers have acknowledged
SyncDone(i) ==
  /\ copy[i].pc = "await"
  /\ copy[i].left = {}
  /\ copy' = [copy EXCEPT ![i].pc = "ok", ![i].synced = TRUE,
                          ![i].answer = [sid |-> copy[i].sid, owner |-> copy[i].at]]
  /\ UNCHANGED <<store, table, chan, applying, overlap>>

\* v2ClusterSyncTimeout
SyncTimeout(i) ==
  /\ copy[i].pc = "await"
  /\ copy[i].left # {}
  /\ Finish(i, "busy")
  /\ UNCHANGED <<store, table, chan, applying, overlap>>

-----------------------------------------------------------------------------
(* handleV2MgrSync and applyMutationV2, kind session                       *)

\* a bug: the first answer ends the wait, whatever it says
MutAck(i, d, ok) ==
  copy' = IF copy[i].pc # "await" THEN copy ELSE [copy EXCEPT ![i].left = {}]

\* the acknowledgement reaches a copy that still waits; a refusal ends the wait
Ack(i, d, ok) ==
  copy' = IF copy[i].pc # "await" THEN copy
          ELSE IF ok THEN [copy EXCEPT ![i].left = @ \ {d}]
          ELSE [copy EXCEPT ![i].pc = "busy"]

\* an entry under another owner refuses the mutation
Accepts(d, mut) == owners[d][mut.sid] \in {None, mut.owner}

\* importSessionReplicaV2: a session the store does not have comes with the
\* record of the request that created it
Import(c, d) ==
  /\ chan[c][d] # << >>
  /\ applying[d] = None
  /\ LET mut == Head(chan[c][d])
     IN IF Accepts(d, mut)
        THEN /\ sessions' = [sessions EXCEPT ![d] = @ \cup {mut.sid}]
             /\ stored' = [stored EXCEPT ![d] =
                             IF mut.sid \in sessions[d] THEN @ ELSE mut.sid]
             /\ applying' = [applying EXCEPT ![d] = [mut |-> mut, from |-> c]]
             /\ UNCHANGED copy
        ELSE /\ Ack(mut.copy, d, FALSE)
             /\ UNCHANGED <<store, applying>>
  /\ chan' = [chan EXCEPT ![c][d] = Tail(@)]
  /\ UNCHANGED <<table, overlap>>

\* the entry is made, or overwritten, under the lock taken anew
Enter(d) ==
  /\ applying[d] # None
  /\ LET mut == applying[d].mut
     IN /\ owners' = [owners EXCEPT ![d][mut.sid] = mut.owner]
        /\ requests' = [requests EXCEPT ![d] = mut.sid]
        /\ Ack(mut.copy, d, TRUE)
  /\ applying' = [applying EXCEPT ![d] = None]
  /\ UNCHANGED <<store, chan, overlap>>

-----------------------------------------------------------------------------
Next ==
  \/ \E i \in Copy : Send(i)
  \/ \E i \in Copy, c \in Coord : Receive(i, c) \/ Snapshot(i, c)
  \/ \E i \in Copy : Found(i) \/ NotFound(i) \/ Allocate(i) \/ Refuse(i)
                     \/ NoteOwner(i) \/ Sync(i) \/ Publish(i)
                     \/ SyncDone(i) \/ SyncTimeout(i)
  \/ \E c, d \in Coord : Import(c, d)
  \/ \E d \in Coord : Enter(d)

Spec == Init /\ [][Next]_vars

-----------------------------------------------------------------------------
(* Properties                                                              *)

\* A request that is retried after an answer, or after its handling has ended
\* without one, has one session, whichever coordinators the copies reach and
\* however late their synchronisations arrive: the peers are asked before a
\* session is allocated.  Copies that are handled at the same time can each be
\* told that the others know nothing, and allocate one session each.
OneSession ==
  ~overlap => Cardinality(UNION {sessions[c] : c \in Coord}) <= 1

\* Nor do two coordinators then regard themselves as the owner of the same
\* session: a command is handled where the owners table names the coordinator
\* itself and is forwarded everywhere else.
OneOwner ==
  ~overlap =>
    \A s, c, d \in Coord : owners[c][s] = c /\ owners[d][s] = d => c = d

\* The barrier before the reply: once a CREATE that allocated has been answered,
\* every coordinator can tell where the session is, and a command that reaches
\* one of them is forwarded and not refused.
BarrierHolds ==
  \A i \in Copy : copy[i].synced =>
    \A c \in Coord : owners[c][copy[i].answer.sid] # None

=============================================================================
