---------------------------- MODULE P2PRegister ----------------------------
(***************************************************************************)
(* The occupancy of one node key on a cluster of coordinators: REGISTER    *)
(* (handleRegisterV2), its two synchronisations, the disconnect events of  *)
(* the system account (handleDisconnectV2) and the expiry of a             *)
(* disconnected node.                                                      *)
(*                                                                         *)
(* Every coordinator keeps two records of a node, under two locks: the     *)
(* registration in StoreV2.nodes and the binding to a connection in        *)
(* managerV2.nodes.  A REGISTER and a disconnect event each touch both, in *)
(* separate critical sections, and run in callbacks of their own.          *)
(*                                                                         *)
(* An agent that follows docs/raypx2-integrate.md uses a new registration  *)
(* ID and request ID on every connection and repeats both when it retries, *)
(* so that the number of the connection stands for all three.  REGISTERs   *)
(* of one coordinator are handled one at a time, in the order they arrive, *)
(* and the mutations it publishes stay in order; those of two coordinators *)
(* are not ordered.  A coordinator receives its own mutations too and      *)
(* finds them applied: that is left out, as is the registration epoch.     *)
(* Peers that come and go are the subject of P2PCluster.                   *)
(***************************************************************************)
EXTENDS Integers, Sequences, FiniteSets

CONSTANTS
  Coord,      \* coordinators, each beside its own NATS server
  MaxConns,   \* bound: connections the agent opens
  MaxSends,   \* bound: REGISTERs sent
  None        \* no record

ASSUME RegisterAssumption ==
  /\ IsFiniteSet(Coord)
  /\ MaxConns \in Nat \ {0}
  /\ MaxSends \in Nat \ {0}

Conn == 1..MaxConns

\* v2MgrMutation of kind register.  await: its sender still waits for the answers
Mutation == [reg : Conn, cid : Conn, pending : BOOLEAN, await : BOOLEAN]

\* nodeRecordV2 and v2NodeBinding
NodeRec == [reg : Conn, disc : BOOLEAN]
Binding == [reg : Conn, cid : Conn, pending : BOOLEAN]

VARIABLES
  home,      \* the server of each connection opened so far
  up,        \* connections the servers list in connz
  sends,     \* number of REGISTERs sent
  reply,     \* what the agent knows of its REGISTER, by connection
  queue,     \* REGISTERs that wait for the callback, by coordinator
  handler,   \* the REGISTER each coordinator is handling
  chan,      \* mutations on the way: chan[c][d] from c to d
  applying,  \* the mutation each coordinator has stored and not yet bound
  node,      \* StoreV2.nodes
  known,     \* StoreV2.requests: REGISTER requests with a record
  bind,      \* managerV2.nodes
  gone,      \* disconnect events on the way to each coordinator
  marking,   \* handleDisconnectV2 has checked the binding and not yet marked
  latest,    \* the registration handled last, anywhere; 0 before the first
  raced      \* a REGISTER met, or came after, a later REGISTER or disconnect

agent == <<home, up, sends, reply>>
stored == <<node, known>>
events == <<gone, marking>>
history == <<latest, raced>>
vars == <<agent, queue, handler, chan, applying, stored, bind, events, history>>

Idle == [pc |-> "idle", reg |-> 0, cid |-> 0, pending |-> FALSE, acks |-> {}]
Reply == {"none", "waiting", "ok", "busy", "refused"}

TypeOK ==
  /\ home \in Seq(Coord) /\ Len(home) <= MaxConns
  /\ up \subseteq DOMAIN home
  /\ sends \in 0..MaxSends
  /\ reply \in [Conn -> Reply]
  /\ queue \in [Coord -> Seq(Conn)]
  /\ handler \in [Coord -> {Idle} \cup
       [pc : {"store", "sync", "await"}, reg : Conn, cid : Conn,
        pending : BOOLEAN, acks : SUBSET Coord]]
  /\ \A c, d \in Coord : chan[c][d] \in Seq(Mutation)
  /\ applying \in [Coord -> [from : Coord, mut : Mutation] \cup {None}]
  /\ node \in [Coord -> NodeRec \cup {None}]
  /\ known \in [Coord -> SUBSET Conn]
  /\ bind \in [Coord -> Binding \cup {None}]
  /\ gone \in [Coord -> SUBSET Conn]
  /\ marking \in [Coord -> BOOLEAN]
  /\ latest \in 0..MaxConns
  /\ raced \in BOOLEAN

Init ==
  /\ home = << >>
  /\ up = {}
  /\ sends = 0
  /\ reply = [x \in Conn |-> "none"]
  /\ queue = [c \in Coord |-> << >>]
  /\ handler = [c \in Coord |-> Idle]
  /\ chan = [c \in Coord |-> [d \in Coord |-> << >>]]
  /\ applying = [c \in Coord |-> None]
  /\ node = [c \in Coord |-> None]
  /\ known = [c \in Coord |-> {}]
  /\ bind = [c \in Coord |-> None]
  /\ gone = [c \in Coord |-> {}]
  /\ marking = [c \in Coord |-> FALSE]
  /\ latest = 0
  /\ raced = FALSE

Others(c) == Coord \ {c}

\* mutations on the way or half applied that coordinator c published
Underway(c) ==
  \/ \E d \in Coord : chan[c][d] # << >>
  \/ \E d \in Coord : applying[d] # None /\ applying[d].from = c

\* a REGISTER is being handled, or still being applied somewhere
Registering(c) == handler[c] # Idle \/ Underway(c)

-----------------------------------------------------------------------------
(* The agent                                                               *)

Connect(c) ==
  /\ Len(home) < MaxConns
  /\ home' = Append(home, c)
  /\ up' = up \cup {Len(home')}
  /\ UNCHANGED <<sends, reply, queue, handler, chan, applying, stored, bind,
                 events, history>>

\* the connection ends and its server publishes a disconnect event
Drop(x) ==
  /\ x \in up
  /\ up' = up \ {x}
  /\ gone' = [c \in Coord |-> gone[c] \cup {x}]
  /\ raced' = (raced \/ \E c \in Coord : Registering(c))
  /\ UNCHANGED <<home, sends, reply, queue, handler, chan, applying, stored, bind,
                 marking, latest>>

\* REGISTER, and its retry with the same request ID; an agent that has connected
\* anew does not use its former connection, which may still be listed
Send(x) ==
  /\ x \in up
  /\ x = Len(home)
  /\ reply[x] \in {"none", "busy"}
  /\ sends < MaxSends
  /\ sends' = sends + 1
  /\ reply' = [reply EXCEPT ![x] = "waiting"]
  /\ queue' = [queue EXCEPT ![home[x]] = Append(@, x)]
  /\ UNCHANGED <<home, up, handler, chan, applying, stored, bind, events, history>>

-----------------------------------------------------------------------------
(* handleRegisterV2                                                        *)

\* lookupNamedAgentConns: connz of this server only
NamedConns(c) == {y \in up : home[y] = c}

\* a registration ID that is bound to another connection
Conflict(c, x, cid) == bind[c] # None /\ bind[c].reg = x /\ bind[c].cid # cid

\* mutant: any number of connections of the name will do
MutStartRegister(c) ==
  /\ handler[c] = Idle
  /\ queue[c] # << >>
  /\ NamedConns(c) # {}
  /\ LET x == Head(queue[c]) IN
       \E cid \in NamedConns(c) :
         /\ handler' = [handler EXCEPT ![c] =
              [Idle EXCEPT !.pc = "store", !.reg = x, !.cid = cid, !.pending = TRUE]]
         /\ latest' = x
  /\ queue' = [queue EXCEPT ![c] = Tail(@)]
  /\ UNCHANGED <<agent, chan, applying, stored, bind, events, raced>>

\* exactly one connection must have the name, and a registration stays with its
\* connection
StartRegister(c) ==
  /\ handler[c] = Idle
  /\ queue[c] # << >>
  /\ queue' = [queue EXCEPT ![c] = Tail(@)]
  /\ LET x == Head(queue[c]) IN
       \/ /\ Cardinality(NamedConns(c)) # 1
          /\ reply' = [reply EXCEPT ![x] = "busy"]
          /\ UNCHANGED <<handler, history>>
       \/ \E cid \in NamedConns(c) :
            /\ NamedConns(c) = {cid}
            /\ IF Conflict(c, x, cid)
               THEN /\ reply' = [reply EXCEPT ![x] = "refused"]
                    /\ UNCHANGED <<handler, history>>
               ELSE /\ handler' = [handler EXCEPT ![c] =
                         [Idle EXCEPT !.pc = "store", !.reg = x, !.cid = cid,
                                      !.pending = TRUE]]
                    /\ latest' = x
                    /\ raced' = (\/ raced
                                 \/ x # cid \/ x < latest
                                 \/ \E d \in Others(c) : Registering(d)
                                 \/ \E d \in Coord : marking[d])
                    /\ UNCHANGED reply
  /\ UNCHANGED <<home, up, sends, chan, applying, stored, bind, events>>

\* StoreV2.RegisterNode: a request with a record changes nothing
RegisterNode(c, x) ==
  /\ known' = [known EXCEPT ![c] = @ \cup {x}]
  /\ node' = IF x \in known[c] THEN node
             ELSE [node EXCEPT ![c] = [reg |-> x, disc |-> FALSE]]

StoreRegistration(c) ==
  /\ handler[c].pc = "store"
  /\ RegisterNode(c, handler[c].reg)
  /\ handler' = [handler EXCEPT ![c].pc = "sync"]
  /\ UNCHANGED <<agent, queue, chan, applying, bind, events, history>>

\* the REGISTER is answered r
Answer(c, r) ==
  /\ reply' = [reply EXCEPT ![handler[c].reg] = r]
  /\ handler' = [handler EXCEPT ![c] = Idle]

\* syncMutationV2: the mutation is applied here (applyMutationV2; the store has the
\* request already) and published.  What others do between the two is as well done
\* before or after both.
SyncMutation(c) ==
  LET h == handler[c]
      mut == [reg |-> h.reg, cid |-> h.cid, pending |-> h.pending, await |-> TRUE]
  IN
  /\ h.pc = "sync"
  /\ IF Conflict(c, h.reg, h.cid)
     THEN Answer(c, "busy") /\ UNCHANGED <<bind, chan>>
     ELSE /\ bind' = [bind EXCEPT ![c] =
               [reg |-> h.reg, cid |-> h.cid, pending |-> h.pending]]
          /\ chan' = [chan EXCEPT ![c] =
               [d \in Coord |-> IF d = c THEN @[d] ELSE Append(@[d], mut)]]
          /\ handler' = [handler EXCEPT ![c].pc = "await", ![c].acks = {}]
          /\ UNCHANGED reply
  /\ UNCHANGED <<home, up, sends, queue, applying, stored, events, history>>

\* mutant: one acknowledgement less will do
MutSynced(c) ==
  /\ handler[c].pc = "await"
  /\ Cardinality(handler[c].acks) + 1 >= Cardinality(Others(c))
  /\ IF handler[c].pending
     THEN /\ handler' = [handler EXCEPT ![c].pc = "sync", ![c].pending = FALSE]
          /\ UNCHANGED reply
     ELSE Answer(c, "ok")
  /\ UNCHANGED <<home, up, sends, queue, chan, applying, stored, bind, events,
                 history>>

\* every coordinator has acknowledged: the pending registration is made final, the
\* final one is answered
Synced(c) ==
  /\ handler[c].pc = "await"
  /\ handler[c].acks = Others(c)
  /\ IF handler[c].pending
     THEN /\ handler' = [handler EXCEPT ![c].pc = "sync", ![c].pending = FALSE]
          /\ UNCHANGED reply
     ELSE Answer(c, "ok")
  /\ UNCHANGED <<home, up, sends, queue, chan, applying, stored, bind, events,
                 history>>

\* nobody waits for the answers to the mutations of c any more
StopAwaiting(c) ==
  /\ chan' = [chan EXCEPT ![c] = [d \in Coord |->
       [i \in DOMAIN @[d] |-> [@[d][i] EXCEPT !.await = FALSE]]]]
  /\ applying' = [d \in Coord |->
       IF applying[d] # None /\ applying[d].from = c
       THEN [applying[d] EXCEPT !.mut.await = FALSE] ELSE applying[d]]

\* v2ClusterSyncTimeout passes: busy, and the mutation may still be applied
SyncTimeout(c) ==
  /\ handler[c].pc = "await"
  /\ handler[c].acks # Others(c)
  /\ Answer(c, "busy")
  /\ StopAwaiting(c)
  /\ UNCHANGED <<home, up, sends, queue, stored, bind, events, history>>

-----------------------------------------------------------------------------
(* handleV2MgrSync on another coordinator, for a register mutation         *)

ReceiveMutation(c, d) ==
  /\ applying[d] = None
  /\ chan[c][d] # << >>
  /\ RegisterNode(d, Head(chan[c][d]).reg)
  /\ applying' = [applying EXCEPT ![d] = [from |-> c, mut |-> Head(chan[c][d])]]
  /\ chan' = [chan EXCEPT ![c][d] = Tail(@)]
  /\ UNCHANGED <<agent, queue, handler, bind, events, history>>

\* a refusal ends the sender's wait
BindMutation(d) ==
  /\ applying[d] # None
  /\ applying' = [applying EXCEPT ![d] = None]
  /\ LET mut == applying[d].mut
         c   == applying[d].from
     IN IF Conflict(d, mut.reg, mut.cid)
        THEN /\ IF mut.await THEN Answer(c, "busy") ELSE UNCHANGED <<handler, reply>>
             /\ UNCHANGED bind
        ELSE /\ bind' = [bind EXCEPT ![d] =
                  [reg |-> mut.reg, cid |-> mut.cid, pending |-> mut.pending]]
             /\ handler' = IF mut.await
                           THEN [handler EXCEPT ![c].acks = @ \cup {d}] ELSE handler
             /\ UNCHANGED reply
  /\ UNCHANGED <<home, up, sends, queue, chan, stored, events, history>>

-----------------------------------------------------------------------------
(* handleDisconnectV2 and expiry                                           *)

\* mutants: the connection of the event is not compared; the event is ignored
MutDisconnectAny(c, x) ==
  /\ x \in gone[c]
  /\ ~marking[c]
  /\ gone' = [gone EXCEPT ![c] = @ \ {x}]
  /\ marking' = [marking EXCEPT ![c] = (bind[c] # None)]
  /\ raced' = (raced \/ \E d \in Coord : Registering(d))
  /\ UNCHANGED <<agent, queue, handler, chan, applying, stored, bind, latest>>

MutDisconnectPending(c, x) ==
  /\ x \in gone[c]
  /\ ~marking[c]
  /\ gone' = [gone EXCEPT ![c] = @ \ {x}]
  /\ marking' = [marking EXCEPT ![c] =
       (bind[c] # None /\ bind[c].cid = x /\ ~bind[c].pending)]
  /\ raced' = (raced \/ \E d \in Coord : Registering(d))
  /\ UNCHANGED <<agent, queue, handler, chan, applying, stored, bind, latest>>

\* only the connection the node is bound to counts
CheckDisconnect(c, x) ==
  /\ x \in gone[c]
  /\ ~marking[c]
  /\ gone' = [gone EXCEPT ![c] = @ \ {x}]
  /\ marking' = [marking EXCEPT ![c] = (bind[c] # None /\ bind[c].cid = x)]
  /\ raced' = (raced \/ \E d \in Coord : Registering(d))
  /\ UNCHANGED <<agent, queue, handler, chan, applying, stored, bind, latest>>

\* StoreV2.MarkNodeDisconnected, after managerV2.mu is released
MarkNodeDisconnected(c) ==
  /\ marking[c]
  /\ marking' = [marking EXCEPT ![c] = FALSE]
  /\ node' = IF node[c] = None THEN node ELSE [node EXCEPT ![c].disc = TRUE]
  /\ UNCHANGED <<agent, queue, handler, chan, applying, known, bind, gone, history>>

\* StoreV2.Expire, once nodeGrace has passed
ExpireNode(c) ==
  /\ node[c] # None
  /\ node[c].disc
  /\ node' = [node EXCEPT ![c] = None]
  /\ UNCHANGED <<agent, queue, handler, chan, applying, known, bind, events, history>>

-----------------------------------------------------------------------------
Next ==
  \/ \E x \in Conn : Drop(x) \/ Send(x)
  \/ \E c \in Coord :
       \/ Connect(c)
       \/ StartRegister(c) \/ StoreRegistration(c) \/ SyncMutation(c)
       \/ Synced(c) \/ SyncTimeout(c)
       \/ \E d \in Others(c) : ReceiveMutation(c, d)
       \/ BindMutation(c)
       \/ \E x \in Conn : CheckDisconnect(c, x)
       \/ MarkNodeDisconnected(c) \/ ExpireNode(c)

Spec == Init /\ [][Next]_vars

-----------------------------------------------------------------------------
(* Properties                                                              *)

Quiet == \A c \in Coord : ~Registering(c) /\ gone[c] = {} /\ ~marking[c]

(* Never two successes: of the connections that one server lists at a time, *)
(* at most one has been answered that it is registered.                     *)
OneOccupantPerServer ==
  \A x, y \in up :
    reply[x] = "ok" /\ reply[y] = "ok" /\ home[x] = home[y] => x = y

(* When REGISTERs and disconnects have not met, an agent that was told it    *)
(* is registered, and that is still connected, is registered and bound on   *)
(* every coordinator and not about to expire on any: late disconnect events *)
(* of its former connections do not count.                                  *)
OkMeansOccupied ==
  ~raced /\ latest \in up /\ reply[latest] = "ok" =>
    \A c \in Coord :
      /\ node[c] = [reg |-> latest, disc |-> FALSE]
      /\ bind[c] = [reg |-> latest, cid |-> latest, pending |-> FALSE]

(* When REGISTERs and disconnects have not met, an agent that has gone is on *)
(* its way out everywhere, also when its REGISTER had failed half way.       *)
GoneIsLeaving ==
  ~raced /\ Quiet /\ latest \notin up =>
    \A c \in Coord : node[c] = None \/ node[c].disc
=============================================================================
