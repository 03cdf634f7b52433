-------------------------- MODULE P2PIngress_proofs --------------------------
(***************************************************************************)
(* Proofs about P2PIngress: what stopV2 has waited for stays away, whatever *)
(* the numbers of commands, workers and queue slots.                       *)
(*                                                                         *)
(* The two invariants are not inductive.  That no callback is inside the   *)
(* gate when the owner exit is published rests on ingressActive being the  *)
(* exact number of callbacks inside, on the gate having been closed before *)
(* stopV2 waits for that number to be zero, and on the workers having      *)
(* ended; that no subscription is left rests on the order of the stop and  *)
(* of the join under managerV2.mu.                                         *)
(***************************************************************************)
EXTENDS P2PIngress, FiniteSetTheorems, TLAPS

\* the callbacks that ingressActive counts
Inside == {c \in Cmd : callback[c] \in {"inside", "admitted", "handles", "leaves"}}

\* stopV2 has seen the gate empty
Drained == phase \in {"drained", "waited", "exited", "stopped"}

(* The gate: the counter is exact, a stop has closed the gate, and once it *)
(* was seen empty it is empty.  A command has no callback before it is     *)
(* delivered.                                                              *)
GateInv ==
  /\ \A c \in Cmd : state[c] = "new" => callback[c] = "none"
  /\ ingressActive = Cardinality(Inside)
  /\ phase \notin {"running", "cancelled"} => ~ingressOpen
  /\ Drained => Inside = {}

(* The join: the context is cancelled by the first step of the stop, and   *)
(* the subscriptions follow the loop that makes them.                      *)
JoinInv ==
  /\ cancelled <=> phase # "running"
  /\ phase \notin {"running", "cancelled", "closed"} => ~externalReady
  /\ subs = "some" => loop = "subscribed"
  /\ subs = "all" => loop = "ended"
  /\ phase = "stopped" => subs = "none"

(* The goroutines stopV2 waits for have ended when it goes on.             *)
GroupInv ==
  Leaving => loop = "ended" /\ \A w \in Worker : worker[w].pc = "ended"

IngressInv == TypeOK /\ GateInv /\ JoinInv /\ GroupInv

-----------------------------------------------------------------------------
(* Counting the callbacks inside the gate                                  *)

(* Any set of callbacks is finite and has at most as many members as there *)
(* are commands: ingressActive has a bound.                                *)
LEMMA InsideFinite ==
  ASSUME NEW S \in SUBSET Cmd
  PROVE  /\ IsFiniteSet(S)
         /\ Cardinality(S) \in 0..Cardinality(Cmd)
BY IngressAssumption, FS_Subset, FS_CardinalityType

(* A callback that enters (beginV2Ingress) makes the number one larger.    *)
LEMMA CountEnter ==
  ASSUME NEW S \in SUBSET Cmd, NEW c \in Cmd, c \notin S
  PROVE  Cardinality(S \cup {c}) = Cardinality(S) + 1
BY InsideFinite, FS_AddElement

(* A callback that leaves (endV2Ingress) makes it one smaller.             *)
LEMMA CountLeave ==
  ASSUME NEW S \in SUBSET Cmd, NEW c \in S
  PROVE  Cardinality(S \ {c}) = Cardinality(S) - 1
BY InsideFinite, FS_RemoveElement

(* The counter follows the callbacks through every step of a callback: it  *)
(* is changed by the two that cross the gate and by no other.              *)
LEMMA GateCounts ==
  ASSUME TypeOK, GateInv, NEW c \in Cmd, Callback(c)
  PROVE  /\ ingressActive' = Cardinality(Inside')
         /\ Drained => Inside' = {}
<1>1. Inside \in SUBSET Cmd /\ Inside' \in SUBSET Cmd
  BY DEF Inside
<1>2. CASE BeginIngress(c)
  <2>1. CASE ingressOpen
    <3>1. c \notin Inside /\ Inside' = Inside \cup {c}
      BY <1>2, <2>1 DEF BeginIngress, Inside, TypeOK
    <3>2. ~Drained
      BY <2>1 DEF GateInv, Drained
    <3>3. QED
      BY <1>1, <1>2, <2>1, <3>1, <3>2, CountEnter DEF BeginIngress, GateInv
  <2>2. CASE ~ingressOpen
    <3>1. Inside' = Inside
      BY <1>2, <2>2 DEF BeginIngress, Inside, TypeOK
    <3>2. QED
      BY <1>2, <2>2, <3>1 DEF BeginIngress, GateInv
  <2>3. QED BY <2>1, <2>2
<1>3. CASE EndIngress(c)
  <2>1. c \in Inside /\ Inside' = Inside \ {c}
    BY <1>3 DEF EndIngress, Inside, TypeOK
  <2>2. QED
    BY <1>1, <1>3, <2>1, CountLeave DEF EndIngress, GateInv
<1>4. CASE Admit(c) \/ Enqueue(c) \/ HandleRegister(c)
  <2>1. Inside' = Inside
    BY <1>4 DEF Admit, Enqueue, HandleRegister, Inside, TypeOK
  <2>2. ingressActive' = ingressActive
    BY <1>4 DEF Admit, Enqueue, HandleRegister, gate
  <2>3. QED BY <2>1, <2>2 DEF GateInv
<1>5. QED BY <1>2, <1>3, <1>4 DEF Callback

-----------------------------------------------------------------------------
(* Every step preserves the invariant                                      *)

(* A step that leaves the callbacks and the counter alone keeps the gate   *)
(* exact.                                                                  *)
LEMMA GateUnchanged ==
  ASSUME GateInv, UNCHANGED <<callback, ingressActive>>
  PROVE  ingressActive' = Cardinality(Inside') /\ Inside' = Inside
<1>1. Inside' = Inside BY DEF Inside
<1>2. QED BY <1>1 DEF GateInv

LEMMA SendPreserves ==
  ASSUME IngressInv, NEW c \in Cmd, Send(c)
  PROVE  IngressInv'
<1> USE DEF IngressInv
<1>1. Inside' = Inside
  BY DEF Send, Inside, GateInv, TypeOK
<1>2. TypeOK'
  BY DEF Send, TypeOK, gate, life
<1>3. GateInv'
  BY <1>1 DEF Send, GateInv, Drained, gate, life, TypeOK
<1>4. JoinInv' /\ GroupInv'
  BY DEF Send, JoinInv, GroupInv, Leaving, life
<1>5. QED BY <1>2, <1>3, <1>4

LEMMA CallbackPreserves ==
  ASSUME IngressInv, NEW c \in Cmd, Callback(c)
  PROVE  IngressInv'
<1> USE DEF IngressInv
<1>1. UNCHANGED <<ingressOpen, life, worker>>
  BY DEF Callback, BeginIngress, Admit, Enqueue, HandleRegister, EndIngress, gate
<1>2. ingressActive' = Cardinality(Inside') /\ (Drained => Inside' = {})
  BY GateCounts
<1>3. ingressActive' \in 0..Cardinality(Cmd)
  BY <1>2, InsideFinite DEF Inside
<1>4. callback' \in [Cmd -> {"none", "waits", "inside", "admitted", "handles",
                             "leaves", "left"}]
  BY DEF Callback, BeginIngress, Admit, Enqueue, HandleRegister, EndIngress, TypeOK
<1>5. state' \in [Cmd -> {"new", "sent", "queued", "taken", "ok", "busy", "lost"}]
  BY DEF Callback, BeginIngress, Admit, Enqueue, HandleRegister, EndIngress, TypeOK
<1>6. cmdQ' \in Seq(Cmd) /\ Len(cmdQ') <= QueueSize
  <2>1. CASE Enqueue(c) /\ Len(cmdQ) < QueueSize
    BY <2>1, IngressAssumption DEF Enqueue, TypeOK
  <2>2. CASE ~(Enqueue(c) /\ Len(cmdQ) < QueueSize)
    <3>1. cmdQ' = cmdQ
      BY <2>2 DEF Callback, BeginIngress, Admit, Enqueue, HandleRegister, EndIngress
    <3>2. QED BY <3>1 DEF TypeOK
  <2>3. QED BY <2>1, <2>2
<1>7. TypeOK'
  BY <1>1, <1>3, <1>4, <1>5, <1>6 DEF TypeOK, life
<1>8. GateInv'
  <2>1. \A b \in Cmd : state'[b] = "new" => callback'[b] = "none"
    BY DEF Callback, BeginIngress, Admit, Enqueue, HandleRegister, EndIngress,
           GateInv, TypeOK
  <2>2. QED BY <1>1, <1>2, <2>1 DEF GateInv, Drained, life
<1>9. JoinInv' /\ GroupInv'
  BY <1>1 DEF JoinInv, GroupInv, Leaving, life
<1>10. QED BY <1>7, <1>8, <1>9

(* A worker that has ended has no step left, so none of its steps is taken *)
(* once stopV2 has waited for it.                                          *)
LEMMA WorkPreserves ==
  ASSUME IngressInv, NEW w \in Worker, Work(w)
  PROVE  IngressInv'
<1> USE DEF IngressInv
<1>1. UNCHANGED <<gate, life, callback>>
  BY DEF Work, Take, WorkerStops, Dispatch, Finish
<1>2. worker[w].pc # "ended"
  BY DEF Work, Take, WorkerStops, Dispatch, Finish
<1>3. worker' \in [Worker -> [pc : {"idle", "took", "runs", "ended"},
                              cmd : Cmd \cup {None}]]
  <2>1. CASE Take(w)
    <3>1. Head(cmdQ) \in Cmd BY <2>1 DEF Take, TypeOK
    <3>2. QED BY <2>1, <3>1 DEF Take, TypeOK
  <2>2. CASE WorkerStops(w) BY <2>2 DEF WorkerStops, TypeOK
  <2>3. CASE Dispatch(w) BY <2>3 DEF Dispatch, TypeOK
  <2>4. CASE Finish(w) BY <2>4 DEF Finish, Free, TypeOK
  <2>5. QED BY <2>1, <2>2, <2>3, <2>4 DEF Work
<1>4. state' \in [Cmd -> {"new", "sent", "queued", "taken", "ok", "busy", "lost"}]
  BY DEF Work, Take, WorkerStops, Dispatch, Finish, TypeOK
<1>5. cmdQ' \in Seq(Cmd) /\ Len(cmdQ') <= QueueSize
  <2>1. CASE Take(w)
    BY <2>1, IngressAssumption DEF Take, TypeOK
  <2>2. CASE ~Take(w)
    <3>1. cmdQ' = cmdQ
      BY <2>2 DEF Work, WorkerStops, Dispatch, Finish
    <3>2. QED BY <3>1 DEF TypeOK
  <2>3. QED BY <2>1, <2>2
<1>6. TypeOK'
  BY <1>1, <1>3, <1>4, <1>5 DEF TypeOK, gate, life
<1>7. GateInv'
  <2>1. \A c \in Cmd : state'[c] = "new" => state[c] = "new"
    BY DEF Work, Take, WorkerStops, Dispatch, Finish, TypeOK
  <2>2. QED BY <1>1, <2>1, GateUnchanged DEF GateInv, Drained, gate, life
<1>8. JoinInv'
  BY <1>1 DEF JoinInv, life
<1>9. GroupInv'
  BY <1>1, <1>2 DEF GroupInv, Leaving, life
<1>10. QED BY <1>6, <1>7, <1>8, <1>9

(* The catch-up loop: a join that finds the context cancelled gives its    *)
(* subscriptions back, and the context is cancelled once the stop began.   *)
LEMMA JoinLoopPreserves ==
  ASSUME IngressInv, JoinLoop \/ SubscribeFails
  PROVE  IngressInv'
<1> USE DEF IngressInv
<1>1. UNCHANGED <<gate, cancelled, stop, phase, cmdQ, callback, worker, state>>
  BY DEF JoinLoop, CatchUpDone, LoopCancelled, Subscribe, Join, SubscribeFails
<1>2. loop # "ended"
  BY DEF JoinLoop, CatchUpDone, LoopCancelled, Subscribe, Join, SubscribeFails
<1>3. TypeOK'
  BY <1>1 DEF JoinLoop, CatchUpDone, LoopCancelled, Subscribe, Join, SubscribeFails,
              TypeOK, Loop, gate
<1>4. GateInv'
  BY <1>1, GateUnchanged DEF GateInv, Drained, gate
<1>5. GroupInv'
  BY <1>1, <1>2 DEF GroupInv, Leaving
<1>6. JoinInv'
  <2>1. phase # "stopped"
    BY <1>2 DEF GroupInv, Leaving
  <2>2. QED
    BY <1>1, <2>1 DEF JoinLoop, CatchUpDone, LoopCancelled, Subscribe, Join,
                      SubscribeFails, JoinInv
<1>7. QED BY <1>3, <1>4, <1>5, <1>6

(* stopV2: each wait lets it pass only when what the later phases claim is *)
(* true.                                                                   *)
LEMMA StopPreserves ==
  ASSUME IngressInv, CancelCatchUp \/ Stopping
  PROVE  IngressInv'
<1> USE DEF IngressInv, StopStep
<1>1. UNCHANGED <<ingressActive, loop, cmdQ, callback, worker, state>>
  BY DEF CancelCatchUp, Stopping, CloseIngress, ClearReady, CloseStop, AwaitIngress,
         AwaitGroup, OwnerExit, Unsubscribe, gate
<1>2. TypeOK'
  BY <1>1 DEF CancelCatchUp, Stopping, CloseIngress, ClearReady, CloseStop,
              AwaitIngress, AwaitGroup, OwnerExit, Unsubscribe, TypeOK, Phase, gate
<1>3. GateInv'
  <2>1. ingressActive' = Cardinality(Inside') /\ Inside' = Inside
    BY <1>1, GateUnchanged
  <2>2. ingressActive = 0 => Inside = {}
    BY InsideFinite, FS_EmptySet DEF GateInv, Inside
  <2>3. QED
    BY <2>1, <2>2 DEF CancelCatchUp, Stopping, CloseIngress, ClearReady, CloseStop,
                      AwaitIngress, AwaitGroup, OwnerExit, Unsubscribe, GateInv,
                      Drained, gate
<1>4. GroupInv'
  BY <1>1 DEF CancelCatchUp, Stopping, CloseIngress, ClearReady, CloseStop,
              AwaitIngress, AwaitGroup, OwnerExit, Unsubscribe, GroupInv, Leaving
<1>5. JoinInv'
  <2>1. phase = "exited" => loop = "ended"
    BY DEF GroupInv, Leaving
  <2>2. QED
    BY <1>1, <2>1 DEF CancelCatchUp, Stopping, CloseIngress, ClearReady, CloseStop,
                      AwaitIngress, AwaitGroup, OwnerExit, Unsubscribe, JoinInv, TypeOK
<1>6. QED BY <1>2, <1>3, <1>4, <1>5

-----------------------------------------------------------------------------
(* Theorems                                                                *)

(* The inductive invariant of the ingress: the gate counts, the join and   *)
(* the stop agree, and the goroutines that were waited for have ended.     *)
THEOREM IngressInvariant == Spec => []IngressInv
<1>1. Init => IngressInv
  <2> SUFFICES ASSUME Init PROVE IngressInv OBVIOUS
  <2>1. Inside = {} BY DEF Init, Inside
  <2>2. TypeOK
    <3>1. 0 \in 0..Cardinality(Cmd)
      BY InsideFinite, FS_EmptySet
    <3>2. cmdQ \in Seq(Cmd) /\ Len(cmdQ) <= QueueSize
      BY IngressAssumption DEF Init
    <3>3. worker \in [Worker -> [pc : {"idle", "took", "runs", "ended"},
                                 cmd : Cmd \cup {None}]]
      BY DEF Init, Free
    <3>4. QED
      BY <3>1, <3>2, <3>3 DEF Init, TypeOK, Phase, Loop
  <2>3. GateInv BY <2>1, FS_EmptySet DEF Init, GateInv, Drained
  <2>4. JoinInv /\ GroupInv BY DEF Init, JoinInv, GroupInv, Leaving
  <2>5. QED BY <2>2, <2>3, <2>4 DEF IngressInv
<1>2. IngressInv /\ [Next]_vars => IngressInv'
  <2> SUFFICES ASSUME IngressInv, [Next]_vars PROVE IngressInv' OBVIOUS
  <2>1. CASE \E c \in Cmd : Send(c) \/ Callback(c)
    BY <2>1, SendPreserves, CallbackPreserves
  <2>2. CASE \E w \in Worker : Work(w)
    BY <2>2, WorkPreserves
  <2>3. CASE JoinLoop \/ SubscribeFails
    BY <2>3, JoinLoopPreserves
  <2>4. CASE CancelCatchUp \/ Stopping
    BY <2>4, StopPreserves
  <2>5. CASE UNCHANGED vars
    <3>1. Inside' = Inside BY <2>5 DEF vars, Inside
    <3>2. QED
      BY <2>5, <3>1 DEF IngressInv, vars, gate, life, TypeOK, GateInv, JoinInv,
                        GroupInv, Leaving, Drained
  <2>6. QED BY <2>1, <2>2, <2>3, <2>4, <2>5 DEF Next
<1>3. QED BY <1>1, <1>2, PTL DEF Spec

(* When stopV2 publishes the owner exit, and ever after, no callback is    *)
(* inside the gate and every worker has ended, for any number of commands, *)
(* workers and queue slots.                                                *)
THEOREM ExitIsQuiet == Spec => []QuietExit
<1>1. IngressInv => QuietExit
  BY DEF IngressInv, TypeOK, GateInv, GroupInv, QuietExit, Leaving, Drained, Inside
<1>2. QED BY <1>1, IngressInvariant, PTL

(* A join under way never undoes the stop: externalReady stays cleared and *)
(* no subscription to the queue group survives stopV2.                     *)
THEOREM StopStays == Spec => []StopIsFinal
<1>1. IngressInv => StopIsFinal
  BY DEF IngressInv, JoinInv, StopIsFinal
<1>2. QED BY <1>1, IngressInvariant, PTL
=============================================================================
