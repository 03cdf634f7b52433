----------------------------- MODULE P2PIngress -----------------------------
(***************************************************************************)
(* How commands enter a coordinator and leave it again (p2p/manager_v2.go, *)
(* handleV2Command to v2Worker, and handleV2MgrCommand): the ingress gate, *)
(* the bounded command queue and its workers, the joining of the queue     *)
(* group by the catch-up loop, and stopV2, which races with all of them.   *)
(*                                                                         *)
(* A command is a REGISTER, which its callback handles itself, an external *)
(* command of the queue group, or a command another coordinator forwards.  *)
(* What a handler does is the subject of the other modules; all of them    *)
(* end, since their waits have timeouts or watch the stop channel.  The    *)
(* retry and expiry loops end like the workers and are left out.           *)
(***************************************************************************)
EXTENDS Integers, Sequences, FiniteSets

CONSTANTS
  Register, External, Forwarded,   \* the commands that come in
  Worker,                          \* v2DefaultWorkers
  QueueSize,                       \* v2DefaultCmdQueue
  None                             \* no command

Cmd == Register \cup External \cup Forwarded

ASSUME IngressAssumption ==
  /\ Register \cap External = {}
  /\ Register \cap Forwarded = {}
  /\ External \cap Forwarded = {}
  /\ None \notin Cmd
  /\ IsFiniteSet(Cmd)
  /\ QueueSize \in Nat \ {0}

VARIABLES
  ingressOpen,
  ingressActive,
  externalReady,
  cancelled,    \* catchUpCtx
  stop,         \* the stop channel is closed
  phase,        \* how far stopV2 is
  loop,         \* how far catchUpLoopV2 is
  subs,         \* subscriptions to the queue group: none, some (of a join under
                \* way), all (known to stopV2)
  cmdQ,
  callback,     \* where the callback of each command is
  worker,       \* the command each worker has taken
  state         \* what has become of each command

gate == <<ingressOpen, ingressActive>>
life == <<externalReady, cancelled, stop, phase, loop, subs>>
vars == <<gate, life, cmdQ, callback, worker, state>>

Phase == {"running", "cancelled", "closed", "notready", "stopping", "drained",
          "waited", "exited", "stopped"}
Loop == {"catchup", "subscribing", "subscribed", "ended"}

TypeOK ==
  /\ ingressOpen \in BOOLEAN
  /\ ingressActive \in 0..Cardinality(Cmd)
  /\ externalReady \in BOOLEAN /\ cancelled \in BOOLEAN /\ stop \in BOOLEAN
  /\ phase \in Phase
  /\ loop \in Loop
  /\ subs \in {"none", "some", "all"}
  /\ cmdQ \in Seq(Cmd) /\ Len(cmdQ) <= QueueSize
  /\ callback \in [Cmd -> {"none", "waits", "inside", "admitted", "handles",
                           "leaves", "left"}]
  /\ worker \in [Worker -> [pc : {"idle", "took", "runs", "ended"},
                            cmd : Cmd \cup {None}]]
  /\ state \in [Cmd -> {"new", "sent", "queued", "taken", "ok", "busy", "lost"}]

Free == [pc |-> "idle", cmd |-> None]

Init ==
  /\ ingressOpen = TRUE
  /\ ingressActive = 0
  /\ externalReady = FALSE /\ cancelled = FALSE /\ stop = FALSE
  /\ phase = "running"
  /\ loop = "catchup"
  /\ subs = "none"
  /\ cmdQ = << >>
  /\ callback = [c \in Cmd |-> "none"]
  /\ worker = [w \in Worker |-> Free]
  /\ state = [c \in Cmd |-> "new"]

-----------------------------------------------------------------------------
(* handleV2Command and handleV2MgrCommand                                  *)

\* a message is delivered: REGISTERs and forwarded commands have subscriptions of
\* their own from the start
Send(c) ==
  /\ state[c] = "new"
  /\ phase # "stopped"
  /\ c \in External => subs # "none"
  /\ state' = [state EXCEPT ![c] = "sent"]
  /\ callback' = [callback EXCEPT ![c] = "waits"]
  /\ UNCHANGED <<gate, life, cmdQ, worker>>

\* beginV2Ingress; a command forwarded to a closed gate gets no answer
BeginIngress(c) ==
  /\ callback[c] = "waits"
  /\ IF ingressOpen
     THEN /\ ingressActive' = ingressActive + 1
          /\ callback' = [callback EXCEPT ![c] = "inside"]
          /\ UNCHANGED state
     ELSE /\ state' = [state EXCEPT ![c] = IF c \in Forwarded THEN "lost" ELSE "busy"]
          /\ callback' = [callback EXCEPT ![c] = "left"]
          /\ UNCHANGED ingressActive
  /\ UNCHANGED <<ingressOpen, life, cmdQ, worker>>

\* v2ExternalBlocked: a registration is being synchronised
Blocked == \E r \in Register : callback[r] = "handles"

MayEnter(c) ==
  /\ c \in Register \cup External => externalReady
  /\ c \in External => ~Blocked

Admit(c) ==
  /\ callback[c] = "inside"
  /\ IF MayEnter(c)
     THEN /\ callback' = [callback EXCEPT ![c] =
               IF c \in Register THEN "handles" ELSE "admitted"]
          /\ UNCHANGED state
     ELSE /\ state' = [state EXCEPT ![c] = "busy"]
          /\ callback' = [callback EXCEPT ![c] = "leaves"]
  /\ UNCHANGED <<gate, life, cmdQ, worker>>

\* mutant: a full queue swallows the command
MutEnqueueSwallows(c) ==
  /\ callback[c] = "admitted"
  /\ callback' = [callback EXCEPT ![c] = "leaves"]
  /\ state' = [state EXCEPT ![c] = "queued"]
  /\ cmdQ' = IF Len(cmdQ) < QueueSize THEN Append(cmdQ, c) ELSE cmdQ
  /\ UNCHANGED <<gate, life, worker>>

\* a full queue is answered busy
Enqueue(c) ==
  /\ callback[c] = "admitted"
  /\ callback' = [callback EXCEPT ![c] = "leaves"]
  /\ IF Len(cmdQ) < QueueSize
     THEN cmdQ' = Append(cmdQ, c) /\ state' = [state EXCEPT ![c] = "queued"]
     ELSE state' = [state EXCEPT ![c] = "busy"] /\ UNCHANGED cmdQ
  /\ UNCHANGED <<gate, life, worker>>

\* handleRegisterV2, inside the gate
HandleRegister(c) ==
  /\ callback[c] = "handles"
  /\ callback' = [callback EXCEPT ![c] = "leaves"]
  /\ state' = [state EXCEPT ![c] = "ok"]
  /\ UNCHANGED <<gate, life, cmdQ, worker>>

\* mutant: a refused command does not leave the gate
MutEndIngress(c) ==
  /\ callback[c] = "leaves"
  /\ callback' = [callback EXCEPT ![c] = "left"]
  /\ ingressActive' = IF state[c] = "busy" THEN ingressActive ELSE ingressActive - 1
  /\ UNCHANGED <<ingressOpen, life, cmdQ, worker, state>>

\* endV2Ingress
EndIngress(c) ==
  /\ callback[c] = "leaves"
  /\ callback' = [callback EXCEPT ![c] = "left"]
  /\ ingressActive' = ingressActive - 1
  /\ UNCHANGED <<ingressOpen, life, cmdQ, worker, state>>

-----------------------------------------------------------------------------
(* v2Worker                                                                *)

\* the select may choose the queue although the stop channel is closed, too
Take(w) ==
  /\ worker[w].pc = "idle"
  /\ cmdQ # << >>
  /\ cmdQ' = Tail(cmdQ)
  /\ worker' = [worker EXCEPT ![w] = [pc |-> "took", cmd |-> Head(cmdQ)]]
  /\ state' = [state EXCEPT ![Head(cmdQ)] = "taken"]
  /\ UNCHANGED <<gate, life, callback>>

WorkerStops(w) ==
  /\ worker[w].pc = "idle"
  /\ stop
  /\ worker' = [worker EXCEPT ![w].pc = "ended"]
  /\ UNCHANGED <<gate, life, cmdQ, callback, state>>

\* a worker that finds the stop channel closed drops what it took
Dispatch(w) ==
  /\ worker[w].pc = "took"
  /\ IF stop
     THEN /\ worker' = [worker EXCEPT ![w] = [pc |-> "ended", cmd |-> None]]
          /\ state' = [state EXCEPT ![worker[w].cmd] = "lost"]
     ELSE /\ worker' = [worker EXCEPT ![w].pc = "runs"]
          /\ UNCHANGED state
  /\ UNCHANGED <<gate, life, cmdQ, callback>>

\* dispatchV2 has answered
Finish(w) ==
  /\ worker[w].pc = "runs"
  /\ worker' = [worker EXCEPT ![w] = Free]
  /\ state' = [state EXCEPT ![worker[w].cmd] = "ok"]
  /\ UNCHANGED <<gate, life, cmdQ, callback>>

-----------------------------------------------------------------------------
(* catchUpLoopV2 and joinExternalQueueV2                                   *)

CatchUpDone ==
  /\ loop = "catchup"
  /\ ~cancelled
  /\ loop' = "subscribing"
  /\ UNCHANGED <<gate, externalReady, cancelled, stop, phase, subs, cmdQ, callback,
                 worker, state>>

LoopCancelled ==
  /\ loop = "catchup"
  /\ cancelled
  /\ loop' = "ended"
  /\ UNCHANGED <<gate, externalReady, cancelled, stop, phase, subs, cmdQ, callback,
                 worker, state>>

Subscribe ==
  /\ loop = "subscribing"
  /\ subs' = "some"
  /\ loop' = "subscribed"
  /\ UNCHANGED <<gate, externalReady, cancelled, stop, phase, cmdQ, callback, worker,
                 state>>

\* a subscription or the flush fails: the others are given back and the loop waits
SubscribeFails ==
  /\ loop = "subscribed"
  /\ subs' = "none"
  /\ loop' = "catchup"
  /\ UNCHANGED <<gate, externalReady, cancelled, stop, phase, cmdQ, callback, worker,
                 state>>

\* mutant: the context is not looked at again under the lock
MutJoin ==
  /\ loop = "subscribed"
  /\ subs' = "all" /\ externalReady' = TRUE
  /\ loop' = "ended"
  /\ UNCHANGED <<gate, cancelled, stop, phase, cmdQ, callback, worker, state>>

\* under managerV2.mu
Join ==
  /\ loop = "subscribed"
  /\ IF cancelled
     THEN subs' = "none" /\ UNCHANGED externalReady
     ELSE subs' = "all" /\ externalReady' = TRUE
  /\ loop' = "ended"
  /\ UNCHANGED <<gate, cancelled, stop, phase, cmdQ, callback, worker, state>>

-----------------------------------------------------------------------------
(* stopV2                                                                  *)

StopStep(from, to) == phase = from /\ phase' = to

CancelCatchUp ==
  /\ StopStep("running", "cancelled")
  /\ cancelled' = TRUE
  /\ UNCHANGED <<gate, externalReady, stop, loop, subs, cmdQ, callback, worker, state>>

CloseIngress ==
  /\ StopStep("cancelled", "closed")
  /\ ingressOpen' = FALSE
  /\ UNCHANGED <<ingressActive, externalReady, cancelled, stop, loop, subs, cmdQ,
                 callback, worker, state>>

ClearReady ==
  /\ StopStep("closed", "notready")
  /\ externalReady' = FALSE
  /\ UNCHANGED <<gate, cancelled, stop, loop, subs, cmdQ, callback, worker, state>>

CloseStop ==
  /\ StopStep("notready", "stopping")
  /\ stop' = TRUE
  /\ UNCHANGED <<gate, externalReady, cancelled, loop, subs, cmdQ, callback, worker,
                 state>>

AwaitIngress ==
  /\ StopStep("stopping", "drained")
  /\ ingressActive = 0
  /\ UNCHANGED <<gate, externalReady, cancelled, stop, loop, subs, cmdQ, callback,
                 worker, state>>

\* mutant: the workers are not waited for
MutAwaitGroup ==
  /\ StopStep("drained", "waited")
  /\ loop = "ended"
  /\ UNCHANGED <<gate, externalReady, cancelled, stop, loop, subs, cmdQ, callback,
                 worker, state>>

\* wg.Wait
AwaitGroup ==
  /\ StopStep("drained", "waited")
  /\ loop = "ended"
  /\ \A w \in Worker : worker[w].pc = "ended"
  /\ UNCHANGED <<gate, externalReady, cancelled, stop, loop, subs, cmdQ, callback,
                 worker, state>>

\* publishOwnerExitV2
OwnerExit ==
  /\ StopStep("waited", "exited")
  /\ UNCHANGED <<gate, externalReady, cancelled, stop, loop, subs, cmdQ, callback,
                 worker, state>>

\* the subscriptions stopV2 knows of
Unsubscribe ==
  /\ StopStep("exited", "stopped")
  /\ subs' = IF subs = "all" THEN "none" ELSE subs
  /\ UNCHANGED <<gate, externalReady, cancelled, stop, loop, cmdQ, callback, worker,
                 state>>

-----------------------------------------------------------------------------
Callback(c) ==
  \/ BeginIngress(c) \/ Admit(c) \/ Enqueue(c) \/ HandleRegister(c) \/ EndIngress(c)

Work(w) == Take(w) \/ WorkerStops(w) \/ Dispatch(w) \/ Finish(w)

JoinLoop == CatchUpDone \/ LoopCancelled \/ Subscribe \/ Join

Stopping ==
  \/ CloseIngress \/ ClearReady \/ CloseStop \/ AwaitIngress \/ AwaitGroup
  \/ OwnerExit \/ Unsubscribe

Next ==
  \/ \E c \in Cmd : Send(c) \/ Callback(c)
  \/ \E w \in Worker : Work(w)
  \/ JoinLoop \/ SubscribeFails
  \/ CancelCatchUp \/ Stopping

Spec == Init /\ [][Next]_vars

\* callbacks, workers, the catch-up loop and a stopV2 that was called go on
FairSpec ==
  /\ Spec
  /\ \A c \in Cmd : WF_vars(Callback(c))
  /\ \A w \in Worker : WF_vars(Work(w))
  /\ WF_vars(JoinLoop)
  /\ WF_vars(Stopping)

-----------------------------------------------------------------------------
(* Properties                                                              *)

Leaving == phase \in {"waited", "exited", "stopped"}

(* TestClusterV2_StopClosesRegisterIngressBeforeOwnerExit: when stopV2 gives *)
(* up the coordinator's sessions, no callback is inside the gate and no      *)
(* worker has a command, and none will have one again: nothing changes the   *)
(* store or synchronises after the exit has been published.                  *)
QuietExit ==
  Leaving =>
    /\ \A c \in Cmd : callback[c] \in {"none", "waits", "left"}
    /\ \A w \in Worker : worker[w].pc = "ended"

(* The join that the catch-up loop may be in the middle of does not undo the *)
(* stop: once stopV2 has cleared externalReady it stays cleared, and no      *)
(* subscription to the queue group is left behind.                           *)
StopIsFinal ==
  /\ phase \notin {"running", "cancelled", "closed"} => ~externalReady
  /\ phase = "stopped" => subs = "none"

(* A command is answered, or the coordinator is stopped: neither a full     *)
(* queue nor busy workers swallow one.                                      *)
CommandsAnswered ==
  \A c \in Cmd : state[c] = "sent" ~> (state[c] \in {"ok", "busy"} \/ cancelled)

(* stopV2 returns, whatever commands, workers and the catch-up loop are     *)
(* doing when it is called.                                                 *)
StopReturns == cancelled ~> phase = "stopped"
=============================================================================
