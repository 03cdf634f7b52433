----------------------------- MODULE MCSession -----------------------------
(* Small instances of P2PSession for TLC                                   *)
EXTENDS P2PSession, TLC

Symmetric == Permutations(Worker) \cup Permutations(Member)

\* one worker handles a requests, the other b
Share(a, b) == {f \in [Worker -> {a, b}] : {f[w] : w \in Worker} = {a, b}}

\* a long row of commands; fewer, with one in between; two by two
Shares == Share(7, 0) \cup Share(4, 1) \cup Share(2, 2)

\* CREATE and CLOSE, with one more request
Few == Share(2, 1)
=============================================================================
