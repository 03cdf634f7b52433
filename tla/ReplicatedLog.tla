--------------------------- MODULE ReplicatedLog ---------------------------
(***************************************************************************)
(* What a Raft group promises to the layers above it: there is one         *)
(* sequence of entries, which only grows, and every replica delivers a     *)
(* prefix of it, entry by entry or with a snapshot.  A replica that        *)
(* restarts delivers the prefix again.                                     *)
(***************************************************************************)
EXTENDS Naturals, Sequences

CONSTANT Replica

VARIABLES
  chosen,     \* the sequence
  delivered   \* the entries that each replica has delivered

IsPrefix(s, t) == Len(s) <= Len(t) /\ \A x \in DOMAIN s : s[x] = t[x]

Init ==
  /\ chosen = <<>>
  /\ delivered = [r \in Replica |-> <<>>]

\* a replica delivers more, of what had been chosen or of what it chooses
Deliver(r) ==
  /\ Len(delivered'[r]) > Len(delivered[r])
  /\ IsPrefix(delivered[r], delivered'[r])
  /\ IsPrefix(delivered'[r], chosen')
  /\ IsPrefix(chosen, chosen')

\* a replica restarts and has delivered less
Recover(r) ==
  /\ Len(delivered'[r]) < Len(delivered[r])
  /\ IsPrefix(delivered'[r], delivered[r])
  /\ UNCHANGED chosen

Next ==
  /\ delivered' # delivered
  /\ \E r \in Replica :
       /\ Deliver(r) \/ Recover(r)
       /\ \A q \in Replica \ {r} : delivered'[q] = delivered[q]

Spec == Init /\ [][Next]_<<chosen, delivered>>
=============================================================================
