------------------------------- MODULE MCRaft -------------------------------
(* Small instances of NatsRaft for TLC                                     *)
EXTENDS NatsRaft, TLC

Symmetry == Permutations(Node)

Of(campaigns, proposals, restarts, snapshots, inboxes, entriesOnTheWay) ==
  [campaigns |-> campaigns, proposals |-> proposals, restarts |-> restarts,
   snapshots |-> snapshots, inboxes |-> inboxes, msgs |-> 1, entries |-> entriesOnTheWay]

\* three terms; two terms with a proposal, with a restart, with append entries
\* of both leaders on the way, with a snapshot and a catch-up; one term with
\* most of these
Various ==
  {Of(3, 0, 0, 0, 0, 1), Of(2, 1, 0, 0, 0, 1), Of(2, 0, 1, 0, 0, 1), Of(2, 0, 0, 0, 0, 2),
   Of(2, 0, 0, 1, 1, 1), Of(1, 1, 1, 1, 0, 1), Of(1, 0, 1, 0, 1, 1)}

\* one leader, and a follower that asks for a second catch-up
TwoCatchups == {Of(1, 1, 0, 1, 2, 2)}
=============================================================================
