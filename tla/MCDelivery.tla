---------------------------- MODULE MCDelivery ----------------------------
(* P2PDelivery with one request and two workers.                           *)
EXTENDS P2PDelivery
=============================================================================
