------------------------- MODULE MCExpiringStorage -------------------------
(* Instances of ExpiringStorage for TLC: names and threads as model values. *)
EXTENDS ExpiringStorage

CONSTANTS n1, n2, n3, deployer, requester, sweeper
=============================================================================
