------------------------ MODULE MCRequestLifecycle ------------------------
(* Instances of RequestLifecycle for TLC. *)
EXTENDS RequestLifecycle

CONSTANTS ra, rb, ka, kb

MCMother == [k \in Clones |-> IF k = kb THEN ka ELSE ra]
=============================================================================
