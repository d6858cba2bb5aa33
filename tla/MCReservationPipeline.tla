----------------------- MODULE MCReservationPipeline -----------------------
(* Instances of ReservationPipeline for TLC. *)
EXTENDS ReservationPipeline

CONSTANTS ra, rb, ta, tb, tc

MCRequestOf == [t \in Tools |-> IF t = tc THEN rb ELSE ra]

MCMaxBatches == [t \in Tools |-> IF t = ta THEN 2 ELSE 1]
=============================================================================
