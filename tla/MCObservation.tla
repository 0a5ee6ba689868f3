--------------------------- MODULE MCObservation ---------------------------
(* Instances of Observation for TLC. *)
EXTENDS Observation

=============================================================================
