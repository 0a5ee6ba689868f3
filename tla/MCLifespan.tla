----------------------------- MODULE MCLifespan -----------------------------
(* The instance of Lifespan for TLC. *)
EXTENDS Lifespan

=============================================================================
