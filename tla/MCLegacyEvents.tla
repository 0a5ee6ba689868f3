-------------------------- MODULE MCLegacyEvents --------------------------
(* Instances of LegacyEvents for TLC. *)
EXTENDS LegacyEvents

=============================================================================
