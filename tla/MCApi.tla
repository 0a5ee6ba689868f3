------------------------------- MODULE MCApi -------------------------------
(* Instances of Api for TLC. *)
EXTENDS Api, TLC

CONSTANTS r1, r2

(* A link as v1 takes it, with its default mode and as the alias; another  *)
(* request; and a withdrawn announcement.                                  *)
MCMeaning ==
    [b \in Bodies |-> CASE b = "links" -> r1 [] b = "connect" -> r1
                        [] b = "announcements" -> r2 [] OTHER -> Withdrawn]

(* The credentials that may control are interchangeable. *)
MCSymmetry == Permutations(Control)

=============================================================================
