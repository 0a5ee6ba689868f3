--------------------------- MODULE MCControlPlane ---------------------------
(* Instances of ControlPlane for TLC. *)
EXTENDS ControlPlane, TLC

CONSTANTS link, unlink, announce

(* One request of each kind that execute treats differently. *)
MCKind ==
    [r \in Requests |->
        IF r = link THEN "link_node"
        ELSE IF r = announce THEN "announce" ELSE "unlink_node"]

(* policy.py, _DEFAULTS. *)
MCPolicy ==
    [k \in Kinds |-> [t \in {"ACTIVE", "UNKNOWN"} |->
        IF k \in {"link_node", "announce"} THEN "deny" ELSE "allow"]]

(* Processes, operations, credentials and keys are interchangeable. *)
MCSymmetry ==
    Permutations(Procs) \cup Permutations(Ops)
        \cup Permutations(Creds) \cup Permutations(Keys)

=============================================================================
