-------------------------- MODULE MCControlEffect --------------------------
(* Instances of ControlEffect for TLC. *)
EXTENDS ControlEffect

Request(kind, node, mode) == [kind |-> kind, node |-> node, mode |-> mode]

CONSTANTS n1

MCRequests ==
    {Request("link_node", n1, "T"), Request("link_node", n1, "R"),
     Request("unlink_node", n1, "T"), Request("unlink_all", n1, "T"),
     Request("announce", n1, "T")}

(* The shipped policy. *)
MCPolicy ==
    [k \in {"link_node", "unlink_node", "unlink_all", "announce"} |->
        [t \in {"ACTIVE", "UNKNOWN"} |->
            IF k \in {"unlink_node", "unlink_all"} THEN "allow" ELSE "deny"]]

=============================================================================
