-------------------------- MODULE ObserverContract --------------------------
(***************************************************************************)
(* What Observer.snapshot promises the task that awaits it, and nothing    *)
(* about how: no lock, session, frames or parsing.  A snapshot is a set of *)
(* claims about the node, put together from more than one look at it:      *)
(*                                                                         *)
(*  - each claim was true at some instant since the caller asked, though   *)
(*    the node may never have been as all of them say together;            *)
(*  - a snapshot that is not complete claims nothing;                      *)
(*  - one that was in flight when the service closed is not complete.      *)
(*                                                                         *)
(* Module Observation implements it, module ControlEffect relies on it.    *)
(***************************************************************************)
CONSTANTS
    Links,      \* the nodes that may be adjacent
    Modes,      \* of a link in RPT_ALINKS; "C" is a link being set up
    Callers     \* tasks that await Observer.snapshot

VARIABLES
    view,       \* the node now
    asking,     \* who awaits a snapshot
    stale,      \* whose sample the service has invalidated
    seen,       \* what has been true since each of them asked
    answer      \* what this step returns to each caller

vars == <<view, asking, stale, seen, answer>>

(* The node: whether anything is keyed, and the mode of each adjacent link. *)
Views == [clear : BOOLEAN, mode : [Links -> Modes \cup {"absent"}]]

Adjacent(v) == {n \in Links : v.mode[n] # "absent"}

TrafficOf(clear) == IF clear THEN "CLEAR" ELSE "ACTIVE"

(* connection_status, as app_rpt derives it from the mode. *)
StatusOf(mode) == IF mode = "C" THEN "CONNECTING" ELSE "ESTABLISHED"

(* A complete NodeState; a link that was away when the modes were read has *)
(* mode UNKNOWN.                                                           *)
Complete ==
    [complete : {TRUE}, traffic : {"CLEAR", "ACTIVE"}, links : SUBSET Links,
     up : SUBSET Links, mode : [Links -> Modes \cup {"UNKNOWN"}]]

Unknown ==
    [complete |-> FALSE, traffic |-> "UNKNOWN", links |-> {}, up |-> {},
     mode |-> [n \in Links |-> "UNKNOWN"]]

Snapshots == Complete \cup {Unknown}

(* The claims one may make about the node. *)
Claims ==
    ({"traffic"} \X {"CLEAR", "ACTIVE"}) \cup ({"links"} \X SUBSET Links)
        \cup (Links \X {"status"} \X {"ESTABLISHED", "CONNECTING"})
        \cup (Links \X {"mode"} \X (Modes \cup {"absent"}))

(* What is true of the node, and what a snapshot says of it. *)
TrueOf(v) ==
    {<<"traffic", TrafficOf(v.clear)>>, <<"links", Adjacent(v)>>}
        \cup {<<n, "status", StatusOf(v.mode[n])>> : n \in Adjacent(v)}
        \cup {<<n, "mode", v.mode[n]>> : n \in Links}

ClaimsOf(a) ==
    IF ~a.complete THEN {}
    ELSE {<<"traffic", a.traffic>>, <<"links", a.links>>}
            \cup {<<n, "status", "ESTABLISHED">> : n \in a.links \cap a.up}
            \cup {<<n, "status", "CONNECTING">> : n \in a.links \ a.up}
            \cup {<<n, "mode", IF a.mode[n] = "UNKNOWN" THEN "absent" ELSE a.mode[n]>> :
                     n \in a.links}

-----------------------------------------------------------------------------

Silent == answer' = [c \in Callers |-> Unknown]

Init ==
    /\ view \in Views
    /\ asking = {} /\ stale = {}
    /\ seen = [c \in Callers |-> {}]
    /\ answer = [c \in Callers |-> Unknown]

Change(v) ==
    /\ v \in Views
    /\ view' = v
    /\ seen' = [c \in Callers |->
                   IF c \in asking THEN seen[c] \cup TrueOf(v) ELSE seen[c]]
    /\ Silent
    /\ UNCHANGED <<asking, stale>>

Ask(c) ==
    /\ c \notin asking
    /\ asking' = asking \cup {c}
    /\ seen' = [seen EXCEPT ![c] = TrueOf(view)]
    /\ Silent
    /\ UNCHANGED <<view, stale>>

(* A snapshot, or none: the sample failed or the caller was cancelled. *)
Answer(c, a) ==
    /\ c \in asking
    /\ a \in Snapshots
    /\ ClaimsOf(a) \subseteq seen[c]
    /\ c \in stale => ~a.complete
    /\ asking' = asking \ {c}
    /\ stale' = stale \ {c}
    /\ seen' = [seen EXCEPT ![c] = {}]
    /\ answer' = [x \in Callers |-> IF x = c THEN a ELSE Unknown]
    /\ UNCHANGED view

(* Of those who ask, the one whose session is open, if any. *)
Invalidate(C) ==
    /\ C \subseteq asking
    /\ stale' = stale \cup C
    /\ Silent
    /\ UNCHANGED <<view, asking, seen>>

Next ==
    \/ \E v \in Views : Change(v)
    \/ \E c \in Callers : Ask(c) \/ \E a \in Snapshots : Answer(c, a)
    \/ \E C \in SUBSET Callers : Invalidate(C)
    \/ Silent /\ UNCHANGED <<view, asking, stale, seen>>

Spec == Init /\ [][Next]_vars

=============================================================================
