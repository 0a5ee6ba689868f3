------------------------------ MODULE Webhooks ------------------------------
(***************************************************************************)
(* The node monitoring loop and its webhooks: event_handler.py             *)
(* (EventHandler), started by asl_agent.py when webhooks are enabled.      *)
(*                                                                         *)
(* The loop compares the links with those it knew and awaits one POST per  *)
(* change, each for up to five seconds, before it replaces what it knew:   *)
(* the node changes meanwhile.  A POST that fails, is refused or times out *)
(* is treated as one that arrived.  A restart starts the loop over with an *)
(* empty memory.                                                           *)
(***************************************************************************)
EXTENDS Sequences, SequencesExt, FiniteSets

CONSTANT Nodes      \* names of adjacent links

ASSUME NodesAssumption == IsFiniteSet(Nodes)

VARIABLES
    links,      \* the node's links now
    known,      \* _known_nodes
    current,    \* current_set of the check in progress
    pending,    \* the notifications the check has still to send
    pc,         \* "check", "notify" or "sleep"
    reported    \* history, in the life of this process: the last
                \* notification of each link that was sent off

loopVars == <<known, current, pending, pc>>
vars     == <<links, known, current, pending, pc, reported>>

Event(type, n) == [type |-> type, node |-> n]

Events == [type : {"connected", "disconnected"}, node : Nodes]

Nothing == [n \in Nodes |-> "none"]

-----------------------------------------------------------------------------

Init ==
    /\ links \in SUBSET Nodes
    /\ known = {} /\ current = {} /\ pending = <<>>
    /\ pc = "check"
    /\ reported = Nothing

LinkChanges(n) ==
    /\ links' = IF n \in links THEN links \ {n} ELSE links \cup {n}
    /\ UNCHANGED <<loopVars, reported>>

(* The changes of one check: connects, then disconnects, each set in any   *)
(* order.                                                                  *)
Notifications(now) ==
    {[i \in DOMAIN cs |-> Event("connected", cs[i])]
        \o [i \in DOMAIN ds |-> Event("disconnected", ds[i])] :
            cs \in SetToSeqs(now \ known), ds \in SetToSeqs(known \ now)}

(* get_connected_nodes answers. *)
Check ==
    /\ pc = "check"
    /\ current' = links
    /\ pending' \in Notifications(links)
    /\ pc' = "notify"
    /\ UNCHANGED <<links, known, reported>>

(* An incomplete snapshot raises STATE_UNKNOWN. *)
CheckFails ==
    /\ pc = "check"
    /\ pc' = "sleep"
    /\ UNCHANGED <<links, known, current, pending, reported>>

(* Mutant: a failed delivery raises and abandons the check. *)
Notify_Raises ==
    /\ pc = "notify" /\ pending # <<>>
    /\ reported' = [reported EXCEPT ![Head(pending).node] = Head(pending).type]
    /\ \/ pending' = Tail(pending) /\ UNCHANGED pc
       \/ pending' = <<>> /\ pc' = "sleep"
    /\ UNCHANGED <<links, known, current>>

(* _on_node_connect or _on_node_disconnect: _send_webhook swallows every   *)
(* failure of the POST, so the check goes on whatever becomes of it.  The  *)
(* broadcast before it never runs: event_listener stays None.              *)
Notify ==
    /\ pc = "notify" /\ pending # <<>>
    /\ reported' = [reported EXCEPT ![Head(pending).node] = Head(pending).type]
    /\ pending' = Tail(pending)
    /\ UNCHANGED <<links, known, current, pc>>

(* Mutant: what is known is read again after the webhooks. *)
FinishCheck_ReadsAgain ==
    /\ pc = "notify" /\ pending = <<>>
    /\ known' = links
    /\ pc' = "sleep"
    /\ UNCHANGED <<links, current, pending, reported>>

(* Mutant: the new set is added as an element instead of replacing.        *)
FinishCheck_Adds ==
    /\ pc = "notify" /\ pending = <<>>
    /\ known' = known \cup {current}
    /\ pc' = "sleep"
    /\ UNCHANGED <<links, current, pending, reported>>

FinishCheck ==
    /\ pc = "notify" /\ pending = <<>>
    /\ known' = current
    /\ pc' = "sleep"
    /\ UNCHANGED <<links, current, pending, reported>>

Wake ==
    /\ pc = "sleep"
    /\ pc' = "check"
    /\ UNCHANGED <<links, known, current, pending, reported>>

(* The process is restarted, in the middle of a check or not. *)
Restart ==
    /\ known' = {} /\ current' = {} /\ pending' = <<>>
    /\ pc' = "check"
    /\ reported' = Nothing
    /\ UNCHANGED links

MonitoringLoop == Check \/ CheckFails \/ Notify \/ FinishCheck \/ Wake

Next == MonitoringLoop \/ Restart \/ \E n \in Nodes : LinkChanges(n)

Spec == Init /\ [][Next]_vars

-----------------------------------------------------------------------------

TypeOK ==
    /\ {links, known, current} \subseteq SUBSET Nodes
    /\ pending \in Seq(Events)
    /\ pc \in {"check", "notify", "sleep"}
    /\ reported \in [Nodes -> {"none", "connected", "disconnected"}]

(* The reports of a link alternate, beginning with a connect: none is      *)
(* repeated because a delivery failed, and none is sent for a link whose   *)
(* previous state was never reported, though the node changes between the  *)
(* comparison and the end of the deliveries.                               *)
ReportsAlternate ==
    \A i \in DOMAIN pending :
        IF pending[i].type = "connected"
        THEN reported[pending[i].node] # "connected"
        ELSE reported[pending[i].node] = "connected"

-----------------------------------------------------------------------------

(* The loop catches everything but its cancellation, and every await in it *)
(* has a timeout.                                                          *)
LiveSpec == Spec /\ WF_vars(MonitoringLoop)

(* From some time on the process lives and the node can be observed. *)
EventuallyObservable == <>[][~Restart /\ ~CheckFails]_vars

(* A change that lasts is reported, whatever happened to earlier reports   *)
(* and however the node changed while they were being delivered.           *)
LastingChangesAreReported ==
    EventuallyObservable =>
        \A n \in Nodes :
            /\ <>[](n \in links) => <>[](reported[n] = "connected")
            /\ <>[](n \notin links) => <>[](reported[n] # "connected")

=============================================================================
