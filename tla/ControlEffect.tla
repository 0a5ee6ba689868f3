---------------------------- MODULE ControlEffect ----------------------------
(***************************************************************************)
(* One control operation and the node it is about: Platform.execute,       *)
(* verify_effect and effect_status of vnext/service.py with enforce of     *)
(* vnext/policy.py, over what ObserverContract promises of a snapshot.     *)
(*                                                                         *)
(* ControlPlane lets an observation come back with any effect; here it     *)
(* comes from a node that goes on changing, by this command or by others,  *)
(* while the worker looks at it.  The worker is followed from its first    *)
(* observation on; admission, crash and recovery are ControlPlane's, and   *)
(* every step here is one of ControlPlane's (StepsOfControlPlane).         *)
(***************************************************************************)
EXTENDS FiniteSets

CONSTANTS
    Links, Modes,   \* as in ObserverContract
    Requests,       \* the canonical requests that may be admitted
    Policy          \* operator policy, as in ControlPlane

(* kind, "node" and "mode" of a canonical request; the latter two are       *)
(* ignored where the kind has none.                                        *)
ASSUME RequestsAssumption ==
    Requests \subseteq
        [kind : {"link_node", "unlink_node", "unlink_all", "announce"},
         node : Links, mode : Modes \ {"C"}]

ASSUME ModesAssumption == Modes \cap {"absent", "UNKNOWN"} = {}

VARIABLES
    request,    \* of the operation
    foreign,    \* names in Links that are no node number: clients
    view, asking, stale, seen, answer,      \* the observer and the node
    phase, healthy,                         \* Platform.closing and .healthy
    pc, dispatch, effect, terminal, before, \* the worker and its row
    wire,       \* the command, as in ControlPlane
    \* history: what the effect really was since the worker began, then since
    \* the acknowledgement; the node was clear since the worker began
    held, wasClear

observerVars == <<view, asking, stale, seen, answer>>
rowVars      == <<dispatch, effect, terminal>>
vars         == <<request, foreign, view, asking, stale, seen, answer, phase,
                  healthy, pc, dispatch, effect, terminal, before, wire, held,
                  wasClear>>

Worker == "worker"

Observer == INSTANCE ObserverContract WITH Callers <- {Worker}

-----------------------------------------------------------------------------

(* What a command was meant to achieve, of the node as it really is. *)
Achieved(v) ==
    \/ request.kind = "link_node" /\ v.mode[request.node] = request.mode
    \/ request.kind = "unlink_node" /\ v.mode[request.node] = "absent"
    \/ request.kind = "unlink_all" /\ Observer!Adjacent(v) \subseteq foreign

(* Mutants: clients count as links; any mode will do. *)
effect_status_CountsClients(a) ==
    IF ~a.complete THEN "UNKNOWN"
    ELSE IF a.links = {} THEN "OBSERVED_SATISFIED" ELSE "OBSERVED_UNSATISFIED"

effect_status_AnyMode(a) ==
    CASE ~a.complete -> "UNKNOWN"
      [] request.kind = "link_node" /\ request.node \in a.links -> "OBSERVED_SATISFIED"
      [] OTHER -> "OBSERVED_UNSATISFIED"

(* What a complete snapshot must show. *)
Shows(a) ==
    \/ request.kind = "link_node" /\ request.node \in a.links \cap a.up
          /\ a.mode[request.node] = request.mode
    \/ request.kind = "unlink_node" /\ request.node \notin a.links
    \/ request.kind = "unlink_all" /\ a.links \subseteq foreign

(* effect_status *)
effect_status(a) ==
    IF ~a.complete THEN "UNKNOWN"
    ELSE IF request.kind = "announce" THEN "NOT_APPLICABLE"
    ELSE IF Shows(a) THEN "OBSERVED_SATISFIED"
    ELSE IF request.kind = "link_node" /\ request.node \in a.links
         THEN "OBSERVED_PARTIAL" ELSE "OBSERVED_UNSATISFIED"

(* Mutant: only ACTIVE is looked up. *)
Permits_UnknownIsClear(a) ==
    a.traffic = "ACTIVE" => Policy[request.kind][a.traffic] = "allow"

(* TrafficPolicy.enforce returns. *)
Permits(a) ==
    \/ a.traffic = "CLEAR"
    \/ a.traffic # "CLEAR" /\ Policy[request.kind][a.traffic] = "allow"

-----------------------------------------------------------------------------

(* The worker awaits its first snapshot. *)
Init ==
    /\ request \in Requests
    /\ foreign \in SUBSET Links
    /\ request.kind \in {"link_node", "unlink_node"} => request.node \notin foreign
    /\ view \in Observer!Views
    /\ asking = {Worker} /\ stale = {}
    /\ seen = [c \in {Worker} |-> Observer!TrueOf(view)]
    /\ answer = [c \in {Worker} |-> Observer!Unknown]
    /\ phase = "up" /\ healthy = TRUE
    /\ pc = "observe"
    /\ dispatch = "QUEUED" /\ effect = "PENDING" /\ terminal = FALSE
    /\ before = "NONE"
    /\ wire = "none"
    /\ held = {Achieved(view)}
    /\ wasClear = view.clear

(* The node changes: traffic comes or goes, a link comes, goes or changes  *)
(* its mode, by whomever.                                                  *)
NodeChanges ==
    /\ pc # "none"
    /\ \E v \in Observer!Views :
          /\ \/ v = [view EXCEPT !.clear = ~@]
             \/ \E n \in Links : v.clear = view.clear /\
                   v.mode = [view.mode EXCEPT ![n] = v.mode[n]]
          /\ Observer!Change(v)
          /\ held' = held \cup {Achieved(v)}
          /\ wasClear' = (wasClear \/ (pc = "observe" /\ v.clear))
    /\ UNCHANGED <<phase, healthy, pc, rowVars, before, wire>>

(* The command is answered with Success, carried out or refused, whatever  *)
(* became of the worker; what was only accepted is carried out later or    *)
(* never.                                                                  *)
NodeDecides ==
    /\ \/ wire = "pending" /\ wire' \in {"accepted", "executed", "refused"}
       \/ wire = "accepted" /\ wire' = "executed"
    /\ UNCHANGED <<observerVars, phase, healthy, pc, rowVars, before, held, wasClear>>

(* Platform.close: the sample in flight is invalidated, the task cancelled. *)
Close ==
    /\ phase = "up" /\ pc \notin {"write", "announced"}
    /\ phase' = "closing"
    /\ Observer!Invalidate(asking)
    /\ UNCHANGED <<healthy, pc, rowVars, before, wire, held, wasClear>>

-----------------------------------------------------------------------------

Goto(label) == pc' = label

(* A terminal save, which may fail, and the end of the task. *)
Finish(status, result) ==
    /\ \/ /\ dispatch' = status /\ effect' = result /\ terminal' = TRUE
          /\ UNCHANGED healthy
       \/ healthy' = FALSE /\ UNCHANGED rowVars
    /\ Goto("none")

(* The await on the observer, if there is one, is over. *)
StopAsking ==
    IF Worker \in asking THEN Observer!Answer(Worker, Observer!Unknown)
                         ELSE UNCHANGED observerVars

(* Mutant: the effect is not looked at before the command. *)
Decide_SendsAnyway(a) ==
    IF Permits(a) THEN Goto("connect") /\ UNCHANGED <<healthy, rowVars>>
                  ELSE Finish("NOT_DISPATCHED", "NOT_ATTEMPTED")

(* What the worker does with its first snapshot: nothing to do, not        *)
(* allowed, or go on to connect.                                           *)
Decide(a) ==
    IF request.kind # "announce" /\ effect_status(a) = "OBSERVED_SATISFIED"
    THEN Finish("NOT_DISPATCHED", effect_status(a))
    ELSE IF Permits(a) THEN Goto("connect") /\ UNCHANGED <<healthy, rowVars>>
                       ELSE Finish("NOT_DISPATCHED", "NOT_ATTEMPTED")

FirstSnapshot ==
    /\ pc = "observe"
    /\ \E a \in Observer!Snapshots :
          /\ Observer!Answer(Worker, a)
          /\ before' = a.traffic
          /\ Decide(a)
    /\ UNCHANGED <<phase, wire, held, wasClear>>

FailBeforeDispatch ==
    /\ pc \in {"observe", "connect"}
    /\ StopAsking
    /\ Finish("NOT_DISPATCHED", "NOT_ATTEMPTED")
    /\ UNCHANGED <<phase, before, wire, held, wasClear>>

(* Mutant: the barrier does not ask whether the service is closing. *)
CrossBarrier_WhileClosing ==
    /\ pc = "connect"
    /\ dispatch' = "DISPATCH_STARTED"
    /\ Goto("write")
    /\ UNCHANGED <<observerVars, phase, healthy, effect, terminal, before, wire, held, wasClear>>

CrossBarrier ==
    /\ pc = "connect"
    /\ phase = "up" /\ healthy
    /\ dispatch' = "DISPATCH_STARTED"
    /\ Goto("write")
    /\ UNCHANGED <<observerVars, phase, healthy, effect, terminal, before, wire, held, wasClear>>

Write ==
    /\ pc = "write"
    /\ wire' = "pending"
    /\ Goto("reply")
    /\ UNCHANGED <<observerVars, phase, healthy, rowVars, before, held, wasClear>>

Rejected ==
    /\ pc = "reply" /\ wire = "refused"
    /\ Finish("REJECTED", "NOT_ATTEMPTED")
    /\ UNCHANGED <<observerVars, phase, before, wire, held, wasClear>>

(* The Success response is saved, whether or not the command has run; what *)
(* is observed from here on counts.                                        *)
Acknowledged ==
    /\ pc = "reply" /\ wire \in {"accepted", "executed"}
    /\ \/ /\ dispatch' = "ACKNOWLEDGED"
          /\ Goto(IF request.kind = "announce" THEN "announced" ELSE "verify")
          /\ held' = {Achieved(view)}
          /\ UNCHANGED <<effect, terminal, healthy>>
       \/ /\ healthy' = FALSE
          /\ Goto("none")
          /\ UNCHANGED <<rowVars, held>>
    /\ UNCHANGED <<observerVars, phase, before, wire, wasClear>>

AnnouncementDone ==
    /\ pc = "announced"
    /\ Finish(dispatch, "UNKNOWN")
    /\ UNCHANGED <<observerVars, phase, before, wire, held, wasClear>>

(* verify_effect asks, at first or after its sleep. *)
AskAgain ==
    /\ pc = "verify"
    /\ Observer!Ask(Worker)
    /\ UNCHANGED <<phase, healthy, pc, rowVars, before, wire, held, wasClear>>

(* One round of verify_effect: satisfied, the last sample at the deadline, *)
(* or a sleep.                                                             *)
Verify(a) ==
    \/ Finish(dispatch, effect_status(a))
    \/ /\ effect_status(a) # "OBSERVED_SATISFIED"
       /\ UNCHANGED <<pc, healthy, rowVars>>

NextSnapshot ==
    /\ pc = "verify"
    /\ \E a \in Observer!Snapshots : Observer!Answer(Worker, a) /\ Verify(a)
    /\ UNCHANGED <<phase, before, wire, held, wasClear>>

FailAfterDispatch ==
    /\ pc \in {"reply", "verify"}
    /\ StopAsking
    /\ Finish("OUTCOME_UNKNOWN", "UNKNOWN")
    /\ UNCHANGED <<phase, before, wire, held, wasClear>>

WorkerStep ==
    \/ FirstSnapshot \/ FailBeforeDispatch \/ CrossBarrier \/ Write
    \/ Rejected \/ Acknowledged \/ AnnouncementDone
    \/ AskAgain \/ NextSnapshot \/ FailAfterDispatch

(* The operation is over; an accepted command may never be run. *)
Over == pc = "none" /\ wire \in {"none", "executed", "refused"} /\ UNCHANGED vars

Next ==
    /\ NodeChanges \/ NodeDecides \/ Close \/ WorkerStep \/ Over
    /\ UNCHANGED <<request, foreign>>

Spec == Init /\ [][Next]_vars

-----------------------------------------------------------------------------

(* The effect in a final row was real, though every snapshot is put        *)
(* together from several looks at a node that others control too: what is  *)
(* OBSERVED_SATISFIED was achieved at some instant since the               *)
(* acknowledgement, or since the worker began if nothing was sent; what is *)
(* PARTIAL or UNSATISFIED was not achieved at some such instant, so an     *)
(* effect that held ever since is never reported missing.                  *)
EffectIsTrue ==
    /\ effect = "OBSERVED_SATISFIED" => TRUE \in held
    /\ effect \in {"OBSERVED_PARTIAL", "OBSERVED_UNSATISFIED"} => FALSE \in held

(* A command is sent only for a reason: on complete evidence there was     *)
(* something for it to do at some instant since the worker began; and if   *)
(* the operator denies it both in traffic and in doubt, the node really    *)
(* was clear at some instant while the worker looked.                      *)
SentForAReason ==
    /\ dispatch = "DISPATCH_STARTED" /\ before # "UNKNOWN" => FALSE \in held
    /\ wire # "none" /\ (\A t \in {"ACTIVE", "UNKNOWN"} : Policy[request.kind][t] = "deny")
           => wasClear

(* Every step here is a step of a process of ControlPlane with one         *)
(* operation, or invisible to it: what is checked and proved there holds   *)
(* of this worker, and no effect found here is one it leaves out.          *)
Plane == INSTANCE ControlPlane WITH
    Procs <- {"process"}, Ops <- {"operation"}, Creds <- {"credential"}, Keys <- {},
    Kind <- [r \in Requests |-> r.kind],
    NoProc <- "nobody", NoOp <- "nothing", NoKey <- "no key", NoOrigin <- "no row",
    lock <- "process",
    phase <- [p \in {"process"} |-> phase],
    healthy <- [p \in {"process"} |-> healthy],
    busy <- [p \in {"process"} |-> IF pc = "none" THEN "nothing" ELSE "operation"],
    dispatch <- [o \in {"operation"} |-> dispatch],
    effect <- [o \in {"operation"} |-> effect],
    terminal <- [o \in {"operation"} |-> terminal],
    origin <- [o \in {"operation"} |->
                  [cred |-> "credential", key |-> "no key", request |-> request]],
    pc <- [o \in {"operation"} |-> pc],
    home <- [o \in {"operation"} |-> "process"],
    before <- [o \in {"operation"} |-> before],
    written <- [o \in {"operation"} |-> IF wire = "none" THEN 0 ELSE 1],
    wire <- [o \in {"operation"} |-> wire]

StepsOfControlPlane == [][Plane!Next]_(Plane!vars)

=============================================================================
