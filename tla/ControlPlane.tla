---------------------------- MODULE ControlPlane ----------------------------
(***************************************************************************)
(* The control plane of the API: vnext/service.py (Platform),              *)
(* vnext/ledger.py (ControlOwner, Ledger) and the part of                  *)
(* vnext/policy.py, vnext/models.py and vnext/transport.py that decides    *)
(* what happens to one control operation.                                  *)
(*                                                                         *)
(* One process runs one asyncio event loop, so everything between two      *)
(* awaits is one step, except where a durable commit is followed by more   *)
(* work: a crash can fall between the two, and they are two steps here     *)
(* (program counters "write" and "announced").  All processes share the    *)
(* lock file and the SQLite ledger, which survive a crash.                 *)
(*                                                                         *)
(* Abstractions: a request is a model value with a kind; an observation is *)
(* what its readers tell apart (the traffic state and the effect computed  *)
(* from it), and any consistent observation may come back; time is left    *)
(* out, so a timeout is a step that may be taken whenever the code waits;  *)
(* a failing SQLite call raises and writes nothing.  Answers that change   *)
(* nothing (409, 503, an idempotent replay, a refused flock) are stutters. *)
(***************************************************************************)
EXTENDS Naturals, FiniteSets

CONSTANTS
    Procs,      \* API processes that may be started for the node
    Ops,        \* operation identities (uuid4, never drawn twice)
    Creds,      \* named credentials with control authority
    Keys,       \* Idempotency-Key values
    Requests,   \* request bodies, one value per canonical form
    Kind,       \* the kind of each request
    Policy,     \* operator policy: kind -> traffic -> "allow" | "deny"
    NoProc, NoOp, NoKey, NoOrigin

Kinds == {"link_node", "unlink_node", "unlink_all", "announce"}

ASSUME SentinelAssumption ==
    /\ NoProc \notin Procs
    /\ NoOp \notin Ops
    /\ NoKey \notin Keys

ASSUME KindAssumption == Kind \in [Requests -> Kinds]

ASSUME PolicyAssumption ==
    Policy \in [Kinds -> [{"ACTIVE", "UNKNOWN"} -> {"allow", "deny"}]]

VARIABLES
    \* the lock file and each process (Platform)
    lock, phase, healthy, busy,
    \* the ledger, one row per admitted operation
    dispatch, effect, terminal, origin,
    \* the asyncio task of each operation (Platform.execute)
    pc, home, before,
    \* the AMI side of each operation
    written, wire

procVars == <<lock, phase, healthy, busy>>
rowVars  == <<dispatch, effect, terminal, origin>>
taskVars == <<pc, home, before>>
nodeVars == <<written, wire>>
vars     == <<lock, phase, healthy, busy, dispatch, effect, terminal, origin,
              pc, home, before, written, wire>>

-----------------------------------------------------------------------------

(* Operation.dispatch_status; "ABSENT": the ledger has no such row. *)
DispatchStatus == {"ABSENT", "QUEUED", "DISPATCH_STARTED", "ACKNOWLEDGED",
                   "REJECTED", "NOT_DISPATCHED", "OUTCOME_UNKNOWN"}

EffectStatus == {"PENDING", "NOT_ATTEMPTED", "OBSERVED_SATISFIED",
                 "OBSERVED_PARTIAL", "OBSERVED_UNSATISFIED",
                 "NOT_APPLICABLE", "UNKNOWN"}

(* The command on its way: not written, not looked at yet, answered with   *)
(* Success, run (answered or not), refused.                                *)
WireStatus == {"none", "pending", "accepted", "executed", "refused"}

(* The columns fixed at admission; an absent row has NoOrigin. *)
Origins == [cred : Creds, key : Keys \cup {NoKey}, request : Requests]

(* Where the task of an operation is: "created" but not yet run; awaiting  *)
(* the policy observation; awaiting the AMI session; between the durable   *)
(* barrier and the bytes; awaiting the reply; between the two saves of an  *)
(* acknowledged announcement; in verify_effect.                            *)
BeforeBarrier == {"created", "observe", "connect"}
AfterBarrier  == {"write", "reply", "announced", "verify"}

Rows == {o \in Ops : dispatch[o] # "ABSENT"}

KindOf(o) == Kind[origin[o].request]

(* effect_status for a complete snapshot, by kind. *)
Observable(kind) ==
    IF kind = "link_node"
    THEN {"OBSERVED_SATISFIED", "OBSERVED_PARTIAL", "OBSERVED_UNSATISFIED"}
    ELSE IF kind = "announce" THEN {"NOT_APPLICABLE"}
    ELSE {"OBSERVED_SATISFIED", "OBSERVED_UNSATISFIED"}

(* What one observation can tell the worker: nothing, or everything. *)
Snapshots(kind) ==
    {[traffic |-> "UNKNOWN", effect |-> "UNKNOWN"]}
        \cup [traffic : {"CLEAR", "ACTIVE"}, effect : Observable(kind)]

(* Mutant: an UNKNOWN observation counts as no traffic. *)
Permits_UnknownIsClear(kind, traffic) ==
    traffic = "ACTIVE" => Policy[kind][traffic] = "allow"

(* TrafficPolicy.enforce returns rather than raises. *)
Permits(kind, traffic) ==
    \/ traffic = "CLEAR"
    \/ traffic \in {"ACTIVE", "UNKNOWN"} /\ Policy[kind][traffic] = "allow"

(* The row UNIQUE(node, credential, idempotency_key) already names. *)
RowFor(cred, key) ==
    {o \in Rows : key # NoKey /\ origin[o].cred = cred /\ origin[o].key = key}

-----------------------------------------------------------------------------

Init ==
    /\ lock = NoProc
    /\ phase = [p \in Procs |-> "down"]
    /\ healthy = [p \in Procs |-> TRUE]
    /\ busy = [p \in Procs |-> NoOp]
    /\ dispatch = [o \in Ops |-> "ABSENT"]
    /\ effect = [o \in Ops |-> "PENDING"]
    /\ terminal = [o \in Ops |-> FALSE]
    /\ origin = [o \in Ops |-> NoOrigin]
    /\ pc = [o \in Ops |-> "none"]
    /\ home = [o \in Ops |-> NoProc]
    /\ before = [o \in Ops |-> "NONE"]
    /\ written = [o \in Ops |-> 0]
    /\ wire = [o \in Ops |-> "none"]

-----------------------------------------------------------------------------
(* Start, recovery, shutdown and crash of a process.                       *)

(* ControlOwner.close, or the kernel when the process dies. *)
Release(p) == lock' = IF lock = p THEN NoProc ELSE lock

(* Platform.start: a fresh Platform takes the flock or fails at once. *)
Start(p) ==
    /\ phase[p] = "down"
    /\ lock = NoProc
    /\ lock' = p
    /\ phase' = [phase EXCEPT ![p] = "recovering"]
    /\ healthy' = [healthy EXCEPT ![p] = TRUE]
    /\ UNCHANGED <<busy, rowVars, taskVars, nodeVars>>

(* Ledger.update with terminal=True: the whole document in one transaction. *)
SaveTerminal(o, status, result) ==
    /\ dispatch' = [dispatch EXCEPT ![o] = status]
    /\ effect' = [effect EXCEPT ![o] = result]
    /\ terminal' = [terminal EXCEPT ![o] = TRUE]
    /\ UNCHANGED origin

(* Mutant: only an acknowledged row counts as dispatched. *)
Crossed_Acknowledged(o) == dispatch[o] = "ACKNOWLEDGED"

Crossed(o) == dispatch[o] # "QUEUED"

(* Mutants: finished rows are taken again; acknowledged rows are skipped. *)
ToRecover_All(o) == TRUE
ToRecover_SkipsAcknowledged(o) == ~terminal[o] /\ dispatch[o] # "ACKNOWLEDGED"

ToRecover(o) == ~terminal[o]

(* Ledger.recover: one transaction per unfinished row.  Rows come in the   *)
(* order of the SELECT; here any order.                                    *)
RecoverRow(p, o) ==
    /\ phase[p] = "recovering"
    /\ o \in Rows /\ ToRecover(o)
    /\ IF Crossed(o) THEN SaveTerminal(o, "OUTCOME_UNKNOWN", "UNKNOWN")
                     ELSE SaveTerminal(o, "NOT_DISPATCHED", "NOT_ATTEMPTED")
    /\ UNCHANGED <<procVars, taskVars, nodeVars>>

(* Mutant: the process serves before recovery is through. *)
FinishRecovery_Early(p) ==
    /\ phase[p] = "recovering"
    /\ phase' = [phase EXCEPT ![p] = "up"]
    /\ UNCHANGED <<lock, healthy, busy, rowVars, taskVars, nodeVars>>

FinishRecovery(p) ==
    /\ phase[p] = "recovering"
    /\ \A o \in Rows : terminal[o]
    /\ phase' = [phase EXCEPT ![p] = "up"]
    /\ UNCHANGED <<lock, healthy, busy, rowVars, taskVars, nodeVars>>

(* start's except branch: the ledger or recovery raised. *)
RecoveryFails(p) ==
    /\ phase[p] = "recovering"
    /\ phase' = [phase EXCEPT ![p] = "down"]
    /\ Release(p)
    /\ UNCHANGED <<healthy, busy, rowVars, taskVars, nodeVars>>

(* Platform.close up to the gather: from here every task of the process    *)
(* has a cancellation pending.  The loop is not inside the steps that      *)
(* follow a commit without an await.                                       *)
BeginClose(p) ==
    /\ phase[p] = "up"
    /\ \A o \in Ops : home[o] = p => pc[o] \notin {"write", "announced"}
    /\ phase' = [phase EXCEPT ![p] = "closing"]
    /\ UNCHANGED <<lock, healthy, busy, rowVars, taskVars, nodeVars>>

(* Mutant: close releases the lock without waiting for its tasks. *)
FinishClose_NoGather(p) ==
    /\ phase[p] = "closing"
    /\ phase' = [phase EXCEPT ![p] = "down"]
    /\ busy' = [busy EXCEPT ![p] = NoOp]
    /\ Release(p)
    /\ UNCHANGED <<healthy, rowVars, taskVars, nodeVars>>

FinishClose(p) ==
    /\ phase[p] = "closing"
    /\ \A o \in Ops : home[o] = p => pc[o] = "none"
    /\ phase' = [phase EXCEPT ![p] = "down"]
    /\ busy' = [busy EXCEPT ![p] = NoOp]
    /\ Release(p)
    /\ UNCHANGED <<healthy, rowVars, taskVars, nodeVars>>

(* The process dies: its memory and tasks are gone, the kernel closes the  *)
(* lock file.                                                              *)
Crash(p) ==
    /\ phase[p] # "down"
    /\ phase' = [phase EXCEPT ![p] = "down"]
    /\ busy' = [busy EXCEPT ![p] = NoOp]
    /\ Release(p)
    /\ pc' = [o \in Ops |-> IF home[o] = p THEN "none" ELSE pc[o]]
    /\ UNCHANGED <<healthy, rowVars, home, before, nodeVars>>

-----------------------------------------------------------------------------
(* Admission.                                                              *)

(* Mutant: the health check is missing. *)
Available_IgnoresHealth(p) == phase[p] = "up"

(* Platform.require_ledger does not raise. *)
Available(p) == phase[p] = "up" /\ healthy[p]

(* Mutant: a finished row no longer answers for its key. *)
KeyIsFree_ForgetsFinished(cred, key) ==
    \A o \in RowFor(cred, key) : terminal[o]

(* Ledger.find_idempotent finds nothing. *)
KeyIsFree(cred, key) == RowFor(cred, key) = {}

(* Ledger.admit: the row of a new operation, with a fresh identity. *)
InsertRow(o, cred, key, request) ==
    /\ o \notin Rows
    /\ origin' = [origin EXCEPT ![o] =
           [cred |-> cred, key |-> key, request |-> request]]
    /\ dispatch' = [dispatch EXCEPT ![o] = "QUEUED"]
    /\ UNCHANGED <<effect, terminal>>

(* Platform.admit when it creates a row.  An existing row for the same key *)
(* is returned or refused as a conflict, and a busy slot refuses: neither  *)
(* changes anything.                                                       *)
Admit(p, o, cred, key, request) ==
    /\ Available(p)
    /\ KeyIsFree(cred, key)
    /\ busy[p] = NoOp
    /\ InsertRow(o, cred, key, request)
    /\ busy' = [busy EXCEPT ![p] = o]
    /\ pc' = [pc EXCEPT ![o] = "created"]
    /\ home' = [home EXCEPT ![o] = p]
    /\ UNCHANGED <<lock, phase, healthy, before, nodeVars>>

-----------------------------------------------------------------------------
(* The worker: Platform.execute and verify_effect.                         *)

Goto(o, label) == pc' = [pc EXCEPT ![o] = label]

(* Mutant: no finally clause, the slot is never given back. *)
EndTask_KeepsSlot(o) == Goto(o, "none") /\ UNCHANGED busy

(* The finally clause: the task is over and gives its slot back. *)
EndTask(o) ==
    /\ Goto(o, "none")
    /\ busy' = [busy EXCEPT ![home[o]] = IF @ = o THEN NoOp ELSE @]

(* Mutant: a failed save is only logged. *)
SaveFails_StaysHealthy(o) == UNCHANGED <<healthy, rowVars>>

(* Platform.save failing: nothing is written and the process stops         *)
(* admitting.                                                              *)
SaveFails(o) ==
    /\ healthy' = [healthy EXCEPT ![home[o]] = FALSE]
    /\ UNCHANGED rowVars

(* A terminal save, then the end of the task. *)
Finish(o, status, result) ==
    /\ \/ SaveTerminal(o, status, result) /\ UNCHANGED healthy
       \/ SaveFails(o)
    /\ EndTask(o)
    /\ UNCHANGED <<lock, phase, home, nodeVars>>

(* The first step of the task; a task cancelled before it never runs it.   *)
(* The row check is the code's guard against a second worker.              *)
Begin(o) ==
    /\ pc[o] = "created"
    /\ Available(home[o])
    /\ IF dispatch[o] = "QUEUED" /\ ~terminal[o]
       THEN Goto(o, "observe") /\ UNCHANGED busy
       ELSE EndTask(o)
    /\ UNCHANGED <<lock, phase, healthy, rowVars, home, before, nodeVars>>

(* asyncio never enters a coroutine cancelled before its first step:       *)
(* neither the handlers nor the finally clause run.                        *)
CancelUnstarted(o) ==
    /\ pc[o] = "created"
    /\ phase[home[o]] = "closing"
    /\ Goto(o, "none")
    /\ UNCHANGED <<procVars, rowVars, home, before, nodeVars>>

(* The fresh observation before the policy decision.  close() invalidates  *)
(* a sample in flight; a worker whose cancellation arrives with the result *)
(* (asyncio.wait_for before 3.12) goes on with STATE_UNKNOWN.              *)
Sample(o, s) ==
    /\ phase[home[o]] = "closing" => s.traffic = "UNKNOWN"
    /\ before' = [before EXCEPT ![o] = s.traffic]

(* Mutant: the semantic error is stored as the effect. *)
AlreadySatisfied_WrongField(o) ==
    /\ pc[o] = "observe"
    /\ \E s \in Snapshots(KindOf(o)) :
          /\ s.effect = "OBSERVED_SATISFIED"
          /\ Sample(o, s)
    /\ Finish(o, "NOT_DISPATCHED", "ALREADY_SATISFIED")

AlreadySatisfied(o) ==
    /\ pc[o] = "observe"
    /\ \E s \in Snapshots(KindOf(o)) :
          /\ s.effect = "OBSERVED_SATISFIED"
          /\ Sample(o, s)
    /\ Finish(o, "NOT_DISPATCHED", "OBSERVED_SATISFIED")

PolicyDenies(o) ==
    /\ pc[o] = "observe"
    /\ \E s \in Snapshots(KindOf(o)) :
          /\ s.effect # "OBSERVED_SATISFIED"
          /\ ~Permits(KindOf(o), s.traffic)
          /\ Sample(o, s)
    /\ Finish(o, "NOT_DISPATCHED", "NOT_ATTEMPTED")

PolicyAllows(o) ==
    /\ pc[o] = "observe"
    /\ \E s \in Snapshots(KindOf(o)) :
          /\ s.effect # "OBSERVED_SATISFIED"
          /\ Permits(KindOf(o), s.traffic)
          /\ Sample(o, s)
    /\ Goto(o, "connect")
    /\ UNCHANGED <<procVars, rowVars, home, nodeVars>>

(* Mutant: a cancellation is swallowed for good. *)
FailBeforeDispatch_IgnoresCancel(o) ==
    /\ pc[o] \in BeforeBarrier
    /\ phase[home[o]] = "up"
    /\ Finish(o, "NOT_DISPATCHED", "NOT_ATTEMPTED")
    /\ UNCHANGED before

(* Everything that ends the task before the barrier: an exception, a       *)
(* timeout of connect or login, the barrier refusing (closing, or a row    *)
(* that is not QUEUED), a cancellation.                                    *)
FailBeforeDispatch(o) ==
    /\ pc[o] \in BeforeBarrier
    /\ pc[o] = "created" => phase[home[o]] = "up"
    /\ Finish(o, "NOT_DISPATCHED", "NOT_ATTEMPTED")
    /\ UNCHANGED before

(* Mutant: the bytes go out before DISPATCH_STARTED is committed. *)
StartDispatch_NoCommit(o) ==
    /\ dispatch[o] = "QUEUED" /\ ~terminal[o]
    /\ UNCHANGED rowVars

(* Ledger.start_dispatch: the durable boundary no row crosses twice. *)
StartDispatch(o) ==
    /\ dispatch[o] = "QUEUED" /\ ~terminal[o]
    /\ dispatch' = [dispatch EXCEPT ![o] = "DISPATCH_STARTED"]
    /\ UNCHANGED <<effect, terminal, origin>>

(* barrier(), called by AMISession.action with no await before the write. *)
CrossBarrier(o) ==
    /\ pc[o] = "connect"
    /\ Available(home[o])
    /\ StartDispatch(o)
    /\ Goto(o, "write")
    /\ UNCHANGED <<procVars, home, before, nodeVars>>

(* writer.write: the only place where control bytes leave the process. *)
Write(o) ==
    /\ pc[o] = "write"
    /\ written' = [written EXCEPT ![o] = @ + 1]
    /\ wire' = [wire EXCEPT ![o] = "pending"]
    /\ Goto(o, "reply")
    /\ UNCHANGED <<procVars, rowVars, home, before>>

(* Mutant: a refusal in the output of a Success reply goes unnoticed. *)
CommandRejected_Never(o) == FALSE

(* The matching reply is one command_rejected recognises. *)
CommandRejected(o) == wire[o] = "refused"

Rejected(o) ==
    /\ pc[o] = "reply"
    /\ CommandRejected(o)
    /\ Finish(o, "REJECTED", "NOT_ATTEMPTED")
    /\ UNCHANGED before

(* The node has answered; the answer may still be lost on its way. *)
Replied(o) == wire[o] \in {"accepted", "executed", "refused"}

(* A matching Success response, whether or not the node has run the        *)
(* command: ACKNOWLEDGED is saved on its own.                              *)
Acknowledged(o) ==
    /\ pc[o] = "reply"
    /\ Replied(o) /\ ~CommandRejected(o)
    /\ \/ /\ dispatch' = [dispatch EXCEPT ![o] = "ACKNOWLEDGED"]
          /\ Goto(o, IF KindOf(o) = "announce" THEN "announced" ELSE "verify")
          /\ UNCHANGED <<effect, terminal, origin, procVars>>
       \/ /\ SaveFails(o)
          /\ EndTask(o)
          /\ UNCHANGED <<lock, phase>>
    /\ UNCHANGED <<home, before, nodeVars>>

(* The second save of an announcement: its effect cannot be observed. *)
AnnouncementDone(o) ==
    /\ pc[o] = "announced"
    /\ Finish(o, dispatch[o], "UNKNOWN")
    /\ UNCHANGED before

(* verify_effect returns: satisfied, or the last sample at the deadline.   *)
(* Samples before the deadline that do not satisfy change nothing.         *)
Verified(o) ==
    /\ pc[o] = "verify"
    /\ \E s \in Snapshots(KindOf(o)) : Finish(o, dispatch[o], s.effect)
    /\ UNCHANGED before

(* Mutant: the handler forgets that the dispatch had started. *)
FailAfterDispatch_NotDispatched(o) ==
    /\ pc[o] \in {"reply", "verify"}
    /\ Finish(o, "NOT_DISPATCHED", "NOT_ATTEMPTED")
    /\ UNCHANGED before

(* Everything that ends the task after the barrier: no reply in time, the  *)
(* session lost, a reply that is neither, a cancellation.                  *)
FailAfterDispatch(o) ==
    /\ pc[o] \in {"reply", "verify"}
    /\ Finish(o, "OUTCOME_UNKNOWN", "UNKNOWN")
    /\ UNCHANGED before

WorkerStep(o) ==
    \/ Begin(o) \/ CancelUnstarted(o)
    \/ AlreadySatisfied(o) \/ PolicyDenies(o) \/ PolicyAllows(o)
    \/ FailBeforeDispatch(o) \/ CrossBarrier(o) \/ Write(o)
    \/ Rejected(o) \/ Acknowledged(o) \/ AnnouncementDone(o)
    \/ Verified(o) \/ FailAfterDispatch(o)

-----------------------------------------------------------------------------
(* Asterisk: bytes that left the process are answered with Success, carried *)
(* out, refused, or never looked at, whatever has become of the process    *)
(* meanwhile.  A Success is given before the command runs or after, and    *)
(* what was only accepted may be run later or never; a refusal in words    *)
(* command_rejected does not know counts as accepted, too.                 *)

NodeAccepts(o) ==
    /\ wire[o] = "pending"
    /\ wire' = [wire EXCEPT ![o] = "accepted"]
    /\ UNCHANGED <<procVars, rowVars, taskVars, written>>

NodeRuns(o) ==
    /\ wire[o] \in {"pending", "accepted"}
    /\ wire' = [wire EXCEPT ![o] = "executed"]
    /\ UNCHANGED <<procVars, rowVars, taskVars, written>>

NodeRefuses(o) ==
    /\ wire[o] = "pending"
    /\ wire' = [wire EXCEPT ![o] = "refused"]
    /\ UNCHANGED <<procVars, rowVars, taskVars, written>>

NodeStep(o) == NodeAccepts(o) \/ NodeRuns(o) \/ NodeRefuses(o)

-----------------------------------------------------------------------------

Next ==
    \/ \E p \in Procs :
          \/ Start(p) \/ FinishRecovery(p) \/ RecoveryFails(p)
          \/ BeginClose(p) \/ FinishClose(p) \/ Crash(p)
          \/ \E o \in Ops :
                \/ RecoverRow(p, o)
                \/ \E cred \in Creds, key \in Keys \cup {NoKey}, r \in Requests :
                      Admit(p, o, cred, key, r)
    \/ \E o \in Ops : WorkerStep(o) \/ NodeStep(o)

Spec == Init /\ [][Next]_vars

-----------------------------------------------------------------------------
(* Safety.                                                                 *)

TypeOK ==
    /\ lock \in Procs \cup {NoProc}
    /\ phase \in [Procs -> {"down", "recovering", "up", "closing"}]
    /\ healthy \in [Procs -> BOOLEAN]
    /\ busy \in [Procs -> Ops \cup {NoOp}]
    /\ dispatch \in [Ops -> DispatchStatus]
    /\ effect \in [Ops -> EffectStatus]
    /\ terminal \in [Ops -> BOOLEAN]
    /\ origin \in [Ops -> Origins \cup {NoOrigin}]
    /\ \A o \in Rows : origin[o] \in Origins
    /\ pc \in [Ops -> {"none"} \cup BeforeBarrier \cup AfterBarrier]
    /\ home \in [Ops -> Procs \cup {NoProc}]
    /\ \A o \in Ops : pc[o] # "none" => home[o] \in Procs
    /\ before \in [Ops -> {"NONE", "CLEAR", "ACTIVE", "UNKNOWN"}]
    /\ written \in [Ops -> Nat]
    /\ wire \in [Ops -> WireStatus]

(* Control is exclusive (ControlOwner and the in-memory slot together): in *)
(* all processes there is at most one live worker, and its process holds   *)
(* the lock, whatever crashed, closed or restarted before.                 *)
SingleWorker ==
    /\ \A o \in Ops : pc[o] # "none" => lock = home[o]
    /\ \A o1, o2 \in Ops : pc[o1] # "none" /\ pc[o2] # "none" => o1 = o2

(* Across crashes, takeovers and shutdowns the ledger never holds two      *)
(* unfinished operations (admit relies on busy, which a restart forgets).  *)
OneUnfinished ==
    \A o1, o2 \in Rows : ~terminal[o1] /\ ~terminal[o2] => o1 = o2

(* What a row says of the command is true, for ever after: QUEUED and      *)
(* NOT_DISPATCHED were never written, REJECTED and NOT_ATTEMPTED were not  *)
(* carried out and never will be, ACKNOWLEDGED was not refused (nothing is *)
(* said of its execution, docs/VNEXT.md:77).                               *)
HonestOutcome ==
    \A o \in Ops :
        /\ dispatch[o] \in {"ABSENT", "QUEUED", "NOT_DISPATCHED"} =>
              written[o] = 0 /\ wire[o] = "none"
        /\ dispatch[o] = "REJECTED" => wire[o] = "refused"
        /\ dispatch[o] = "ACKNOWLEDGED" => wire[o] \in {"accepted", "executed"}
        /\ effect[o] = "NOT_ATTEMPTED" => wire[o] \in {"none", "refused"}

(* No replay: however often a keyed request is retried, by whichever       *)
(* process it is answered, its command is written at most once.            *)
SentOncePerRequest ==
    /\ \A o \in Ops : written[o] <= 1
    /\ \A o1, o2 \in Rows :
          /\ origin[o1].key # NoKey
          /\ origin[o1].key = origin[o2].key
          /\ origin[o1].cred = origin[o2].cred
          => o1 = o2

(* A row a client can read as unfinished (require_ledger answers) is being *)
(* worked on right now: no row is left behind by a worker that ended, was  *)
(* cancelled or died.                                                      *)
NoOrphan ==
    \A p \in Procs, o \in Rows :
        phase[p] = "up" /\ healthy[p] /\ ~terminal[o] =>
            pc[o] # "none" /\ home[o] = p

(* NODE_BUSY is true: a slot is taken only by the live worker of an        *)
(* unfinished operation of this process (until close gives it up).         *)
SlotIsTruthful ==
    \A p \in Procs :
        phase[p] = "up" /\ busy[p] # NoOp =>
            /\ pc[busy[p]] # "none"
            /\ home[busy[p]] = p
            /\ ~terminal[busy[p]]

(* The worker's own observation was taken and the operator's policy        *)
(* permits the request under it.                                           *)
Gated(o) ==
    \/ before[o] = "CLEAR"
    \/ before[o] \in {"ACTIVE", "UNKNOWN"} /\ Policy[KindOf(o)][before[o]] = "allow"

(* Nothing is written to the node but under an observation taken after     *)
(* admission that the policy permits: under the shipped policy no link and *)
(* no announcement is sent while traffic is ACTIVE or UNKNOWN in it.       *)
PolicyGate == \A o \in Ops : written[o] > 0 => Gated(o)

(* An admitted row never loses its identity, and a terminal row never      *)
(* changes: not by recovery, a late reply, a cancelled worker or a retry.  *)
RowsAreForever ==
    [][\A o \in Rows :
          /\ origin'[o] = origin[o]
          /\ dispatch'[o] # "ABSENT"
          /\ terminal[o] => UNCHANGED <<dispatch[o], effect[o], terminal[o]>>]_vars

(* After a failed save the process writes neither the ledger nor the node  *)
(* until it is restarted.                                                  *)
PoisonedProcessIsReadOnly ==
    [][\A p \in Procs :
          lock = p /\ ~healthy[p] => UNCHANGED <<rowVars, written>>]_vars

-----------------------------------------------------------------------------
(* The inductive invariant behind the safety properties.                   *)

(* A process that is not down holds the lock, and nobody else does. *)
OwnerInv == \A p \in Procs : phase[p] # "down" <=> lock = p

(* A live worker owns the slot of a live, healthy process, and its row is  *)
(* where its program counter says.                                         *)
WorkerInv ==
    \A o \in Ops : pc[o] # "none" =>
        /\ phase[home[o]] \in {"up", "closing"}
        /\ healthy[home[o]]
        /\ busy[home[o]] = o
        /\ ~terminal[o]
        /\ pc[o] \in BeforeBarrier => dispatch[o] = "QUEUED"
        /\ pc[o] = "write" => dispatch[o] = "DISPATCH_STARTED" /\ written[o] = 0
        /\ pc[o] = "reply" => dispatch[o] = "DISPATCH_STARTED" /\ written[o] = 1
        /\ pc[o] \in {"announced", "verify"} => dispatch[o] = "ACKNOWLEDGED"

SlotInv ==
    \A p \in Procs :
        /\ phase[p] \in {"down", "recovering"} => busy[p] = NoOp
        /\ phase[p] = "recovering" => healthy[p]
        /\ phase[p] = "up" /\ busy[p] # NoOp =>
              pc[busy[p]] # "none" /\ home[busy[p]] = p

(* The row of an operation and its bytes agree. *)
RowInv ==
    \A o \in Ops :
        /\ dispatch[o] = "ABSENT" => ~terminal[o]
        /\ dispatch[o] \in {"NOT_DISPATCHED", "REJECTED", "OUTCOME_UNKNOWN"} =>
              terminal[o]
        /\ effect[o] = "NOT_ATTEMPTED" =>
              dispatch[o] \in {"NOT_DISPATCHED", "REJECTED"}
        /\ dispatch[o] \in {"ABSENT", "QUEUED", "NOT_DISPATCHED"} => written[o] = 0
        /\ dispatch[o] = "REJECTED" => wire[o] = "refused"
        /\ dispatch[o] = "ACKNOWLEDGED" => wire[o] \in {"accepted", "executed"}
        /\ written[o] = 0 <=> wire[o] = "none"
        /\ written[o] <= 1

GateInv ==
    \A o \in Ops :
        pc[o] \in {"connect"} \cup AfterBarrier \/ written[o] > 0 => Gated(o)

InductiveInvariant ==
    /\ TypeOK
    /\ OwnerInv
    /\ WorkerInv
    /\ SlotInv
    /\ RowInv
    /\ GateInv
    /\ NoOrphan
    /\ OneUnfinished
    /\ SentOncePerRequest

-----------------------------------------------------------------------------
(* Liveness.                                                               *)

(* What the scheduling justifies: every await of the worker ends (each one *)
(* is under asyncio.wait_for, a deadline or a cancellation), recovery and  *)
(* close run to their end while their process lives, and the service       *)
(* manager starts a process that is down (Restart=always).  Nothing is     *)
(* assumed of the node, and no operator restarts an unhealthy process.     *)
Fairness ==
    /\ \A o \in Ops : WF_vars(WorkerStep(o))
    /\ \A p \in Procs :
          /\ WF_vars(Start(p))
          /\ WF_vars(FinishRecovery(p) \/ \E o \in Ops : RecoverRow(p, o))
          /\ WF_vars(FinishClose(p))

LiveSpec == Spec /\ Fairness

(* From some time on no process dies and start finds a readable ledger.    *)
EventuallyCalm ==
    <>[][\A p \in Procs : ~Crash(p) /\ ~RecoveryFails(p)]_vars

(* No control slot is held for ever, whatever crashes or SQLite errors     *)
(* come: every busy slot is given back.                                    *)
SlotIsFreed ==
    \A p \in Procs, o \in Ops : busy[p] = o ~> busy[p] # o

(* close() ends: the gather does not wait for ever on a worker that        *)
(* swallowed its cancellation.                                             *)
CloseEnds == \A p \in Procs : phase[p] = "closing" ~> phase[p] = "down"

(* Once crashes stop, every admitted operation becomes terminal, by its    *)
(* worker or by recovery; or a failed save has left the process that holds *)
(* the lock refusing control, and says so with LEDGER_UNAVAILABLE.         *)
EveryOperationSettles ==
    EventuallyCalm =>
        \A o \in Ops :
            o \in Rows ~> \/ terminal[o]
                         \/ \E p \in Procs : phase[p] = "up" /\ ~healthy[p]

-----------------------------------------------------------------------------
(* The contract, with the ledger and the wire read as its state.           *)

Sent == {o \in Ops : written[o] > 0}

Fate == [o \in Ops |-> IF Replied(o) THEN wire[o] ELSE "none"]

Contract == INSTANCE OperationContract WITH
    status <- dispatch, final <- terminal, sent <- Sent, fate <- Fate

(* Every step of the processes, the tasks and the node is a step the       *)
(* contract allows, or changes nothing the client was promised.            *)
ImplementsContract == Contract!Spec

=============================================================================
