------------------------------ MODULE Lifespan ------------------------------
(***************************************************************************)
(* Start-up and shutdown of a service process: lifespan in asl_agent.py,   *)
(* with the start and stop of each part it drives.                         *)
(*                                                                         *)
(* A process takes the node's lock, then starts its parts in order; if one *)
(* fails, or when the service is stopped, the finally clause stops them    *)
(* all.  Each await in it gives the parts still running their turn.  A     *)
(* failure in the clause skips the rest of it; the process then exits.     *)
(* Several processes may be started for one node.                          *)
(*                                                                         *)
(* The clause cancels a loop once and awaits its end.  Before Python 3.12  *)
(* asyncio.wait_for swallows a cancellation that comes when what it waits  *)
(* for is done: the loops that read the node may then go on for ever.      *)
(*                                                                         *)
(* Of the parts, the directory of nodes (node_cache.py) is followed to     *)
(* its content: it is fetched at start-up and by the refresh loop.  A      *)
(* fetch awaited changes nothing until its one assignment, so it is one    *)
(* step, and a loop cancelled in a fetch leaves the directory as it was.   *)
(***************************************************************************)
EXTENDS FiniteSets

CONSTANTS Procs, Nobody

ASSUME ProcsAssumption == Nobody \notin Procs

VARIABLES
    config,     \* webhooks.enabled, webhooks.url is set, events.enabled
    owner,      \* who holds the node's lock
    pc,         \* the next line of lifespan
    alive,      \* the parts of a process that are open or running
    deaf,       \* the loops of a process that have swallowed their cancellation
    upstream,   \* how allmondb.allstarlink.org answers
    directory   \* NodeCache._cache: "empty" or "loaded"

cacheVars == <<upstream, directory>>
vars      == <<config, owner, pc, alive, deaf, upstream, directory>>

(* The legacy AMI connection, the webhook HTTP session, the poll loop of   *)
(* the event listener, the refresh loop of the node cache, the monitoring  *)
(* loop.                                                                   *)
Parts == {"ami", "session", "poll", "refresh", "monitor"}

(* The loops that read the node, through wait_for.                         *)
Loops == {"monitor", "poll"}

StartUp == {"connect", "handler", "cache", "listener", "monitor"}

Shutdown == {"close", "stopMonitor", "stopListener", "stopHandler", "stopCache",
             "disconnect"}

(* 200 with the database; 200 with no usable line; another status, an      *)
(* error or the timeout.                                                   *)
Answers == {"good", "blank", "down"}

-----------------------------------------------------------------------------

Init ==
    /\ config \in [webhooks : BOOLEAN, url : BOOLEAN, events : BOOLEAN]
    /\ owner = Nobody
    /\ pc = [p \in Procs |-> "down"]
    /\ alive = [p \in Procs |-> {}]
    /\ deaf = [p \in Procs |-> {}]
    /\ upstream \in Answers
    /\ directory = [p \in Procs |-> "empty"]

Goto(p, label) == pc' = [pc EXCEPT ![p] = label]

Begin(p, part) == alive' = [alive EXCEPT ![p] = @ \cup {part}]
End(p, part)   == alive' = [alive EXCEPT ![p] = @ \ {part}]

(* Mutants: the legacy connection is opened before the lock is taken; and  *)
(* a process that finds the lock taken waits for it.                       *)
StartRuntime_ConnectFirst(p) ==
    /\ pc[p] = "down"
    /\ Begin(p, "ami")
    /\ IF owner = Nobody THEN Goto(p, "connect") /\ owner' = p
                         ELSE Goto(p, "refused") /\ UNCHANGED owner
    /\ UNCHANGED <<config, deaf, cacheVars>>

StartRuntime_Retries(p) ==
    /\ pc[p] = "down"
    /\ Begin(p, "ami")
    /\ IF owner = Nobody THEN Goto(p, "connect") /\ owner' = p
                         ELSE UNCHANGED <<pc, owner>>
    /\ UNCHANGED <<config, deaf, cacheVars>>

(* Platform.start; it raises before the try if the lock is taken.          *)
StartRuntime(p) ==
    /\ pc[p] = "down"
    /\ IF owner = Nobody THEN Goto(p, "connect") /\ owner' = p
                         ELSE Goto(p, "refused") /\ UNCHANGED owner
    /\ UNCHANGED <<config, alive, deaf, cacheVars>>

(* The ledger cannot be opened or recovered: the lock is released again.   *)
RecoveryFails(p) ==
    /\ pc[p] = "down" /\ owner = Nobody
    /\ Goto(p, "refused")
    /\ UNCHANGED <<config, owner, alive, deaf, cacheVars>>

(* AMIClient.connect; its failure is caught. *)
ConnectAMI(p) ==
    /\ pc[p] = "connect"
    /\ Begin(p, "ami") \/ UNCHANGED alive
    /\ Goto(p, "handler")
    /\ UNCHANGED <<config, owner, deaf, cacheVars>>

StartHandler(p) ==
    /\ pc[p] = "handler"
    /\ IF config.webhooks /\ config.url THEN Begin(p, "session") ELSE UNCHANGED alive
    /\ Goto(p, "cache")
    /\ UNCHANGED <<config, owner, deaf, cacheVars>>

(* NodeCache._fetch: a new directory replaces the old one whatever is in   *)
(* it; a failure keeps the old one.                                        *)
Fetch(p) ==
    /\ directory' = [directory EXCEPT ![p] =
           [good |-> "loaded", blank |-> "empty", down |-> @][upstream]]
    /\ UNCHANGED upstream

StartCache(p) ==
    /\ pc[p] = "cache"
    /\ Fetch(p)
    /\ Begin(p, "refresh")
    /\ Goto(p, "listener")
    /\ UNCHANGED <<config, owner, deaf>>

StartListener(p) ==
    /\ pc[p] = "listener"
    /\ IF config.events THEN Begin(p, "poll") ELSE UNCHANGED alive
    /\ Goto(p, "monitor")
    /\ UNCHANGED <<config, owner, deaf, cacheVars>>

StartMonitor(p) ==
    /\ pc[p] = "monitor"
    /\ IF config.webhooks THEN Begin(p, "monitor") ELSE UNCHANGED alive
    /\ Goto(p, "serving")
    /\ UNCHANGED <<config, owner, deaf, cacheVars>>

(* Mutant: the handler of a failed fetch is outside the loop.              *)
Refresh_EndsOnError(p) ==
    /\ "refresh" \in alive[p]
    /\ Fetch(p)
    /\ IF upstream = "down" THEN End(p, "refresh") ELSE UNCHANGED alive
    /\ UNCHANGED <<config, owner, pc, deaf>>

(* One round of the refresh loop. *)
Refresh(p) ==
    /\ "refresh" \in alive[p]
    /\ Fetch(p)
    /\ UNCHANGED <<config, owner, pc, alive, deaf>>

UpstreamChanges ==
    /\ upstream' \in Answers
    /\ UNCHANGED <<config, owner, pc, alive, deaf, directory>>

(* Something raises after the lock was taken, or the service is stopped.   *)
Leave(p) ==
    /\ pc[p] \in StartUp \cup {"serving"}
    /\ Goto(p, "close")
    /\ UNCHANGED <<config, owner, alive, deaf, cacheVars>>

CloseRuntime(p) ==
    /\ pc[p] = "close"
    /\ owner' = Nobody
    /\ Goto(p, "stopMonitor")
    /\ UNCHANGED <<config, alive, deaf, cacheVars>>

(* The one cancellation of a loop is swallowed by the wait_for it is in.   *)
Swallow(p) ==
    /\ \E loop \in Loops \cap alive[p] :
          /\ pc[p] = [monitor |-> "stopMonitor", poll |-> "stopListener"][loop]
          /\ deaf' = [deaf EXCEPT ![p] = @ \cup {loop}]
    /\ UNCHANGED <<config, owner, pc, alive, cacheVars>>

(* Mutant: the loop is cancelled and not awaited: it may run on.           *)
StopMonitor_NotAwaited(p) ==
    /\ pc[p] = "stopMonitor"
    /\ Goto(p, "stopListener")
    /\ UNCHANGED <<config, owner, alive, deaf, cacheVars>>

StopMonitor(p) ==
    /\ pc[p] = "stopMonitor" /\ "monitor" \notin deaf[p]
    /\ End(p, "monitor")
    /\ Goto(p, "stopListener")
    /\ UNCHANGED <<config, owner, deaf, cacheVars>>

(* Mutant: the task is forgotten, not cancelled.                           *)
StopListener_Forgets(p) ==
    /\ pc[p] = "stopListener"
    /\ Goto(p, "stopHandler")
    /\ UNCHANGED <<config, owner, alive, deaf, cacheVars>>

StopListener(p) ==
    /\ pc[p] = "stopListener" /\ "poll" \notin deaf[p]
    /\ End(p, "poll")
    /\ Goto(p, "stopHandler")
    /\ UNCHANGED <<config, owner, deaf, cacheVars>>

StopHandler(p) ==
    /\ pc[p] = "stopHandler"
    /\ End(p, "session")
    /\ Goto(p, "stopCache")
    /\ UNCHANGED <<config, owner, deaf, cacheVars>>

(* Mutant: the refresh loop is awaited and not cancelled.                  *)
StopCache_NotCancelled(p) ==
    /\ pc[p] = "stopCache"
    /\ "refresh" \notin alive[p]
    /\ Goto(p, "disconnect")
    /\ UNCHANGED <<config, owner, alive, deaf, cacheVars>>

StopCache(p) ==
    /\ pc[p] = "stopCache"
    /\ End(p, "refresh")
    /\ Goto(p, "disconnect")
    /\ UNCHANGED <<config, owner, deaf, cacheVars>>

Disconnect(p) ==
    /\ pc[p] = "disconnect"
    /\ End(p, "ami")
    /\ Goto(p, "stopped")
    /\ UNCHANGED <<config, owner, deaf, cacheVars>>

(* A line of the finally clause raises. *)
StopFails(p) ==
    /\ pc[p] \in Shutdown
    /\ Goto(p, "failed")
    /\ UNCHANGED <<config, owner, alive, deaf, cacheVars>>

(* The process ends, by itself or by a crash: its lock, tasks and          *)
(* connections are gone.  The service manager starts it again.             *)
Exit(p) ==
    /\ pc[p] # "down"
    /\ owner' = IF owner = p THEN Nobody ELSE owner
    /\ alive' = [alive EXCEPT ![p] = {}]
    /\ deaf' = [deaf EXCEPT ![p] = {}]
    /\ Goto(p, "down")
    /\ directory' = [directory EXCEPT ![p] = "empty"]
    /\ UNCHANGED <<config, upstream>>

StartUpStep(p) ==
    \/ StartRuntime(p) \/ RecoveryFails(p) \/ ConnectAMI(p) \/ StartHandler(p)
    \/ StartCache(p) \/ StartListener(p) \/ StartMonitor(p) \/ Leave(p)

ShutdownStep(p) ==
    \/ CloseRuntime(p) \/ StopMonitor(p) \/ StopListener(p) \/ StopHandler(p)
    \/ StopCache(p) \/ Disconnect(p)

Next ==
    \/ \E p \in Procs :
          \/ StartUpStep(p) \/ ShutdownStep(p) \/ Swallow(p) \/ StopFails(p)
          \/ Refresh(p) \/ Exit(p)
    \/ UpstreamChanges

Spec == Init /\ [][Next]_vars

(* The event loop runs the finally clause on, and close ends (CloseEnds of *)
(* module ControlPlane); the refresh loop's timer fires.                   *)
Fairness == \A p \in Procs : WF_vars(ShutdownStep(p)) /\ WF_vars(Refresh(p))

LiveSpec == Spec /\ Fairness

-----------------------------------------------------------------------------

TypeOK ==
    /\ config \in [webhooks : BOOLEAN, url : BOOLEAN, events : BOOLEAN]
    /\ owner \in Procs \cup {Nobody}
    /\ pc \in [Procs -> {"down", "refused", "serving", "stopped", "failed"} \cup
                      StartUp \cup Shutdown]
    /\ alive \in [Procs -> SUBSET Parts]
    /\ deaf \in [Procs -> SUBSET Loops]
    /\ \A p \in Procs : pc[p] = "down" => alive[p] = {}
    /\ upstream \in Answers
    /\ directory \in [Procs -> {"empty", "loaded"}]

(* asl_agent.py: "Acquire the node owner before opening any AMI            *)
(* connection".  A process without the lock has nothing open, but for what *)
(* its finally clause, which gives the lock up first, has not come to or   *)
(* was kept from by a failure: the loops that read the node run beside a   *)
(* new owner only until their own line, and a shutdown that completes      *)
(* leaves nothing, however far the start-up had come.                      *)
OwnerFirst ==
    \A p \in Procs : owner # p =>
        /\ alive[p] # {} => pc[p] \in (Shutdown \ {"close"}) \cup {"failed"}
        /\ "monitor" \in alive[p] => pc[p] \in {"stopMonitor", "failed"}
        /\ "poll" \in alive[p] => pc[p] \in {"stopMonitor", "stopListener", "failed"}

(* The monitoring loop never runs on a closed webhook session, whatever    *)
(* start-up reached before the shutdown.                                   *)
SessionOutlivesMonitor ==
    \A p \in Procs : "monitor" \in alive[p] /\ config.url => "session" \in alive[p]

(* A shutdown ends, though it awaits loops that by themselves never end,   *)
(* one of them perhaps in the middle of a fetch: only a loop that has      *)
(* swallowed its one cancellation can hold it.                             *)
ShutdownEnds ==
    \A p \in Procs : pc[p] \in Shutdown ~> pc[p] \notin Shutdown \/ deaf[p] # {}

(* A directory that an answer without a usable line has emptied, or that   *)
(* could not be loaded at start-up, is loaded again once the database is   *)
(* served: no outage and no blank answer ends the refresh loop.            *)
DirectoryRecovers ==
    \A p \in Procs :
        <>[](upstream = "good" /\ pc[p] = "serving") => <>[](directory[p] = "loaded")

=============================================================================
