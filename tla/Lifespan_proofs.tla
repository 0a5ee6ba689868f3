-------------------------- MODULE Lifespan_proofs --------------------------
(***************************************************************************)
(* Why a process opens nothing without the lock and the monitoring loop    *)
(* never outlives its session, for any number of processes.  What a process has  *)
(* alive is tied to its place in lifespan: past its start-up it is the     *)
(* owner until CloseRuntime, and each line of the finally clause that is   *)
(* behind it has ended its part, whatever the start-up had reached.        *)
(***************************************************************************)
EXTENDS Lifespan, TLAPS

Serving == StartUp \cup {"serving", "close"}

Labels == {"down", "refused", "serving", "stopped", "failed"} \cup StartUp \cup Shutdown

Types ==
    /\ config \in [webhooks : BOOLEAN, url : BOOLEAN, events : BOOLEAN]
    /\ owner \in Procs \cup {Nobody}
    /\ pc \in [Procs -> Labels]
    /\ alive \in [Procs -> SUBSET Parts]
    /\ deaf \in [Procs -> SUBSET Loops]
    /\ upstream \in Answers
    /\ directory \in [Procs -> {"empty", "loaded"}]

(* Until it closes, a process that came past the lock has it. *)
Owned(p) == pc[p] \in Serving => owner = p

(* What has not been opened yet or has been closed already. *)
Closed(p) ==
    /\ pc[p] \in {"down", "refused", "stopped"} => alive[p] = {}
    /\ pc[p] \in {"stopListener", "stopHandler", "stopCache", "disconnect"} =>
          "monitor" \notin alive[p]
    /\ pc[p] \in {"stopHandler", "stopCache", "disconnect"} => "poll" \notin alive[p]
    /\ pc[p] \in {"stopCache", "disconnect"} => "session" \notin alive[p]
    /\ pc[p] = "disconnect" => "refresh" \notin alive[p]

(* The session is opened before the loop that uses it. *)
Session(p) ==
    /\ pc[p] \in {"cache", "listener", "monitor"} /\ config.webhooks /\ config.url =>
          "session" \in alive[p]
    /\ "monitor" \in alive[p] /\ config.url => "session" \in alive[p]

LifeInv == Types /\ \A p \in Procs : Owned(p) /\ Closed(p) /\ Session(p)

-----------------------------------------------------------------------------

(* A step moves one process; the lock passes from or to nobody but it.     *)
Moves(p) ==
    /\ UNCHANGED config
    /\ \A q \in Procs \ {p} : pc'[q] = pc[q] /\ alive'[q] = alive[q]
    /\ \/ owner' = owner
       \/ owner = Nobody /\ owner' = p
       \/ owner = p /\ owner' = Nobody

LEMMA OthersKeepInv ==
    ASSUME LifeInv, NEW p \in Procs, Moves(p), Types', Owned(p)', Closed(p)', Session(p)'
    PROVE  LifeInv'
  <1>1. ASSUME NEW q \in Procs, q # p
        PROVE  Owned(q)' /\ Closed(q)' /\ Session(q)'
    BY <1>1, ProcsAssumption DEF LifeInv, Moves, Owned, Closed, Session
  <1>2. QED  BY <1>1 DEF LifeInv

(* Start-up. *)
LEMMA StartUpKeepsInv ==
    ASSUME LifeInv, NEW p \in Procs, StartUpStep(p)
    PROVE  LifeInv'
  <1> USE DEF Goto, Begin, cacheVars
  <1>1. Types'
    BY DEF LifeInv, Types, Labels, StartUp, Shutdown, Parts, StartUpStep, StartRuntime,
           RecoveryFails, ConnectAMI, StartHandler, Fetch, StartCache, StartListener,
           StartMonitor, Leave, Answers
  <1>2. Moves(p)
    BY DEF LifeInv, Types, Moves, StartUpStep, StartRuntime, RecoveryFails, ConnectAMI,
           StartHandler, Fetch, StartCache, StartListener, StartMonitor, Leave
  <1>3. Owned(p)'
    BY DEF LifeInv, Types, Owned, Serving, StartUp, StartUpStep, StartRuntime, RecoveryFails,
           ConnectAMI, StartHandler, StartCache, StartListener, StartMonitor, Leave
  <1>4. Closed(p)'
    BY DEF LifeInv, Types, Closed, StartUp, StartUpStep, StartRuntime, RecoveryFails,
           ConnectAMI, StartHandler, StartCache, StartListener, StartMonitor, Leave
  <1>5. Session(p)'
    BY DEF LifeInv, Types, Closed, Session, StartUp, StartUpStep, StartRuntime,
           RecoveryFails, ConnectAMI, StartHandler, StartCache, StartListener,
           StartMonitor, Leave
  <1>6. QED  BY <1>1, <1>2, <1>3, <1>4, <1>5, OthersKeepInv

(* The finally clause. *)
LEMMA ShutdownKeepsInv ==
    ASSUME LifeInv, NEW p \in Procs, ShutdownStep(p) \/ StopFails(p)
    PROVE  LifeInv'
  <1> USE DEF Goto, End, cacheVars
  <1>1. Types'
    BY DEF LifeInv, Types, Labels, Shutdown, ShutdownStep, CloseRuntime, StopMonitor,
           StopListener, StopHandler, StopCache, Disconnect, StopFails
  <1>2. Moves(p)
    BY DEF LifeInv, Types, Owned, Serving, Moves, ShutdownStep, CloseRuntime, StopMonitor,
           StopListener, StopHandler, StopCache, Disconnect, StopFails
  <1>3. Owned(p)'
    BY DEF LifeInv, Types, Serving, StartUp, Owned, ShutdownStep, CloseRuntime, StopMonitor,
           StopListener, StopHandler, StopCache, Disconnect, StopFails
  <1>4. Closed(p)'
    BY DEF LifeInv, Types, Parts, Closed, ShutdownStep, CloseRuntime, StopMonitor,
           StopListener, StopHandler, StopCache, Disconnect, StopFails
  <1>5. Session(p)'
    BY DEF LifeInv, Types, Closed, Session, ShutdownStep, CloseRuntime, StopMonitor,
           StopListener, StopHandler, StopCache, Disconnect, StopFails
  <1>6. QED  BY <1>1, <1>2, <1>3, <1>4, <1>5, OthersKeepInv

(* The loops, the end of a process, the database. *)
LEMMA RestKeepsInv ==
    ASSUME LifeInv,
           \/ \E p \in Procs : Refresh(p) \/ Exit(p) \/ Swallow(p)
           \/ UpstreamChanges
           \/ UNCHANGED vars
    PROVE  LifeInv'
  <1>1. CASE UpstreamChanges \/ UNCHANGED vars
    BY <1>1 DEF LifeInv, Types, Owned, Closed, Session, UpstreamChanges, vars
  <1>2. ASSUME NEW p \in Procs, Refresh(p)
        PROVE  LifeInv'
    BY <1>2 DEF LifeInv, Types, Owned, Closed, Session, Refresh, Fetch, Answers
  <1>3. ASSUME NEW p \in Procs, Exit(p)
        PROVE  LifeInv'
    <2>1. Types' /\ Moves(p)
      BY <1>3 DEF LifeInv, Types, Labels, Exit, Goto, Moves
    <2>2. Owned(p)' /\ Closed(p)' /\ Session(p)'
      BY <1>3 DEF LifeInv, Types, Exit, Goto, Owned, Serving, StartUp, Closed, Session
    <2>3. QED  BY <2>1, <2>2, OthersKeepInv
  <1>4. ASSUME NEW p \in Procs, Swallow(p)
        PROVE  LifeInv'
    BY <1>4 DEF LifeInv, Types, Owned, Closed, Session, Swallow, Loops, cacheVars
  <1>5. QED  BY <1>1, <1>2, <1>3, <1>4

(* What is alive in each process is what its place in lifespan allows.     *)
THEOREM LifeInvariance == Spec => []LifeInv
  <1>1. Init => LifeInv
    BY DEF Init, LifeInv, Types, Labels, Answers, Owned, Serving, StartUp, Closed, Session
  <1>2. LifeInv /\ [Next]_vars => LifeInv'
    BY StartUpKeepsInv, ShutdownKeepsInv, RestKeepsInv DEF Next
  <1>3. QED  BY <1>1, <1>2, PTL DEF Spec

(* Every reachable state is typed, and a process that is down has nothing  *)
(* open.                                                                   *)
THEOREM TypeCorrectness == Spec => []TypeOK
  <1>1. LifeInv => TypeOK
    BY DEF LifeInv, Types, Labels, Closed, TypeOK
  <1>2. QED  BY <1>1, LifeInvariance, PTL

(* However many processes are started for a node, one without the lock has *)
(* open only what its finally clause has not come to, or was kept from;    *)
(* the loops that read the node, only until their own line of it; and a    *)
(* completed shutdown has left nothing.                                    *)
THEOREM OwnerComesFirst == Spec => []OwnerFirst
  <1>1. ASSUME LifeInv, NEW p \in Procs, owner # p
        PROVE  /\ alive[p] # {} => pc[p] \in (Shutdown \ {"close"}) \cup {"failed"}
               /\ "monitor" \in alive[p] => pc[p] \in {"stopMonitor", "failed"}
               /\ "poll" \in alive[p] => pc[p] \in {"stopMonitor", "stopListener", "failed"}
    <2>1. /\ pc[p] \in Labels /\ pc[p] \notin Serving
          /\ pc[p] \in {"down", "refused", "stopped"} => alive[p] = {}
      BY <1>1 DEF LifeInv, Types, Owned, Closed
    <2>2. alive[p] # {} => pc[p] \in (Shutdown \ {"close"}) \cup {"failed"}
      BY <2>1 DEF Labels, Serving
    <2>3. alive[p] # {} =>
            pc[p] \in {"stopMonitor", "stopListener", "stopHandler", "stopCache",
                      "disconnect", "failed"}
      BY <2>2 DEF Shutdown
    <2>4. QED  BY <1>1, <2>2, <2>3 DEF LifeInv, Closed
  <1>2. LifeInv => OwnerFirst
    BY <1>1 DEF OwnerFirst
  <1>3. QED  BY <1>2, LifeInvariance, PTL

(* The monitoring loop never posts through a closed session, wherever a    *)
(* start-up or a shutdown breaks off.                                      *)
THEOREM SessionIsOpen == Spec => []SessionOutlivesMonitor
  <1>1. LifeInv => SessionOutlivesMonitor
    BY DEF LifeInv, Session, SessionOutlivesMonitor
  <1>2. QED  BY <1>1, LifeInvariance, PTL

=============================================================================
