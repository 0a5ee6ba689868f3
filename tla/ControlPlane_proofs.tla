------------------------- MODULE ControlPlane_proofs -------------------------
(***************************************************************************)
(* Proofs about ControlPlane for every set of processes, operations,       *)
(* credentials, keys and requests and every policy.  The inductive         *)
(* invariant is preserved by each action (one lemma per action, the ends   *)
(* of the worker sharing FinishPreserves); the safety properties and the   *)
(* refinement of OperationContract follow from it.                         *)
(***************************************************************************)
EXTENDS ControlPlane, TLAPS

(* The initial states satisfy the invariant. *)
LEMMA InitInvariant == Init => InductiveInvariant
  BY SentinelAssumption, SMTT(30)
  DEF Init, InductiveInvariant, TypeOK, OwnerInv, WorkerInv, SlotInv, RowInv,
      GateInv, NoOrphan, OneUnfinished, SentOncePerRequest, Rows,
      DispatchStatus, EffectStatus, WireStatus, BeforeBarrier, AfterBarrier

-----------------------------------------------------------------------------
(* Start, recovery, shutdown and crash.                                    *)

(* A process that takes the free lock finds no worker anywhere. *)
LEMMA StartPreserves ==
  ASSUME InductiveInvariant, NEW p \in Procs, Start(p)
  PROVE  InductiveInvariant'
<1> USE SentinelAssumption
    DEF InductiveInvariant, Start, procVars, rowVars, taskVars, nodeVars, Rows
<1>1. TypeOK'  BY DEF TypeOK, DispatchStatus, EffectStatus
<1>2. OwnerInv'  BY DEF TypeOK, OwnerInv
<1>3. WorkerInv'  BY DEF TypeOK, WorkerInv, BeforeBarrier, AfterBarrier
<1>4. SlotInv'  BY DEF TypeOK, SlotInv
<1>5. RowInv'  BY DEF RowInv
<1>6. GateInv'  BY DEF GateInv, Gated, KindOf
<1>7. NoOrphan'  BY DEF TypeOK, NoOrphan
<1>8. OneUnfinished' /\ SentOncePerRequest'
  BY DEF OneUnfinished, SentOncePerRequest
<1>9. QED  BY <1>1, <1>2, <1>3, <1>4, <1>5, <1>6, <1>7, <1>8

(* Recovery makes one unfinished row terminal; no worker is alive. *)
LEMMA RecoverRowPreserves ==
  ASSUME InductiveInvariant, NEW p \in Procs, NEW o \in Ops, RecoverRow(p, o)
  PROVE  InductiveInvariant'
<1> USE SentinelAssumption
    DEF InductiveInvariant, RecoverRow, SaveTerminal, Crossed, ToRecover,
        procVars, taskVars, nodeVars, Rows
<1>1. TypeOK'
  <2>1. /\ dispatch' \in [Ops -> DispatchStatus] /\ effect' \in [Ops -> EffectStatus]
        /\ terminal' \in [Ops -> BOOLEAN]
    <3>1. CASE Crossed(o)  BY <3>1 DEF TypeOK, DispatchStatus, EffectStatus
    <3>2. CASE ~Crossed(o)  BY <3>2 DEF TypeOK, DispatchStatus, EffectStatus
    <3>3. QED  BY <3>1, <3>2
  <2>2. \A x \in Ops : dispatch'[x] # "ABSENT" => dispatch[x] # "ABSENT"
    BY DEF TypeOK
  <2>3. QED  BY <2>1, <2>2 DEF TypeOK
<1>2. OwnerInv'  BY DEF OwnerInv
<1>3. \A x \in Ops : pc[x] = "none"
  BY DEF TypeOK, OwnerInv, WorkerInv
<1>4. WorkerInv'  BY <1>3 DEF TypeOK, WorkerInv
<1>5. SlotInv'  BY DEF SlotInv
<1>6. RowInv'  BY SMTT(30) DEF TypeOK, RowInv, DispatchStatus, EffectStatus
<1>7. GateInv'  BY DEF GateInv, Gated, KindOf
<1>8. NoOrphan'  BY DEF TypeOK, NoOrphan, OwnerInv
<1>9. OneUnfinished'  BY DEF TypeOK, OneUnfinished
<1>10. SentOncePerRequest'  BY DEF TypeOK, SentOncePerRequest
<1>11. QED  BY <1>1, <1>2, <1>4, <1>5, <1>6, <1>7, <1>8, <1>9, <1>10

(* When recovery ends there is no unfinished row left to orphan. *)
LEMMA FinishRecoveryPreserves ==
  ASSUME InductiveInvariant, NEW p \in Procs, FinishRecovery(p)
  PROVE  InductiveInvariant'
<1> USE SentinelAssumption
    DEF InductiveInvariant, FinishRecovery, procVars, rowVars, taskVars,
        nodeVars, Rows
<1>1. TypeOK'  BY DEF TypeOK
<1>2. OwnerInv'  BY DEF TypeOK, OwnerInv
<1>3. WorkerInv'  BY DEF TypeOK, WorkerInv
<1>4. SlotInv'  BY DEF TypeOK, SlotInv
<1>5. RowInv'  BY DEF RowInv
<1>6. GateInv'  BY DEF GateInv, Gated, KindOf
<1>7. NoOrphan'  BY DEF TypeOK, NoOrphan
<1>8. OneUnfinished' /\ SentOncePerRequest'
  BY DEF OneUnfinished, SentOncePerRequest
<1>9. QED  BY <1>1, <1>2, <1>3, <1>4, <1>5, <1>6, <1>7, <1>8

(* A failed recovery gives the lock back and leaves the rest to the next. *)
LEMMA RecoveryFailsPreserves ==
  ASSUME InductiveInvariant, NEW p \in Procs, RecoveryFails(p)
  PROVE  InductiveInvariant'
<1> USE SentinelAssumption
    DEF InductiveInvariant, RecoveryFails, Release, procVars, rowVars,
        taskVars, nodeVars, Rows
<1>1. TypeOK'  BY DEF TypeOK
<1>2. OwnerInv'  BY DEF TypeOK, OwnerInv
<1>3. WorkerInv'  BY DEF TypeOK, WorkerInv
<1>4. SlotInv'  BY DEF TypeOK, SlotInv
<1>5. RowInv'  BY DEF RowInv
<1>6. GateInv'  BY DEF GateInv, Gated, KindOf
<1>7. NoOrphan'  BY DEF TypeOK, NoOrphan
<1>8. OneUnfinished' /\ SentOncePerRequest'
  BY DEF OneUnfinished, SentOncePerRequest
<1>9. QED  BY <1>1, <1>2, <1>3, <1>4, <1>5, <1>6, <1>7, <1>8

(* Closing changes no worker; it only stops admission and the barrier. *)
LEMMA BeginClosePreserves ==
  ASSUME InductiveInvariant, NEW p \in Procs, BeginClose(p)
  PROVE  InductiveInvariant'
<1> USE SentinelAssumption
    DEF InductiveInvariant, BeginClose, procVars, rowVars, taskVars,
        nodeVars, Rows
<1>1. TypeOK'  BY DEF TypeOK
<1>2. OwnerInv'  BY DEF TypeOK, OwnerInv
<1>3. WorkerInv'  BY DEF TypeOK, WorkerInv
<1>4. SlotInv'  BY DEF TypeOK, SlotInv
<1>5. RowInv'  BY DEF RowInv
<1>6. GateInv'  BY DEF GateInv, Gated, KindOf
<1>7. NoOrphan'  BY DEF TypeOK, NoOrphan
<1>8. OneUnfinished' /\ SentOncePerRequest'
  BY DEF OneUnfinished, SentOncePerRequest
<1>9. QED  BY <1>1, <1>2, <1>3, <1>4, <1>5, <1>6, <1>7, <1>8

(* The lock is released only when no worker of the process is left. *)
LEMMA FinishClosePreserves ==
  ASSUME InductiveInvariant, NEW p \in Procs, FinishClose(p)
  PROVE  InductiveInvariant'
<1> USE SentinelAssumption
    DEF InductiveInvariant, FinishClose, Release, procVars, rowVars,
        taskVars, nodeVars, Rows
<1>1. TypeOK'  BY DEF TypeOK
<1>2. OwnerInv'  BY DEF TypeOK, OwnerInv
<1>3. WorkerInv'  BY DEF TypeOK, WorkerInv
<1>4. SlotInv'  BY DEF TypeOK, SlotInv
<1>5. RowInv'  BY DEF RowInv
<1>6. GateInv'  BY DEF GateInv, Gated, KindOf
<1>7. NoOrphan'  BY DEF TypeOK, NoOrphan
<1>8. OneUnfinished' /\ SentOncePerRequest'
  BY DEF OneUnfinished, SentOncePerRequest
<1>9. QED  BY <1>1, <1>2, <1>3, <1>4, <1>5, <1>6, <1>7, <1>8

(* A crash ends every worker of the process together with its lock. *)
LEMMA CrashPreserves ==
  ASSUME InductiveInvariant, NEW p \in Procs, Crash(p)
  PROVE  InductiveInvariant'
<1> USE SentinelAssumption
    DEF InductiveInvariant, Crash, Release, procVars, rowVars, nodeVars, Rows
<1>1. TypeOK'  BY DEF TypeOK
<1>2. OwnerInv'  BY DEF TypeOK, OwnerInv
<1>3. WorkerInv'  BY DEF TypeOK, WorkerInv
<1>4. SlotInv'  BY DEF TypeOK, SlotInv, OwnerInv
<1>5. RowInv'  BY DEF RowInv
<1>6. GateInv'  BY DEF TypeOK, GateInv, Gated, KindOf, AfterBarrier
<1>7. NoOrphan'  BY DEF TypeOK, NoOrphan
<1>8. OneUnfinished' /\ SentOncePerRequest'
  BY DEF OneUnfinished, SentOncePerRequest
<1>9. QED  BY <1>1, <1>2, <1>3, <1>4, <1>5, <1>6, <1>7, <1>8

-----------------------------------------------------------------------------
(* Admission.                                                              *)

(* A free slot means that no worker is alive and no row is unfinished:     *)
(* what lets admit rely on memory a restart forgets.                       *)
LEMMA FreeSlotMeansIdle ==
  ASSUME InductiveInvariant, NEW p \in Procs, phase[p] = "up", healthy[p],
         busy[p] = NoOp
  PROVE  /\ \A o \in Ops : pc[o] = "none"
         /\ \A o \in Rows : terminal[o]
<1>1. \A o \in Ops : pc[o] = "none"
  BY SentinelAssumption DEF InductiveInvariant, TypeOK, OwnerInv, WorkerInv
<1>2. \A o \in Rows : terminal[o]
  BY <1>1 DEF InductiveInvariant, NoOrphan, Rows
<1>3. QED  BY <1>1, <1>2

(* A new row has the one live worker: none was alive before it.            *)
LEMMA AdmitPreserves ==
  ASSUME InductiveInvariant, NEW p \in Procs, NEW o \in Ops,
         NEW cred \in Creds, NEW key \in Keys \cup {NoKey},
         NEW request \in Requests, Admit(p, o, cred, key, request)
  PROVE  InductiveInvariant'
<1> USE SentinelAssumption
    DEF InductiveInvariant, Admit, InsertRow, Available, KeyIsFree, nodeVars, Rows
<1>1. (\A x \in Ops : pc[x] = "none") /\ (\A x \in Rows : terminal[x])
  BY FreeSlotMeansIdle
<1>2. TypeOK'
  BY DEF TypeOK, DispatchStatus, BeforeBarrier, AfterBarrier, Origins
<1>3. OwnerInv'  BY DEF OwnerInv
<1>4. WorkerInv'
  BY <1>1 DEF TypeOK, WorkerInv, RowInv, BeforeBarrier, AfterBarrier
<1>5. SlotInv'  BY <1>1 DEF TypeOK, SlotInv, OwnerInv
<1>6. RowInv'  BY DEF TypeOK, RowInv
<1>7. GateInv'
  BY <1>1 DEF TypeOK, GateInv, Gated, KindOf, RowInv, AfterBarrier
<1>8. NoOrphan'  BY <1>1 DEF TypeOK, NoOrphan, OwnerInv
<1>9. OneUnfinished'  BY <1>1 DEF TypeOK, OneUnfinished
<1>10. SentOncePerRequest'  BY DEF TypeOK, SentOncePerRequest, RowFor, Origins
<1>11. QED  BY <1>2, <1>3, <1>4, <1>5, <1>6, <1>7, <1>8, <1>9, <1>10

-----------------------------------------------------------------------------
(* The worker.                                                             *)

(* A terminal save that tells the truth about the row it replaces. *)
Truthful(o, status, result) ==
    \/ /\ status = "NOT_DISPATCHED" /\ dispatch[o] = "QUEUED"
       /\ result \in {"NOT_ATTEMPTED", "OBSERVED_SATISFIED"}
    \/ /\ status = "REJECTED" /\ dispatch[o] = "DISPATCH_STARTED"
       /\ wire[o] = "refused" /\ result = "NOT_ATTEMPTED"
    \/ /\ status = "OUTCOME_UNKNOWN" /\ result = "UNKNOWN"
       /\ dispatch[o] \in {"DISPATCH_STARTED", "ACKNOWLEDGED"}
    \/ /\ status = "ACKNOWLEDGED" /\ dispatch[o] = "ACKNOWLEDGED"
       /\ result \in EffectStatus \ {"PENDING", "NOT_ATTEMPTED"}

(* The live workers of all processes are one and the same. *)
LEMMA OnlyWorker ==
  ASSUME InductiveInvariant, NEW o \in Ops, pc[o] # "none"
  PROVE  /\ home[o] \in Procs /\ lock = home[o]
         /\ \A x \in Ops : pc[x] # "none" => x = o
  BY SentinelAssumption DEF InductiveInvariant, TypeOK, OwnerInv, WorkerInv

(* Every end of a worker, its save succeeding or failing, preserves the    *)
(* invariant if the save is truthful and only it looked at its snapshot.   *)
LEMMA FinishPreserves ==
  ASSUME InductiveInvariant, NEW o \in Ops, NEW status, NEW result,
         pc[o] # "none", Truthful(o, status, result),
         Finish(o, status, result),
         before' \in [Ops -> {"NONE", "CLEAR", "ACTIVE", "UNKNOWN"}],
         \A x \in Ops : written[x] > 0 => before'[x] = before[x]
  PROVE  InductiveInvariant'
<1> USE SentinelAssumption
    DEF InductiveInvariant, Finish, SaveTerminal, EndTask, Goto, SaveFails,
        rowVars, nodeVars, Rows
<1>1. home[o] \in Procs /\ lock = home[o]
      /\ \A x \in Ops : pc[x] # "none" => x = o
  BY OnlyWorker
<1>2. dispatch[o] # "ABSENT" /\ ~terminal[o]
  BY DEF TypeOK, WorkerInv, BeforeBarrier, AfterBarrier
<1>3. TypeOK'
  <2>1. status \in DispatchStatus /\ result \in EffectStatus
    BY DEF Truthful, DispatchStatus, EffectStatus
  <2>2. /\ lock' \in Procs \cup {NoProc}
        /\ phase' \in [Procs -> {"down", "recovering", "up", "closing"}]
        /\ healthy' \in [Procs -> BOOLEAN]
        /\ busy' \in [Procs -> Ops \cup {NoOp}]
    BY <1>1 DEF TypeOK
  <2>3. /\ dispatch' \in [Ops -> DispatchStatus]
        /\ effect' \in [Ops -> EffectStatus]
        /\ terminal' \in [Ops -> BOOLEAN]
        /\ origin' \in [Ops -> Origins \cup {NoOrigin}]
    <3>1. CASE SaveTerminal(o, status, result)  BY <2>1, <3>1 DEF TypeOK
    <3>2. CASE SaveFails(o)  BY <3>2 DEF TypeOK
    <3>3. QED  BY <3>1, <3>2
  <2>4. \A x \in Ops : dispatch'[x] # "ABSENT" => origin'[x] \in Origins
    <3>1. UNCHANGED origin  OBVIOUS
    <3>2. dispatch' = dispatch \/ dispatch' = [dispatch EXCEPT ![o] = status]
      OBVIOUS
    <3>3. \A x \in Ops \ {o} : dispatch'[x] = dispatch[x]
      BY <3>2 DEF TypeOK
    <3>4. \A x \in Ops : dispatch[x] # "ABSENT" => origin[x] \in Origins
      BY DEF TypeOK
    <3>5. QED  BY <1>2, <3>1, <3>3, <3>4
  <2>5. /\ pc' \in [Ops -> {"none"} \cup BeforeBarrier \cup AfterBarrier]
        /\ home' \in [Ops -> Procs \cup {NoProc}]
        /\ \A x \in Ops : pc'[x] # "none" => home'[x] \in Procs
        /\ written' \in [Ops -> Nat]
        /\ wire' \in [Ops -> WireStatus]
    BY DEF TypeOK
  <2>6. QED  BY <2>2, <2>3, <2>4, <2>5 DEF TypeOK
<1>4. OwnerInv'  BY DEF OwnerInv
<1>5. WorkerInv'  BY <1>1 DEF TypeOK, WorkerInv
<1>6. SlotInv'  BY <1>1 DEF TypeOK, SlotInv, OwnerInv, WorkerInv
<1>7. RowInv'  BY <1>1, <1>2, SMTT(60) DEF TypeOK, RowInv, Truthful
<1>8. GateInv'
  BY <1>1 DEF TypeOK, GateInv, Gated, KindOf, AfterBarrier
<1>9. NoOrphan'
  BY <1>1, <1>2, SMTT(30) DEF TypeOK, NoOrphan, OwnerInv, Truthful
<1>10. OneUnfinished'
  BY <1>1, <1>2, SMTT(30) DEF TypeOK, OneUnfinished, Truthful
<1>11. SentOncePerRequest'
  BY <1>2, SMTT(30) DEF TypeOK, SentOncePerRequest, Truthful
<1>12. QED
  BY <1>3, <1>4, <1>5, <1>6, <1>7, <1>8, <1>9, <1>10, <1>11

(* What an observation can say, whatever the kind of the request. *)
LEMMA SnapshotValues ==
  ASSUME NEW kind, NEW s \in Snapshots(kind)
  PROVE  /\ s.traffic \in {"UNKNOWN", "CLEAR", "ACTIVE"}
         /\ s.effect \in EffectStatus \ {"PENDING", "NOT_ATTEMPTED"}
  BY DEF Snapshots, Observable, EffectStatus

(* The worker's first step only moves it on to its first observation.      *)
LEMMA BeginPreserves ==
  ASSUME InductiveInvariant, NEW o \in Ops, Begin(o)
  PROVE  InductiveInvariant'
<1> USE SentinelAssumption
    DEF InductiveInvariant, Begin, Available, Goto, rowVars, nodeVars, Rows
<1>1. dispatch[o] = "QUEUED" /\ ~terminal[o] /\ home[o] \in Procs
  BY DEF TypeOK, WorkerInv, BeforeBarrier
<1>2. TypeOK'  BY <1>1 DEF TypeOK, BeforeBarrier
<1>3. OwnerInv'  BY DEF OwnerInv
<1>4. WorkerInv'  BY <1>1 DEF TypeOK, WorkerInv, BeforeBarrier
<1>5. SlotInv'  BY <1>1 DEF TypeOK, SlotInv
<1>6. RowInv'  BY DEF RowInv
<1>7. GateInv'  BY <1>1 DEF TypeOK, GateInv, Gated, KindOf, AfterBarrier
<1>8. NoOrphan'  BY <1>1 DEF TypeOK, NoOrphan
<1>9. OneUnfinished' /\ SentOncePerRequest'
  BY DEF OneUnfinished, SentOncePerRequest
<1>10. QED  BY <1>2, <1>3, <1>4, <1>5, <1>6, <1>7, <1>8, <1>9

(* The row stays QUEUED, but its process is closing: recovery will find it. *)
LEMMA CancelUnstartedPreserves ==
  ASSUME InductiveInvariant, NEW o \in Ops, CancelUnstarted(o)
  PROVE  InductiveInvariant'
<1> USE SentinelAssumption
    DEF InductiveInvariant, CancelUnstarted, Goto, procVars, rowVars,
        nodeVars, Rows
<1>1. home[o] \in Procs /\ lock = home[o]
      /\ \A x \in Ops : pc[x] # "none" => x = o
  BY OnlyWorker
<1>2. TypeOK'  BY DEF TypeOK
<1>3. OwnerInv'  BY DEF OwnerInv
<1>4. WorkerInv'  BY <1>1 DEF TypeOK, WorkerInv
<1>5. SlotInv'  BY <1>1 DEF TypeOK, SlotInv, OwnerInv
<1>6. RowInv'  BY DEF RowInv
<1>7. GateInv'  BY DEF TypeOK, GateInv, Gated, KindOf, AfterBarrier
<1>8. NoOrphan'  BY <1>1 DEF TypeOK, NoOrphan, OwnerInv
<1>9. OneUnfinished' /\ SentOncePerRequest'
  BY DEF OneUnfinished, SentOncePerRequest
<1>10. QED  BY <1>2, <1>3, <1>4, <1>5, <1>6, <1>7, <1>8, <1>9

(* The only way past "observe": the gate is closed behind the worker. *)
LEMMA PolicyAllowsPreserves ==
  ASSUME InductiveInvariant, NEW o \in Ops, PolicyAllows(o)
  PROVE  InductiveInvariant'
<1> USE SentinelAssumption
    DEF InductiveInvariant, PolicyAllows, Sample, Goto, procVars, rowVars,
        nodeVars, Rows
<1>1. PICK s \in Snapshots(KindOf(o)) :
        /\ Permits(KindOf(o), s.traffic)
        /\ before' = [before EXCEPT ![o] = s.traffic]
  OBVIOUS
<1>2. s.traffic \in {"UNKNOWN", "CLEAR", "ACTIVE"}  BY SnapshotValues
<1>3. home[o] \in Procs /\ dispatch[o] = "QUEUED"
  BY DEF TypeOK, WorkerInv, BeforeBarrier
<1>4. TypeOK'  BY <1>1, <1>2 DEF TypeOK, BeforeBarrier
<1>5. OwnerInv'  BY DEF OwnerInv
<1>6. WorkerInv'  BY <1>3 DEF TypeOK, WorkerInv, BeforeBarrier
<1>7. SlotInv'  BY DEF TypeOK, SlotInv
<1>8. RowInv'  BY DEF RowInv
<1>9. GateInv'
  BY <1>1, <1>2, <1>3, SMTT(30)
  DEF TypeOK, GateInv, Gated, KindOf, Permits, AfterBarrier
<1>10. NoOrphan'  BY DEF TypeOK, NoOrphan
<1>11. OneUnfinished' /\ SentOncePerRequest'
  BY DEF OneUnfinished, SentOncePerRequest
<1>12. QED  BY <1>4, <1>5, <1>6, <1>7, <1>8, <1>9, <1>10, <1>11

(* The durable barrier: the row says so before a byte is written. *)
LEMMA CrossBarrierPreserves ==
  ASSUME InductiveInvariant, NEW o \in Ops, CrossBarrier(o)
  PROVE  InductiveInvariant'
<1> USE SentinelAssumption
    DEF InductiveInvariant, CrossBarrier, StartDispatch, Available, Goto, procVars,
        nodeVars, Rows
<1>1. home[o] \in Procs  BY DEF TypeOK
<1>2. TypeOK'  BY <1>1 DEF TypeOK, DispatchStatus, AfterBarrier
<1>3. OwnerInv'  BY DEF OwnerInv
<1>4. WorkerInv'  BY <1>1 DEF TypeOK, WorkerInv, RowInv, BeforeBarrier
<1>5. SlotInv'  BY DEF TypeOK, SlotInv
<1>6. RowInv'  BY DEF TypeOK, RowInv
<1>7. GateInv'  BY DEF TypeOK, GateInv, Gated, KindOf, AfterBarrier
<1>8. NoOrphan'  BY DEF TypeOK, NoOrphan
<1>9. OneUnfinished'  BY DEF TypeOK, OneUnfinished
<1>10. SentOncePerRequest'  BY DEF TypeOK, SentOncePerRequest
<1>11. QED  BY <1>2, <1>3, <1>4, <1>5, <1>6, <1>7, <1>8, <1>9, <1>10

(* The one write of the operation. *)
LEMMA WritePreserves ==
  ASSUME InductiveInvariant, NEW o \in Ops, Write(o)
  PROVE  InductiveInvariant'
<1> USE SentinelAssumption
    DEF InductiveInvariant, Write, Goto, procVars, rowVars, Rows
<1>1. home[o] \in Procs /\ dispatch[o] = "DISPATCH_STARTED" /\ written[o] = 0
  BY DEF TypeOK, WorkerInv
<1>2. TypeOK'  BY <1>1 DEF TypeOK, AfterBarrier, WireStatus
<1>3. OwnerInv'  BY DEF OwnerInv
<1>4. WorkerInv'  BY <1>1 DEF TypeOK, WorkerInv, BeforeBarrier
<1>5. SlotInv'  BY DEF TypeOK, SlotInv
<1>6. RowInv'  BY <1>1 DEF TypeOK, RowInv
<1>7. GateInv'  BY <1>1 DEF TypeOK, GateInv, Gated, KindOf, AfterBarrier
<1>8. NoOrphan'  BY DEF TypeOK, NoOrphan
<1>9. OneUnfinished'  BY DEF OneUnfinished
<1>10. SentOncePerRequest'  BY <1>1 DEF TypeOK, SentOncePerRequest
<1>11. QED  BY <1>2, <1>3, <1>4, <1>5, <1>6, <1>7, <1>8, <1>9, <1>10

(* ACKNOWLEDGED is saved, or the save fails and the process is poisoned. *)
LEMMA AcknowledgedPreserves ==
  ASSUME InductiveInvariant, NEW o \in Ops, Acknowledged(o)
  PROVE  InductiveInvariant'
<1> USE SentinelAssumption
    DEF InductiveInvariant, Acknowledged, Goto, EndTask, SaveFails, procVars,
        rowVars, nodeVars, Rows
<1>1. home[o] \in Procs /\ lock = home[o]
      /\ \A x \in Ops : pc[x] # "none" => x = o
  BY OnlyWorker
<1>2. dispatch[o] = "DISPATCH_STARTED" /\ written[o] = 1 /\ ~terminal[o]
  BY DEF TypeOK, WorkerInv
<1>3. CASE /\ dispatch' = [dispatch EXCEPT ![o] = "ACKNOWLEDGED"]
           /\ Goto(o, IF KindOf(o) = "announce" THEN "announced" ELSE "verify")
           /\ UNCHANGED <<effect, terminal, origin, procVars>>
  <2> USE <1>1, <1>2, <1>3
  <2>1. pc'[o] \in {"announced", "verify"}  BY DEF TypeOK
  <2>2. TypeOK'  BY <2>1 DEF TypeOK, DispatchStatus, AfterBarrier
  <2>3. OwnerInv'  BY DEF OwnerInv
  <2>4. WorkerInv'  BY <2>1, SMTT(30) DEF TypeOK, WorkerInv, BeforeBarrier
  <2>5. SlotInv'  BY <2>1 DEF TypeOK, SlotInv
  <2>6. RowInv'  BY DEF TypeOK, RowInv, Replied, CommandRejected
  <2>7. GateInv'  BY DEF TypeOK, GateInv, Gated, KindOf, AfterBarrier
  <2>8. NoOrphan'  BY <2>1 DEF TypeOK, NoOrphan
  <2>9. OneUnfinished'  BY DEF TypeOK, OneUnfinished
  <2>10. SentOncePerRequest'  BY DEF TypeOK, SentOncePerRequest
  <2>11. QED
    BY <2>2, <2>3, <2>4, <2>5, <2>6, <2>7, <2>8, <2>9, <2>10
<1>4. CASE SaveFails(o) /\ EndTask(o) /\ UNCHANGED <<lock, phase>>
  <2> USE <1>1, <1>2, <1>4
  <2>1. TypeOK'  BY DEF TypeOK
  <2>2. OwnerInv'  BY DEF OwnerInv
  <2>3. WorkerInv'  BY DEF TypeOK, WorkerInv
  <2>4. SlotInv'  BY DEF TypeOK, SlotInv, OwnerInv, WorkerInv
  <2>5. RowInv'  BY DEF RowInv
  <2>6. GateInv'  BY DEF TypeOK, GateInv, Gated, KindOf, AfterBarrier
  <2>7. NoOrphan'  BY DEF TypeOK, NoOrphan, OwnerInv
  <2>8. OneUnfinished' /\ SentOncePerRequest'
    BY DEF OneUnfinished, SentOncePerRequest
  <2>9. QED  BY <2>1, <2>2, <2>3, <2>4, <2>5, <2>6, <2>7, <2>8
<1>5. QED  BY <1>3, <1>4

(* Each end of the worker is a truthful terminal save. *)
LEMMA EndsAreTruthful ==
  ASSUME InductiveInvariant, NEW o \in Ops,
         \/ AlreadySatisfied(o) \/ PolicyDenies(o) \/ FailBeforeDispatch(o)
         \/ Rejected(o) \/ AnnouncementDone(o) \/ Verified(o)
         \/ FailAfterDispatch(o)
  PROVE  \E status, result :
            /\ pc[o] # "none"
            /\ Truthful(o, status, result)
            /\ Finish(o, status, result)
            /\ before' \in [Ops -> {"NONE", "CLEAR", "ACTIVE", "UNKNOWN"}]
            /\ \A x \in Ops : written[x] > 0 => before'[x] = before[x]
<1> USE DEF InductiveInvariant
<1>1. before \in [Ops -> {"NONE", "CLEAR", "ACTIVE", "UNKNOWN"}]
  BY DEF TypeOK
<1>2. /\ pc[o] \in BeforeBarrier => dispatch[o] = "QUEUED"
      /\ pc[o] = "reply" => dispatch[o] = "DISPATCH_STARTED"
      /\ pc[o] \in {"announced", "verify"} => dispatch[o] = "ACKNOWLEDGED"
  BY DEF WorkerInv, BeforeBarrier
<1>3. pc[o] = "observe" => dispatch[o] = "QUEUED" /\ written[o] = 0
  BY <1>2 DEF RowInv, BeforeBarrier
<1>4. CASE AlreadySatisfied(o)
  <2>1. PICK s \in Snapshots(KindOf(o)) : Sample(o, s)
    BY <1>4 DEF AlreadySatisfied
  <2>2. s.traffic \in {"UNKNOWN", "CLEAR", "ACTIVE"}  BY SnapshotValues
  <2>3. Truthful(o, "NOT_DISPATCHED", "OBSERVED_SATISFIED")
    BY <1>3, <1>4 DEF AlreadySatisfied, Truthful
  <2>4. /\ before' \in [Ops -> {"NONE", "CLEAR", "ACTIVE", "UNKNOWN"}]
        /\ \A x \in Ops : written[x] > 0 => before'[x] = before[x]
    BY <1>1, <1>3, <1>4, <2>1, <2>2 DEF Sample, AlreadySatisfied
  <2>5. QED  BY <1>4, <2>3, <2>4 DEF AlreadySatisfied
<1>5. CASE PolicyDenies(o)
  <2>1. PICK s \in Snapshots(KindOf(o)) : Sample(o, s)
    BY <1>5 DEF PolicyDenies
  <2>2. s.traffic \in {"UNKNOWN", "CLEAR", "ACTIVE"}  BY SnapshotValues
  <2>3. Truthful(o, "NOT_DISPATCHED", "NOT_ATTEMPTED")
    BY <1>3, <1>5 DEF PolicyDenies, Truthful
  <2>4. /\ before' \in [Ops -> {"NONE", "CLEAR", "ACTIVE", "UNKNOWN"}]
        /\ \A x \in Ops : written[x] > 0 => before'[x] = before[x]
    BY <1>1, <1>3, <1>5, <2>1, <2>2 DEF Sample, PolicyDenies
  <2>5. QED  BY <1>5, <2>3, <2>4 DEF PolicyDenies
<1>6. CASE FailBeforeDispatch(o)
  <2>1. Truthful(o, "NOT_DISPATCHED", "NOT_ATTEMPTED")
    BY <1>2, <1>6 DEF FailBeforeDispatch, Truthful
  <2>2. QED  BY <1>1, <1>6, <2>1 DEF FailBeforeDispatch, BeforeBarrier
<1>7. CASE Rejected(o)
  <2>1. Truthful(o, "REJECTED", "NOT_ATTEMPTED")
    BY <1>2, <1>7 DEF Rejected, CommandRejected, Truthful
  <2>2. QED  BY <1>1, <1>7, <2>1 DEF Rejected, CommandRejected
<1>8. CASE AnnouncementDone(o)
  <2>1. Truthful(o, dispatch[o], "UNKNOWN")
    BY <1>2, <1>8 DEF AnnouncementDone, Truthful, EffectStatus
  <2>2. QED  BY <1>1, <1>8, <2>1 DEF AnnouncementDone
<1>9. CASE Verified(o)
  <2>1. PICK s \in Snapshots(KindOf(o)) : Finish(o, dispatch[o], s.effect)
    BY <1>9 DEF Verified
  <2>2. Truthful(o, dispatch[o], s.effect)
    BY <1>2, <1>9, SnapshotValues DEF Verified, Truthful
  <2>3. QED  BY <1>1, <1>9, <2>1, <2>2 DEF Verified
<1>10. CASE FailAfterDispatch(o)
  <2>1. Truthful(o, "OUTCOME_UNKNOWN", "UNKNOWN")
    BY <1>2, <1>10 DEF FailAfterDispatch, Truthful
  <2>2. QED  BY <1>1, <1>10, <2>1 DEF FailAfterDispatch
<1>11. QED  BY <1>4, <1>5, <1>6, <1>7, <1>8, <1>9, <1>10

(* Every step of Platform.execute keeps the invariant.                     *)
LEMMA WorkerPreserves ==
  ASSUME InductiveInvariant, NEW o \in Ops, WorkerStep(o)
  PROVE  InductiveInvariant'
  BY BeginPreserves, CancelUnstartedPreserves, PolicyAllowsPreserves,
     CrossBarrierPreserves, WritePreserves, AcknowledgedPreserves,
     EndsAreTruthful, FinishPreserves, Zenon
  DEF WorkerStep

-----------------------------------------------------------------------------
(* The node.                                                               *)

(* The node takes or refuses only what was written, and never both.        *)
LEMMA NodePreserves ==
  ASSUME InductiveInvariant, NEW o \in Ops, NodeStep(o)
  PROVE  InductiveInvariant'
<1> USE DEF InductiveInvariant, NodeStep, NodeAccepts, NodeRuns, NodeRefuses,
            procVars, rowVars, taskVars, Rows
<1>1. TypeOK'  BY DEF TypeOK, WireStatus
<1>2. OwnerInv' /\ NoOrphan' /\ OneUnfinished' /\ SentOncePerRequest'
  BY DEF OwnerInv, NoOrphan, OneUnfinished, SentOncePerRequest
<1>3. WorkerInv' /\ SlotInv'  BY DEF WorkerInv, SlotInv
<1>4. RowInv'  BY DEF TypeOK, RowInv
<1>5. GateInv'  BY DEF GateInv, Gated, KindOf
<1>6. QED  BY <1>1, <1>2, <1>3, <1>4, <1>5

-----------------------------------------------------------------------------
(* The invariant of the specification and the safety properties.           *)

(* A step that changes nothing keeps it.                                   *)
LEMMA StutterPreserves ==
  ASSUME InductiveInvariant, UNCHANGED vars
  PROVE  InductiveInvariant'
  BY DEF InductiveInvariant, TypeOK, OwnerInv, WorkerInv, SlotInv, RowInv,
         GateInv, Gated, KindOf, NoOrphan, OneUnfinished, SentOncePerRequest,
         Rows, vars

(* So does every step of the system.                                       *)
LEMMA NextPreserves ==
  ASSUME InductiveInvariant, [Next]_vars
  PROVE  InductiveInvariant'
  BY StartPreserves, RecoverRowPreserves, FinishRecoveryPreserves,
     RecoveryFailsPreserves, BeginClosePreserves, FinishClosePreserves,
     CrashPreserves, AdmitPreserves, WorkerPreserves, NodePreserves,
     StutterPreserves, Zenon
  DEF Next

(* Every reachable state satisfies the inductive invariant. *)
THEOREM Invariance == Spec => []InductiveInvariant
<1>1. Init => InductiveInvariant  BY InitInvariant
<1>2. InductiveInvariant /\ [Next]_vars => InductiveInvariant'
  BY NextPreserves
<1>3. QED  BY <1>1, <1>2, PTL DEF Spec

(* The variables keep their types, for every instance. *)
THEOREM TypeCorrectness == Spec => []TypeOK
<1>1. InductiveInvariant => TypeOK  BY DEF InductiveInvariant
<1>2. QED  BY <1>1, Invariance, PTL

(* At most one worker is alive in all processes, under the lock. *)
THEOREM ExclusiveControl == Spec => []SingleWorker
<1>1. InductiveInvariant => SingleWorker
  BY OnlyWorker DEF SingleWorker
<1>2. QED  BY <1>1, Invariance, PTL

(* The ledger never holds two unfinished operations. *)
THEOREM AtMostOneUnfinished == Spec => []OneUnfinished
<1>1. InductiveInvariant => OneUnfinished  BY DEF InductiveInvariant
<1>2. QED  BY <1>1, Invariance, PTL

(* What a row says of its command is true. *)
THEOREM OutcomesAreHonest == Spec => []HonestOutcome
<1>1. InductiveInvariant => HonestOutcome
  BY DEF InductiveInvariant, RowInv, HonestOutcome
<1>2. QED  BY <1>1, Invariance, PTL

(* A keyed request has one operation, and no operation is sent twice. *)
THEOREM NoReplay == Spec => []SentOncePerRequest
<1>1. InductiveInvariant => SentOncePerRequest  BY DEF InductiveInvariant
<1>2. QED  BY <1>1, Invariance, PTL

(* An unfinished row a client can read has a live worker. *)
THEOREM UnfinishedRowsAreLive == Spec => []NoOrphan
<1>1. InductiveInvariant => NoOrphan  BY DEF InductiveInvariant
<1>2. QED  BY <1>1, Invariance, PTL

(* NODE_BUSY is only said while an operation is being worked on. *)
THEOREM BusyIsTruthful == Spec => []SlotIsTruthful
<1>1. InductiveInvariant => SlotIsTruthful
  <2> SUFFICES ASSUME InductiveInvariant, NEW p \in Procs,
                      phase[p] = "up", busy[p] # NoOp
               PROVE  /\ pc[busy[p]] # "none"
                      /\ home[busy[p]] = p
                      /\ ~terminal[busy[p]]
    BY DEF SlotIsTruthful
  <2>1. busy[p] \in Ops  BY DEF InductiveInvariant, TypeOK
  <2>2. pc[busy[p]] # "none" /\ home[busy[p]] = p
    BY DEF InductiveInvariant, SlotInv
  <2>3. QED  BY <2>1, <2>2 DEF InductiveInvariant, WorkerInv
<1>2. QED  BY <1>1, Invariance, PTL

(* Nothing is sent against the operator's policy. *)
THEOREM PolicyIsEnforced == Spec => []PolicyGate
<1>1. InductiveInvariant => PolicyGate
  BY DEF InductiveInvariant, GateInv, PolicyGate
<1>2. QED  BY <1>1, Invariance, PTL

-----------------------------------------------------------------------------
(* Action properties.                                                      *)

(* The rows of all other operations are left alone. *)
OthersUnchanged(x) ==
    \A y \in Ops \ {x} : /\ dispatch'[y] = dispatch[y]
                          /\ effect'[y] = effect[y]
                          /\ terminal'[y] = terminal[y]
                          /\ origin'[y] = origin[y]

RowCreated(x) == dispatch[x] = "ABSENT" /\ OthersUnchanged(x)

(* An unfinished row rewritten: it keeps its identity. *)
RowUpdated(x) ==
    /\ dispatch[x] # "ABSENT" /\ ~terminal[x]
    /\ dispatch'[x] # "ABSENT" /\ origin'[x] = origin[x]
    /\ OthersUnchanged(x)

(* All that a step can do to the ledger and to the bytes sent. *)
LEMMA WorkerRowSteps ==
  ASSUME InductiveInvariant, NEW o \in Ops, WorkerStep(o)
  PROVE  /\ pc[o] # "none"
         /\ UNCHANGED rowVars \/ RowUpdated(o)
<1> USE DEF InductiveInvariant, rowVars, Goto
<1>1. CASE Begin(o)  BY <1>1 DEF Begin
<1>2. CASE CancelUnstarted(o)  BY <1>2 DEF CancelUnstarted
<1>3. CASE PolicyAllows(o)  BY <1>3 DEF PolicyAllows
<1>4. CASE Write(o)  BY <1>4 DEF Write
<1>5. CASE CrossBarrier(o)
  BY <1>5 DEF CrossBarrier, StartDispatch, TypeOK, RowUpdated, OthersUnchanged
<1>6. CASE Acknowledged(o)
  <2>1. dispatch[o] # "ABSENT" /\ ~terminal[o]
    BY <1>6 DEF Acknowledged, WorkerInv
  <2>2. QED
    BY <1>6, <2>1
    DEF Acknowledged, SaveFails, TypeOK, RowUpdated, OthersUnchanged
<1>7. CASE \/ AlreadySatisfied(o) \/ PolicyDenies(o) \/ FailBeforeDispatch(o)
           \/ Rejected(o) \/ AnnouncementDone(o) \/ Verified(o)
           \/ FailAfterDispatch(o)
  <2>1. PICK status, result :
           pc[o] # "none" /\ Truthful(o, status, result) /\ Finish(o, status, result)
    BY <1>7, EndsAreTruthful
  <2>2. status \in DispatchStatus \ {"ABSENT"}
    BY <2>1 DEF Truthful, DispatchStatus
  <2>3. dispatch[o] # "ABSENT" /\ ~terminal[o]
    BY <2>1 DEF Truthful, WorkerInv
  <2>4. QED
    BY <2>1, <2>2, <2>3
    DEF Finish, SaveTerminal, SaveFails, TypeOK, RowUpdated, OthersUnchanged
<1>8. QED
  BY <1>1, <1>2, <1>3, <1>4, <1>5, <1>6, <1>7 DEF WorkerStep

(* The same of every step, the worker's or not.                            *)
LEMMA RowSteps ==
  ASSUME InductiveInvariant, [Next]_vars
  PROVE  \/ UNCHANGED rowVars
         \/ \E x \in Ops : RowCreated(x) \/ RowUpdated(x)
<1> USE DEF rowVars
<1>1. CASE UNCHANGED vars  BY <1>1 DEF vars
<1>2. ASSUME NEW p \in Procs,
             \/ Start(p) \/ FinishRecovery(p) \/ RecoveryFails(p)
             \/ BeginClose(p) \/ FinishClose(p) \/ Crash(p)
      PROVE  UNCHANGED rowVars
  BY <1>2 DEF Start, FinishRecovery, RecoveryFails, BeginClose, FinishClose, Crash
<1>3. ASSUME NEW p \in Procs, NEW o \in Ops, RecoverRow(p, o)
      PROVE  RowUpdated(o)
  BY <1>3
  DEF RecoverRow, SaveTerminal, ToRecover, RowUpdated, OthersUnchanged, Rows,
      InductiveInvariant, TypeOK
<1>4. ASSUME NEW p \in Procs, NEW o \in Ops, NEW cred \in Creds,
             NEW key \in Keys \cup {NoKey}, NEW r \in Requests,
             Admit(p, o, cred, key, r)
      PROVE  RowCreated(o)
  BY <1>4
  DEF Admit, InsertRow, RowCreated, OthersUnchanged, Rows, InductiveInvariant, TypeOK
<1>5. ASSUME NEW o \in Ops, WorkerStep(o)
      PROVE  UNCHANGED rowVars \/ RowUpdated(o)
  BY <1>5, WorkerRowSteps
<1>6. ASSUME NEW o \in Ops, NodeStep(o)
      PROVE  UNCHANGED rowVars
  BY <1>6 DEF NodeStep, NodeAccepts, NodeRuns, NodeRefuses
<1>7. QED  BY <1>1, <1>2, <1>3, <1>4, <1>5, <1>6, Zenon DEF Next

(* Recovery, replies, cancellations and retries leave identities and       *)
(* terminal rows alone.                                                    *)
THEOREM TerminalRowsAreForever == Spec => RowsAreForever
<1>1. ASSUME InductiveInvariant, [Next]_vars
      PROVE  \A o \in Rows :
                /\ origin'[o] = origin[o]
                /\ dispatch'[o] # "ABSENT"
                /\ terminal[o] => UNCHANGED <<dispatch[o], effect[o], terminal[o]>>
  <2>1. CASE UNCHANGED rowVars  BY <2>1 DEF rowVars, Rows
  <2>2. ASSUME NEW x \in Ops, RowCreated(x) \/ RowUpdated(x)
        PROVE  \A o \in Rows :
                  /\ origin'[o] = origin[o]
                  /\ dispatch'[o] # "ABSENT"
                  /\ terminal[o] =>
                        UNCHANGED <<dispatch[o], effect[o], terminal[o]>>
    BY <2>2 DEF RowCreated, RowUpdated, OthersUnchanged, Rows
  <2>3. QED  BY <1>1, <2>1, <2>2, RowSteps
<1>2. QED  BY <1>1, Invariance, PTL DEF Spec, RowsAreForever

(* A process whose save failed writes nothing until it is restarted. *)
THEOREM PoisonIsFinal == Spec => PoisonedProcessIsReadOnly
<1>1. ASSUME InductiveInvariant, [Next]_vars
      PROVE  \A p \in Procs :
                lock = p /\ ~healthy[p] => UNCHANGED <<rowVars, written>>
  <2> SUFFICES ASSUME NEW p \in Procs, lock = p, ~healthy[p]
               PROVE  UNCHANGED <<rowVars, written>>
    OBVIOUS
  <2>1. \A o \in Ops : pc[o] = "none"
    BY <1>1, OnlyWorker DEF InductiveInvariant, WorkerInv
  <2>2. ASSUME NEW q \in Procs, NEW o \in Ops, RecoverRow(q, o)
        PROVE  FALSE
    BY <1>1, <2>2 DEF RecoverRow, InductiveInvariant, OwnerInv, SlotInv
  <2>3. ASSUME NEW q \in Procs, NEW o \in Ops, NEW cred \in Creds,
               NEW key \in Keys \cup {NoKey}, NEW r \in Requests,
               Admit(q, o, cred, key, r)
        PROVE  FALSE
    BY <1>1, <2>3 DEF Admit, InsertRow, Available, InductiveInvariant, OwnerInv
  <2>4. ASSUME NEW o \in Ops, WorkerStep(o)
        PROVE  FALSE
    BY <1>1, <2>1, <2>4, WorkerRowSteps
  <2>5. ASSUME NEW q \in Procs,
               \/ Start(q) \/ FinishRecovery(q) \/ RecoveryFails(q)
               \/ BeginClose(q) \/ FinishClose(q) \/ Crash(q)
        PROVE  UNCHANGED <<rowVars, written>>
    BY <2>5 DEF Start, FinishRecovery, RecoveryFails, BeginClose, FinishClose,
                Crash, nodeVars
  <2>6. ASSUME NEW o \in Ops, NodeStep(o)
        PROVE  UNCHANGED <<rowVars, written>>
    BY <2>6 DEF NodeStep, NodeAccepts, NodeRuns, NodeRefuses
  <2>7. CASE UNCHANGED vars  BY <2>7 DEF vars, rowVars
  <2>8. QED
    BY <1>1, <2>2, <2>3, <2>4, <2>5, <2>6, <2>7, Zenon DEF Next
<1>2. QED  BY <1>1, Invariance, PTL DEF Spec, PoisonedProcessIsReadOnly

(* While a process takes over, no worker is left anywhere: recovery never  *)
(* rewrites the row of an operation that is still being carried out.       *)
THEOREM RecoveryHasNoRival ==
    Spec => [](\A p \in Procs : phase[p] = "recovering" => \A o \in Ops : pc[o] = "none")
<1>1. InductiveInvariant =>
         \A p \in Procs : phase[p] = "recovering" => \A o \in Ops : pc[o] = "none"
  <2> SUFFICES ASSUME InductiveInvariant, NEW p \in Procs, phase[p] = "recovering",
                      NEW o \in Ops, pc[o] # "none"
               PROVE  FALSE
    OBVIOUS
  <2>1. lock = p  BY DEF InductiveInvariant, OwnerInv
  <2>2. home[o] \in Procs /\ phase[home[o]] \in {"up", "closing"}
    BY DEF InductiveInvariant, TypeOK, WorkerInv
  <2>3. home[o] = p  BY <2>1, <2>2 DEF InductiveInvariant, OwnerInv
  <2>4. QED  BY <2>2, <2>3
<1>2. QED  BY <1>1, Invariance, PTL

(* How far the worker of an operation still has to go, at most.            *)
ToGo(label) ==
    CASE label = "created" -> 6 [] label = "observe" -> 5 [] label = "connect" -> 4
      [] label = "write" -> 3 [] label = "reply" -> 2
      [] label \in {"announced", "verify"} -> 1 [] label = "none" -> 0

Moves(o) ==
    pc'[o] # pc[o] =>
        \/ ToGo(pc'[o]) < ToGo(pc[o])
        \/ dispatch[o] = "ABSENT" /\ pc[o] = "none" /\ pc'[o] = "created"

(* A worker's step moves its own operation on, and no other's.             *)
LEMMA WorkerMovesOn ==
  ASSUME InductiveInvariant, NEW w \in Ops, WorkerStep(w), NEW o \in Ops
  PROVE  Moves(o)
<1>1. pc \in [Ops -> {"none"} \cup BeforeBarrier \cup AfterBarrier]
  BY DEF InductiveInvariant, TypeOK
<1>2. CASE \/ AlreadySatisfied(w) \/ PolicyDenies(w) \/ FailBeforeDispatch(w)
           \/ Rejected(w) \/ AnnouncementDone(w) \/ Verified(w)
           \/ FailAfterDispatch(w)
  <2>1. PICK status, result : pc[w] # "none" /\ Finish(w, status, result)
    BY <1>2, EndsAreTruthful
  <2>2. pc' = [pc EXCEPT ![w] = "none"]
    BY <2>1 DEF Finish, EndTask, Goto
  <2>3. ToGo("none") < ToGo(pc[w])
    BY <1>1, <2>1 DEF ToGo, BeforeBarrier, AfterBarrier
  <2>4. QED  BY <1>1, <2>2, <2>3 DEF Moves
<1>3. CASE Begin(w)
  BY <1>1, <1>3 DEF Begin, EndTask, Goto, Moves, ToGo
<1>4. CASE CancelUnstarted(w)
  BY <1>1, <1>4 DEF CancelUnstarted, Goto, Moves, ToGo
<1>5. CASE PolicyAllows(w)
  BY <1>1, <1>5 DEF PolicyAllows, Goto, Moves, ToGo
<1>6. CASE CrossBarrier(w)
  BY <1>1, <1>6 DEF CrossBarrier, Goto, Moves, ToGo
<1>7. CASE Write(w)
  BY <1>1, <1>7 DEF Write, Goto, Moves, ToGo
<1>8. CASE Acknowledged(w)
  BY <1>1, <1>8 DEF Acknowledged, EndTask, Goto, Moves, ToGo
<1>9. QED
  BY <1>2, <1>3, <1>4, <1>5, <1>6, <1>7, <1>8 DEF WorkerStep

(* An operation has one worker in its life, which only ever moves on: it   *)
(* takes six steps at most, and neither a retry nor a restart nor recovery *)
(* gives the operation another.  What is left to liveness is that the      *)
(* worker is scheduled.                                                    *)
THEOREM OneWorkerMovesOn == Spec => [][\A o \in Ops : Moves(o)]_vars
<1>1. ASSUME InductiveInvariant, Next, NEW o \in Ops PROVE Moves(o)
  <2> USE <1>1
  <2>1. pc \in [Ops -> {"none"} \cup BeforeBarrier \cup AfterBarrier]
    BY DEF InductiveInvariant, TypeOK
  <2>2. ASSUME NEW p \in Procs, NEW x \in Ops, NEW cred \in Creds,
               NEW key \in Keys \cup {NoKey}, NEW r \in Requests,
               Admit(p, x, cred, key, r)
        PROVE  Moves(o)
    <3>1. dispatch[x] = "ABSENT" /\ pc' = [pc EXCEPT ![x] = "created"]
      BY <2>2 DEF Admit, InsertRow, Rows
    <3>2. pc[x] = "none"
      BY <2>1, <3>1 DEF InductiveInvariant, WorkerInv, BeforeBarrier, AfterBarrier
    <3>3. QED  BY <2>1, <3>1, <3>2 DEF Moves
  <2>3. ASSUME NEW p \in Procs, Crash(p) PROVE Moves(o)
    <3>1. pc'[o] \in {"none", pc[o]}  BY <2>3 DEF Crash
    <3>2. pc[o] # "none" => ToGo("none") < ToGo(pc[o])
      BY <2>1 DEF ToGo, BeforeBarrier, AfterBarrier
    <3>3. QED  BY <3>1, <3>2 DEF Moves
  <2>4. ASSUME NEW p \in Procs,
               \/ Start(p) \/ FinishRecovery(p) \/ RecoveryFails(p)
               \/ BeginClose(p) \/ FinishClose(p)
               \/ \E x \in Ops : RecoverRow(p, x)
        PROVE  Moves(o)
    BY <2>4
    DEF Start, FinishRecovery, RecoveryFails, BeginClose, FinishClose, RecoverRow,
        taskVars, Moves
  <2>5. ASSUME NEW x \in Ops, NodeStep(x) PROVE Moves(o)
    BY <2>5 DEF NodeStep, NodeAccepts, NodeRuns, NodeRefuses, taskVars, Moves
  <2>6. QED
    BY <2>2, <2>3, <2>4, <2>5, WorkerMovesOn, Zenon DEF Next
<1>2. InductiveInvariant /\ [Next]_vars => [\A o \in Ops : Moves(o)]_vars
  BY <1>1
<1>3. QED  BY <1>2, Invariance, PTL DEF Spec

(* Between the barrier and the bytes the loop gives nobody a turn, so no   *)
(* close begins there.                                                     *)
UpInv == \A o \in Ops : pc[o] = "write" => phase[home[o]] = "up"

LEMMA UpInvKept ==
  ASSUME InductiveInvariant, UpInv, [Next]_vars
  PROVE  UpInv'
<1> SUFFICES ASSUME NEW o \in Ops, pc'[o] = "write"
             PROVE  phase'[home'[o]] = "up"
  BY DEF UpInv
<1>1. /\ pc \in [Ops -> {"none"} \cup BeforeBarrier \cup AfterBarrier]
      /\ phase \in [Procs -> {"down", "recovering", "up", "closing"}]
      /\ home \in [Ops -> Procs \cup {NoProc}]
      /\ pc[o] # "none" => home[o] \in Procs
  BY DEF InductiveInvariant, TypeOK
<1>2. CASE UNCHANGED vars  BY <1>2 DEF vars, UpInv
<1>3. ASSUME NEW p \in Procs, NEW x \in Ops, NEW cred \in Creds,
             NEW key \in Keys \cup {NoKey}, NEW r \in Requests,
             Admit(p, x, cred, key, r)
      PROVE  phase'[home'[o]] = "up"
  <2>1. /\ phase' = phase /\ pc' = [pc EXCEPT ![x] = "created"]
        /\ home' = [home EXCEPT ![x] = p]
    BY <1>3 DEF Admit
  <2>2. o # x /\ pc[o] = "write" /\ home'[o] = home[o]
    BY <1>1, <2>1
  <2>3. QED  BY <2>1, <2>2 DEF UpInv
<1>4. ASSUME NEW p \in Procs,
             \/ Start(p) \/ FinishRecovery(p) \/ RecoveryFails(p)
             \/ BeginClose(p) \/ FinishClose(p)
      PROVE  phase'[home'[o]] = "up"
  <2>1. UNCHANGED <<pc, home>>
    BY <1>4 DEF Start, FinishRecovery, RecoveryFails, BeginClose, FinishClose, taskVars
  <2>2. home[o] \in Procs /\ phase[home[o]] = "up"
    BY <1>1, <2>1 DEF UpInv
  <2>3. BeginClose(p) => home[o] # p
    BY <2>1 DEF BeginClose
  <2>4. QED
    BY <1>1, <1>4, <2>1, <2>2, <2>3
    DEF Start, FinishRecovery, RecoveryFails, BeginClose, FinishClose
<1>5. ASSUME NEW p \in Procs, Crash(p) PROVE phase'[home'[o]] = "up"
  <2>1. home' = home /\ home[o] # p /\ pc[o] = "write"
    BY <1>5 DEF Crash
  <2>2. phase[home[o]] = "up" /\ home[o] \in Procs
    BY <1>1, <2>1 DEF UpInv
  <2>3. QED  BY <1>1, <1>5, <2>1, <2>2 DEF Crash
<1>6. ASSUME NEW p \in Procs, NEW x \in Ops, RecoverRow(p, x)
      PROVE  phase'[home'[o]] = "up"
  BY <1>6 DEF RecoverRow, procVars, taskVars, UpInv
<1>7. ASSUME NEW x \in Ops, NodeStep(x)
      PROVE  phase'[home'[o]] = "up"
  BY <1>7 DEF NodeStep, NodeAccepts, NodeRuns, NodeRefuses, procVars, taskVars, UpInv
<1>8. ASSUME NEW w \in Ops, WorkerStep(w) PROVE phase'[home'[o]] = "up"
  <2>1. UNCHANGED <<phase, home>>
    BY <1>8
    DEF WorkerStep, Begin, CancelUnstarted, AlreadySatisfied, PolicyDenies,
        PolicyAllows, FailBeforeDispatch, CrossBarrier, Write, Rejected,
        Acknowledged, AnnouncementDone, Verified, FailAfterDispatch, Finish,
        EndTask, procVars
  <2>2. CASE CrossBarrier(w)
    <3>1. phase[home[w]] = "up" /\ pc' = [pc EXCEPT ![w] = "write"]
      BY <2>2 DEF CrossBarrier, Available, Goto
    <3>2. QED  BY <1>1, <2>1, <3>1 DEF UpInv
  <2>3. CASE ~CrossBarrier(w)
    <3>1. pc'[o] = "write" => pc[o] = "write"
      <4>1. CASE \/ AlreadySatisfied(w) \/ PolicyDenies(w) \/ FailBeforeDispatch(w)
                 \/ Rejected(w) \/ AnnouncementDone(w) \/ Verified(w)
                 \/ FailAfterDispatch(w)
        <5>1. PICK status, result : pc[w] # "none" /\ Finish(w, status, result)
          BY <4>1, EndsAreTruthful
        <5>2. QED  BY <1>1, <5>1 DEF Finish, EndTask, Goto
      <4>2. CASE \/ Begin(w) \/ CancelUnstarted(w) \/ PolicyAllows(w) \/ Write(w)
                 \/ Acknowledged(w)
        BY <1>1, <4>2
        DEF Begin, CancelUnstarted, PolicyAllows, Write, Acknowledged, EndTask, Goto
      <4>3. QED  BY <1>8, <2>3, <4>1, <4>2 DEF WorkerStep
    <3>2. QED  BY <2>1, <3>1 DEF UpInv
  <2>4. QED  BY <2>2, <2>3
<1>9. QED
  BY <1>2, <1>3, <1>4, <1>5, <1>6, <1>7, <1>8, Zenon DEF Next

(* Bytes of a control leave only the process that holds the lock, while it *)
(* is up and its ledger is trusted, for an unfinished row that durably     *)
(* says so, under an observation the policy permits.                       *)
THEOREM BytesLeaveTheOwnerInService ==
  Spec => [][\A o \in Ops : written'[o] # written[o] =>
                /\ lock = home[o] /\ phase[home[o]] = "up" /\ healthy[home[o]]
                /\ dispatch[o] = "DISPATCH_STARTED" /\ ~terminal[o]
                /\ Gated(o)]_vars
<1> DEFINE Bytes(o) ==
       written'[o] # written[o] =>
          /\ lock = home[o] /\ phase[home[o]] = "up" /\ healthy[home[o]]
          /\ dispatch[o] = "DISPATCH_STARTED" /\ ~terminal[o]
          /\ Gated(o)
<1>1. Init => UpInv  BY DEF Init, UpInv
<1>2. InductiveInvariant /\ UpInv /\ [Next]_vars => UpInv'  BY UpInvKept
<1>3. ASSUME InductiveInvariant, UpInv, Next, NEW o \in Ops PROVE Bytes(o)
  <2>1. CASE Write(o)
    <3>1. pc[o] = "write"  BY <2>1 DEF Write
    <3>2. lock = home[o] /\ phase[home[o]] = "up" /\ healthy[home[o]]
      BY <1>3, <3>1, OnlyWorker DEF UpInv, InductiveInvariant, WorkerInv
    <3>3. dispatch[o] = "DISPATCH_STARTED" /\ ~terminal[o] /\ Gated(o)
      BY <1>3, <3>1 DEF InductiveInvariant, WorkerInv, GateInv, AfterBarrier
    <3>4. QED  BY <3>2, <3>3
  <2>2. CASE ~Write(o)
    <3>1. ASSUME NEW w \in Ops, WorkerStep(w), ~Write(w) PROVE written' = written
      BY <3>1
      DEF WorkerStep, Begin, CancelUnstarted, AlreadySatisfied, PolicyDenies,
          PolicyAllows, FailBeforeDispatch, CrossBarrier, Rejected, Acknowledged,
          AnnouncementDone, Verified, FailAfterDispatch, Finish, nodeVars
    <3>2. ASSUME NEW w \in Ops, Write(w) PROVE written'[o] = written[o]
      <4>1. w # o /\ written' = [written EXCEPT ![w] = @ + 1]
        BY <2>2, <3>2 DEF Write
      <4>2. QED  BY <1>3, <4>1 DEF InductiveInvariant, TypeOK
    <3>3. ASSUME NEW p \in Procs,
                 \/ Start(p) \/ FinishRecovery(p) \/ RecoveryFails(p)
                 \/ BeginClose(p) \/ FinishClose(p) \/ Crash(p)
                 \/ \E x \in Ops : RecoverRow(p, x)
                 \/ \E x \in Ops, cred \in Creds, key \in Keys \cup {NoKey},
                       r \in Requests : Admit(p, x, cred, key, r)
          PROVE  written' = written
      BY <3>3
      DEF Start, FinishRecovery, RecoveryFails, BeginClose, FinishClose, Crash,
          RecoverRow, Admit, nodeVars
    <3>4. ASSUME NEW x \in Ops, NodeStep(x)
          PROVE  written' = written
      BY <3>4 DEF NodeStep, NodeAccepts, NodeRuns, NodeRefuses
    <3>5. written'[o] = written[o]
      BY <1>3, <3>1, <3>2, <3>3, <3>4, Zenon DEF Next
    <3>6. QED  BY <3>5
  <2>3. QED  BY <2>1, <2>2
<1>4. InductiveInvariant /\ UpInv /\ [Next]_vars => [\A o \in Ops : Bytes(o)]_vars
  BY <1>3
<1>5. QED  BY <1>1, <1>2, <1>4, Invariance, PTL DEF Spec

-----------------------------------------------------------------------------
(* ControlPlane implements OperationContract.                              *)

(* A step that leaves rows and bytes alone is invisible in the contract. *)
LEMMA Invisible ==
  ASSUME UNCHANGED <<rowVars, written, wire>>
  PROVE  UNCHANGED Contract!vars
  BY DEF Contract!vars, rowVars, Sent, Fate, Replied

(* A terminal save is a verdict of the contract, a failed one invisible. *)
LEMMA FinishRefines ==
  ASSUME InductiveInvariant, NEW o \in Ops, NEW status, NEW result,
         pc[o] # "none", Truthful(o, status, result), Finish(o, status, result)
  PROVE  [Contract!Next]_(Contract!vars)
<1>1. CASE SaveFails(o)
  BY <1>1, Invisible DEF Finish, SaveTerminal, SaveFails, nodeVars
<1>2. CASE /\ dispatch' = [dispatch EXCEPT ![o] = status]
           /\ terminal' = [terminal EXCEPT ![o] = TRUE]
           /\ UNCHANGED origin
  <2>1. UNCHANGED <<Sent, Fate>>
    BY DEF Finish, nodeVars, Sent, Fate, Replied
  <2>2. dispatch[o] # "ABSENT" /\ ~terminal[o]
    BY DEF InductiveInvariant, WorkerInv, Truthful
  <2>3. Contract!Verdict(o, status)
    BY DEF Truthful, Contract!Verdict, Fate, Replied
  <2>4. Contract!Settle(o, status)
    BY <1>2, <2>1, <2>2, <2>3 DEF Contract!Settle, Contract!Unfinished
  <2>5. status \in {"NOT_DISPATCHED", "OUTCOME_UNKNOWN", "REJECTED", "ACKNOWLEDGED"}
    BY DEF Truthful
  <2>6. QED  BY <2>4, <2>5 DEF Contract!Next
<1>3. QED  BY <1>1, <1>2 DEF Finish, SaveTerminal

(* Each step of Platform.execute is a step of the contract or invisible.   *)
LEMMA WorkerRefines ==
  ASSUME InductiveInvariant, NEW o \in Ops, WorkerStep(o)
  PROVE  [Contract!Next]_(Contract!vars)
<1>1. CASE Begin(o)  BY <1>1, Invisible DEF Begin, nodeVars
<1>2. CASE CancelUnstarted(o)  BY <1>2, Invisible DEF CancelUnstarted, nodeVars
<1>3. CASE PolicyAllows(o)  BY <1>3, Invisible DEF PolicyAllows, nodeVars
<1>4. CASE CrossBarrier(o)
  <2>1. UNCHANGED <<Sent, Fate>>
    BY <1>4 DEF CrossBarrier, StartDispatch, nodeVars, Sent, Fate, Replied
  <2>2. Contract!Cross(o)
    BY <1>4, <2>1 DEF CrossBarrier, StartDispatch, Contract!Cross
  <2>3. QED  BY <2>2 DEF Contract!Next
<1>5. CASE Write(o)
  <2>1. /\ dispatch[o] = "DISPATCH_STARTED" /\ ~terminal[o]
        /\ written[o] = 0 /\ wire[o] = "none"
        /\ written \in [Ops -> Nat]
        /\ wire \in [Ops -> WireStatus]
    BY <1>5 DEF Write, InductiveInvariant, WorkerInv, RowInv, TypeOK
  <2>2. Sent' = Sent \cup {o} /\ o \notin Sent
    BY <1>5, <2>1 DEF Write, Sent
  <2>3. UNCHANGED Fate
    BY <1>5, <2>1 DEF Write, Fate, Replied
  <2>4. Contract!Send(o)
    BY <1>5, <2>1, <2>2, <2>3 DEF Write, rowVars, Contract!Send
  <2>5. QED  BY <2>4 DEF Contract!Next
<1>6. CASE Acknowledged(o)
  <2>1. UNCHANGED <<Sent, Fate>>
    BY <1>6 DEF Acknowledged, nodeVars, Sent, Fate, Replied
  <2>2. CASE SaveFails(o)
    BY <1>6, <2>2, Invisible DEF Acknowledged, SaveFails, nodeVars
  <2>3. CASE /\ dispatch' = [dispatch EXCEPT ![o] = "ACKNOWLEDGED"]
             /\ UNCHANGED <<terminal, origin>>
    <3>1. /\ dispatch[o] = "DISPATCH_STARTED" /\ ~terminal[o]
          /\ Fate[o] \in {"accepted", "executed"}
      BY <1>6
      DEF Acknowledged, Replied, CommandRejected, InductiveInvariant, WorkerInv, Fate
    <3>2. Contract!Acknowledge(o)
      BY <2>1, <2>3, <3>1 DEF Contract!Acknowledge
    <3>3. QED  BY <3>2 DEF Contract!Next
  <2>4. QED  BY <1>6, <2>2, <2>3 DEF Acknowledged
<1>7. CASE \/ AlreadySatisfied(o) \/ PolicyDenies(o) \/ FailBeforeDispatch(o)
           \/ Rejected(o) \/ AnnouncementDone(o) \/ Verified(o)
           \/ FailAfterDispatch(o)
  BY <1>7, EndsAreTruthful, FinishRefines, Zenon
<1>8. QED
  BY <1>1, <1>2, <1>3, <1>4, <1>5, <1>6, <1>7 DEF WorkerStep

(* Recovery gives its row a verdict the contract allows.                   *)
LEMMA RecoverRowRefines ==
  ASSUME InductiveInvariant, NEW p \in Procs, NEW o \in Ops, RecoverRow(p, o)
  PROVE  Contract!Next
<1> DEFINE s == IF dispatch[o] # "QUEUED" THEN "OUTCOME_UNKNOWN" ELSE "NOT_DISPATCHED"
<1>1. dispatch[o] \in {"QUEUED", "DISPATCH_STARTED", "ACKNOWLEDGED"} /\ ~terminal[o]
  BY DEF RecoverRow, ToRecover, Rows, InductiveInvariant, RowInv, TypeOK,
         DispatchStatus
<1>2. UNCHANGED <<Sent, Fate>>  BY DEF RecoverRow, nodeVars, Sent, Fate, Replied
<1>3. Contract!Verdict(o, s)  BY <1>1 DEF Contract!Verdict
<1>4. dispatch' = [dispatch EXCEPT ![o] = s]  
  BY DEF RecoverRow, SaveTerminal, Crossed
<1>5. s \in {"NOT_DISPATCHED", "OUTCOME_UNKNOWN", "REJECTED", "ACKNOWLEDGED"}
  OBVIOUS
<1> HIDE DEF s
<1>6. Contract!Settle(o, s)
  BY <1>1, <1>2, <1>3, <1>4
  DEF RecoverRow, SaveTerminal, Crossed, Contract!Settle, Contract!Unfinished
<1>7. QED  BY <1>5, <1>6 DEF Contract!Next

(* An admission is the contract's, of an identity and a claim not yet used.*)
LEMMA AdmitRefines ==
  ASSUME InductiveInvariant, NEW p \in Procs, NEW o \in Ops,
         NEW cred \in Creds, NEW key \in Keys \cup {NoKey},
         NEW request \in Requests, Admit(p, o, cred, key, request)
  PROVE  Contract!Next
<1> DEFINE claim == [cred |-> cred, key |-> key, request |-> request]
<1>1. claim \in Contract!Origins /\ claim.cred = cred /\ claim.key = key
  BY DEF Contract!Origins
<1>2. \A x \in Rows : terminal[x]  BY FreeSlotMeansIdle DEF Admit, InsertRow, Available
<1>3. UNCHANGED <<Sent, Fate>>  BY DEF Admit, InsertRow, nodeVars, Sent, Fate, Replied
<1>4. origin' = [origin EXCEPT ![o] = claim]  BY DEF Admit, InsertRow
<1>5. ~Contract!Claimed(cred, key)
  BY DEF Admit, InsertRow, KeyIsFree, RowFor, Rows, Contract!Claimed
<1> HIDE DEF claim
<1>6. Contract!Accept(o, claim)
  BY <1>1, <1>2, <1>3, <1>4, <1>5
  DEF Admit, InsertRow, Rows, Contract!Accept, Contract!Unfinished
<1>7. QED  BY <1>1, <1>6 DEF Contract!Next

(* What the node makes of a command is the contract's decision of its fate.*)
LEMMA NodeRefines ==
  ASSUME InductiveInvariant, NEW o \in Ops, NodeStep(o)
  PROVE  Contract!Next
<1> DEFINE Gets(outcome) ==
       /\ wire[o] # "pending" => wire[o] = "accepted" /\ outcome = "executed"
       /\ wire' = [wire EXCEPT ![o] = outcome]
       /\ UNCHANGED <<rowVars, written>>
<1>1. PICK outcome \in Contract!Outcomes : Gets(outcome)
  <2>1. NodeAccepts(o) => Gets("accepted")  BY DEF NodeAccepts
  <2>2. NodeRuns(o) => Gets("executed")  BY DEF NodeRuns
  <2>3. NodeRefuses(o) => Gets("refused")  BY DEF NodeRefuses
  <2> HIDE DEF Gets
  <2>4. QED  BY <2>1, <2>2, <2>3 DEF NodeStep, Contract!Outcomes
<1>2. /\ wire \in [Ops -> WireStatus]
      /\ written \in [Ops -> Nat] /\ written[o] # 0
  BY <1>1 DEF InductiveInvariant, TypeOK, RowInv
<1>3. Fate' = [Fate EXCEPT ![o] = outcome]
  BY <1>1, <1>2 DEF Fate, Replied, Contract!Outcomes
<1>4. Fate[o] = "none" \/ (Fate[o] = "accepted" /\ outcome = "executed")
  BY <1>1, <1>2 DEF Fate, Replied
<1>5. o \in Sent /\ UNCHANGED Sent  BY <1>1, <1>2 DEF Sent
<1>6. Contract!Decide(o, outcome)
  BY <1>1, <1>3, <1>4, <1>5 DEF rowVars, Contract!Decide
<1>7. QED  BY <1>6 DEF Contract!Next

(* Every behaviour of the control plane, crashes and restarts included, is *)
(* one the operation contract allows.                                      *)
THEOREM Refinement == Spec => ImplementsContract
<1>1. Init => Contract!Init
  BY DEF Init, Contract!Init, Sent, Fate, Replied
<1>2. InductiveInvariant /\ [Next]_vars => [Contract!Next]_(Contract!vars)
  <2> SUFFICES ASSUME InductiveInvariant, [Next]_vars
               PROVE  [Contract!Next]_(Contract!vars)
    OBVIOUS
  <2>1. CASE UNCHANGED vars  BY <2>1, Invisible DEF vars, rowVars
  <2>2. ASSUME NEW p \in Procs,
               \/ Start(p) \/ FinishRecovery(p) \/ RecoveryFails(p)
               \/ BeginClose(p) \/ FinishClose(p) \/ Crash(p)
        PROVE  UNCHANGED Contract!vars
    BY <2>2, Invisible
    DEF Start, FinishRecovery, RecoveryFails, BeginClose, FinishClose, Crash,
        nodeVars
  <2>3. QED
    BY <2>1, <2>2, RecoverRowRefines, AdmitRefines, WorkerRefines, NodeRefines,
       Zenon
    DEF Next
<1>3. QED  BY <1>1, <1>2, Invariance, PTL DEF Spec, ImplementsContract, Contract!Spec

=============================================================================
