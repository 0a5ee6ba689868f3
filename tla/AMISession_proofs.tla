-------------------------- MODULE AMISession_proofs --------------------------
(***************************************************************************)
(* What module AMISession promises, for any plans, frame budget and inbox. *)
(***************************************************************************)
EXTENDS AMISession, TLAPS

(* Replies to an action of this session that were made after it was        *)
(* written; to 0, an action of another session, anything goes.             *)
Frames ==
    {f \in [type : {"reply"}, to : Nat, at : Nat, ok : BOOLEAN] : f.to <= f.at}

AnyFrame == Frames \cup {EventFrame, Malformed}

(* Where the session is in its plan. *)
Progress ==
    /\ plan \in Plans
    /\ pc \in {"connecting", "writing", "crossed", "reading", "done", "failed"}
    /\ step \in 1..Len(plan)
    /\ written \in 0..step
    /\ pc \in {"connecting", "writing"} => written < step
    /\ served \in Nat /\ served <= written

Budget ==
    /\ budget \in 0..FrameBudget
    /\ pc = "reading" => budget > 0

(* What the server has sent. *)
Traffic ==
    /\ replied \subseteq Frames
    /\ inbox \in Seq(AnyFrame) /\ Len(inbox) <= MaxInbox

(* What the session has returned. *)
Returned ==
    /\ answers \in Seq(Frames)
    /\ Len(answers) = IF pc = "done" THEN step ELSE step - 1
    /\ \A i \in 1..Len(answers) : answers[i].to = i
    /\ Len(answers) > 0 => answers[1].ok

(* Where only what its barrier let through has come.                       *)
Passed(i) == i <= written \/ i < step \/ pc \in {"crossed", "reading", "done"}

(* Past its barrier, or past its turn, a control is recorded; the login,   *)
(* which is no control, was before it.                                     *)
Recorded ==
    /\ committed \in BOOLEAN
    /\ committed => step > 1
    /\ \A i \in 1..step : plan[i] = "Control" /\ Passed(i) => committed

IInv == Progress /\ Budget /\ Traffic /\ Returned /\ Recorded

-----------------------------------------------------------------------------

(* The invariant holds when the session is opened. *)
LEMMA InitIInv == Init => IInv
<1> SUFFICES ASSUME Init PROVE IInv
    OBVIOUS
<1> USE PlansAssumption, BudgetAssumption
<1>1. Progress
    BY DEF Init, Progress
<1>2. Budget
    BY DEF Init, Budget
<1>3. Traffic
    BY DEF Init, Traffic
<1>4. Returned
    BY DEF Init, Returned
<1>5. Recorded
    <2>1. step = 1 /\ plan[1] # "Control" /\ committed = FALSE
        BY DEF Init
    <2>2. \A i \in 1..step : plan[i] # "Control"
        BY <2>1
    <2> QED
        BY <2>1, <2>2 DEF Recorded, Passed
<1> QED
    BY <1>1, <1>2, <1>3, <1>4, <1>5 DEF IInv

(* A plan is a sequence of known actions that starts with the login. *)
LEMMA PlanFacts ==
    ASSUME Progress
    PROVE  /\ plan \in Seq({"Login", "Read", "Control"})
           /\ Len(plan) \in Nat /\ Len(plan) > 0 /\ plan[1] = "Login"
           /\ step \in Nat /\ written \in Nat
BY PlansAssumption DEF Progress

(* Steps that write: a control is written past its barrier only.           *)
LEMMA WritePreserves ==
    ASSUME IInv, WriteRead \/ CrossBarrier \/ WriteControl \/ BarrierRaises
    PROVE  IInv'
<1> USE PlanFacts, BudgetAssumption DEF IInv
<1>1. CASE WriteRead
    <2>1. Progress'
        BY <1>1 DEF WriteRead, Send, serverVars, Progress
    <2>2. Budget' /\ Traffic' /\ Returned'
        BY <1>1 DEF WriteRead, Send, serverVars, Budget, Traffic, Returned, Progress
    <2>3. Recorded'
        BY <1>1 DEF WriteRead, Send, serverVars, Recorded, Passed, Progress
    <2> QED
        BY <2>1, <2>2, <2>3
<1>2. CASE WriteControl
    <2>1. Progress'
        BY <1>2 DEF WriteControl, Send, serverVars, Progress
    <2>2. Budget' /\ Traffic' /\ Returned'
        BY <1>2 DEF WriteControl, Send, serverVars, Budget, Traffic, Returned, Progress
    <2>3. Recorded'
        BY <1>2 DEF WriteControl, Send, serverVars, Recorded, Passed, Progress
    <2> QED
        BY <2>1, <2>2, <2>3
<1>3. CASE BarrierRaises
    BY <1>3 DEF BarrierRaises, serverVars, Progress, Budget, Traffic, Returned,
                Recorded, Passed
<1>4. CASE CrossBarrier
    <2>1. Progress' /\ Budget' /\ Traffic' /\ Returned'
        BY <1>4 DEF CrossBarrier, serverVars, Progress, Budget, Traffic, Returned
    <2>2. step # 1
        BY <1>4 DEF CrossBarrier
    <2>3. Recorded'
        BY <1>4, <2>2 DEF CrossBarrier, Recorded, Passed, Progress
    <2> QED
        BY <2>1, <2>3
<1> QED
    BY <1>1, <1>2, <1>3, <1>4

(* Steps that read a frame: an answer is the reply to the step at hand.    *)
LEMMA ReadPreserves ==
    ASSUME IInv, ReadEvent \/ ReadReply
    PROVE  IInv'
<1> USE PlanFacts, BudgetAssumption DEF IInv
<1>1. /\ inbox # <<>> => Head(inbox) \in AnyFrame
      /\ inbox # <<>> => Tail(inbox) \in Seq(AnyFrame) /\ Len(Tail(inbox)) <= MaxInbox
    BY DEF Traffic
<1>2. CASE ReadEvent
    <2>1. Traffic'
        BY <1>1, <1>2 DEF ReadEvent, Traffic
    <2>2. Progress' /\ Budget' /\ Returned'
        BY <1>2 DEF ReadEvent, Progress, Budget, Returned
    <2>3. Recorded'
        BY <1>2 DEF ReadEvent, Recorded, Passed
    <2> QED
        BY <2>1, <2>2, <2>3
<1>3. CASE ReadReply
    <2>1. Traffic'
        BY <1>1, <1>3 DEF ReadReply, Traffic
    <2>2. Recorded'
        BY <1>3 DEF ReadReply, Recorded, Passed, Progress
    <2>3. Progress' /\ Budget'
        BY <1>3 DEF ReadReply, Progress, Budget
    <2>4. Returned'
        <3>1. CASE Accepts(Head(inbox))
            <4> DEFINE f == Head(inbox)
            <4>1. f \in Frames /\ f.to = step /\ (step = 1 => f.ok)
                BY <1>1, <1>3, <3>1 DEF ReadReply, Accepts, AnyFrame, EventFrame,
                                        Malformed
            <4>2. answers' = Append(answers, f) /\ Len(answers) = step - 1
                BY <1>3, <3>1 DEF ReadReply, Returned
            <4>3. /\ answers' \in Seq(Frames) /\ Len(answers') = step
                  /\ \A i \in 1..Len(answers') :
                        answers'[i] = IF i < step THEN answers[i] ELSE f
                BY <4>1, <4>2 DEF Returned
            <4>4. Len(answers') = IF pc' = "done" THEN step' ELSE step' - 1
                BY <1>3, <3>1, <4>3 DEF ReadReply
            <4>5. \A i \in 1..Len(answers') : answers'[i].to = i
                BY <4>1, <4>2, <4>3 DEF Returned
            <4>6. answers'[1].ok
                BY <4>1, <4>2, <4>3 DEF Returned
            <4> QED
                BY <4>3, <4>4, <4>5, <4>6 DEF Returned
        <3>2. CASE ~Accepts(Head(inbox))
            BY <1>3, <3>2 DEF ReadReply, Returned
        <3> QED
            BY <3>1, <3>2
    <2> QED
        BY <2>1, <2>2, <2>3, <2>4
<1> QED
    BY <1>2, <1>3

(* Steps of the server: it answers no action before it was written.        *)
LEMMA ServerPreserves ==
    ASSUME IInv, Serve \/ Stray
    PROVE  IInv'
<1> USE PlanFacts, BudgetAssumption DEF IInv
<1>1. UNCHANGED clientVars
    BY DEF Serve, Stray
<1>2. Budget' /\ Returned' /\ Recorded'
    BY <1>1 DEF clientVars, Budget, Returned, Recorded, Passed
<1>3. Progress'
    <2>1. served' \in Nat /\ served' <= written
        <3>1. CASE Serve
            BY <3>1 DEF Serve, Progress
        <3>2. CASE Stray
            BY <3>2 DEF Stray, Progress
        <3> QED
            BY <3>1, <3>2
    <2> QED
        BY <1>1, <2>1 DEF clientVars, Progress
<1>4. Traffic'
    <2>1. CASE Serve
        <3>1. PICK ok \in BOOLEAN :
                  LET f == Reply(served', written, ok)
                  IN  Deliver(f) /\ replied' = replied \cup {f}
            BY <2>1 DEF Serve
        <3>2. Reply(served', written, ok) \in Frames
            BY <2>1 DEF Serve, Reply, Frames, Progress
        <3> QED
            BY <3>1, <3>2 DEF Deliver, Traffic, AnyFrame
    <2>2. CASE Stray
        <3>1. PICK f \in replied \cup {EventFrame, Malformed, Reply(0, 0, TRUE)} :
                  Deliver(f)
            BY <2>2 DEF Stray
        <3>2. Reply(0, 0, TRUE) \in Frames
            BY DEF Reply, Frames
        <3>3. f \in AnyFrame
            BY <3>1, <3>2 DEF Traffic, AnyFrame
        <3>4. replied' = replied
            BY <2>2 DEF Stray
        <3> QED
            BY <3>1, <3>3, <3>4 DEF Deliver, Traffic
    <2> QED
        BY <2>1, <2>2
<1> QED
    BY <1>2, <1>3, <1>4

(* Every step keeps the invariant. *)
LEMMA NextIInv == IInv /\ [Next]_vars => IInv'
<1> SUFFICES ASSUME IInv, [Next]_vars PROVE IInv'
    OBVIOUS
<1>1. CASE Connect
    BY <1>1, PlanFacts DEF Connect, serverVars, IInv, Progress, Budget, Traffic,
                           Returned, Recorded, Passed
<1>2. CASE Abort
    BY <1>2, PlanFacts DEF Abort, Ended, serverVars, IInv, Progress, Budget, Traffic,
                           Returned, Recorded, Passed
<1>3. CASE UNCHANGED vars
    BY <1>3 DEF vars, IInv, Progress, Budget, Traffic, Returned, Recorded, Passed
<1> QED
    BY <1>1, <1>2, <1>3, WritePreserves, ReadPreserves, ServerPreserves DEF Next, Read

(* The invariant holds throughout. *)
LEMMA Invariance == Spec => []IInv
BY InitIInv, NextIInv, PTL DEF Spec

-----------------------------------------------------------------------------

(* A session stays within its frame budget and its plan. *)
THEOREM TypeCorrectness == Spec => []TypeOK
<1>1. IInv => TypeOK
    BY PlanFacts DEF IInv, Progress, Budget, Traffic, Returned, Recorded, Passed, TypeOK
<1> QED
    BY <1>1, Invariance, PTL

(* AMISession.action: whatever frames the server repeats or invents, what  *)
(* the session returns was made after the action was written.              *)
THEOREM AnswersAreReal == Spec => []AnswersAreFresh
<1>1. IInv => AnswersAreFresh
    BY DEF IInv, Returned, Frames, AnswersAreFresh
<1> QED
    BY <1>1, Invariance, PTL

(* AMISession.action with before_write: wherever the session fails, what   *)
(* may have reached the node is recorded, and nothing is recorded for a    *)
(* server that did not accept the login.                                   *)
THEOREM ControlsAreRecorded == Spec => []ControlIsRecorded
<1>1. IInv => ControlIsRecorded
    <2> SUFFICES ASSUME IInv PROVE ControlIsRecorded
        OBVIOUS
    <2>1. \A i \in 1..written : plan[i] = "Control" => committed
        BY PlanFacts DEF IInv, Progress, Recorded, Passed
    <2>2. committed => Len(answers) > 0
        BY PlanFacts DEF IInv, Recorded, Returned
    <2> QED
        BY <2>1, <2>2 DEF IInv, Returned, ControlIsRecorded
<1> QED
    BY <1>1, Invariance, PTL

(* AMITransport.session: nothing is written after a login that failed.     *)
THEOREM LoginComesFirst == Spec => []NothingBeforeLogin
<1>1. IInv => NothingBeforeLogin
    BY PlanFacts DEF IInv, Progress, Returned, NothingBeforeLogin
<1> QED
    BY <1>1, Invariance, PTL

=============================================================================
