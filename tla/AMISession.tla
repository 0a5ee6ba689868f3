----------------------------- MODULE AMISession -----------------------------
(***************************************************************************)
(* One AMI session: vnext/transport.py (AMITransport.session, AMISession). *)
(*                                                                         *)
(* A session is opened for one caller, logs in, writes its actions one     *)
(* after the other and reads frames until the reply to each comes.  The    *)
(* server also sends events, may repeat a reply, answer somebody else's    *)
(* action or send what is no frame; the connection may break and every     *)
(* await has a timeout.  There is no reconnect: what fails ends.           *)
(*                                                                         *)
(* ActionIDs are fresh uuids: an action's position in the plan stands for  *)
(* its identity and 0 for any identity of another session.  A control      *)
(* session writes one control (control_attempted refuses a second, which   *)
(* no caller asks for).  Module Observation uses what is shown here: a     *)
(* read that is answered was made after it was asked for.                  *)
(***************************************************************************)
EXTENDS Naturals, Sequences, SequencesExt

CONSTANTS
    Plans,          \* the actions a caller wants, in order
    FrameBudget,    \* frames read for one reply: 100
    MaxInbox        \* bound: frames in transit

ASSUME BudgetAssumption == FrameBudget \in Nat \ {0} /\ MaxInbox \in Nat \ {0}
ASSUME PlansAssumption ==
    \A p \in Plans : /\ p \in Seq({"Login", "Read", "Control"})
                     /\ Len(p) > 0 /\ p[1] = "Login"

VARIABLES
    plan,
    pc,         \* "connecting", "writing", "crossed", "reading", "done" or "failed"
    step,       \* the action in progress
    budget,     \* frames that may still be read for it
    committed,  \* the caller's barrier has returned: DISPATCH_STARTED is durable
    answers,    \* the replies the session returned, in order
    written,    \* how many actions are on the wire
    served,     \* how many the server has carried out
    replied,    \* every reply the server has sent
    inbox       \* frames on their way to the session

clientVars == <<plan, pc, step, budget, committed, answers, written>>
serverVars == <<served, replied, inbox>>
vars       == <<plan, pc, step, budget, committed, answers, written, served,
                replied, inbox>>

Ended == pc \in {"done", "failed"}

-----------------------------------------------------------------------------

EventFrame == [type |-> "event"]
Malformed  == [type |-> "malformed"]

(* A reply to action i, made when "at" actions had been written.           *)
Reply(i, at, ok) == [type |-> "reply", to |-> i, at |-> at, ok |-> ok]

Init ==
    /\ plan \in Plans
    /\ pc = "connecting"
    /\ step = 1 /\ budget = FrameBudget
    /\ committed = FALSE
    /\ answers = <<>>
    /\ written = 0 /\ served = 0
    /\ replied = {}
    /\ inbox = <<>>

(* The banner came. *)
Connect ==
    /\ pc = "connecting"
    /\ pc' = "writing"
    /\ UNCHANGED <<plan, step, budget, committed, answers, written, serverVars>>

(* What is written to a connection that is lost reaches nobody.            *)
Send ==
    /\ written' \in {written, step}
    /\ budget' = FrameBudget
    /\ pc' = "reading"

WriteRead ==
    /\ pc = "writing" /\ plan[step] # "Control"
    /\ Send
    /\ UNCHANGED <<plan, step, committed, answers, serverVars>>

(* before_write returns.  The write follows with no await, but the process *)
(* may end between the two.                                                *)
CrossBarrier ==
    /\ pc = "writing" /\ plan[step] = "Control"
    /\ committed' = TRUE
    /\ pc' = "crossed"
    /\ UNCHANGED <<plan, step, budget, answers, written, serverVars>>

(* Mutant: the write does not wait for the barrier.                        *)
WriteControl_BeforeBarrier ==
    /\ pc \in {"writing", "crossed"} /\ plan[step] = "Control"
    /\ Send
    /\ UNCHANGED <<plan, step, committed, answers, serverVars>>

WriteControl ==
    /\ pc = "crossed"
    /\ Send
    /\ UNCHANGED <<plan, step, committed, answers, serverVars>>

(* before_write raises: the ledger did not cross, nothing is written. *)
BarrierRaises ==
    /\ pc = "writing" /\ plan[step] = "Control"
    /\ pc' = "failed"
    /\ UNCHANGED <<plan, step, budget, committed, answers, written, serverVars>>

(* Mutants: a frame that is not the reply costs nothing; the budget is     *)
(* tested after one frame too many.                                        *)
ReadEvent_Free ==
    /\ pc = "reading" /\ inbox # <<>> /\ Head(inbox).type = "event"
    /\ inbox' = Tail(inbox)
    /\ UNCHANGED <<clientVars, served, replied>>
ReadEvent_OneTooMany ==
    /\ pc = "reading" /\ inbox # <<>> /\ Head(inbox).type = "event"
    /\ inbox' = Tail(inbox)
    /\ budget' = budget - 1
    /\ pc' = IF budget = 0 THEN "failed" ELSE "reading"
    /\ UNCHANGED <<plan, step, committed, answers, written, served, replied>>

(* An event is passed over; the last frame of the budget ends the session. *)
ReadEvent ==
    /\ pc = "reading" /\ inbox # <<>> /\ Head(inbox).type = "event"
    /\ inbox' = Tail(inbox)
    /\ budget' = budget - 1
    /\ pc' = IF budget' = 0 THEN "failed" ELSE "reading"
    /\ UNCHANGED <<plan, step, committed, answers, written, served, replied>>

(* Mutants: any response is taken for the reply; a refused login goes on.  *)
Accepts_AnyResponse(f) == f.type = "reply" /\ (step = 1 => f.ok)
Accepts_RefusedLogin(f) == f.type = "reply" /\ f.to = step

(* The frame is a reply to this very action and, for Login, a success.     *)
Accepts(f) == f.type = "reply" /\ f.to = step /\ (step = 1 => f.ok)

(* Any other frame: a reply with its ActionID, or the end of the session.  *)
ReadReply ==
    /\ pc = "reading" /\ inbox # <<>> /\ Head(inbox).type # "event"
    /\ inbox' = Tail(inbox)
    /\ IF Accepts(Head(inbox))
       THEN /\ answers' = Append(answers, Head(inbox))
            /\ IF step = Len(plan)
               THEN pc' = "done" /\ UNCHANGED step
               ELSE pc' = "writing" /\ step' = step + 1
       ELSE pc' = "failed" /\ UNCHANGED <<step, answers>>
    /\ UNCHANGED <<plan, budget, committed, written, served, replied>>

(* A timeout, a broken connection, a cancelled caller, a crash. *)
Abort ==
    /\ ~Ended
    /\ pc' = "failed"
    /\ UNCHANGED <<plan, step, budget, committed, answers, written, serverVars>>

-----------------------------------------------------------------------------

(* After the banner, while the connection stands. *)
Deliver(f) ==
    /\ pc \in {"writing", "crossed", "reading"}
    /\ Len(inbox) < MaxInbox
    /\ inbox' = Append(inbox, f)

(* The server carries the next action out and replies. *)
Serve ==
    /\ served < written
    /\ served' = served + 1
    /\ \E ok \in BOOLEAN :
          LET f == Reply(served', written, ok)
          IN  Deliver(f) /\ replied' = replied \cup {f}
    /\ UNCHANGED clientVars

(* Frames nobody asked for: events, a reply again, a reply to another      *)
(* session's action, garbage.                                              *)
Stray ==
    /\ \E f \in replied \cup {EventFrame, Malformed, Reply(0, 0, TRUE)} : Deliver(f)
    /\ UNCHANGED <<clientVars, served, replied>>

Read == ReadEvent \/ ReadReply

Next ==
    \/ Connect \/ WriteRead \/ CrossBarrier \/ WriteControl \/ BarrierRaises
    \/ Read \/ Abort \/ Serve \/ Stray

Spec == Init /\ [][Next]_vars

-----------------------------------------------------------------------------

TypeOK ==
    /\ plan \in Plans
    /\ pc \in {"connecting", "writing", "crossed", "reading", "done", "failed"}
    /\ step \in 1..Len(plan)
    /\ budget \in 0..FrameBudget
    /\ pc = "reading" => budget > 0
    /\ committed \in BOOLEAN
    /\ Len(answers) \in {step - 1, step}
    /\ served <= written /\ written <= step
    /\ Len(inbox) <= MaxInbox

(* Whatever the server repeats, an answer the session returns is the reply *)
(* to the action it was asked for, made after that action was written:     *)
(* SawStat is not answered with what was read before XStat returned.       *)
AnswersAreFresh ==
    \A i \in DOMAIN answers : answers[i].to = i /\ answers[i].at >= i

(* However a session fails or its process ends, a control that the node    *)
(* may see is recorded: its DISPATCH_STARTED is durable.  And a dispatch   *)
(* is recorded, after which nobody sends that command again, only once the *)
(* server has accepted this session's login.  Recorded is not written: a   *)
(* crash between the two or a lost connection leaves the record alone.     *)
ControlIsRecorded ==
    /\ \A i \in 1..written : plan[i] = "Control" => committed
    /\ committed => answers # <<>> /\ answers[1].ok

(* Nothing but Login reaches a server that has not accepted it.            *)
NothingBeforeLogin == written > 1 => answers # <<>> /\ answers[1].ok

-----------------------------------------------------------------------------

(* A write follows its turn with no await, and a frame that has come is    *)
(* read: while frames are buffered the event loop is given no turn, so no  *)
(* timeout can fire between them, and Abort is not assumed.                *)
Fairness ==
    /\ WF_vars(Read)
    /\ WF_vars(WriteRead \/ CrossBarrier \/ WriteControl \/ BarrierRaises)

LiveSpec == Spec /\ Fairness

(* A server that keeps frames coming cannot hold a session for ever, even  *)
(* where no timeout fires.                                                 *)
FloodEnds == []<>(inbox # <<>>) => <>Ended

=============================================================================
