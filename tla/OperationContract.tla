-------------------------- MODULE OperationContract --------------------------
(***************************************************************************)
(* What the service promises of a control operation to the client that     *)
(* holds its identity, and nothing about how: no processes, locks, tasks,  *)
(* sessions or crashes.  It is the abstract specification of the ledger    *)
(* row (vnext/models.py, Operation) together with the AMI command behind   *)
(* it, and module ControlPlane is shown to implement it.                   *)
(*                                                                         *)
(*  - one operation at a time is unfinished, and a keyed request has one   *)
(*    operation for ever;                                                  *)
(*  - the command is sent at most once, only while the row durably says    *)
(*    DISPATCH_STARTED and is not final;                                   *)
(*  - NOT_DISPATCHED is reached only by a command never sent, REJECTED     *)
(*    only by one the node refused, ACKNOWLEDGED only by one it took; that *)
(*    an acknowledged command was run, or ever will be, is not promised;   *)
(*  - a final row never changes again, though the node may still run a     *)
(*    command that the row calls acknowledged or of unknown outcome.       *)
(***************************************************************************)
CONSTANTS Ops, Creds, Keys, Requests, NoKey, NoOrigin

VARIABLES
    status,     \* dispatch_status, "ABSENT" before admission
    final,      \* terminal
    origin,     \* credential, Idempotency-Key and request
    sent,       \* the operations whose command bytes left the service
    fate        \* what the node did with them

vars == <<status, final, origin, sent, fate>>

Origins == [cred : Creds, key : Keys \cup {NoKey}, request : Requests]

Unfinished == {o \in Ops : status[o] # "ABSENT" /\ ~final[o]}

(* Another operation already answers for this credential and key. *)
Claimed(cred, key) ==
    \E o \in Ops : /\ status[o] # "ABSENT"
                   /\ key # NoKey
                   /\ origin[o].cred = cred
                   /\ origin[o].key = key

Init ==
    /\ status = [o \in Ops |-> "ABSENT"]
    /\ final = [o \in Ops |-> FALSE]
    /\ origin = [o \in Ops |-> NoOrigin]
    /\ sent = {}
    /\ fate = [o \in Ops |-> "none"]

Accept(o, claim) ==
    /\ status[o] = "ABSENT"
    /\ Unfinished = {}
    /\ ~Claimed(claim.cred, claim.key)
    /\ status' = [status EXCEPT ![o] = "QUEUED"]
    /\ origin' = [origin EXCEPT ![o] = claim]
    /\ UNCHANGED <<final, sent, fate>>

Cross(o) ==
    /\ status[o] = "QUEUED" /\ ~final[o]
    /\ status' = [status EXCEPT ![o] = "DISPATCH_STARTED"]
    /\ UNCHANGED <<final, origin, sent, fate>>

Send(o) ==
    /\ status[o] = "DISPATCH_STARTED" /\ ~final[o]
    /\ o \notin sent
    /\ sent' = sent \cup {o}
    /\ UNCHANGED <<status, final, origin, fate>>

Outcomes == {"accepted", "executed", "refused"}

(* A command that was only accepted may still be run, now or never. *)
Decide(o, outcome) ==
    /\ o \in sent
    /\ \/ fate[o] = "none" /\ outcome \in Outcomes
       \/ fate[o] = "accepted" /\ outcome = "executed"
    /\ fate' = [fate EXCEPT ![o] = outcome]
    /\ UNCHANGED <<status, final, origin, sent>>

Acknowledge(o) ==
    /\ status[o] = "DISPATCH_STARTED" /\ ~final[o]
    /\ fate[o] \in {"accepted", "executed"}
    /\ status' = [status EXCEPT ![o] = "ACKNOWLEDGED"]
    /\ UNCHANGED <<final, origin, sent, fate>>

(* The statuses an unfinished row may become final with. *)
Verdict(o, s) ==
    \/ s = "NOT_DISPATCHED" /\ status[o] = "QUEUED"
    \/ s = "OUTCOME_UNKNOWN" /\ status[o] \in {"DISPATCH_STARTED", "ACKNOWLEDGED"}
    \/ s = "REJECTED" /\ status[o] = "DISPATCH_STARTED" /\ fate[o] = "refused"
    \/ s = "ACKNOWLEDGED" /\ status[o] = "ACKNOWLEDGED"

Settle(o, s) ==
    /\ o \in Unfinished
    /\ Verdict(o, s)
    /\ status' = [status EXCEPT ![o] = s]
    /\ final' = [final EXCEPT ![o] = TRUE]
    /\ UNCHANGED <<origin, sent, fate>>

Next ==
    \E o \in Ops :
        \/ \E claim \in Origins : Accept(o, claim)
        \/ Cross(o) \/ Send(o) \/ Acknowledge(o)
        \/ \E outcome \in Outcomes : Decide(o, outcome)
        \/ \E s \in {"NOT_DISPATCHED", "OUTCOME_UNKNOWN", "REJECTED",
                     "ACKNOWLEDGED"} : Settle(o, s)

Spec == Init /\ [][Next]_vars

=============================================================================
