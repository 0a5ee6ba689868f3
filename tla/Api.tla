-------------------------------- MODULE Api --------------------------------
(***************************************************************************)
(* What the HTTP clients of one node are answered: the v1 routes of        *)
(* vnext/api.py and their legacy aliases in asl_agent.py, with the parts   *)
(* of Platform.admit (vnext/service.py) and Ledger (vnext/ledger.py) that  *)
(* answer them.                                                            *)
(*                                                                         *)
(* A route reaches its answer without an await, so that a submission is    *)
(* one step; the capabilities, which await the version probe, and a walk   *)
(* through the pages of the ledger take several.  An answer may be lost,   *)
(* the process may stop, die and start again between any two steps, and    *)
(* the ledger survives.  The worker of an operation is only seen ending    *)
(* here: module ControlPlane has its steps.                                *)
(***************************************************************************)
EXTENDS Naturals, Sequences, FiniteSets

CONSTANTS
    Creds,      \* credential names
    Control,    \* those with the control authority; the others may observe
    Stranger,   \* a caller whose key is no credential's
    Bodies,     \* routes with a body as clients send it, v1's and legacy
    Requests,   \* canonical requests
    Withdrawn,  \* what a withdrawn capability means
    Meaning,    \* the canonical request of each body
    Keys, NoKey,
    Limit,      \* the page size a client asks for
    MaxRows     \* bound on the operations admitted

ASSUME CredsAssumption == Control \subseteq Creds /\ Stranger \notin Creds

ASSUME MeaningAssumption ==
    Withdrawn \notin Requests /\ Meaning \in [Bodies -> Requests \cup {Withdrawn}]

ASSUME NumbersAssumption ==
    NoKey \notin Keys /\ Limit \in Nat \ {0} /\ MaxRows \in Nat

VARIABLES
    phase,      \* of the process: "down", "serving" or "closing"
    healthy,    \* Platform.healthy
    slot,       \* busy_operation_id, as a rowid; 0 is None
    ledger,     \* the rows, in the order of their rowid
    reply,      \* what this step answers to a submission
    told,       \* the submissions whose 202 reached the client
    caps,       \* control_enabled of the capabilities being answered
    walk        \* a client reading page after page, and the operations that
                \* existed when it began and that it has not seen yet

server == <<phase, healthy, slot, ledger>>
vars   == <<phase, healthy, slot, ledger, reply, told, caps, walk>>

Calls == [who : Creds \cup {Stranger}, body : Bodies, key : Keys \cup {NoKey}]

(* No submission is answered, or only with a code.                         *)
Code(code) ==
    [who |-> Stranger, request |-> Withdrawn, key |-> NoKey, code |-> code, id |-> 0]

Silence == Code("NONE")

Ids == DOMAIN ledger

-----------------------------------------------------------------------------
(* What admission looks at.                                                *)

(* Mutant: authenticate's exception for observe holds for control too.     *)
Authorised_AnyAuthority(c) == c.who \in Creds

(* authenticate(config, key, "control").                                   *)
Authorised(c) == c.who \in Control

(* Mutant: the body is stored as it was sent (model_dump(exclude_unset)).  *)
Canonical_AsSent(c) == c.body

(* Ledger.canonical of what the route makes of its body: defaults filled   *)
(* in, and an alias says what v1 says.                                     *)
Canonical(c) == Meaning[c.body]

(* Platform.require_ledger.                                                *)
Available == phase = "serving" /\ healthy

(* Mutant: a busy slot counts as disabled.                                 *)
Enabled_WhenIdle == Available /\ slot = 0

(* control_enabled.                                                        *)
Enabled == Available

(* Mutant: the UNIQUE constraint and the look-up forget the credential.    *)
RowsFor_AnyCredential(c) == {i \in Ids : c.key # NoKey /\ ledger[i].key = c.key}

(* Ledger.find_idempotent's SELECT.                                        *)
RowsFor(c) ==
    {i \in Ids : c.key # NoKey /\ ledger[i].who = c.who /\ ledger[i].key = c.key}

(* The call passes everything that comes before the ledger is asked.       *)
Passes(c) == Authorised(c) /\ Meaning[c.body] \in Requests /\ Available

-----------------------------------------------------------------------------

Init ==
    /\ phase = "down" /\ healthy = TRUE /\ slot = 0
    /\ ledger = <<>>
    /\ reply = Silence
    /\ told = {}
    /\ caps = "none"
    /\ walk = [reading |-> FALSE, offset |-> 0, missing |-> {}]

Answer(c, code, i) ==
    reply' = [who |-> c.who, request |-> Meaning[c.body], key |-> c.key,
              code |-> code, id |-> i]

(* A 202 that may be lost on its way. *)
Accepted(c, i) ==
    /\ Answer(c, "ACCEPTED", i)
    /\ \/ UNCHANGED told
       \/ /\ c.key # NoKey
          /\ told' = told \cup {[who |-> c.who, request |-> Meaning[c.body],
                                key |-> c.key, id |-> i]}

-----------------------------------------------------------------------------
(* Submissions: POST and DELETE under /v1, /connect, /disconnect,          *)
(* /disconnect-all, /cop/..., /dtmf and /macro.                            *)

(* Answers given before the ledger is asked.  The two families of routes   *)
(* check these in different orders, so any that applies may come.          *)
Unauthorised(c) ==
    /\ ~Authorised(c)
    /\ reply' = Code(IF c.who \in Creds THEN "AUTHORITY_DENIED"
                                       ELSE "AUTHENTICATION_REQUIRED")
    /\ UNCHANGED <<server, told, caps>>

Unsupported(c) ==
    /\ Authorised(c) /\ Meaning[c.body] = Withdrawn
    /\ reply' = Code("UNSUPPORTED")
    /\ UNCHANGED <<server, told, caps>>

RateLimited(c) ==
    /\ Authorised(c)
    /\ Answer(c, "RATE_LIMITED", 0)
    /\ UNCHANGED <<server, told, caps>>

Unavailable(c) ==
    /\ Authorised(c) /\ ~Available
    /\ Answer(c, "UNAVAILABLE", 0)
    /\ UNCHANGED <<server, told, caps>>

(* Mutant: no except clause around the INSERT.                             *)
LedgerFails_KeepsSlot(c) ==
    /\ Passes(c)
    /\ slot' = IF RowsFor(c) = {} /\ slot = 0 THEN Len(ledger) + 1 ELSE slot
    /\ Answer(c, "UNAVAILABLE", 0)
    /\ UNCHANGED <<phase, healthy, ledger, told, caps>>

(* SQLite raises in the look-up or in the INSERT: the transaction is       *)
(* rolled back, and the except clause gives the slot back.                 *)
LedgerFails(c) ==
    /\ Passes(c)
    /\ Answer(c, "UNAVAILABLE", 0)
    /\ UNCHANGED <<server, told, caps>>

Replay(c) ==
    /\ Passes(c)
    /\ \E i \in RowsFor(c) : /\ ledger[i].request = Canonical(c)
                             /\ Accepted(c, i)
    /\ UNCHANGED <<server, caps>>

Conflict(c) ==
    /\ Passes(c)
    /\ \E i \in RowsFor(c) : ledger[i].request # Canonical(c)
    /\ Answer(c, "IDEMPOTENCY_CONFLICT", 0)
    /\ UNCHANGED <<server, told, caps>>

(* Mutant: the slot is looked at before the key.                           *)
Busy_BeforeLookup(c) ==
    /\ Passes(c)
    /\ slot # 0
    /\ Answer(c, "NODE_BUSY", 0)
    /\ UNCHANGED <<server, told, caps>>

Busy(c) ==
    /\ Passes(c) /\ RowsFor(c) = {}
    /\ slot # 0
    /\ Answer(c, "NODE_BUSY", 0)
    /\ UNCHANGED <<server, told, caps>>

Admit(c) ==
    /\ Passes(c) /\ RowsFor(c) = {}
    /\ slot = 0
    /\ Len(ledger) < MaxRows
    /\ ledger' = Append(ledger, [who |-> c.who, key |-> c.key,
                                 request |-> Canonical(c), terminal |-> FALSE])
    /\ slot' = Len(ledger')
    /\ Accepted(c, Len(ledger'))
    /\ UNCHANGED <<phase, healthy, caps>>

Submit(c) ==
    /\ phase # "down"
    /\ \/ Unauthorised(c) \/ Unsupported(c) \/ RateLimited(c) \/ Unavailable(c)
       \/ LedgerFails(c) \/ Replay(c) \/ Conflict(c) \/ Busy(c) \/ Admit(c)

-----------------------------------------------------------------------------
(* The process.                                                            *)

Settled(rows) == [i \in DOMAIN rows |-> [rows[i] EXCEPT !.terminal = TRUE]]

(* Platform.start, with the recovery of every unfinished row.              *)
Start ==
    /\ phase = "down"
    /\ phase' = "serving" /\ healthy' = TRUE /\ slot' = 0
    /\ ledger' = Settled(ledger)
    /\ UNCHANGED caps

(* The worker's last save and its finally clause.  A save that fails ends  *)
(* the worker too, and leaves its row unfinished.                          *)
WorkerEnds ==
    /\ phase # "down" /\ slot # 0
    /\ slot' = 0
    /\ \/ ledger' = [ledger EXCEPT ![slot].terminal = TRUE] /\ UNCHANGED healthy
       \/ healthy' = FALSE /\ UNCHANGED ledger
    /\ UNCHANGED <<phase, caps>>

Close ==
    /\ phase = "serving"
    /\ phase' = "closing"
    /\ UNCHANGED <<healthy, slot, ledger, caps>>

(* The process ends, closed or killed; its connections end with it.        *)
Exit ==
    /\ phase # "down"
    /\ phase' = "down" /\ slot' = 0
    /\ caps' = "none"
    /\ UNCHANGED <<healthy, ledger>>

-----------------------------------------------------------------------------
(* GET /v1/capabilities.                                                   *)

(* control_enabled is computed, then the version probe is awaited.         *)
AskCapabilities ==
    /\ phase # "down" /\ caps = "none"
    /\ caps' = IF Enabled THEN "enabled" ELSE "disabled"
    /\ UNCHANGED server

AnswerCapabilities ==
    /\ caps # "none"
    /\ caps' = "none"
    /\ UNCHANGED server

-----------------------------------------------------------------------------
(* GET /v1/operations, by a client that reads page after page.             *)

(* Mutant: finished operations are listed first.                           *)
Listing_FinishedFirst ==
    LET newest == [i \in Ids |-> Len(ledger) + 1 - i]
    IN  SelectSeq(newest, LAMBDA i : ledger[i].terminal)
            \o SelectSeq(newest, LAMBDA i : ~ledger[i].terminal)

(* ORDER BY rowid DESC. *)
Listing == [i \in Ids |-> Len(ledger) + 1 - i]

(* LIMIT and OFFSET. *)
Page(offset) == {Listing[i] : i \in {j \in Ids : offset < j /\ j <= offset + Limit}}

BeginWalk ==
    /\ ~walk.reading
    /\ walk' = [reading |-> TRUE, offset |-> 0, missing |-> Ids]

(* A page that is not full is the last one. *)
ReadPage ==
    /\ walk.reading /\ Available
    /\ LET page == Page(walk.offset)
           full == Cardinality(page) = Limit
       IN  walk' = [reading |-> full,
                    offset |-> IF full THEN walk.offset + Limit ELSE 0,
                    missing |-> walk.missing \ page]

-----------------------------------------------------------------------------

Next ==
    \/ \E c \in Calls : Submit(c) /\ UNCHANGED walk
    \/ /\ \/ Start \/ WorkerEnds \/ Close \/ Exit
          \/ AskCapabilities \/ AnswerCapabilities
       /\ reply' = Silence
       /\ UNCHANGED <<told, walk>>
    \/ /\ BeginWalk \/ ReadPage
       /\ reply' = Silence
       /\ UNCHANGED <<server, told, caps>>

Spec == Init /\ [][Next]_vars

-----------------------------------------------------------------------------

Rows == [who : Control, key : Keys \cup {NoKey}, request : Requests, terminal : BOOLEAN]

Codes == {"AUTHENTICATION_REQUIRED", "AUTHORITY_DENIED", "UNSUPPORTED", "RATE_LIMITED",
          "UNAVAILABLE", "IDEMPOTENCY_CONFLICT", "NODE_BUSY", "ACCEPTED", "NONE"}

(* Types.  Every operation in the ledger was asked for by a credential     *)
(* that may control and none stands for a withdrawn capability; the slot   *)
(* names the newest row and only an unfinished one.                        *)
TypeOK ==
    /\ phase \in {"down", "serving", "closing"} /\ healthy \in BOOLEAN
    /\ ledger \in Seq(Rows)
    /\ slot \in {0, Len(ledger)} /\ (slot # 0 => ~ledger[slot].terminal)
    /\ reply.code \in Codes /\ reply.id \in {0} \cup Ids
    /\ told \subseteq [who : Creds, request : Requests, key : Keys, id : Ids]
    /\ caps \in {"none", "enabled", "disabled"}
    /\ walk.reading \in BOOLEAN /\ walk.offset \in Nat /\ walk.missing \subseteq Ids

(* The operation a 202 names is the one its caller asked for, with its own *)
(* credential, key and request.  A client that was told of its operation   *)
(* and submits the same request with the same key again, through v1 or an  *)
(* alias, before or after a restart, hears of the same operation: it is    *)
(* never refused as busy or as a conflict.                                 *)
RetryIsAnsweredAlike ==
    [][/\ reply'.code = "ACCEPTED" =>
              LET row == ledger'[reply'.id]
              IN  <<row.who, row.key, row.request>> =
                      <<reply'.who, reply'.key, reply'.request>>
       /\ \A a \in told :
              /\ a.who = reply'.who /\ a.key = reply'.key
              /\ a.request = reply'.request
              => \/ reply'.code = "ACCEPTED" /\ reply'.id = a.id
                 \/ reply'.code \in {"UNAVAILABLE", "RATE_LIMITED"}]_vars

(* Capabilities that say control is disabled are never out of date: no     *)
(* process enables control again, though the answer awaits the version     *)
(* probe after control_enabled was computed.                               *)
DisabledIsCurrent == caps = "disabled" => ~Available

(* A client that reads page after page to the end has seen every operation *)
(* that existed when it began, whatever was admitted, finished or          *)
(* recovered between its pages.                                            *)
PagingMissesNothing == ~walk.reading => walk.missing = {}

=============================================================================
