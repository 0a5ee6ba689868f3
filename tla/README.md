# A TLA+ model of asl3-api

asl3-api is a FastAPI service that observes and controls one AllStar node
(Asterisk with app_rpt) over the Asterisk Manager Interface (AMI). This
directory holds TLA+ modules of the parts of it that are hard to get right,
TLC configurations that check them on small instances, and TLAPS proofs that
hold for every instance. Paths below are relative to the repository.

## The system

One process runs one asyncio event loop. Everything between two awaits is
atomic for the other tasks of the process, but not for a crash of it. Several
processes may be started for one node by mistake or by a restart; a lock file
and a SQLite ledger are what they share.

| Component | Code | State | Operations | Modelled by |
|---|---|---|---|---|
| control plane | `vnext/service.py` | phase, health, the control slot, one task per operation | start, recover, admit, execute, verify, close | `ControlPlane`, `ControlEffect` |
| ledger, owner lock | `vnext/ledger.py` | rows (status, effect, terminal, origin), the flock | admit, find, list, update, start_dispatch, recover | `ControlPlane`, `Api` |
| traffic policy | `vnext/policy.py` | none | enforce | `ControlPlane`, `ControlEffect` (`Permits`) |
| operation, as a client sees it | `vnext/models.py`, `docs/VNEXT.md` | a row and its command | accept, cross, send, settle | `OperationContract` |
| AMI transport | `vnext/transport.py` | one session | login, action, read a frame | `AMISession` |
| observer | `vnext/observation.py` | lock, generation | snapshot, invalidate | `Observation` |
| observer, as its callers see it | its docstrings, `docs/VNEXT.md` | what was true while a caller waited | ask, answer, invalidate | `ObserverContract` |
| v1 HTTP API, legacy control routes | `vnext/api.py`, `asl_agent.py` | the rate limiter's, which is a library | submit, capabilities, list | `Api` |
| legacy event stream | `ami_event_listener.py`, `GET /events` in `asl_agent.py` | queues, what the last poll saw | poll, broadcast, subscribe, deliver | `LegacyEvents` |
| webhook monitor | `event_handler.py` | what is known, the notifications to send | check, notify | `Webhooks` |
| lifespan | `asl_agent.py` | which parts of a process are alive | start-up, shutdown | `Lifespan` |
| node directory | `node_cache.py` | one dictionary | fetch, refresh, lookup | `Lifespan` |
| AMI client | `ami_client.py` | the Panoramisk connection | connect, disconnect, display commands | `Lifespan`, `Webhooks`, partly |
| software evidence, configuration, installer | `vnext/software.py`, `config.py`, `install.sh` | none at run time | | not modelled |

How they interact: an HTTP request calls `Platform.admit`, which inserts a row
and creates the task `execute`. The task takes an observation, asks the policy,
opens an AMI session, crosses the durable barrier and writes one command, and
then observes the effect. The observer is shared by the worker, the poll loop,
the webhook monitor and the HTTP reads; its lock lets one session run at a
time. The poll loop turns observations into events on the queue of each SSE
client. `lifespan` starts and stops all of it.

What is hard in it: crashes between a commit and the bytes it announces, or
between two saves; a save that fails after the command was written;
cancellation at every await, before a task's first step included; lost and late
replies; keyed retries across restarts; two processes handing over the lock; an
observation put together from several instants; queues that drop events; loops
that await while what they compared changes; a retry that comes by another
route; a ledger that moves under a client that pages through it. `PROJECT.json` lists each of these
at its line with the properties that would catch it.

## Modules

### OperationContract and ControlPlane

`OperationContract` is what a client that holds an operation's identity is
promised, without processes, locks or crashes: one unfinished operation at a
time; one operation for ever per keyed request; the command is sent at most
once, under DISPATCH_STARTED; each final status is true; a final row never
changes. ACKNOWLEDGED promises that the node took the command, not that it ran
it or ever will: `docs/VNEXT.md:54` asks no more of it than a complete success
response, and lines 77-78 say that one may only mean accepted or queued.

`ControlPlane` is the code. Its variables are the lock file and each process's
phase, health and slot; the columns of each row; the program counter, the
process and the policy observation of each task; and what became of each
command. Each step of `execute` between two awaits is an action. Two awaitless
stretches are split where a crash can fall between a commit and what follows
it: after the barrier ("write") and after the save of ACKNOWLEDGED
("announced"). `Crash` is possible at every step. The node answers with success
before it runs the command (`NodeAccepts`) or after (`NodeRuns`), or refuses it
(`NodeRefuses`); what it only accepted it may run long after the worker is gone,
or never. Every terminal save may fail (`SaveFails`), which poisons the
process. A cancellation that arrives before a task's first step ends it without
its handlers (`CancelUnstarted`), as asyncio does.

Correspondence worth knowing:

- an observation in `ControlPlane` is only its traffic state and the effect
  computed from it; any combination may come back. `ControlEffect` says what
  those values mean.
- `BeginClose` gives every task of the process a pending cancellation; the task
  may still go on with a result that arrived with it, which `asyncio.wait_for`
  allows before Python 3.12 (the project supports 3.10). From then on a sample
  is UNKNOWN, because close has invalidated the observer.
- any Success that `command_rejected` does not recognise as a refusal is saved
  as ACKNOWLEDGED, whether or not the command has run; nothing here infers
  execution from it, and the effect is looked for by observation.
- a reply that `command_rejected` recognises is taken to mean that the node will
  not run the command. This is an assumption about app_rpt, not about this code;
  a refusal in words it does not know counts as accepted.
- a SQLite call that fails writes nothing.
- `docs/ARCHITECTURE.md` says an async lock serialises execution; the code has
  no such lock, it refuses with NODE_BUSY (the variable `busy`).

### AMISession

One session with its server. `CrossBarrier` is the barrier that returns,
`BarrierRaises` the one that refuses, and `WriteControl` the write. There is no
await between barrier and write, but the process may end there (`Abort`), and
what is written to a lost connection reaches nobody (`Send`): a recorded control
need not be on the wire. The server may
repeat any reply, answer another session's action, send events and send
garbage; the connection may break, and any await may time out (`Abort`). The
position of an action in the caller's plan stands for its fresh ActionID. The
`control_attempted` flag is left out: it refuses a second control in a session,
and no caller asks for one. `AnswersAreFresh` is what `Observation` builds on:
a read that is answered was made after it was asked for.

### ObserverContract and Observation

`ObserverContract` is what a caller of `Observer.snapshot` may rely on, without
lock, generation or reads: each single claim of a complete snapshot (this link
is adjacent in this mode, that one is absent, there is no traffic) was true at
some instant since the caller asked, a different instant for each claim perhaps;
ACTIVE and UNKNOWN claim nothing of the kind; and a sample of before an
`invalidate` is UNKNOWN. `seen` is what was true while the caller waited.

`Observation` is the code. Callers queue for the lock; the holder reads XStat's
Conn rows, XStat's variables and SawStat, and the node may change between any
two. `docs/VNEXT.md` calls app_rpt's answer non-atomic, so XStat is two reads.
`ParseSnapshot` is `parse_snapshot`: what is compared (`Agree`) and what is
taken from which read (`Complete`). A link in `LocalMonitor` is one app_rpt
omits from RPT_ALINKS. The refinement mapping takes the node of the code to the
contract's and the requests in the lock's queue to its asking callers; a caller
whose session fails or who is cancelled is answered UNKNOWN, or leaves.

### ControlEffect

One worker of `execute`, from its first snapshot to its terminal save, over the
contract of the observer and over a node that others control at the same time.
It is the composition the two specifications are there for: the observer is
`INSTANCE ObserverContract` and may answer anything the contract allows, and
`StepsOfControlPlane` says that every step is one of `ControlPlane` with one
operation (through `INSTANCE ControlPlane`), so that nothing is found here that
the control plane's module leaves out. `foreign` are the adjacencies whose
name is no node number: `effect_status` leaves such clients out when all links
are to be cleared. After the write the node answers the command and carries it
out in either order, later or never, and others may undo it at once; a Success
reply is saved before the effect is looked at, and `held` starts afresh there.

### Api

What HTTP clients are answered. A submission reaches its answer without an
await, so it is one step with the outcome as its disjuncts: `Unauthorised`,
`Unsupported`, `RateLimited`, `Unavailable`, `LedgerFails`, `Replay`,
`Conflict`, `Busy`, `Admit`. The v1 routes and their legacy aliases check the
limiter, the key and the authority in different orders; any refusal that
applies may therefore come. `Meaning` is `Ledger.canonical` of what a route
makes of its body: `links` and `connect` stand for a v1 route and its alias
that mean the same. A 202 may be lost (`Accepted`), and `told` are those that
were not. The worker of an operation is only seen ending (`WorkerEnds`), as
`ControlPlane` has its steps. Capabilities await the version probe between
`AskCapabilities` and `AnswerCapabilities`. A walk reads `GET /v1/operations`
page by page, newest first, while the ledger grows.

### LegacyEvents

The poll loop and `GET /events`. A client is one request with a queue of its
own and believes the last snapshot plus the events after it. `Batches` is what
one poll broadcasts, in the code's order. A client's path is subscribe, first
observation, first yield, the loop, gone; it can leave at any of them, which
unsubscribes only in the loop. An observation is taken to show one instant.

### Webhooks

The check of the monitoring loop: read the links, one notification per change,
then replace what is known. The node changes while notifications are awaited. A
POST that fails is treated by the code as one that arrived, so only what was
sent off is recorded. The handlers' broadcast is left out: `event_handler.py:6`
says every change is broadcast to SSE clients, but nothing in the repository
assigns `event_listener`, so that line never runs.

### Lifespan

Several processes run `lifespan` line by line. A process that `Platform.start`
refuses ends before the try; otherwise `Leave` is a
failure at any line after the lock, or the end of service, and `StopFails` a
line of the finally clause that raises and skips the rest. The clause cancels
the monitoring loop and the poll loop once each and awaits them. Both read the
node through `asyncio.wait_for` (`vnext/observation.py:217`, the timeouts of
`vnext/transport.py`), which before Python 3.12 may return a result that comes
with the cancellation and swallow it (`Swallow`); the loop goes on, `deaf`, and
the clause waits for ever. `ControlPlane` has the same for the worker, whose
later awaits are bounded. `StopCache` has no such step: the refresh loop of the
directory awaits a sleep and aiohttp, which is taken to pass a cancellation on.
That loop of
the node directory is one of the parts: `Fetch` is what each answer of the
database does to the directory (lines replace it, a 200 without a usable line
empties it, an error leaves it), at start-up and in the loop.

## Runs

| Run | Instance | Shows |
|---|---|---|
| control_safety | 2 processes, 2 operations, 2 credentials, a key, three requests (link, unlink, announcement), the shipped policy | all safety properties of the control plane, keyed retries across restarts, and that it implements `OperationContract` |
| control_liveness | 2 processes, 2 operations, an unlink and an announcement, no key | the slot is freed, close ends, operations settle |
| effects | a link with three modes, the four kinds of requests, the shipped policy | the effect in a row was real, a command was sent for a reason, and each step is one of ControlPlane |
| api | 2 credentials that control, 1 that observes, a stranger, 4 bodies, a key, 2 rows, pages of 1 | a 202 names the caller's operation and a retry the same one, capabilities never say disabled in vain, paging misses nothing |
| session | the two plans of the code, a budget of 3 frames, 3 in transit | fresh answers, no unrecorded control, nothing before login, a flood of events ends, with bytes lost and crashes between barrier and write |
| observation | 2 callers, a link listed in ALINKS and a field | the observer implements `ObserverContract`; every caller is answered |
| legacy | 1 client, a link and a field, queue of 3 | a client that caught up is right, no link event across a gap, a client that reads converges |
| webhooks | 3 links | notifications alternate; lasting changes are reported |
| lifespan | 2 processes | nothing is opened without the lock, what runs beside a new owner is bounded, a completed stop is complete, the session outlives the monitor, a shutdown ends unless a loop swallowed its cancellation, the directory recovers |
| observation_monitor, legacy_unkey, legacy_leak | as small as shows it | the first three disagreements below |

Why the bounds are enough. Two processes are the fewest that can hand a lock
over, and a third could only wait for it. Two operations are one that was left
unfinished and one that is admitted after it, or one that was keyed and its
retry, by the same credential or by the other. Kinds differ in the code
only as link, unlink and announcement do. Two callers are the fewest that can
wait for each other; a link and a field are the fewest of which one can be
keyed while the other is read. One client contends with the poll for the
observer's lock, and a second has a queue of its own. The queue of LegacyEvents
is as long as one poll's events and overflows with the second
(`QueueAssumption`; the real bound is 200). One link is enough for the effects
of a link or unlink, whose snapshots are looked at for that link alone, and for
`unlink_all` it may be foreign or not. Two rows of a page size of one are a
walk during which the second one is admitted; `MaxRows` bounds the admissions
of Api and nothing else there. `FrameBudget` and `MaxInbox` let the budget run out and stray frames come
before and after each reply. `Observer.generation` goes up once, as close is
the only caller of invalidate. Nothing else is bounded: the other state is
finite by itself. What a bound could still hide is what the proofs are for.

`CHECK_DEADLOCK FALSE` is set for AMISession only, where a session ends.

### Fairness

- ControlPlane: each await of the worker is under a timeout, a deadline or a
  cancellation, so its steps are weakly fair; recovery and close run to their
  end while their process lives; the unit file has `Restart=always`, so a
  process that is down is started. Nothing is assumed of the node. That crashes
  stop is a hypothesis of `EveryOperationSettles`, not of the specification.
- AMISession: a frame that has come is read, and the barrier and the write
  follow their turn. No
  timeout is assumed to fire: frames already buffered are read without giving
  the event loop a turn.
- Observation: each session ends within its timeout (`Return` or `Fail`), and
  asyncio hands its lock to the first waiter.
- Lifespan: a process that shuts down runs the finally clause on as far as it
  can, and `Platform.close` ends (`CloseEnds`); the refresh loop's timer fires. A
  line that waits for a deaf loop is not enabled, and nothing says that a loop
  hears its cancellation: `ShutdownEnds` makes the exception. That the
  database is served for good is a hypothesis of `DirectoryRecovers`.
- LegacyEvents: the poll loop goes on (it catches every exception) and a
  generator that has yielded is resumed. A client's reading is a hypothesis of
  the property, for that client alone.
- Webhooks: the monitoring loop goes on. That the node can be observed and the
  process lives is a hypothesis of the property.

### Disagreements found

The first three are runs that must violate one property; `PROJECT.json` quotes
the lines. The others were met while modelling and follow from the modules
as they stand.

1. After a gap, the first complete poll broadcasts an unkey for fields that
   were never keyed (legacy_unkey). Later polls do not: `UnkeysOutsideGapsAreReal`.
2. `sse_clients` counts clients that left before the stream's loop
   (legacy_leak), and never too few: `NoClientIsUncounted`.
3. With a local-monitor link, CLEAR can describe the node at no time
   (observation_monitor).
4. A Conn row that ALINKS does not list may make a complete snapshot
   (`vnext/observation.py:114` only refuses the converse), where
   `docs/VNEXT.md:15-17` makes every disagreement unknown. What the snapshot
   states of each link was still true at some instant (`AdjacencyIsReal`).
5. `docs/ARCHITECTURE.md:27` holds the lock "throughout the runtime, including
   recovery and shutdown"; `CloseRuntime` of Lifespan releases it before the
   monitor, the poll loop and the connection are stopped, so another process
   may serve meanwhile. `OwnerFirst` says how far that goes: each loop until its
   own line of the clause, or for good if a line before it fails and the process
   does not end.
6. `asl_agent.py:56` says "disconnect cleanly on shutdown". On Python 3.10 and
   3.11, which `docs/INSTALLATION.md:12` supports, a shutdown may hang at
   `asl_agent.py:85` or `ami_event_listener.py:27` and never come to the
   disconnect (`Swallow` of Lifespan; it is the only exception `ShutdownEnds`
   makes). The service manager then has to kill the process.

## Proofs

| Module | Theorems |
|---|---|
| `ControlPlane_proofs` | `TypeCorrectness`, `ExclusiveControl`, `AtMostOneUnfinished`, `OutcomesAreHonest`, `NoReplay`, `UnfinishedRowsAreLive`, `BusyIsTruthful`, `PolicyIsEnforced`, `TerminalRowsAreForever`, `PoisonIsFinal`, `RecoveryHasNoRival`, `OneWorkerMovesOn`, `BytesLeaveTheOwnerInService`, `Refinement` |
| `Observation_proofs` | `SnapshotInvariance`, `Refinement`, `ClearIsReal`, `AdjacencyIsReal`, `TypeCorrectness`, `LockIsNeverLost`, `NobodyOvertakes` |
| `ControlEffect_proofs` | `EffectInvariance`, `EffectsAreReal`, `CommandsHaveReasons`, `WorkerIsPlanes`, `WorkerStartsInPlane` |
| `LegacyEvents_proofs` | `EventsInvariance`, `TypeCorrectness`, `DrainedClientsAreCurrent`, `LinkEventsAreReal`, `UnkeysOutsideGapsAreReal`, `NoClientIsUncounted` |
| `Webhooks_proofs` | `ReportInvariance`, `TypeCorrectness`, `ReportsDoAlternate`, `MemoryIsWhatWasReported` |
| `AMISession_proofs` | `TypeCorrectness`, `AnswersAreReal`, `ControlsAreRecorded`, `LoginComesFirst` |
| `Api_proofs` | `ApiInvariance`, `TypeCorrectness`, `RetriesAreSafe`, `DisabledIsTrue`, `WalksAreComplete` |
| `Lifespan_proofs` | `LifeInvariance`, `TypeCorrectness`, `OwnerComesFirst`, `SessionIsOpen` |

Every invariant and every action property of the passing runs is stated by a
theorem, and both refinements are proved; what is left to TLC is liveness.

Assumptions are the named ones of each module: the sentinels are not members of
their sets, each request has a kind, the policy is a table, plans begin with a
login, no mode is called `absent` or `UNKNOWN`. Two sets are assumed finite, as
a count or an order is taken of them: the links and fields of LegacyEvents, of
which one poll's events fit in a queue (`QueueAssumption`), and the links of
Webhooks. Elsewhere there may be any number of processes, operations, callers,
clients, keys and restarts. One hypothesis is not an assumption:
`LocalMonitor = {}` in `Refinement` and `ClearIsReal` of Observation.

ControlPlane. None of the safety properties is inductive. `SingleWorker` needs
`OwnerInv` (only the process with the lock is not down) and `WorkerInv`, which
ties a task's program counter to its process, its slot and its row. That an
admission finds no unfinished row, though it only looks at the slot, is
`FreeSlotMeansIdle`: with a free slot there is no worker (`WorkerInv`), and
without a worker no unfinished row in a serving, healthy process (`NoOrphan`).
`NoOrphan` is kept by every end of a worker because it either saves a terminal
row or poisons the process, and by start because recovery ends only when all
rows are terminal. `RowInv` ties rows to bytes and gives `HonestOutcome` and
the refinement; `GateInv` carries the policy decision to the write.
`InductiveInvariant` is their conjunction. The proof has one lemma per action.
The refinement maps each action to one step of the contract or to a stutter,
under the invariant. `BytesLeaveTheOwnerInService` needs one conjunct more
(`UpInv`): no close begins between the barrier and the bytes, as there is no
await there. `OneWorkerMovesOn` gives each place of a worker a rank (`ToGo`)
that every step of it lowers, and says that only an admission raises it, once
in an operation's life.

Observation. The invariant says what each program counter knows: the reads so
far each came from a world since the caller asked, so a link missing from the
SawStat rows was absent then, and a link in them was adjacent. For the claim of
CLEAR there is one more step: if every link is listed, the variables were read
with no field keyed and the key states they show agree with SawStat's, so the
node was clear at the instant the variables were read. `Refinement` maps each
action to one of `ObserverContract` or a stutter under that invariant; it has
`LocalMonitor = {}` as its hypothesis, which is the third disagreement.
`AdjacencyIsReal` has no such hypothesis: the set of adjacent links and their
status come from XStat's Conn rows alone, and a session the observer was
invalidated under has the older generation (`StaleInv`). For the lock, `QueueInv` says that
the queue holds the callers that wait and no others, once each; joining,
leaving by cancellation (`RemoveFirst`) and being served keep that, and keep
the order of the others.

ControlEffect. What the contract's `seen` holds of the current question is
among the effects `held` since the acknowledgement, once the request is
acknowledged, and among the worlds since the worker began before that: so a
claim that a link is gone, or there in its mode, was true when the effect
counts. The decision taken from a snapshot is kept, up to the write, with the
claims it was taken from. `WorkerIsPlanes` is the simulation: with `PlaneInv`
(nothing is on the wire before the write, the row of a live worker is not
final, and the sample that admits is stale once the service closes) each action
is the control plane's action of the same place in `execute`, taken with the
traffic and the effect of the snapshot, or changes nothing of it. The worker is
first met after its admission, so it does not start in an initial state of
ControlPlane but in one of its `InductiveInvariant`
(`WorkerStartsInPlane`), which is all that module's safety theorems need. That
they hold of the composed worker too is the one inference left to the reader:
tlapm does not use the theorems of a module through INSTANCE.

LegacyEvents. A poll broadcasts its snapshot first and then events that agree
with it, so applying them changes nothing. A full queue loses its oldest
events and one poll fits, so the batch of the last poll is a suffix of each
subscriber's queue until the client takes the snapshot from it; from then on
the client believes that snapshot and all that is left agrees with it. That a
link event is real is that the adapter's memory is the last poll's, and is
dropped with a gap. The first two disagreements are bounded from the other
side: `UnkeysOutsideGapsAreReal` says that an unkey is invented only by the
first complete poll after a gap, and `NoClientIsUncounted` that `sse_clients`
errs only upwards.

Webhooks. Between two checks what is known is what was last reported connected
(`KnownIsReported`). A check owes each link that differs one notification, for
the opposite of what was last reported of it, and who is owed none was reported
as the check saw it (`CheckInv`); so once nothing is owed, replacing what is
known restores the first fact, whatever the node did meanwhile.

AMISession. The invariant says that every reply of this session in transit was
made after the action it answers was written, and where the session is in its
plan; the ActionID check does the rest. That a control on the wire is recorded
is not inductive, as bytes may be lost: `Recorded` says that every control the
session has passed, or whose barrier it is past, is recorded, and that no record
is made at the first step, which is the login.

Api. The ledger only grows and a key of a credential has one row, so the
look-up finds the row its client was told of and no other; the canonical
request of a row never changes, so it answers alike. A walk counts rows from the
newest and new rows push the others away from it: a row it has not seen lies
behind its offset, and a page that is not full ends at the oldest.

Lifespan. The place of a process in `lifespan` bounds what it has alive: a
process past the lock and short of `CloseRuntime` is the owner (`Owned`), and
each line of the finally clause behind it has ended its part, however far the
start-up had come (`Closed`). So a process without the lock that has anything
alive is past `CloseRuntime` or failed, and short of the line that would have
stopped it; `OwnerComesFirst` says no more.

Only model-checked: liveness under fairness, which TLAPS cannot prove here
(`SlotIsFreed`, `CloseEnds`, `EveryOperationSettles`, `FloodEnds`,
`EveryAskIsAnswered`, `ClientsConverge`, `LastingChangesAreReported`,
`ShutdownEnds`, `DirectoryRecovers`). Of some of these the safety half is
proved: `OneWorkerMovesOn` for the first three, so that they can fail only if a
worker is never scheduled; `LockIsNeverLost` and `NobodyOvertakes` for
`EveryAskIsAnswered`; `DrainedClientsAreCurrent` for `ClientsConverge`;
`TypeCorrectness` of AMISession, by which reads are within the budget, for
`FloodEnds`.

## Not modelled, and why

- What aiohttp does with a cancellation, in the refresh loop and in the webhook
  POSTs of the monitoring loop.
- Real time. Deadlines and timeouts are steps that may be taken; how late
  `verify_effect` may look at its deadline behind the observer's lock is not
  expressed.
- The syntax of AMI answers and of SQL; formatting, wording, logging, the audit
  file.
- HTTP beyond Api: schemas, problem documents, headers. The read-only views
  format one observation, the directory or the audit file.
- Loss of the ledger's storage, which `docs/VNEXT.md` excludes.
- The parsing of a directory line, `vnext/software.py`, `config.py`,
  `install.sh`: assignments, parsing and provisioning.
- The Panoramisk commands of `ami_client.py`, whose answers are parsed for
  display; its control commands are refused by `send_command`.

## Plan

Done, in this order: OperationContract and ControlPlane (the service's main
promise), their proofs and the refinement; Observation and its proofs;
LegacyEvents; Webhooks; AMISession and its proofs; Lifespan; ObserverContract,
which Observation is proved to implement; ControlEffect, worker and node
composed over it; Api; the node directory in Lifespan; the proofs of these
three; the proofs of LegacyEvents and Webhooks, of the simulation of
ControlEffect by ControlPlane, and of the lock's queue in Observation.

Next: the rows of Api as an implementation of `OperationContract`, and an
abstract event channel that LegacyEvents implements (the client's view is always
one the poll loop had), with the refinement proved.

Then, the model: the `/v1/events` stream with the observations of its clients.
