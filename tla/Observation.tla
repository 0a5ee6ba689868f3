---------------------------- MODULE Observation ----------------------------
(***************************************************************************)
(* Native observations: vnext/observation.py (Observer, parse_snapshot)    *)
(* over one short AMI session of vnext/transport.py (observe).             *)
(*                                                                         *)
(* A caller (the worker, the poll loop, an HTTP request) waits for the     *)
(* observer's lock, opens a session and asks for XStat and then SawStat.   *)
(* The node goes on changing meanwhile.  docs/VNEXT.md calls app_rpt's     *)
(* answer non-atomic, so XStat itself is two reads here, its Conn rows and *)
(* its channel variables: one snapshot is put together from three          *)
(* instants.  An answer that is late, malformed or truncated is Fail.      *)
(*                                                                         *)
(* Left out: foreign link names and the text of the rows.                  *)
(***************************************************************************)
EXTENDS Naturals, Sequences, SequencesExt, FiniteSets

CONSTANTS
    Links,          \* the nodes that may be adjacent
    Modes,          \* of a link in RPT_ALINKS, "C" among them
    LocalMonitor,   \* the links app_rpt leaves out of RPT_ALINKS
    Fields,         \* RPT_RXKEYED and RPT_TXKEYED
    Callers,        \* tasks that await Observer.snapshot
    Nobody

ASSUME LinksAssumption == LocalMonitor \subseteq Links
ASSUME ModesAssumption == {"absent", "UNKNOWN"} \cap Modes = {}
ASSUME CallersAssumption == Nobody \notin Callers

VARIABLES
    world,      \* the node now
    holder,     \* who holds Observer.lock
    waiters,    \* who waits for it, first come first served
    generation, \* Observer.generation
    taken,      \* the generation read when the lock was taken
    pc, conns, variables, saw,
    answer,     \* what this step returns to each caller, who uses it at once
    \* history: what has been true of the node since the caller asked, and
    \* whose session the observer was invalidated under
    seen, stale

lockVars == <<holder, waiters, generation, taken>>
readVars == <<conns, variables, saw>>
history  == <<seen, stale>>
vars     == <<world, holder, waiters, generation, taken, pc, conns, variables,
              saw, answer, seen, stale>>

-----------------------------------------------------------------------------

(* The node: the mode of each link, and what is keyed. *)
Worlds ==
    {w \in [mode : [Links -> Modes \cup {"absent"}], keyed : SUBSET Links,
            fields : SUBSET Fields] :
        \A n \in w.keyed : w.mode[n] # "absent"}

IsClear(w) == w.fields = {} /\ w.keyed = {}

(* The same node, as the contract of the observer sees it. *)
View == [clear |-> IsClear(world), mode |-> world.mode]

Asking == {c \in Callers : pc[c] # "idle"}

Contract == INSTANCE ObserverContract WITH view <- View, asking <- Asking

(* What each read says of the node: XStat Conn rows, XStat variables with  *)
(* RPT_ALINKS, SawStat Conn rows.                                          *)
LinksOf(w) == {n \in Links : w.mode[n] # "absent"}

ConnRows(w) == [names |-> LinksOf(w), up |-> {n \in LinksOf(w) : w.mode[n] # "C"}]

Variables(w) ==
    LET Shown(n) == n \notin LocalMonitor
    IN  [fields |-> w.fields, keyed |-> w.keyed \ LocalMonitor,
         mode |-> [n \in Links |-> IF Shown(n) THEN w.mode[n] ELSE "absent"]]

SawRows(w) == [names |-> LinksOf(w), keyed |-> w.keyed]

(* NodeState with null fields. *)
Unknown == Contract!Unknown

(* The three reads do not contradict one another. *)
Agree(c, v, s) ==
    /\ LinksOf(v) \subseteq c.names
    /\ c.names = s.names
    /\ v.keyed = s.keyed \cap LinksOf(v)

Complete(c, v, s, links) ==
    [complete |-> TRUE,
     traffic |-> IF v.fields # {} \/ s.keyed # {} THEN "ACTIVE" ELSE "CLEAR",
     links |-> links, up |-> c.up \cap links,
     mode |-> [n \in Links |-> IF v.mode[n] = "absent" THEN "UNKNOWN" ELSE v.mode[n]]]

(* Mutants: the key states are not compared; only links that are established.*)
ParseSnapshot_IgnoresKeys(c, v, s) ==
    IF LinksOf(v) \subseteq c.names /\ c.names = s.names
    THEN Complete(c, v, s, c.names) ELSE Unknown

ParseSnapshot_Established(c, v, s) ==
    IF Agree(c, v, s) THEN Complete(c, v, s, c.up) ELSE Unknown

(* parse_snapshot *)
ParseSnapshot(c, v, s) ==
    IF Agree(c, v, s) THEN Complete(c, v, s, c.names) ELSE Unknown

-----------------------------------------------------------------------------

NoConns     == [names |-> {}, up |-> {}]
NoVariables == [fields |-> {}, keyed |-> {}, mode |-> [n \in Links |-> "absent"]]
NoSaw       == [names |-> {}, keyed |-> {}]

Init ==
    /\ world \in Worlds
    /\ holder = Nobody
    /\ waiters = <<>>
    /\ generation = 0
    /\ taken = 0
    /\ pc = [c \in Callers |-> "idle"]
    /\ conns = NoConns /\ variables = NoVariables /\ saw = NoSaw
    /\ answer = [c \in Callers |-> Unknown]
    /\ seen = [c \in Callers |-> {}]
    /\ stale = {}

Answer(c, a) == answer' = [x \in Callers |-> IF x = c THEN a ELSE Unknown]

Silent == answer' = [c \in Callers |-> Unknown]

(* One thing changes at the node: a field or a link is keyed or unkeyed, a *)
(* link comes, goes or changes its mode.                                   *)
WorldChanges ==
    /\ \/ \E f \in Fields :
            world' = [world EXCEPT !.fields = IF f \in @ THEN @ \ {f} ELSE @ \cup {f}]
       \/ \E n \in LinksOf(world) :
            world' = [world EXCEPT !.keyed = IF n \in @ THEN @ \ {n} ELSE @ \cup {n}]
       \/ \E n \in Links, m \in Modes : world' = [world EXCEPT !.mode[n] = m]
       \/ \E n \in Links :
            world' = [world EXCEPT !.mode[n] = "absent", !.keyed = @ \ {n}]
    /\ seen' = [c \in Callers |->
          IF c \in Asking THEN seen[c] \cup Contract!TrueOf(View') ELSE seen[c]]
    /\ Silent
    /\ UNCHANGED <<lockVars, pc, readVars, stale>>

(* snapshot() is called; the previous answer has been used. *)
Ask(c) ==
    /\ pc[c] = "idle"
    /\ pc' = [pc EXCEPT ![c] = "waiting"]
    /\ waiters' = Append(waiters, c)
    /\ Silent
    /\ seen' = [seen EXCEPT ![c] = Contract!TrueOf(View)]
    /\ UNCHANGED <<world, holder, generation, taken, readVars, stale>>

(* asyncio.Lock wakes its waiters in order. *)
Acquire(c) ==
    /\ holder = Nobody
    /\ pc[c] = "waiting" /\ Head(waiters) = c
    /\ holder' = c
    /\ waiters' = Tail(waiters)
    /\ taken' = generation
    /\ pc' = [pc EXCEPT ![c] = "session"]
    /\ UNCHANGED <<world, generation, readVars, history>>
    /\ Silent

ReadConns(c) ==
    /\ pc[c] = "session"
    /\ conns' = ConnRows(world)
    /\ pc' = [pc EXCEPT ![c] = "xstat"]
    /\ UNCHANGED <<world, lockVars, variables, saw, history>>
    /\ Silent

ReadVariables(c) ==
    /\ pc[c] = "xstat"
    /\ variables' = Variables(world)
    /\ pc' = [pc EXCEPT ![c] = "sawstat"]
    /\ UNCHANGED <<world, lockVars, conns, saw, history>>
    /\ Silent

ReadSaw(c) ==
    /\ pc[c] = "sawstat"
    /\ saw' = SawRows(world)
    /\ pc' = [pc EXCEPT ![c] = "parse"]
    /\ UNCHANGED <<world, lockVars, conns, variables, history>>
    /\ Silent

(* The local variables of snapshot() are gone. *)
Forget == conns' = NoConns /\ variables' = NoVariables /\ saw' = NoSaw

(* The caller is no longer served: its history ends. *)
Served(c) ==
    /\ pc' = [pc EXCEPT ![c] = "idle"]
    /\ seen' = [seen EXCEPT ![c] = {}]
    /\ stale' = stale \ {c}

(* Mutant: the lock is not a context manager and stays taken. *)
Release_Never(c) == UNCHANGED holder

(* The end of "async with self.lock". *)
Release(c) == holder' = IF holder = c THEN Nobody ELSE holder

(* Mutant: the generation is not compared. *)
Return_IgnoresGeneration(c) ==
    /\ pc[c] = "parse"
    /\ Answer(c, ParseSnapshot(conns, variables, saw))
    /\ Served(c)
    /\ Release(c) /\ Forget
    /\ UNCHANGED <<world, waiters, generation, taken>>

Return(c) ==
    /\ pc[c] = "parse"
    /\ Answer(c, IF taken = generation THEN ParseSnapshot(conns, variables, saw)
                                       ELSE Unknown)
    /\ Served(c)
    /\ Release(c) /\ Forget
    /\ UNCHANGED <<world, waiters, generation, taken>>

(* No session, no login, no answer in time, a malformed answer. *)
Fail(c) ==
    /\ pc[c] \in {"session", "xstat", "sawstat", "parse"}
    /\ Silent
    /\ Served(c)
    /\ Release(c) /\ Forget
    /\ UNCHANGED <<world, waiters, generation, taken>>

(* Mutant: a cancelled waiter stays in the queue. *)
Cancel_KeepsWaiter(c) ==
    /\ pc[c] # "idle"
    /\ Served(c)
    /\ Release(c)
    /\ IF holder = c THEN Forget ELSE UNCHANGED readVars
    /\ Silent
    /\ UNCHANGED <<world, waiters, generation, taken>>

(* The caller's task is cancelled: the service closes, a client leaves. *)
Cancel(c) ==
    /\ pc[c] # "idle"
    /\ Served(c)
    /\ waiters' = RemoveFirst(waiters, c)
    /\ Release(c)
    /\ IF holder = c THEN Forget ELSE UNCHANGED readVars
    /\ Silent
    /\ UNCHANGED <<world, generation, taken>>

(* Platform.close, once in the life of a process. *)
Invalidate ==
    /\ generation = 0
    /\ generation' = generation + 1
    /\ stale' = stale \cup {c \in Callers : holder = c}
    /\ UNCHANGED <<world, holder, waiters, taken, pc, readVars, seen>>
    /\ Silent

Session(c) ==
    ReadConns(c) \/ ReadVariables(c) \/ ReadSaw(c) \/ Return(c) \/ Fail(c)

Next ==
    \/ WorldChanges
    \/ Invalidate
    \/ \E c \in Callers : Ask(c) \/ Acquire(c) \/ Session(c) \/ Cancel(c)

Spec == Init /\ [][Next]_vars

-----------------------------------------------------------------------------

TypeOK ==
    /\ world \in Worlds
    /\ holder \in Callers \cup {Nobody}
    /\ ToSet(waiters) = {c \in Callers : pc[c] = "waiting"}
    /\ IsInjective(waiters)
    /\ {generation, taken} \subseteq 0..1
    /\ pc \in [Callers -> {"idle", "waiting", "session", "xstat", "sawstat", "parse"}]
    /\ conns \in [names : SUBSET Links, up : SUBSET Links]
    /\ variables \in Worlds
    /\ saw \in [names : SUBSET Links, keyed : SUBSET Links]
    /\ answer \in [Callers -> Contract!Snapshots]
    /\ seen \in [Callers -> SUBSET Contract!Claims]
    /\ stale \subseteq Asking

(* What snapshot() returns is what its contract allows: each thing that a  *)
(* complete NodeState says was true at some instant since the caller asked *)
(* (a control is not admitted by a CLEAR put together from instants that   *)
(* each had traffic, an unlink not confirmed by a link merely not listed), *)
(* and a sample in flight at close is not complete.                        *)
ImplementsContract == Contract!Spec

(* CLEAR, which admits every control, is never put together from instants  *)
(* that each had traffic.  That needs every keyed link to be in RPT_ALINKS.*)
ClearIsTrue ==
    [][\A c \in Callers :
          c \in Asking /\ c \notin Asking' /\ answer'[c].traffic = "CLEAR" =>
              <<"traffic", "CLEAR">> \in seen[c]]_vars

-----------------------------------------------------------------------------

(* Every await under the lock has a timeout, and a waiter that was handed  *)
(* the lock takes it.                                                      *)
Fairness == \A c \in Callers : WF_vars(Acquire(c)) /\ WF_vars(Session(c))

LiveSpec == Spec /\ Fairness

(* No caller waits for ever, though the wait for the lock has no timeout   *)
(* of its own and sessions fail or are cancelled before it.                *)
EveryAskIsAnswered == \A c \in Callers : pc[c] = "waiting" ~> pc[c] = "idle"

=============================================================================
