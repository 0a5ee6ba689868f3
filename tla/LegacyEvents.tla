---------------------------- MODULE LegacyEvents ----------------------------
(***************************************************************************)
(* The legacy event stream: ami_event_listener.py (AMIEventListener) and   *)
(* GET /events in asl_agent.py (event_stream).                             *)
(*                                                                         *)
(* A poll loop takes observations of the node, turns what changed into     *)
(* transition events and puts them on the bounded queue of every           *)
(* subscriber.  A client subscribes, takes an observation of its own for   *)
(* its first event and then drains its queue.  The observer's lock lets    *)
(* one observation run at a time, so the two race for it.                  *)
(*                                                                         *)
(* Everything after an await of the loop up to the next one is one step:   *)
(* broadcast never waits.  A client is one request, with its own queue.    *)
(* A complete observation is taken to show the node at one instant; what   *)
(* its two reads can really show is the subject of module Observation.     *)
(* Event wording, timestamps and the 15 s keepalive are left out.          *)
(***************************************************************************)
EXTENDS Naturals, Sequences, SequencesExt, FiniteSets

CONSTANTS
    Nodes,      \* names of adjacent links
    Fields,     \* the two logical key states: rxkeyed and txkeyed
    Clients,    \* requests to GET /events, each with a queue of its own
    MaxQueue    \* asyncio.Queue(maxsize=200)

(* One poll makes at most one snapshot, one event per field and one per    *)
(* link that came or went, and a queue holds them all.                     *)
ASSUME QueueAssumption ==
    /\ IsFiniteSet(Nodes) /\ IsFiniteSet(Fields)
    /\ MaxQueue \in Nat
    /\ MaxQueue >= 1 + Cardinality(Fields) + Cardinality(Nodes)

(* The observer's lock tells the poll loop from the clients. *)
ASSUME ClientsAssumption == Clients \cap {"nobody", "poll"} = {}

VARIABLES
    world,      \* the node: its links and which of its fields are keyed
    observing,  \* who holds the observer's lock: "nobody", "poll", a client
    sample,     \* what the observation in progress will return
    known,      \* _known_nodes, _rxkeyed and _txkeyed
    phase, subscribed, queue, view,
    \* history: the sample of the last poll and whether it was a gap, the
    \* fields ever keyed, the clients the last poll was broadcast to
    polled, gap, everKeyed, heard

clientVars == <<phase, subscribed, queue, view>>
history    == <<polled, gap, everKeyed, heard>>
vars       == <<world, observing, sample, known, phase, subscribed, queue, view,
                polled, gap, everKeyed, heard>>

-----------------------------------------------------------------------------

(* An observation, the adapter's memory of one, and what a client that     *)
(* applies events to the last snapshot believes.                           *)
Observations == [complete : BOOLEAN, links : SUBSET Nodes, keyed : SUBSET Fields]

(* STATE_UNKNOWN; in known, the three attributes are None.                 *)
Unknown == [complete |-> FALSE, links |-> {}, keyed |-> {}]

Instant == [complete |-> TRUE, links |-> world.links, keyed |-> world.keyed]

Snapshot(s)     == [type |-> "snapshot", state |-> s]
Keyed(f, v)     == [type |-> "keyed", field |-> f, value |-> v]
Connected(n)    == [type |-> "connected", node |-> n]
Disconnected(n) == [type |-> "disconnected", node |-> n]

(* The fields whose value is not the remembered one: None differs from     *)
(* both values.                                                            *)
ChangedFields(old, s) ==
    {f \in Fields : old.complete => ((f \in old.keyed) # (f \in s.keyed))}

(* After a gap the first complete poll is the baseline of the links only.  *)
Appeared(old, s) == IF old.complete THEN s.links \ old.links ELSE {}
Vanished(old, s) == IF old.complete THEN old.links \ s.links ELSE {}

(* Mutant: a sample like the last one is not broadcast. *)
Batches_OnlyChanges(old, s) ==
    IF s = old THEN {<<>>} ELSE {<<Snapshot(s)>>}

(* What one poll broadcasts, in the order of the code; a set is run        *)
(* through in any order.                                                   *)
Batches(old, s) ==
    IF ~s.complete THEN {<<Snapshot(s)>>}
    ELSE {<<Snapshot(s)>> \o [i \in DOMAIN fs |-> Keyed(fs[i], fs[i] \in s.keyed)]
                          \o [i \in DOMAIN ns |-> Connected(ns[i])]
                          \o [i \in DOMAIN ms |-> Disconnected(ms[i])] :
            fs \in SetToSeqs(ChangedFields(old, s)),
            ns \in SetToSeqs(Appeared(old, s)),
            ms \in SetToSeqs(Vanished(old, s))}

(* Mutants: the queue has no bound; a full queue refuses new events instead *)
(* of dropping the oldest.                                                 *)
Enqueue_Unbounded(q, events) == q \o events
Enqueue_DropsNewest(q, events) ==
    LET all == q \o events
    IN  SubSeq(all, 1, IF Len(all) > MaxQueue THEN MaxQueue ELSE Len(all))

(* broadcast, once per event: a full queue loses its oldest event.         *)
Enqueue(q, events) ==
    LET all == q \o events
    IN  SubSeq(all, (IF Len(all) > MaxQueue THEN Len(all) - MaxQueue ELSE 0) + 1,
               Len(all))

(* A client's picture of the node after one more event. *)
ViewAfter(v, e) ==
    CASE e.type = "snapshot" -> e.state
      [] e.type = "keyed" ->
            [v EXCEPT !.keyed = IF e.value THEN @ \cup {e.field} ELSE @ \ {e.field}]
      [] e.type = "connected" -> [v EXCEPT !.links = @ \cup {e.node}]
      [] e.type = "disconnected" -> [v EXCEPT !.links = @ \ {e.node}]

-----------------------------------------------------------------------------

Init ==
    /\ world \in [links : SUBSET Nodes, keyed : SUBSET Fields]
    /\ observing = "nobody"
    /\ sample = Unknown
    /\ known = Unknown
    /\ phase = [c \in Clients |-> "new"]
    /\ subscribed = {}
    /\ queue = [c \in Clients |-> <<>>]
    /\ view = [c \in Clients |-> Unknown]
    /\ polled = Unknown
    /\ gap = FALSE
    /\ everKeyed = world.keyed
    /\ heard = {}

(* A link comes or goes, a field is keyed or unkeyed. *)
LinkChanges(n) ==
    /\ world' = [world EXCEPT !.links = IF n \in @ THEN @ \ {n} ELSE @ \cup {n}]
    /\ UNCHANGED <<observing, sample, known, clientVars, history>>

FieldChanges(f) ==
    /\ world' = [world EXCEPT !.keyed = IF f \in @ THEN @ \ {f} ELSE @ \cup {f}]
    /\ everKeyed' = everKeyed \cup {f}
    /\ UNCHANGED <<observing, sample, known, clientVars, polled, gap, heard>>

(* Observer.snapshot: the lock is taken and the node read; the result may  *)
(* be STATE_UNKNOWN whatever the node does.                                *)
Observe(who, s) ==
    /\ observing = "nobody"
    /\ observing' = who
    /\ s \in {Unknown, Instant}
    /\ sample' = s
    /\ UNCHANGED <<world, known, clientVars, history>>

(* Mutant: a gap does not make the adapter forget. *)
Remember_KeepsOverGap(s) == known' = IF s.complete THEN s ELSE known

(* What is remembered for the next poll; a gap breaks the continuity. *)
Remember(s) == known' = s

(* The rest of _poll_once. *)
PollOnce ==
    /\ observing = "poll"
    /\ \E events \in Batches(known, sample) :
          queue' = [c \in Clients |->
                      IF c \in subscribed THEN Enqueue(queue[c], events)
                                          ELSE queue[c]]
    /\ Remember(sample)
    /\ observing' = "nobody" /\ sample' = Unknown
    /\ polled' = sample /\ gap' = ~sample.complete
    /\ heard' = subscribed
    /\ UNCHANGED <<world, phase, subscribed, view, everKeyed>>

(* event_stream: the queue exists before the generator is ever run. *)
Subscribe(c) ==
    /\ phase[c] = "new"
    /\ phase' = [phase EXCEPT ![c] = "initial"]
    /\ subscribed' = subscribed \cup {c}
    /\ UNCHANGED <<world, observing, sample, known, queue, view, history>>

(* The first event is the client's own observation; the generator rests at *)
(* its yield, still in the first try.                                      *)
InitialSnapshot(c) ==
    /\ observing = c
    /\ observing' = "nobody" /\ sample' = Unknown
    /\ phase' = [phase EXCEPT ![c] = "first"]
    /\ view' = [view EXCEPT ![c] = sample]
    /\ UNCHANGED <<world, known, subscribed, queue, history>>

(* The second try, whose finally clause unsubscribes. *)
EnterLoop(c) ==
    /\ phase[c] = "first"
    /\ phase' = [phase EXCEPT ![c] = "streaming"]
    /\ UNCHANGED <<world, observing, sample, known, subscribed, queue, view, history>>

Deliver(c) ==
    /\ phase[c] = "streaming"
    /\ queue[c] # <<>>
    /\ view' = [view EXCEPT ![c] = ViewAfter(@, Head(queue[c]))]
    /\ queue' = [queue EXCEPT ![c] = Tail(@)]
    /\ UNCHANGED <<world, observing, sample, known, phase, subscribed, history>>

(* The response ends.  Before the second try is entered nothing            *)
(* unsubscribes: a client gone by then leaves its queue behind.            *)
Leave(c) ==
    /\ phase[c] \in {"initial", "first", "streaming"}
    /\ subscribed' = IF phase[c] = "streaming" THEN subscribed \ {c} ELSE subscribed
    /\ phase' = [phase EXCEPT ![c] = "left"]
    /\ IF observing = c
       THEN observing' = "nobody" /\ sample' = Unknown
       ELSE UNCHANGED <<observing, sample>>
    /\ UNCHANGED <<world, known, queue, view, history>>

Next ==
    \/ \E n \in Nodes : LinkChanges(n)
    \/ \E f \in Fields : FieldChanges(f)
    \/ \E s \in {Unknown, Instant} : Observe("poll", s)
    \/ PollOnce
    \/ \E c \in Clients :
          \/ Subscribe(c) \/ InitialSnapshot(c) \/ EnterLoop(c)
          \/ Deliver(c) \/ Leave(c)
          \/ /\ phase[c] = "initial"
             /\ \E s \in {Unknown, Instant} : Observe(c, s)

Spec == Init /\ [][Next]_vars

-----------------------------------------------------------------------------

Present == {c \in Clients : phase[c] \in {"initial", "first", "streaming"}}

TypeOK ==
    /\ world \in [links : SUBSET Nodes, keyed : SUBSET Fields]
    /\ observing \in {"nobody", "poll"} \cup Clients
    /\ {sample, known, polled} \subseteq Observations
    /\ phase \in [Clients -> {"new", "initial", "first", "streaming", "left"}]
    /\ subscribed \subseteq Clients
    /\ \A c \in Clients : Len(queue[c]) <= MaxQueue /\ view[c] \in Observations
    /\ gap \in BOOLEAN
    /\ everKeyed \subseteq Fields
    /\ heard \subseteq Clients

(* A client that has drained its queue believes what the last poll saw,    *)
(* however many events the full queue dropped before, and though its own   *)
(* first observation may be newer than events already queued.              *)
CaughtUpIsCurrent ==
    \A c \in heard :
        phase[c] = "streaming" /\ queue[c] = <<>> => view[c] = polled

(* The events a poll puts on an empty queue. *)
IsNew(c, e) == queue[c] = <<>> /\ e \in ToSet(queue'[c])

(* No poll reports a link as gone or new but by comparison with a complete *)
(* poll right before it: never across an unknown gap.                      *)
NoInventedLinkEvent ==
    [][\A c \in Clients : \A n \in Nodes :
          /\ IsNew(c, Disconnected(n)) =>
                polled.complete /\ n \in polled.links /\ n \notin polled'.links
          /\ IsNew(c, Connected(n)) =>
                polled.complete /\ n \notin polled.links /\ n \in polled'.links]_vars

(* docs/VNEXT.md: "unknown gaps never generate invented unkey/disconnect   *)
(* events".  The first complete poll after a gap does not report as        *)
(* unkeyed a field that has never been keyed.                              *)
NoInventedUnkey ==
    [][\A c \in Clients : \A f \in Fields :
          gap /\ IsNew(c, Keyed(f, FALSE)) => f \in everKeyed]_vars

(* CHANGELOG.md: /ping's sse_clients is the "count of connected SSE        *)
(* subscribers".                                                           *)
SseClientsAreConnected == subscribed = Present

-----------------------------------------------------------------------------

(* The poll loop survives every exception and is never stopped while the   *)
(* service runs; an observation ends within its timeout; a generator that  *)
(* has yielded its first event is resumed.  Nothing makes a client read,   *)
(* leave or stay.                                                          *)
Fairness ==
    /\ WF_vars(\E s \in {Unknown, Instant} : Observe("poll", s))
    /\ WF_vars(PollOnce)
    /\ \A c \in Clients :
          WF_vars(InitialSnapshot(c)) /\ WF_vars(EnterLoop(c))

LiveSpec == Spec /\ Fairness

(* From some time on the node rests and its observations are complete. *)
EventuallyQuiet ==
    <>[][/\ UNCHANGED world
         /\ observing' # observing /\ observing' # "nobody" => sample'.complete]_vars

(* A client that stays and reads comes to believe what the node does, for  *)
(* good; another client that stops reading does not keep it from that.     *)
ClientsConverge ==
    EventuallyQuiet =>
        \A c \in Clients :
            <>[](phase[c] = "streaming") /\ WF_vars(Deliver(c))
                => <>[](view[c] = Instant)

=============================================================================
