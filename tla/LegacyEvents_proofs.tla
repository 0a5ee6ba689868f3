------------------------ MODULE LegacyEvents_proofs ------------------------
(***************************************************************************)
(* Why a client that has drained its queue believes what the last poll     *)
(* saw, for any links, fields, clients and any queue that holds one poll.  *)
(*                                                                         *)
(* A poll broadcasts its snapshot first and then events that agree with    *)
(* it: applied to it they change nothing.  A full queue loses its oldest   *)
(* events, and one poll fits into it; so what the last poll broadcast to a *)
(* client is a suffix of its queue until the client takes the snapshot,    *)
(* and from then on the client believes that snapshot.                     *)
(***************************************************************************)
EXTENDS LegacyEvents, FiniteSetTheorems, SequenceTheorems, TLAPS

Events ==
    [type : {"snapshot"}, state : Observations]
        \cup [type : {"keyed"}, field : Fields, value : BOOLEAN]
        \cup [type : {"connected", "disconnected"}, node : Nodes]

(* The event says nothing but what the observation shows. *)
Agrees(e, s) ==
    /\ e.type = "snapshot" => e.state = s
    /\ e.type = "keyed" => (e.value <=> e.field \in s.keyed)
    /\ e.type = "connected" => e.node \in s.links
    /\ e.type = "disconnected" => e.node \notin s.links

(* The snapshot is in the queue and what follows agrees with it. *)
Queued(q, s) ==
    \E k \in 1..Len(q) : q[k] = Snapshot(s) /\ \A j \in k..Len(q) : Agrees(q[j], s)

(* The snapshot was taken and what is left agrees with it. *)
Believed(q, v, s) == v = s /\ \A j \in 1..Len(q) : Agrees(q[j], s)

Types ==
    /\ world \in [links : SUBSET Nodes, keyed : SUBSET Fields]
    /\ observing \in {"nobody", "poll"} \cup Clients
    /\ sample \in Observations /\ known \in Observations
    /\ phase \in [Clients -> {"new", "initial", "first", "streaming", "left"}]
    /\ subscribed \in SUBSET Clients
    /\ queue \in [Clients -> Seq(Events)]
    /\ \A c \in Clients : Len(queue[c]) <= MaxQueue
    /\ view \in [Clients -> Observations]
    /\ gap \in BOOLEAN
    /\ everKeyed \in SUBSET Fields
    /\ heard \in SUBSET Clients

(* The adapter remembers the last poll; the lock's client waits for its    *)
(* first event; who is subscribed or was broadcast to has come, and who    *)
(* has come and not left is subscribed.                                    *)
PlaceInv ==
    /\ known = polled
    /\ \A c \in Clients : observing = c => phase[c] = "initial"
    /\ \A c \in subscribed \cup heard : phase[c] # "new"
    /\ Present \subseteq subscribed

(* Until it is taken, the last poll's snapshot is in the queue. *)
StreamInv ==
    \A c \in heard :
        /\ phase[c] \in {"initial", "first"} => Queued(queue[c], polled)
        /\ phase[c] = "streaming" =>
              Queued(queue[c], polled) \/ Believed(queue[c], view[c], polled)

EventsInv == Types /\ PlaceInv /\ StreamInv

-----------------------------------------------------------------------------

(* One poll fits into the queue. *)
LEMMA BatchFits ==
    ASSUME NEW old \in Observations, NEW s \in Observations
    PROVE  LET F == ChangedFields(old, s)
               A == Appeared(old, s)
               V == Vanished(old, s)
           IN  /\ IsFiniteSet(F) /\ IsFiniteSet(A) /\ IsFiniteSet(V)
               /\ Cardinality(F) \in Nat /\ Cardinality(A) \in Nat
               /\ Cardinality(V) \in Nat
               /\ 1 + Cardinality(F) + Cardinality(A) + Cardinality(V) <= MaxQueue
  <1> DEFINE F == ChangedFields(old, s)
             A == Appeared(old, s)
             V == Vanished(old, s)
  <1>1. F \in SUBSET Fields /\ A \in SUBSET Nodes /\ V \in SUBSET Nodes /\ A \cap V = {}
    BY DEF ChangedFields, Appeared, Vanished, Observations
  <1> HIDE DEF F, A, V
  <1>2. /\ IsFiniteSet(F) /\ IsFiniteSet(A) /\ IsFiniteSet(V)
        /\ Cardinality(F) <= Cardinality(Fields)
    BY <1>1, FS_Subset, QueueAssumption
  <1>3. /\ Cardinality(F) \in Nat /\ Cardinality(A) \in Nat /\ Cardinality(V) \in Nat
        /\ Cardinality(Fields) \in Nat /\ Cardinality(Nodes) \in Nat
    BY <1>2, FS_CardinalityType, QueueAssumption
  <1>4. Cardinality(A \cup V) = Cardinality(A) + Cardinality(V)
    <2>1. Cardinality(A \cap V) = 0
      BY <1>1, FS_EmptySet
    <2>2. Cardinality(A \cup V) = Cardinality(A) + Cardinality(V) - Cardinality(A \cap V)
      BY <1>2, FS_Union
    <2>3. QED  BY <1>3, <2>1, <2>2
  <1>5. Cardinality(A \cup V) <= Cardinality(Nodes)
    <2>1. A \cup V \in SUBSET Nodes
      BY <1>1
    <2>2. QED  BY <2>1, FS_Subset, QueueAssumption
  <1>6. 1 + Cardinality(F) + Cardinality(A) + Cardinality(V) <= MaxQueue
    BY <1>2, <1>3, <1>4, <1>5, QueueAssumption
  <1>7. QED  BY <1>2, <1>3, <1>6 DEF F, A, V

(* What one poll broadcasts: its snapshot first, then events that agree    *)
(* with it; links come and go only by comparison with what was known.      *)
LEMMA BatchAgrees ==
    ASSUME NEW old \in Observations, NEW s \in Observations,
           NEW events \in Batches(old, s)
    PROVE  /\ events \in Seq(Events) /\ Len(events) \in 1..MaxQueue
           /\ events[1] = Snapshot(s)
           /\ \A j \in 1..Len(events) :
                 /\ Agrees(events[j], s)
                 /\ \A n : events[j] = Connected(n) => n \in Appeared(old, s)
                 /\ \A n : events[j] = Disconnected(n) => n \in Vanished(old, s)
                 /\ \A f : events[j] = Keyed(f, FALSE) => f \in ChangedFields(old, s)
  <1> DEFINE Good(e) ==
          /\ Agrees(e, s)
          /\ \A n : e = Connected(n) => n \in Appeared(old, s)
          /\ \A n : e = Disconnected(n) => n \in Vanished(old, s)
          /\ \A f : e = Keyed(f, FALSE) => f \in ChangedFields(old, s)
  <1>1. Snapshot(s) \in Events /\ Good(Snapshot(s))
    BY DEF Snapshot, Events, Agrees, Connected, Disconnected, Keyed
  <1>2. CASE ~s.complete
    <2>1. events = <<Snapshot(s)>>
      BY <1>2 DEF Batches
    <2>2. 1 \in 1..MaxQueue
      BY FS_CardinalityType, QueueAssumption
    <2> HIDE DEF Good
    <2>3. /\ events \in Seq(Events) /\ Len(events) = 1 /\ events[1] = Snapshot(s)
          /\ \A j \in 1..Len(events) : Good(events[j])
      BY <1>1, <2>1
    <2>4. QED  BY <2>2, <2>3 DEF Good
  <1>3. CASE s.complete
    <2> DEFINE B(fs, ns, ms) == <<Snapshot(s)>>
                  \o [i \in DOMAIN fs |-> Keyed(fs[i], fs[i] \in s.keyed)]
                  \o [i \in DOMAIN ns |-> Connected(ns[i])]
                  \o [i \in DOMAIN ms |-> Disconnected(ms[i])]
    <2>0. Batches(old, s) = {B(fs, ns, ms) : fs \in SetToSeqs(ChangedFields(old, s)),
                                             ns \in SetToSeqs(Appeared(old, s)),
                                             ms \in SetToSeqs(Vanished(old, s))}
      BY <1>3 DEF Batches
    <2> HIDE DEF B
    <2>1. PICK fs \in SetToSeqs(ChangedFields(old, s)),
               ns \in SetToSeqs(Appeared(old, s)),
               ms \in SetToSeqs(Vanished(old, s)) :
             events = B(fs, ns, ms)
      BY <2>0
    <2> DEFINE a == [i \in DOMAIN fs |-> Keyed(fs[i], fs[i] \in s.keyed)]
               b == [i \in DOMAIN ns |-> Connected(ns[i])]
               d == [i \in DOMAIN ms |-> Disconnected(ms[i])]
    <2>2. \A f \in ChangedFields(old, s) : LET e == Keyed(f, f \in s.keyed)
                                           IN  e \in Events /\ Good(e)
      <3> SUFFICES ASSUME NEW f \in ChangedFields(old, s)
                   PROVE  LET e == Keyed(f, f \in s.keyed) IN e \in Events /\ Good(e)
        OBVIOUS
      <3>1. f \in Fields
        BY DEF ChangedFields
      <3>2. CASE f \in s.keyed
        <4>1. (f \in s.keyed) = TRUE
          BY <3>2, Zenon
        <4>2. Keyed(f, TRUE) \in Events /\ Good(Keyed(f, TRUE))
          BY <3>1, <3>2 DEF Keyed, Events, Agrees, Connected, Disconnected
        <4>3. QED  BY <4>1, <4>2, Zenon
      <3>3. CASE f \notin s.keyed
        <4>1. (f \in s.keyed) = FALSE
          BY <3>3
        <4>2. Keyed(f, FALSE) \in Events /\ Good(Keyed(f, FALSE))
          BY <3>1, <3>3 DEF Keyed, Events, Agrees, Connected, Disconnected
        <4>3. QED  BY <4>1, <4>2, Zenon
      <3>4. QED  BY <3>2, <3>3
    <2>3. \A n \in Appeared(old, s) : Connected(n) \in Events /\ Good(Connected(n))
      BY DEF Appeared, Observations, Connected, Disconnected, Keyed, Events, Agrees
    <2>4. \A n \in Vanished(old, s) : Disconnected(n) \in Events /\ Good(Disconnected(n))
      BY DEF Vanished, Observations, Connected, Disconnected, Keyed, Events, Agrees
    <2> HIDE DEF Good
    <2> DEFINE T == {e \in Events : Good(e)}
    <2>5. a \in Seq(T) /\ Len(a) = Cardinality(ChangedFields(old, s))
      <3> DEFINE m == Cardinality(ChangedFields(old, s))
      <3>1. m \in Nat /\ fs \in [1..m -> ChangedFields(old, s)]
        BY BatchFits DEF SetToSeqs
      <3> HIDE DEF m
      <3>2. a \in [1..m -> T]
        BY <2>2, <3>1
      <3>3. QED  BY <3>1, <3>2 DEF m
    <2>6. b \in Seq(T) /\ Len(b) = Cardinality(Appeared(old, s))
      <3> DEFINE m == Cardinality(Appeared(old, s))
      <3>1. m \in Nat /\ ns \in [1..m -> Appeared(old, s)]
        BY BatchFits DEF SetToSeqs
      <3> HIDE DEF m
      <3>2. b \in [1..m -> T]
        BY <2>3, <3>1
      <3>3. QED  BY <3>1, <3>2 DEF m
    <2>7. d \in Seq(T) /\ Len(d) = Cardinality(Vanished(old, s))
      <3> DEFINE m == Cardinality(Vanished(old, s))
      <3>1. m \in Nat /\ ms \in [1..m -> Vanished(old, s)]
        BY BatchFits DEF SetToSeqs
      <3> HIDE DEF m
      <3>2. d \in [1..m -> T]
        BY <2>4, <3>1
      <3>3. QED  BY <3>1, <3>2 DEF m
    <2>8. events = <<Snapshot(s)>> \o a \o b \o d
      BY <2>1 DEF B
    <2>9. /\ events \in Seq(Events) /\ Len(events) = 1 + Len(a) + Len(b) + Len(d)
          /\ events[1] = Snapshot(s) /\ \A j \in 1..Len(events) : Good(events[j])
      <3>1. Snapshot(s) \in T
        BY <1>1
      <3> HIDE DEF T, a, b, d
      <3>2. /\ events \in Seq(T) /\ Len(events) = 1 + Len(a) + Len(b) + Len(d)
            /\ events[1] = Snapshot(s)
        <4> DEFINE q0 == <<Snapshot(s)>>
                   q1 == q0 \o a
                   q2 == q1 \o b
        <4>1. q0 \in Seq(T) /\ Len(q0) = 1 /\ q0[1] = Snapshot(s)
          BY <3>1
        <4>2. q1 = q0 \o a /\ q2 = q1 \o b /\ events = q2 \o d
          BY <2>8
        <4>3. Len(a) \in Nat /\ Len(b) \in Nat /\ Len(d) \in Nat /\ q0 \in Seq(T)
          BY <2>5, <2>6, <2>7, <4>1, LenProperties
        <4> HIDE DEF q0, q1, q2
        <4>4. q1 \in Seq(T) /\ q1[1] = q0[1] /\ Len(q1) = Len(q0) + Len(a)
          <5>1. Len(q0) # 0  BY <4>1
          <5>2. q0 \in Seq(T) /\ a \in Seq(T)  BY <4>3, <2>5, <4>1
          <5>3. /\ q0 \o a \in Seq(T) /\ (q0 \o a)[1] = q0[1]
                /\ Len(q0 \o a) = Len(q0) + Len(a)
            BY <5>1, <5>2
          <5>4. QED  BY <4>2, <5>3, Zenon
        <4>5. q2 \in Seq(T) /\ q2[1] = q1[1] /\ Len(q2) = Len(q1) + Len(b)
          <5>1. Len(q1) # 0  BY <4>1, <4>3, <4>4
          <5>2. q1 \in Seq(T) /\ b \in Seq(T)  BY <4>4, <2>6, <4>1
          <5>3. /\ q1 \o b \in Seq(T) /\ (q1 \o b)[1] = q1[1]
                /\ Len(q1 \o b) = Len(q1) + Len(b)
            BY <5>1, <5>2
          <5>4. QED  BY <4>2, <5>3, Zenon
        <4>6. events \in Seq(T) /\ events[1] = q2[1] /\ Len(events) = Len(q2) + Len(d)
          <5>1. Len(q2) # 0  BY <4>1, <4>3, <4>4, <4>5
          <5>2. q2 \in Seq(T) /\ d \in Seq(T)  BY <4>5, <2>7, <4>1
          <5>3. /\ q2 \o d \in Seq(T) /\ (q2 \o d)[1] = q2[1]
                /\ Len(q2 \o d) = Len(q2) + Len(d)
            BY <5>1, <5>2
          <5>4. QED  BY <4>2, <5>3, Zenon
        <4>7. events[1] = Snapshot(s)
          BY <4>1, <4>4, <4>5, <4>6, Zenon
        <4>8. Len(events) = 1 + Len(a) + Len(b) + Len(d)
          BY <4>1, <4>3, <4>4, <4>5, <4>6
        <4>9. QED  BY <4>6, <4>7, <4>8
      <3>3. \A j \in 1..Len(events) : events[j] \in T
        BY <3>2, ElementOfSeq
      <3>4. events \in Seq(Events)
        <4>1. T \subseteq Events  BY DEF T
        <4>2. QED  BY <3>2, <4>1, SeqMonotonic
      <3>5. QED  BY <3>2, <3>3, <3>4 DEF T
    <2> HIDE DEF a, b, d
    <2>10. Len(events) \in 1..MaxQueue
      <3> DEFINE f == Cardinality(ChangedFields(old, s))
                 n == Cardinality(Appeared(old, s))
                 m == Cardinality(Vanished(old, s))
      <3>1. f \in Nat /\ n \in Nat /\ m \in Nat /\ 1 + f + n + m <= MaxQueue
        BY BatchFits
      <3>2. Len(events) = 1 + f + n + m
        BY <2>5, <2>6, <2>7, <2>9
      <3> HIDE DEF f, n, m
      <3>3. QED  BY <3>1, <3>2, QueueAssumption
    <2>11. \A j \in 1..Len(events) : Good(events[j])
      BY <2>9
    <2>12. events \in Seq(Events) /\ events[1] = Snapshot(s)
      BY <2>9
    <2>13. QED  BY <2>10, <2>11, <2>12, Zenon DEF Good
  <1>4. QED  BY <1>2, <1>3 DEF Observations

(* Whatever the queue drops, it keeps all of the last poll. *)
LEMMA QueueKeepsTheLast ==
    ASSUME NEW q \in Seq(Events), Len(q) <= MaxQueue,
           NEW events \in Seq(Events), Len(events) \in 1..MaxQueue
    PROVE  LET r == Enqueue(q, events)
           IN  /\ r \in Seq(Events) /\ Len(r) <= MaxQueue /\ Len(events) <= Len(r)
               /\ \A j \in 1..Len(events) : r[Len(r) - Len(events) + j] = events[j]
               /\ q = <<>> => r = events
  <1> DEFINE all == q \o events
             m == IF Len(all) > MaxQueue THEN Len(all) - MaxQueue ELSE 0
             r == SubSeq(all, m + 1, Len(all))
  <1>1. all \in Seq(Events) /\ Len(all) = Len(q) + Len(events)
    OBVIOUS
  <1>2. \A j \in 1..Len(events) : all[Len(q) + j] = events[j]
    OBVIOUS
  <1>3. q = <<>> => all = events
    BY ConcatEmptySeq
  <1> HIDE DEF all
  <1>4. m \in Nat /\ m + 1 <= Len(all) + 1 /\ m <= Len(q) /\ Len(all) - m <= MaxQueue
    BY <1>1, QueueAssumption
  <1> HIDE DEF m
  <1>5. \A i \in (m + 1)..Len(all) : all[i] \in Events
    BY <1>1, <1>4
  <1>6. /\ r \in Seq(Events) /\ Len(r) = Len(all) - m
        /\ \A i \in 1..(Len(all) - m) : r[i] = all[m + i]
    BY <1>1, <1>4, <1>5
  <1>7. q = <<>> => r = events
    <2> SUFFICES ASSUME q = <<>> PROVE r = events
      OBVIOUS
    <2>1. m = 0
      BY <1>4
    <2>2. r = SubSeq(events, 1, Len(events))
      BY <1>3, <2>1
    <2>3. QED  BY <2>2, SubSeqFull
  <1> HIDE DEF r
  <1>8. /\ r \in Seq(Events) /\ Len(r) <= MaxQueue /\ Len(events) <= Len(r)
        /\ \A j \in 1..Len(events) : r[Len(r) - Len(events) + j] = events[j]
    <2>1. Len(r) <= MaxQueue /\ Len(events) <= Len(r)
      BY <1>1, <1>4, <1>6
    <2>2. ASSUME NEW j \in 1..Len(events)
          PROVE  r[Len(r) - Len(events) + j] = events[j]
      <3> DEFINE i == Len(r) - Len(events) + j
      <3>1. i \in 1..(Len(all) - m) /\ m + i = Len(q) + j
        BY <1>1, <1>4, <1>6, <2>1
      <3>2. QED  BY <1>2, <1>6, <3>1
    <2>3. QED  BY <1>6, <2>1, <2>2
  <1>9. r = Enqueue(q, events)
    BY DEF r, m, all, Enqueue
  <1>10. QED  BY <1>7, <1>8, <1>9

(* So a client that is broadcast to has the snapshot in its queue. *)
LEMMA BroadcastIsQueued ==
    ASSUME NEW old \in Observations, NEW s \in Observations,
           NEW events \in Batches(old, s), NEW q \in Seq(Events), Len(q) <= MaxQueue
    PROVE  Queued(Enqueue(q, events), s)
  <1> DEFINE r == Enqueue(q, events)
             k == Len(r) - Len(events) + 1
  <1>1. /\ events \in Seq(Events) /\ Len(events) \in 1..MaxQueue
        /\ events[1] = Snapshot(s) /\ \A j \in 1..Len(events) : Agrees(events[j], s)
    BY BatchAgrees
  <1>2. /\ r \in Seq(Events) /\ Len(events) <= Len(r)
        /\ \A j \in 1..Len(events) : r[Len(r) - Len(events) + j] = events[j]
    BY <1>1, QueueKeepsTheLast
  <1> HIDE DEF r
  <1>3. k \in 1..Len(r) /\ r[k] = Snapshot(s)
    BY <1>1, <1>2
  <1>4. ASSUME NEW i \in k..Len(r)
        PROVE  Agrees(r[i], s)
    <2> DEFINE j == i - (Len(r) - Len(events))
    <2>1. j \in 1..Len(events) /\ i = Len(r) - Len(events) + j
      BY <1>1, <1>2
    <2>2. r[i] = events[j]
      BY <1>2, <2>1
    <2>3. QED  BY <1>1, <2>1, <2>2
  <1>5. QED  BY <1>3, <1>4 DEF Queued, r

-----------------------------------------------------------------------------

(* An event that agrees with what the client believes changes nothing.     *)
LEMMA AgreeingChangesNothing ==
    ASSUME NEW s \in Observations, NEW e \in Events, Agrees(e, s)
    PROVE  ViewAfter(s, e) = s
  <1>1. /\ s = [complete |-> s.complete, links |-> s.links, keyed |-> s.keyed]
        /\ e.type \in {"snapshot", "keyed", "connected", "disconnected"}
    BY DEF Observations, Events
  <1>2. CASE e.type = "snapshot"
    BY <1>2 DEF ViewAfter, Agrees
  <1>3. CASE e.type = "keyed"
    <2>1. (IF e.value THEN s.keyed \cup {e.field} ELSE s.keyed \ {e.field}) = s.keyed
      BY <1>3 DEF Agrees
    <2>2. ViewAfter(s, e) = [s EXCEPT !.keyed = s.keyed]
      BY <1>3, <2>1 DEF ViewAfter
    <2>3. QED  BY <2>2 DEF Observations
  <1>4. CASE e.type = "connected"
    <2>1. s.links \cup {e.node} = s.links
      BY <1>4 DEF Agrees
    <2>2. ViewAfter(s, e) = [s EXCEPT !.links = s.links]
      BY <1>4, <2>1 DEF ViewAfter
    <2>3. QED  BY <2>2 DEF Observations
  <1>5. CASE e.type = "disconnected"
    <2>1. s.links \ {e.node} = s.links
      BY <1>5 DEF Agrees
    <2>2. ViewAfter(s, e) = [s EXCEPT !.links = s.links]
      BY <1>5, <2>1 DEF ViewAfter
    <2>3. QED  BY <2>2 DEF Observations
  <1>6. QED  BY <1>1, <1>2, <1>3, <1>4, <1>5

LEMMA ViewsAreObservations ==
    ASSUME NEW v \in Observations, NEW e \in Events
    PROVE  ViewAfter(v, e) \in Observations
  <1>1. CASE e.type = "snapshot"
    BY <1>1 DEF ViewAfter, Events, Observations
  <1>2. CASE e.type = "keyed"
    <2>1. e.field \in Fields
      BY <1>2 DEF Events
    <2>2. (IF e.value THEN v.keyed \cup {e.field} ELSE v.keyed \ {e.field}) \in SUBSET Fields
      BY <2>1 DEF Observations
    <2>3. QED  BY <1>2, <2>2 DEF ViewAfter, Observations
  <1>3. CASE e.type \in {"connected", "disconnected"}
    <2>1. e.node \in Nodes
      BY <1>3 DEF Events
    <2>2. QED  BY <1>3, <2>1 DEF ViewAfter, Observations
  <1>4. QED  BY <1>1, <1>2, <1>3 DEF Events

(* Taking one event leads from the queue to the belief.                    *)
LEMMA TakingOneEvent ==
    ASSUME NEW s \in Observations, NEW v \in Observations,
           NEW q \in Seq(Events), q # <<>>, Queued(q, s) \/ Believed(q, v, s)
    PROVE  Queued(Tail(q), s) \/ Believed(Tail(q), ViewAfter(v, Head(q)), s)
  <1>1. /\ Head(q) = q[1] /\ q[1] \in Events /\ Len(Tail(q)) = Len(q) - 1 /\ Len(q) \in Nat
        /\ \A i \in 1..Len(Tail(q)) : Tail(q)[i] = q[i + 1]
    OBVIOUS
  <1>2. CASE Believed(q, v, s)
    <2>1. ViewAfter(v, Head(q)) = s
      BY <1>1, <1>2, AgreeingChangesNothing DEF Believed
    <2>2. QED  BY <1>1, <1>2, <2>1 DEF Believed
  <1>3. CASE Queued(q, s)
    <2>1. PICK k \in 1..Len(q) :
             q[k] = Snapshot(s) /\ \A j \in k..Len(q) : Agrees(q[j], s)
      BY <1>3 DEF Queued
    <2>2. CASE k = 1
      <3>1. ViewAfter(v, Head(q)) = s
        BY <1>1, <2>1, <2>2 DEF ViewAfter, Snapshot
      <3>2. QED  BY <1>1, <2>1, <2>2, <3>1 DEF Believed
    <2>3. CASE k # 1
      <3>1. k - 1 \in 1..Len(Tail(q)) /\ Tail(q)[k - 1] = Snapshot(s)
        BY <1>1, <2>1, <2>3
      <3>2. \A j \in (k - 1)..Len(Tail(q)) : Agrees(Tail(q)[j], s)
        <4> SUFFICES ASSUME NEW j \in (k - 1)..Len(Tail(q))
                     PROVE  Agrees(Tail(q)[j], s)
          OBVIOUS
        <4>1. j + 1 \in k..Len(q) /\ Tail(q)[j] = q[j + 1]
          BY <1>1, <2>3
        <4>2. QED  BY <2>1, <4>1
      <3>3. QED  BY <3>1, <3>2 DEF Queued
    <2>4. QED  BY <2>2, <2>3
  <1>4. QED  BY <1>2, <1>3

-----------------------------------------------------------------------------

LEMMA InitHasInv == Init => EventsInv
  <1> SUFFICES ASSUME Init PROVE EventsInv
    OBVIOUS
  <1>1. Unknown \in Observations
    BY DEF Unknown, Observations
  <1>2. Types
    <2>2. <<>> \in Seq(Events) /\ Len(<<>>) = 0
      OBVIOUS
    <2>3. /\ queue \in [Clients -> Seq(Events)]
          /\ \A c \in Clients : Len(queue[c]) <= MaxQueue
      BY <2>2, QueueAssumption DEF Init
    <2>4. /\ world \in [links : SUBSET Nodes, keyed : SUBSET Fields]
          /\ everKeyed \in SUBSET Fields
      BY DEF Init
    <2>5. QED  BY <1>1, <2>3, <2>4 DEF Init, Types
  <1>3. PlaceInv /\ StreamInv
    BY ClientsAssumption DEF Init, PlaceInv, Present, StreamInv
  <1>4. QED  BY <1>2, <1>3 DEF EventsInv

(* The node and the lock: nothing is queued, read or polled.               *)
LEMMA ObservingKeepsInv ==
    ASSUME EventsInv,
           \/ \E n \in Nodes : LinkChanges(n)
           \/ \E f \in Fields : FieldChanges(f)
           \/ \E s \in {Unknown, Instant} : Observe("poll", s)
           \/ \E c \in Clients, s \in {Unknown, Instant} :
                 phase[c] = "initial" /\ Observe(c, s)
    PROVE  EventsInv'
  <1> USE DEF clientVars, history
  <1>1. UNCHANGED <<known, phase, subscribed, queue, view, polled, gap, heard>>
    BY DEF LinkChanges, FieldChanges, Observe
  <1>2. /\ world' \in [links : SUBSET Nodes, keyed : SUBSET Fields]
        /\ sample' \in Observations
        /\ everKeyed' \in SUBSET Fields
    <2>1. /\ world \in [links : SUBSET Nodes, keyed : SUBSET Fields]
          /\ sample \in Observations /\ everKeyed \in SUBSET Fields
          /\ Unknown \in Observations /\ Instant \in Observations
      BY DEF EventsInv, Types, Unknown, Instant, Observations
    <2>2. CASE \E n \in Nodes : LinkChanges(n)
      BY <2>1, <2>2 DEF LinkChanges
    <2>3. CASE \E f \in Fields : FieldChanges(f)
      BY <2>1, <2>3 DEF FieldChanges
    <2>4. CASE \E who, s : Observe(who, s)
      BY <2>1, <2>4 DEF Observe
    <2>5. QED  BY <2>2, <2>3, <2>4
  <1>3. /\ observing' \in {"nobody", "poll"} \cup Clients
        /\ \A c \in Clients : observing' = c => phase[c] = "initial"
    BY ClientsAssumption DEF LinkChanges, FieldChanges, Observe, EventsInv, Types, PlaceInv, Present
  <1>4. Types'
    BY <1>1, <1>2, <1>3 DEF EventsInv, Types
  <1>5. PlaceInv' /\ StreamInv'
    BY <1>1, <1>3 DEF EventsInv, PlaceInv, Present, StreamInv
  <1>6. QED  BY <1>4, <1>5 DEF EventsInv

(* The poll puts its snapshot into the queue of every subscriber.          *)
LEMMA PollKeepsInv ==
    ASSUME EventsInv, PollOnce
    PROVE  EventsInv'
  <1>1. /\ known' = sample /\ polled' = sample /\ gap' = ~sample.complete
        /\ heard' = subscribed /\ observing' = "nobody" /\ sample' = Unknown
        /\ UNCHANGED <<world, phase, subscribed, view, everKeyed>>
    BY DEF PollOnce, Remember
  <1>2. PICK events \in Batches(known, sample) :
           queue' = [c \in Clients |-> IF c \in subscribed THEN Enqueue(queue[c], events)
                                                           ELSE queue[c]]
    BY DEF PollOnce
  <1>3. known \in Observations /\ sample \in Observations /\ Unknown \in Observations
    BY DEF EventsInv, Types, Unknown, Observations
  <1>4. events \in Seq(Events) /\ Len(events) \in 1..MaxQueue
    BY <1>3, BatchAgrees
  <1>5. ASSUME NEW c \in Clients
        PROVE  queue'[c] \in Seq(Events) /\ Len(queue'[c]) <= MaxQueue
    <2>1. queue[c] \in Seq(Events) /\ Len(queue[c]) <= MaxQueue
      BY DEF EventsInv, Types
    <2>2. CASE c \in subscribed
      BY <1>2, <1>4, <2>1, <2>2, QueueKeepsTheLast
    <2>3. CASE c \notin subscribed
      BY <1>2, <2>1, <2>3
    <2>4. QED  BY <2>2, <2>3
  <1>6. Types'
    <2>1. queue' \in [Clients -> Seq(Events)]
      BY <1>2, <1>5
    <2>2. gap' \in BOOLEAN
      BY <1>1, <1>3 DEF Observations
    <2>3. QED  BY <1>1, <1>3, <1>5, <2>1, <2>2 DEF EventsInv, Types
  <1>7. PlaceInv'
    BY <1>1, ClientsAssumption DEF EventsInv, PlaceInv, Present
  <1>8. ASSUME NEW c \in subscribed
        PROVE  Queued(queue'[c], sample)
    <2>1. c \in Clients /\ queue[c] \in Seq(Events) /\ Len(queue[c]) <= MaxQueue
      BY DEF EventsInv, Types
    <2>2. QED  BY <1>2, <1>3, <2>1, BroadcastIsQueued
  <1>9. StreamInv'
    BY <1>1, <1>8 DEF StreamInv
  <1>10. QED  BY <1>6, <1>7, <1>9 DEF EventsInv

(* A new subscriber has been told of nothing.                              *)
LEMMA SubscribeKeepsInv ==
    ASSUME EventsInv, NEW c \in Clients, Subscribe(c)
    PROVE  EventsInv'
  <1> USE DEF history
  <1>1. Types'
    BY DEF Subscribe, EventsInv, Types
  <1>2. PlaceInv' /\ StreamInv'
    BY DEF Subscribe, EventsInv, Types, PlaceInv, Present, StreamInv
  <1>3. QED  BY <1>1, <1>2 DEF EventsInv

(* The client's own observation does not touch its queue.                  *)
LEMMA InitialSnapshotKeepsInv ==
    ASSUME EventsInv, NEW c \in Clients, InitialSnapshot(c)
    PROVE  EventsInv'
  <1> USE DEF history
  <1>1. phase[c] = "initial" /\ Unknown \in Observations
    BY DEF InitialSnapshot, EventsInv, PlaceInv, Present, Unknown, Observations
  <1>2. Types'
    BY <1>1 DEF InitialSnapshot, EventsInv, Types
  <1>3. PlaceInv'
    BY <1>1, ClientsAssumption DEF InitialSnapshot, EventsInv, Types, PlaceInv, Present
  <1>4. StreamInv'
    BY <1>1 DEF InitialSnapshot, EventsInv, Types, StreamInv
  <1>5. QED  BY <1>2, <1>3, <1>4 DEF EventsInv

LEMMA EnterLoopKeepsInv ==
    ASSUME EventsInv, NEW c \in Clients, EnterLoop(c)
    PROVE  EventsInv'
  <1> USE DEF history
  <1>1. Types'
    BY DEF EnterLoop, EventsInv, Types
  <1>2. PlaceInv' /\ StreamInv'
    BY DEF EnterLoop, EventsInv, Types, PlaceInv, Present, StreamInv
  <1>3. QED  BY <1>1, <1>2 DEF EventsInv

LEMMA DeliverKeepsInv ==
    ASSUME EventsInv, NEW c \in Clients, Deliver(c)
    PROVE  EventsInv'
  <1> USE DEF history
  <1>1. /\ queue[c] \in Seq(Events) /\ queue[c] # <<>> /\ phase[c] = "streaming"
        /\ view[c] \in Observations /\ Len(queue[c]) <= MaxQueue
    BY DEF Deliver, EventsInv, Types
  <1>2. /\ Head(queue[c]) \in Events /\ Tail(queue[c]) \in Seq(Events)
        /\ Len(Tail(queue[c])) <= MaxQueue
    BY <1>1, QueueAssumption
  <1>3. ViewAfter(view[c], Head(queue[c])) \in Observations
    BY <1>1, <1>2, ViewsAreObservations
  <1>4. /\ queue' = [queue EXCEPT ![c] = Tail(queue[c])]
        /\ view' = [view EXCEPT ![c] = ViewAfter(view[c], Head(queue[c]))]
        /\ UNCHANGED <<world, observing, sample, known, phase, subscribed, polled, gap,
                       everKeyed, heard>>
    BY DEF Deliver
  <1>5. Types'
    BY <1>2, <1>3, <1>4 DEF EventsInv, Types
  <1>6. PlaceInv'
    BY <1>4 DEF EventsInv, PlaceInv, Present
  <1>7. StreamInv'
    <2> SUFFICES ASSUME NEW d \in heard
                 PROVE  /\ phase[d] \in {"initial", "first"} => Queued(queue'[d], polled)
                        /\ phase[d] = "streaming" =>
                              \/ Queued(queue'[d], polled)
                              \/ Believed(queue'[d], view'[d], polled)
      BY <1>4 DEF StreamInv
    <2>1. d \in Clients
      BY DEF EventsInv, Types
    <2>2. CASE d = c
      <3>1. polled \in Observations
        BY DEF EventsInv, Types, PlaceInv, Present
      <3>2. Queued(queue[c], polled) \/ Believed(queue[c], view[c], polled)
        BY <1>1, <2>2 DEF EventsInv, StreamInv
      <3>3. /\ queue'[c] = Tail(queue[c])
            /\ view'[c] = ViewAfter(view[c], Head(queue[c]))
        BY <1>4 DEF EventsInv, Types
      <3>4. QED  BY <1>1, <2>2, <3>1, <3>2, <3>3, TakingOneEvent
    <2>3. CASE d # c
      <3>1. queue'[d] = queue[d] /\ view'[d] = view[d]
        BY <1>4, <2>1, <2>3 DEF EventsInv, Types
      <3>2. QED  BY <3>1 DEF EventsInv, StreamInv
    <2>4. QED  BY <2>2, <2>3
  <1>8. QED  BY <1>5, <1>6, <1>7 DEF EventsInv

LEMMA LeaveKeepsInv ==
    ASSUME EventsInv, NEW c \in Clients, Leave(c)
    PROVE  EventsInv'
  <1> USE DEF history
  <1>1. Types'
    <2>1. subscribed' \in SUBSET Clients
      BY DEF Leave, EventsInv, Types
    <2>2. phase' \in [Clients -> {"new", "initial", "first", "streaming", "left"}]
      BY DEF Leave, EventsInv, Types
    <2>3. /\ observing' \in {"nobody", "poll"} \cup Clients
          /\ sample' \in Observations
      <3>1. Unknown \in Observations
        BY DEF Unknown, Observations
      <3>2. QED  BY <3>1 DEF Leave, EventsInv, Types
    <2>4. QED  BY <2>1, <2>2, <2>3 DEF Leave, EventsInv, Types
  <1>2. PlaceInv'
    BY ClientsAssumption DEF Leave, EventsInv, Types, PlaceInv, Present
  <1>3. StreamInv'
    BY DEF Leave, EventsInv, Types, StreamInv
  <1>4. QED  BY <1>1, <1>2, <1>3 DEF EventsInv

LEMMA StepKeepsInv == EventsInv /\ [Next]_vars => EventsInv'
  <1> SUFFICES ASSUME EventsInv, [Next]_vars PROVE EventsInv'
    OBVIOUS
  <1>1. CASE UNCHANGED vars
    BY <1>1 DEF vars, EventsInv, Types, PlaceInv, Present, StreamInv
  <1>2. CASE Next
    BY <1>2, ObservingKeepsInv, PollKeepsInv, SubscribeKeepsInv, InitialSnapshotKeepsInv,
       EnterLoopKeepsInv, DeliverKeepsInv, LeaveKeepsInv DEF Next
  <1>3. QED  BY <1>1, <1>2

(* The memory of the adapter, the queues and the beliefs of the clients    *)
(* stay in step, whoever observes, leaves or falls behind.                 *)
THEOREM EventsInvariance == Spec => []EventsInv
  BY InitHasInv, StepKeepsInv, PTL DEF Spec

-----------------------------------------------------------------------------

(* What is new on an empty queue is of the poll that was just taken.       *)
LEMMA NewEventsArePolled ==
    ASSUME EventsInv, [Next]_vars, NEW c \in Clients, NEW e, IsNew(c, e)
    PROVE  /\ polled' = sample
           /\ \E events \in Batches(known, sample) :
                 \E j \in 1..Len(events) : events[j] = e
  <1> USE DEF clientVars, history
  <1>1. /\ queue[c] = <<>> /\ e \in ToSet(queue'[c]) /\ queue'[c] # queue[c]
        /\ queue \in [Clients -> Seq(Events)]
    BY DEF IsNew, ToSet, EventsInv, Types
  <1>2. ASSUME NEW d \in Clients, Deliver(d)
        PROVE  FALSE
    <2>1. d # c /\ queue' = [queue EXCEPT ![d] = Tail(queue[d])]
      BY <1>1, <1>2 DEF Deliver
    <2>2. QED  BY <1>1, <2>1
  <1>3. PollOnce
    BY <1>1, <1>2 DEF Next, vars, LinkChanges, FieldChanges, Observe, Subscribe,
       InitialSnapshot, EnterLoop, Leave
  <1>4. PICK events \in Batches(known, sample) :
           queue' = [d \in Clients |-> IF d \in subscribed THEN Enqueue(queue[d], events)
                                                           ELSE queue[d]]
    BY <1>3 DEF PollOnce
  <1>5. queue'[c] = Enqueue(queue[c], events)
    BY <1>1, <1>4
  <1>6. known \in Observations /\ sample \in Observations
        /\ queue[c] \in Seq(Events) /\ Len(queue[c]) <= MaxQueue
    BY DEF EventsInv, Types
  <1>7. events \in Seq(Events) /\ Len(events) \in 1..MaxQueue
    BY <1>6, BatchAgrees
  <1>8. queue'[c] = events
    BY <1>1, <1>5, <1>6, <1>7, QueueKeepsTheLast
  <1>9. \E j \in 1..Len(events) : events[j] = e
    BY <1>1, <1>7, <1>8 DEF ToSet
  <1>10. polled' = sample
    BY <1>3 DEF PollOnce
  <1>11. QED  BY <1>9, <1>10

(* An unkey that is not of the first complete poll after a gap is of a     *)
(* field that the poll before saw keyed: NoInventedUnkey fails only there. *)
UnkeysAreChanges ==
    [][\A c \in Clients : \A f \in Fields :
          IsNew(c, Keyed(f, FALSE)) /\ polled.complete =>
             f \in polled.keyed /\ f \notin polled'.keyed]_vars

-----------------------------------------------------------------------------

(* AMIEventListener: its memory holds observations of the node and no      *)
(* queue outgrows its bound.                                               *)
THEOREM TypeCorrectness == Spec => []TypeOK
  <1>1. EventsInv => TypeOK
    BY DEF EventsInv, Types, PlaceInv, TypeOK
  <1>2. QED  BY <1>1, EventsInvariance, PTL

(* A client of GET /events that has drained its queue believes what the    *)
(* last poll saw, however often its queue overflowed.                      *)
THEOREM DrainedClientsAreCurrent == Spec => []CaughtUpIsCurrent
  <1>1. EventsInv => CaughtUpIsCurrent
    <2> SUFFICES ASSUME EventsInv, NEW c \in heard, phase[c] = "streaming", queue[c] = <<>>
                 PROVE  view[c] = polled
      BY DEF CaughtUpIsCurrent
    <2>1. Queued(queue[c], polled) \/ Believed(queue[c], view[c], polled)
      BY DEF EventsInv, StreamInv
    <2>2. ~Queued(queue[c], polled)
      BY DEF Queued
    <2>3. QED  BY <2>1, <2>2 DEF Believed
  <1>2. QED  BY <1>1, EventsInvariance, PTL

(* No poll reports a link as come or gone but by comparison with a         *)
(* complete poll right before it, so never across an unknown gap.          *)
THEOREM LinkEventsAreReal == Spec => NoInventedLinkEvent
  <1>1. ASSUME EventsInv, [Next]_vars, NEW c \in Clients, NEW n \in Nodes
        PROVE  /\ IsNew(c, Disconnected(n)) =>
                     polled.complete /\ n \in polled.links /\ n \notin polled'.links
               /\ IsNew(c, Connected(n)) =>
                     polled.complete /\ n \notin polled.links /\ n \in polled'.links
    <2>1. known \in Observations /\ sample \in Observations /\ polled = known
      BY <1>1 DEF EventsInv, Types, PlaceInv
    <2>2. ASSUME IsNew(c, Disconnected(n))
          PROVE  polled' = sample /\ n \in Vanished(known, sample)
      <3>1. /\ polled' = sample
            /\ \E events \in Batches(known, sample) :
                  \E j \in 1..Len(events) : events[j] = Disconnected(n)
        BY <1>1, <2>2, NewEventsArePolled
      <3>2. PICK events \in Batches(known, sample) :
               \E j \in 1..Len(events) : events[j] = Disconnected(n)
        BY <3>1
      <3>3. QED  BY <2>1, <3>1, <3>2, BatchAgrees
    <2>3. ASSUME IsNew(c, Connected(n))
          PROVE  polled' = sample /\ n \in Appeared(known, sample)
      <3>1. /\ polled' = sample
            /\ \E events \in Batches(known, sample) :
                  \E j \in 1..Len(events) : events[j] = Connected(n)
        BY <1>1, <2>3, NewEventsArePolled
      <3>2. PICK events \in Batches(known, sample) :
               \E j \in 1..Len(events) : events[j] = Connected(n)
        BY <3>1
      <3>3. QED  BY <2>1, <3>1, <3>2, BatchAgrees
    <2>4. QED  BY <2>1, <2>2, <2>3 DEF Vanished, Appeared
  <1>2. EventsInv /\ [Next]_vars =>
           [\A c \in Clients : \A n \in Nodes :
               /\ IsNew(c, Disconnected(n)) =>
                     polled.complete /\ n \in polled.links /\ n \notin polled'.links
               /\ IsNew(c, Connected(n)) =>
                     polled.complete /\ n \notin polled.links /\ n \in polled'.links]_vars
    BY <1>1
  <1>3. QED  BY <1>2, EventsInvariance, PTL DEF Spec, NoInventedLinkEvent

(* Outside the first complete poll after a gap, an unkey that is broadcast *)
(* is of a field that was seen keyed: the invented ones are of that poll.  *)
THEOREM UnkeysOutsideGapsAreReal == Spec => UnkeysAreChanges
  <1>1. ASSUME EventsInv, [Next]_vars, NEW c \in Clients, NEW f \in Fields,
               IsNew(c, Keyed(f, FALSE)), polled.complete
        PROVE  f \in polled.keyed /\ f \notin polled'.keyed
    <2>1. known \in Observations /\ sample \in Observations /\ polled = known
      BY <1>1 DEF EventsInv, Types, PlaceInv
    <2>2. /\ polled' = sample /\ f \in ChangedFields(known, sample)
          /\ Agrees(Keyed(f, FALSE), sample)
      <3>1. /\ polled' = sample
            /\ \E events \in Batches(known, sample) :
                  \E j \in 1..Len(events) : events[j] = Keyed(f, FALSE)
        BY <1>1, NewEventsArePolled
      <3>2. PICK events \in Batches(known, sample) :
               \E j \in 1..Len(events) : events[j] = Keyed(f, FALSE)
        BY <3>1
      <3>3. QED  BY <2>1, <3>1, <3>2, BatchAgrees
    <2>3. f \notin sample.keyed
      BY <2>2 DEF Agrees, Keyed
    <2>4. QED  BY <1>1, <2>1, <2>2, <2>3 DEF ChangedFields
  <1>2. EventsInv /\ [Next]_vars =>
           [\A c \in Clients : \A f \in Fields :
               IsNew(c, Keyed(f, FALSE)) /\ polled.complete =>
                  f \in polled.keyed /\ f \notin polled'.keyed]_vars
    BY <1>1
  <1>3. QED  BY <1>2, EventsInvariance, PTL DEF Spec, UnkeysAreChanges

(* /ping's sse_clients leaves out no connected client: where it differs    *)
(* from their number it is too high.                                       *)
THEOREM NoClientIsUncounted == Spec => [](Present \subseteq subscribed)
  <1>1. EventsInv => Present \subseteq subscribed
    BY DEF EventsInv, PlaceInv
  <1>2. QED  BY <1>1, EventsInvariance, PTL

=============================================================================
