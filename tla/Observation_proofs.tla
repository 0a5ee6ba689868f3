------------------------- MODULE Observation_proofs -------------------------
(***************************************************************************)
(* Proofs about Observation, for any links, fields and callers: that it    *)
(* implements ObserverContract when app_rpt leaves no link out, and what   *)
(* remains when it does.  The queue of waiters plays no part in that; that  *)
(* it holds whoever waits, once, is part of type correctness, at the end.  *)
(***************************************************************************)
EXTENDS Observation, SequenceTheorems, TLAPS

InSession == {"session", "xstat", "sawstat", "parse"}

(* The types the argument needs. *)
ReadsOK ==
    /\ world \in Worlds
    /\ holder \in Callers \cup {Nobody}
    /\ generation \in {0, 1} /\ taken \in {0, generation}
    /\ pc \in [Callers -> {"idle", "waiting"} \cup InSession]
    /\ conns \in [names : SUBSET Links, up : SUBSET Links]
    /\ variables \in Worlds
    /\ saw \in [names : SUBSET Links, keyed : SUBSET Links]
    /\ DOMAIN seen = Callers
    /\ stale \subseteq Callers

(* The reads in hand are those of the one caller in a session. *)
HolderInv == \A c \in Callers : pc[c] \in InSession <=> holder = c

(* A session the observer was invalidated under has the older generation.  *)
StaleInv ==
    \A c \in stale : pc[c] \in InSession /\ taken = 0 /\ generation = 1

(* What each read in hand says is among what has been true. *)
ConnsTrue(S) ==
    /\ <<"links", conns.names>> \in S
    /\ \A n \in conns.names :
          <<n, "status", IF n \in conns.up THEN "ESTABLISHED" ELSE "CONNECTING">> \in S

FieldsTrue(S) == variables.fields # {} => <<"traffic", "ACTIVE">> \in S

(* These need every link to be listed in RPT_ALINKS. *)
ListTrue(S) ==
    /\ \A n \in Links : <<n, "mode", variables.mode[n]>> \in S
    /\ variables.fields = {} /\ variables.keyed = {} => <<"traffic", "CLEAR">> \in S

SawTrue(S) == saw.keyed # {} => <<"traffic", "ACTIVE">> \in S

SeenInv ==
    \A c \in Callers :
        /\ pc[c] # "idle" => Contract!TrueOf(View) \subseteq seen[c]
        /\ pc[c] \in {"xstat", "sawstat", "parse"} => ConnsTrue(seen[c])
        /\ pc[c] \in {"sawstat", "parse"} => FieldsTrue(seen[c])
        /\ pc[c] \in {"sawstat", "parse"} /\ LocalMonitor = {} => ListTrue(seen[c])
        /\ pc[c] = "parse" => SawTrue(seen[c])

SnapshotInv == ReadsOK /\ HolderInv /\ StaleInv /\ SeenInv

-----------------------------------------------------------------------------

(* What TrueOf says of the node, claim by claim. *)
LEMMA WhatIsTrue ==
    /\ <<"links", LinksOf(world)>> \in Contract!TrueOf(View)
    /\ \A n \in LinksOf(world) :
          <<n, "status", IF world.mode[n] = "C" THEN "CONNECTING" ELSE "ESTABLISHED">>
             \in Contract!TrueOf(View)
    /\ \A n \in Links : <<n, "mode", world.mode[n]>> \in Contract!TrueOf(View)
    /\ IsClear(world) => <<"traffic", "CLEAR">> \in Contract!TrueOf(View)
    /\ ~IsClear(world) => <<"traffic", "ACTIVE">> \in Contract!TrueOf(View)
<1>1. View.mode = world.mode /\ View.clear = IsClear(world)
  BY DEF View
<1>2. Contract!Adjacent(View) = LinksOf(world)
  BY <1>1 DEF Contract!Adjacent, LinksOf
<1>3. QED
  BY <1>1, <1>2, Zenon DEF Contract!TrueOf, Contract!StatusOf, Contract!TrafficOf

(* The node is always one the contract knows. *)
LEMMA ViewOK == ASSUME world \in Worlds PROVE View \in Contract!Views
<1>1. world.mode \in [Links -> Modes \cup {"absent"}] /\ IsClear(world) \in BOOLEAN
  BY DEF Worlds, IsClear
<1>2. QED  BY <1>1 DEF View, Contract!Views

(* The unknown snapshot claims nothing. *)
LEMMA UnknownClaimsNothing ==
    /\ Unknown \in Contract!Snapshots
    /\ ~Unknown.complete
    /\ Contract!ClaimsOf(Unknown) = {}
    /\ Unknown.traffic # "CLEAR"
  BY DEF Unknown, Contract!Unknown, Contract!Snapshots, Contract!ClaimsOf

(* What a snapshot says of the links is true without RPT_ALINKS: which     *)
(* there are, and whether each is established.                             *)
LinksReal(a, S) ==
    /\ <<"links", a.links>> \in S
    /\ \A n \in a.links :
          <<n, "status", IF n \in a.up THEN "ESTABLISHED" ELSE "CONNECTING">> \in S

(* parse_snapshot claims nothing its three reads did not say: comparing    *)
(* the key states makes the later SawStat rows speak for RPT_ALINKS.       *)
LEMMA ParseIsSound ==
    ASSUME ReadsOK, NEW S, ConnsTrue(S), FieldsTrue(S), SawTrue(S)
    PROVE  LET a == ParseSnapshot(conns, variables, saw) IN
           /\ a \in Contract!Snapshots
           /\ a.complete => LinksReal(a, S)
           /\ ListTrue(S) => Contract!ClaimsOf(a) \subseteq S
<1> DEFINE a == ParseSnapshot(conns, variables, saw)
<1> SUFFICES ASSUME Agree(conns, variables, saw)
             PROVE  /\ a \in Contract!Snapshots
                    /\ a.complete => LinksReal(a, S)
                    /\ ListTrue(S) => Contract!ClaimsOf(a) \subseteq S
  BY UnknownClaimsNothing DEF ParseSnapshot
<1>1. a = Complete(conns, variables, saw, conns.names)
  BY DEF ParseSnapshot
<1>2. /\ a.complete = TRUE /\ a.links = conns.names
      /\ a.up = conns.up \cap conns.names
      /\ a.traffic = IF variables.fields # {} \/ saw.keyed # {}
                     THEN "ACTIVE" ELSE "CLEAR"
      /\ a.mode = [n \in Links |-> IF variables.mode[n] = "absent"
                                   THEN "UNKNOWN" ELSE variables.mode[n]]
  BY <1>1 DEF Complete
<1>3. a \in Contract!Snapshots
  <2>1. variables.mode \in [Links -> Modes \cup {"absent"}]
    BY DEF ReadsOK, Worlds
  <2>2. a.mode \in [Links -> Modes \cup {"UNKNOWN"}]
    BY <1>2, <2>1
  <2>3. a \in Contract!Complete
    BY <1>1, <1>2, <2>2 DEF Complete, Contract!Complete, ReadsOK
  <2>4. QED  BY <2>3 DEF Contract!Snapshots
<1>4. ASSUME ListTrue(S) PROVE <<"traffic", a.traffic>> \in S
  <2>1. CASE variables.fields # {}  BY <2>1, <1>2 DEF FieldsTrue
  <2>2. CASE saw.keyed # {}  BY <2>2, <1>2 DEF SawTrue
  <2>3. CASE variables.fields = {} /\ saw.keyed = {}
    <3>1. variables.keyed = {}  BY <2>3 DEF Agree
    <3>2. QED  BY <2>3, <3>1, <1>2, <1>4 DEF ListTrue
  <2>4. QED  BY <2>1, <2>2, <2>3
<1>5. ASSUME NEW n \in a.links
      PROVE  /\ n \in a.up => <<n, "status", "ESTABLISHED">> \in S
             /\ n \notin a.up => <<n, "status", "CONNECTING">> \in S
             /\ ListTrue(S) =>
                   <<n, "mode", IF a.mode[n] = "UNKNOWN" THEN "absent" ELSE a.mode[n]>>
                      \in S
  <2>1. n \in conns.names /\ n \in Links
    BY <1>2 DEF ReadsOK
  <2>2. /\ n \in a.up => <<n, "status", "ESTABLISHED">> \in S
        /\ n \notin a.up => <<n, "status", "CONNECTING">> \in S
    BY <1>2, <2>1 DEF ConnsTrue
  <2>3. variables.mode[n] = IF a.mode[n] = "UNKNOWN" THEN "absent" ELSE a.mode[n]
    <3>1. variables.mode[n] # "UNKNOWN"
      BY <2>1, ModesAssumption DEF ReadsOK, Worlds
    <3>2. QED  BY <1>2, <2>1, <3>1
  <2>4. QED  BY <2>2, <2>3, <2>1 DEF ListTrue
<1> HIDE DEF a
<1>6. <<"links", a.links>> \in S
  BY <1>2 DEF ConnsTrue
<1>7. ListTrue(S) => Contract!ClaimsOf(a) \subseteq S
  <2> SUFFICES ASSUME ListTrue(S), NEW x \in Contract!ClaimsOf(a)
               PROVE  x \in S
    OBVIOUS
  <2>1. \/ x = <<"traffic", a.traffic>> \/ x = <<"links", a.links>>
        \/ \E n \in a.links :
              \/ n \in a.up /\ x = <<n, "status", "ESTABLISHED">>
              \/ n \notin a.up /\ x = <<n, "status", "CONNECTING">>
              \/ x = <<n, "mode", IF a.mode[n] = "UNKNOWN" THEN "absent" ELSE a.mode[n]>>
    BY <1>2 DEF Contract!ClaimsOf
  <2>2. QED  BY <1>4, <1>5, <1>6, <2>1
<1>8. LinksReal(a, S)
  BY <1>5, <1>6 DEF LinksReal
<1>9. QED  BY <1>3, <1>7, <1>8 DEF a

(* The initial states satisfy the invariant. *)
LEMMA InitSnapshot == Init => SnapshotInv
<1> SUFFICES ASSUME Init PROVE SnapshotInv
  OBVIOUS
<1> USE DEF Init
<1>1. NoVariables \in Worlds
  <2>1. NoVariables.mode \in [Links -> Modes \cup {"absent"}]
    BY DEF NoVariables
  <2>2. QED  BY <2>1 DEF NoVariables, Worlds
<1>2. ReadsOK
  BY <1>1 DEF ReadsOK, NoConns, NoSaw, InSession
<1>3. HolderInv /\ StaleInv /\ SeenInv
  BY CallersAssumption DEF HolderInv, StaleInv, SeenInv, InSession
<1>4. QED  BY <1>2, <1>3 DEF SnapshotInv

(* A change at the node keeps the keyed links adjacent. *)
LEMMA WorldStaysWorld ==
    ASSUME world \in Worlds, WorldChanges
    PROVE  world' \in Worlds
<1> DEFINE Shape == [mode : [Links -> Modes \cup {"absent"}],
                     keyed : SUBSET Links, fields : SUBSET Fields]
           Good(w) == w \in Shape /\ \A n \in w.keyed : w.mode[n] # "absent"
<1>1. Good(world)  BY DEF Worlds
<1>2. ASSUME NEW F \in SUBSET Fields PROVE Good([world EXCEPT !.fields = F])
  BY <1>1
<1>3. ASSUME NEW K \in SUBSET LinksOf(world) PROVE Good([world EXCEPT !.keyed = K])
  BY <1>1 DEF LinksOf
<1>4. ASSUME NEW n \in Links, NEW m \in Modes PROVE Good([world EXCEPT !.mode[n] = m])
  BY <1>1, ModesAssumption
<1>5. ASSUME NEW n \in Links
      PROVE  Good([world EXCEPT !.mode[n] = "absent", !.keyed = @ \ {n}])
  <2> DEFINE w == [world EXCEPT !.mode[n] = "absent", !.keyed = @ \ {n}]
  <2>1. /\ w.mode = [world.mode EXCEPT ![n] = "absent"]
        /\ w.keyed = world.keyed \ {n} /\ w.fields = world.fields
    BY <1>1
  <2>2. w.mode \in [Links -> Modes \cup {"absent"}]
    BY <1>1, <2>1
  <2>3. \A x \in w.keyed : w.mode[x] # "absent"
    BY <1>1, <2>1
  <2>4. w \in Shape  BY <1>1, <2>1, <2>2
  <2>5. QED  BY <2>3, <2>4
<1>6. world.keyed \subseteq LinksOf(world)
  BY <1>1 DEF LinksOf
<1> HIDE DEF Good
<1>7. Good(world')
  <2>1. ASSUME NEW f \in Fields,
               world' = [world EXCEPT !.fields =
                            IF f \in @ THEN @ \ {f} ELSE @ \cup {f}]
        PROVE  Good(world')
    BY <1>1, <1>2, <2>1 DEF Good
  <2>2. ASSUME NEW n \in LinksOf(world),
               world' = [world EXCEPT !.keyed =
                            IF n \in @ THEN @ \ {n} ELSE @ \cup {n}]
        PROVE  Good(world')
    BY <1>3, <1>6, <2>2
  <2>3. QED  BY <1>4, <1>5, <2>1, <2>2 DEF WorldChanges
<1>8. QED  BY <1>7 DEF Good, Worlds

(* A history that grows keeps what the reads in hand need. *)
LEMMA HistoryGrows ==
    ASSUME NEW S, NEW T, S \subseteq T
    PROVE  /\ ConnsTrue(S) => ConnsTrue(T)
           /\ FieldsTrue(S) => FieldsTrue(T)
           /\ ListTrue(S) => ListTrue(T)
           /\ SawTrue(S) => SawTrue(T)
  BY DEF ConnsTrue, FieldsTrue, ListTrue, SawTrue

(* Whatever happens at the node is noted for every caller being served. *)
LEMMA WorldPreserves ==
    ASSUME SnapshotInv, WorldChanges
    PROVE  SnapshotInv'
<1> USE DEF SnapshotInv
<1>1. ReadsOK'
  <2>1. world' \in Worlds  BY WorldStaysWorld DEF ReadsOK
  <2>2. DOMAIN seen' = Callers  BY DEF WorldChanges
  <2>3. QED  BY <2>1, <2>2 DEF ReadsOK, WorldChanges, lockVars, readVars
<1>2. HolderInv' /\ StaleInv'
  BY DEF HolderInv, StaleInv, WorldChanges, lockVars
<1>3. ASSUME NEW c \in Callers
      PROVE  /\ seen[c] \subseteq seen'[c]
             /\ pc[c] # "idle" => Contract!TrueOf(View') \subseteq seen'[c]
  BY DEF WorldChanges, Asking
<1>4. SeenInv'
  <2>1. UNCHANGED <<pc, conns, variables, saw>>
    BY DEF WorldChanges, readVars
  <2>2. QED
    BY <1>3, <2>1, HistoryGrows
    DEF SeenInv, ConnsTrue, FieldsTrue, ListTrue, SawTrue, LinksOf
<1>5. QED  BY <1>1, <1>2, <1>4

(* A caller that asks starts its history with the node as it is. *)
LEMMA AskPreserves ==
    ASSUME SnapshotInv, NEW c \in Callers, Ask(c)
    PROVE  SnapshotInv'
<1> USE DEF SnapshotInv, Ask, readVars
<1>1. ReadsOK'  BY DEF ReadsOK, InSession
<1>2. HolderInv' /\ StaleInv'
  BY DEF HolderInv, StaleInv, ReadsOK, InSession
<1>3. SeenInv'
  <2>1. View' = View  BY DEF View
  <2>2. UNCHANGED <<conns, variables, saw>>  OBVIOUS
  <2>3. pc'[c] = "waiting" /\ Contract!TrueOf(View) \subseteq seen'[c]
    BY DEF ReadsOK
  <2>4. ASSUME NEW d \in Callers, d # c PROVE pc'[d] = pc[d] /\ seen'[d] = seen[d]
    BY <2>4 DEF ReadsOK
  <2> HIDE DEF Ask
  <2>5. QED
    BY <2>1, <2>2, <2>3, <2>4
    DEF SeenInv, ConnsTrue, FieldsTrue, ListTrue, SawTrue
<1>4. QED  BY <1>1, <1>2, <1>3

(* The lock admits one caller to a session. *)
LEMMA AcquirePreserves ==
    ASSUME SnapshotInv, NEW c \in Callers, Acquire(c)
    PROVE  SnapshotInv'
<1> USE CallersAssumption DEF SnapshotInv, Acquire, readVars, history, InSession
<1>1. ReadsOK'  BY DEF ReadsOK
<1>2. HolderInv' /\ StaleInv'  BY DEF HolderInv, StaleInv, ReadsOK
<1>3. SeenInv'
  <2>1. View' = View  BY DEF View
  <2>2. QED
    BY <2>1 DEF SeenInv, ReadsOK, ConnsTrue, FieldsTrue, ListTrue, SawTrue
<1>4. QED  BY <1>1, <1>2, <1>3

(* Each of the three reads says what is true of the node now. *)
LEMMA ReadPreserves ==
    ASSUME SnapshotInv, NEW c \in Callers,
           ReadConns(c) \/ ReadVariables(c) \/ ReadSaw(c)
    PROVE  SnapshotInv'
<1> USE DEF SnapshotInv, lockVars, history
<1>1. View' = View /\ Contract!TrueOf(View) \subseteq seen[c] /\ seen' = seen
  <2>1. pc[c] # "idle" /\ UNCHANGED <<world, seen>>
    BY DEF ReadConns, ReadVariables, ReadSaw
  <2>2. QED  BY <2>1 DEF View, SeenInv
<1>2. HolderInv' /\ StaleInv'
  BY DEF HolderInv, StaleInv, ReadsOK, InSession, ReadConns, ReadVariables, ReadSaw
<1>3. \A x \in Callers : x # c => pc[x] \notin InSession /\ pc'[x] = pc[x]
  BY DEF HolderInv, ReadsOK, InSession, ReadConns, ReadVariables, ReadSaw
<1>4. CASE ReadConns(c)
  <2> USE <1>4 DEF ReadConns
  <2>1. ReadsOK'  BY DEF ReadsOK, ConnRows, LinksOf, InSession
  <2>2. ConnsTrue(seen[c])'
    BY <1>1, WhatIsTrue DEF ConnsTrue, ConnRows
  <2>3. SeenInv'
    BY <1>1, <1>3, <2>2 DEF SeenInv, ReadsOK, InSession
  <2>4. QED  BY <1>2, <2>1, <2>3
<1>5. CASE ReadVariables(c)
  <2> USE <1>5 DEF ReadVariables
  <2>1. /\ variables'.fields = world.fields
        /\ variables'.keyed = world.keyed \ LocalMonitor
        /\ variables'.mode = [n \in Links |-> IF n \notin LocalMonitor
                                              THEN world.mode[n] ELSE "absent"]
    BY DEF Variables
  <2>2. variables' \in Worlds
    <3>1. /\ world.mode \in [Links -> Modes \cup {"absent"}]
          /\ world.keyed \subseteq Links /\ world.fields \subseteq Fields
          /\ \A n \in world.keyed : world.mode[n] # "absent"
      BY DEF ReadsOK, Worlds
    <3>2. variables'.mode \in [Links -> Modes \cup {"absent"}]
      BY <2>1, <3>1
    <3>3. \A n \in variables'.keyed : variables'.mode[n] # "absent"
      BY <2>1, <3>1
    <3>4. QED  BY <2>1, <3>1, <3>2, <3>3 DEF Variables, Worlds
  <2>3. ReadsOK'  BY <2>2 DEF ReadsOK, InSession
  <2>4. FieldsTrue(seen[c])'
    <3>1. world.fields # {} => ~IsClear(world)  BY DEF IsClear
    <3>2. QED  BY <1>1, <2>1, <3>1, WhatIsTrue DEF FieldsTrue
  <2>5. LocalMonitor = {} => ListTrue(seen[c])'
    BY <1>1, <2>1, WhatIsTrue DEF ListTrue, IsClear
  <2>6. SeenInv'
    BY <1>1, <1>3, <2>4, <2>5 DEF SeenInv, ReadsOK, InSession, ConnsTrue
  <2>7. QED  BY <1>2, <2>3, <2>6
<1>6. CASE ReadSaw(c)
  <2> USE <1>6 DEF ReadSaw
  <2>1. ReadsOK'  BY DEF ReadsOK, SawRows, LinksOf, Worlds, InSession
  <2>2. SawTrue(seen[c])'
    BY <1>1, WhatIsTrue DEF SawTrue, SawRows, IsClear
  <2>3. SeenInv'
    BY <1>1, <1>3, <2>2
    DEF SeenInv, ReadsOK, InSession, ConnsTrue, FieldsTrue, ListTrue
  <2>4. QED  BY <1>2, <2>1, <2>3
<1>7. QED  BY <1>4, <1>5, <1>6

(* A caller leaves: with a snapshot of its reads, without one, cancelled.  *)
LEMMA LeavePreserves ==
    ASSUME SnapshotInv, NEW c \in Callers, Return(c) \/ Fail(c) \/ Cancel(c)
    PROVE  SnapshotInv'
<1> USE DEF SnapshotInv
<1>1. /\ pc[c] # "idle" /\ Served(c) /\ Release(c)
      /\ UNCHANGED <<world, generation, taken>>
      /\ IF holder = c THEN Forget ELSE UNCHANGED readVars
  BY DEF Return, Fail, Cancel, HolderInv, InSession
<1>2. NoVariables \in Worlds
  <2>1. NoVariables.mode \in [Links -> Modes \cup {"absent"}]
    BY DEF NoVariables
  <2>2. QED  BY <2>1 DEF NoVariables, Worlds
<1>3. ReadsOK'
  BY <1>1, <1>2
  DEF ReadsOK, Served, Release, Forget, readVars, NoConns, NoSaw, InSession
<1>4. HolderInv' /\ StaleInv'
  BY <1>1, CallersAssumption
  DEF HolderInv, StaleInv, ReadsOK, Served, Release, InSession
<1>5. View' = View  BY <1>1 DEF View
<1>6. \A x \in Callers : x # c =>
         /\ pc'[x] = pc[x] /\ seen'[x] = seen[x]
         /\ pc[x] \in InSession => UNCHANGED readVars
  BY <1>1 DEF Served, ReadsOK, HolderInv
<1>7. pc'[c] = "idle"  BY <1>1 DEF Served, ReadsOK
<1>8. SeenInv'
  BY <1>5, <1>6, <1>7
  DEF SeenInv, InSession, readVars, ConnsTrue, FieldsTrue, ListTrue, SawTrue
<1>9. QED  BY <1>3, <1>4, <1>8

(* The generation moves on under the session in progress. *)
LEMMA InvalidatePreserves ==
    ASSUME SnapshotInv, Invalidate
    PROVE  SnapshotInv'
<1> USE DEF SnapshotInv, Invalidate, readVars
<1>1. ReadsOK'  BY DEF ReadsOK
<1>2. HolderInv' /\ StaleInv'
  BY DEF HolderInv, StaleInv, ReadsOK, InSession
<1>3. SeenInv'
  BY DEF SeenInv, View, ConnsTrue, FieldsTrue, ListTrue, SawTrue
<1>4. QED  BY <1>1, <1>2, <1>3

(* Every step preserves the invariant. *)
LEMMA NextSnapshot == SnapshotInv /\ [Next]_vars => SnapshotInv'
<1> SUFFICES ASSUME SnapshotInv, [Next]_vars PROVE SnapshotInv'
  OBVIOUS
<1>1. CASE WorldChanges  BY <1>1, WorldPreserves
<1>2. CASE Invalidate  BY <1>2, InvalidatePreserves
<1>3. ASSUME NEW c \in Callers, Ask(c) \/ Acquire(c) \/ Session(c) \/ Cancel(c)
      PROVE  SnapshotInv'
  BY <1>3, AskPreserves, AcquirePreserves, ReadPreserves, LeavePreserves DEF Session
<1>4. CASE UNCHANGED vars
  BY <1>4
  DEF vars, SnapshotInv, ReadsOK, HolderInv, StaleInv, SeenInv, View,
      ConnsTrue, FieldsTrue, ListTrue, SawTrue
<1>5. QED  BY <1>1, <1>2, <1>3, <1>4 DEF Next

(* The invariant holds in every behaviour. *)
THEOREM SnapshotInvariance == Spec => []SnapshotInv
  BY InitSnapshot, NextSnapshot, PTL DEF Spec

-----------------------------------------------------------------------------

(* The snapshot a session returns, whatever app_rpt leaves out.            *)
LEMMA ReturnIsSound ==
    ASSUME SnapshotInv, NEW c \in Callers, Return(c)
    PROVE  /\ answer'[c] \in Contract!Snapshots
           /\ answer'[c].complete => LinksReal(answer'[c], seen[c])
           /\ LocalMonitor = {} => Contract!ClaimsOf(answer'[c]) \subseteq seen[c]
           /\ c \in stale => ~answer'[c].complete
<1> DEFINE a == ParseSnapshot(conns, variables, saw)
<1>1. /\ a \in Contract!Snapshots
      /\ a.complete => LinksReal(a, seen[c])
      /\ LocalMonitor = {} => Contract!ClaimsOf(a) \subseteq seen[c]
  <2>1. /\ ConnsTrue(seen[c]) /\ FieldsTrue(seen[c]) /\ SawTrue(seen[c])
        /\ LocalMonitor = {} => ListTrue(seen[c])
    BY DEF SnapshotInv, SeenInv, Return
  <2>2. QED  BY <2>1, ParseIsSound DEF SnapshotInv
<1> HIDE DEF a
<1>2. answer'[c] = IF taken = generation THEN a ELSE Unknown
  BY DEF Return, Answer, a
<1>3. c \in stale => taken # generation
  BY DEF SnapshotInv, StaleInv
<1>4. CASE taken = generation  BY <1>1, <1>2, <1>3, <1>4
<1>5. CASE taken # generation  BY <1>2, <1>5, UnknownClaimsNothing
<1>6. QED  BY <1>4, <1>5

(* Who answers, fails or is cancelled answers in the contract. *)
LEMMA LeaveAnswers ==
    ASSUME SnapshotInv, LocalMonitor = {}, NEW c \in Callers,
           Return(c) \/ Fail(c) \/ Cancel(c)
    PROVE  Contract!Next
<1>1. PICK a \in Contract!Snapshots :
         /\ answer' = [x \in Callers |-> IF x = c THEN a ELSE Unknown]
         /\ Contract!ClaimsOf(a) \subseteq seen[c]
         /\ c \in stale => ~a.complete
  <2>1. CASE Return(c)
    <3>1. /\ answer'[c] \in Contract!Snapshots
          /\ Contract!ClaimsOf(answer'[c]) \subseteq seen[c]
          /\ c \in stale => ~answer'[c].complete
      BY <2>1, ReturnIsSound
    <3>2. answer' = [x \in Callers |-> IF x = c THEN answer'[c] ELSE Unknown]
      BY <2>1 DEF Return, Answer
    <3>3. QED  BY <3>1, <3>2
  <2>2. CASE Fail(c) \/ Cancel(c)
    <3>1. answer' = [x \in Callers |-> IF x = c THEN Unknown ELSE Unknown]
      BY <2>2 DEF Fail, Cancel, Silent
    <3>2. QED  BY <3>1, UnknownClaimsNothing
  <2>3. QED  BY <2>1, <2>2
<1>2. pc[c] # "idle" /\ Served(c) /\ UNCHANGED world
  BY DEF Return, Fail, Cancel
<1>3. /\ c \in Asking /\ Asking' = Asking \ {c} /\ View' = View
      /\ seen' = [seen EXCEPT ![c] = {}] /\ stale' = stale \ {c}
  BY <1>2 DEF Served, Asking, SnapshotInv, ReadsOK, View
<1>4. Contract!Answer(c, a)
  BY <1>1, <1>3 DEF Contract!Answer, Unknown
<1>5. QED  BY <1>4 DEF Contract!Next

(* The initial states are the contract's. *)
LEMMA InitObserves == Init => Contract!Init
<1> SUFFICES ASSUME Init PROVE Contract!Init
  OBVIOUS
<1>1. View \in Contract!Views  BY ViewOK DEF Init
<1>2. Asking = {}  BY DEF Init, Asking
<1>3. QED  BY <1>1, <1>2 DEF Init, Contract!Init, Unknown

(* Every step is one of the contract's or changes nothing of it. *)
LEMMA NextObserves ==
    ASSUME LocalMonitor = {}, SnapshotInv, [Next]_vars
    PROVE  [Contract!Next]_(Contract!vars)
<1>1. CASE WorldChanges
  <2>1. View' \in Contract!Views
    <3>1. world' \in Worlds  BY <1>1, WorldStaysWorld DEF SnapshotInv, ReadsOK
    <3>2. /\ world'.mode \in [Links -> Modes \cup {"absent"}]
          /\ IsClear(world)' \in BOOLEAN
      BY <3>1 DEF Worlds, IsClear
    <3>3. QED  BY <3>2 DEF View, Contract!Views
  <2>2. Asking' = Asking /\ stale' = stale
    BY <1>1 DEF WorldChanges, Asking
  <2>3. Contract!Change(View')
    BY <1>1, <2>1, <2>2
    DEF WorldChanges, Contract!Change, Silent, Contract!Silent, Unknown
  <2>4. QED  BY <2>1, <2>3 DEF Contract!Next
<1>2. CASE Invalidate
  <2> DEFINE C == {c \in Callers : holder = c}
  <2>1. C \subseteq Asking  BY DEF SnapshotInv, HolderInv, InSession, Asking
  <2>2. View' = View /\ Asking' = Asking  BY <1>2 DEF Invalidate, View, Asking
  <2>3. Contract!Invalidate(C)
    BY <1>2, <2>1, <2>2
    DEF Invalidate, Contract!Invalidate, Silent, Contract!Silent, Unknown
  <2>4. QED  BY <2>3 DEF Contract!Next
<1>3. ASSUME NEW c \in Callers, Ask(c) PROVE Contract!Next
  <2>1. /\ c \notin Asking /\ Asking' = Asking \cup {c}
        /\ View' = View /\ stale' = stale
    BY <1>3 DEF Ask, Asking, SnapshotInv, ReadsOK, View
  <2>2. Contract!Ask(c)
    BY <1>3, <2>1 DEF Ask, Contract!Ask, Silent, Contract!Silent, Unknown
  <2>3. QED  BY <2>2 DEF Contract!Next
<1>4. ASSUME NEW c \in Callers,
             Acquire(c) \/ ReadConns(c) \/ ReadVariables(c) \/ ReadSaw(c)
      PROVE  Contract!Next
  <2>1. UNCHANGED <<world, seen, stale>> /\ Silent
    BY <1>4 DEF Acquire, ReadConns, ReadVariables, ReadSaw, history
  <2>2. Asking' = Asking
    BY <1>4
    DEF Acquire, ReadConns, ReadVariables, ReadSaw, Asking, SnapshotInv, ReadsOK
  <2>3. View' = View  BY <2>1 DEF View
  <2>4. QED
    BY <2>1, <2>2, <2>3 DEF Contract!Next, Silent, Contract!Silent, Unknown
<1>5. CASE UNCHANGED vars
  BY <1>5 DEF vars, Contract!vars, View, Asking
<1>6. QED
  BY <1>1, <1>2, <1>3, <1>4, <1>5, LeaveAnswers DEF Next, Session

(* A snapshot that is CLEAR claims it. *)
LEMMA ClearIsAClaim ==
    ASSUME NEW a \in Contract!Snapshots, a.traffic = "CLEAR"
    PROVE  <<"traffic", "CLEAR">> \in Contract!ClaimsOf(a)
<1>1. a \in Contract!Complete
  BY UnknownClaimsNothing DEF Contract!Snapshots, Unknown
<1>2. a.complete = TRUE
  BY <1>1 DEF Contract!Complete
<1>3. QED  BY <1>2 DEF Contract!ClaimsOf

(* No other step returns anything to a caller. *)
LEMMA OthersGetNothing ==
    ASSUME Next, NEW c \in Callers, ~Return(c)
    PROVE  answer'[c] = Unknown
<1>1. ASSUME NEW x \in Callers, Return(x), x # c PROVE answer'[c] = Unknown
  BY <1>1 DEF Return, Answer
<1>2. CASE \E x \in Callers : Return(x)
  BY <1>1, <1>2
<1>3. CASE Silent  BY <1>3 DEF Silent
<1>4. QED
  BY <1>2, <1>3
  DEF Next, Session, WorldChanges, Invalidate, Ask, Acquire, ReadConns,
      ReadVariables, ReadSaw, Fail, Cancel

(* When app_rpt leaves no link out, snapshot() keeps its contract: every   *)
(* claim of a complete NodeState was true at some instant since it was     *)
(* asked for, and a sample in flight at close is not complete.             *)
THEOREM Refinement ==
    ASSUME LocalMonitor = {} PROVE Spec => ImplementsContract
<1>1. SnapshotInv /\ [Next]_vars => [Contract!Next]_(Contract!vars)
  BY NextObserves
<1>2. QED
  BY <1>1, InitObserves, SnapshotInvariance, PTL
  DEF Spec, ImplementsContract, Contract!Spec

(* A CLEAR snapshot is then never put together from instants that all had  *)
(* traffic.                                                                *)
THEOREM ClearIsReal ==
    ASSUME LocalMonitor = {} PROVE Spec => ClearIsTrue
<1> DEFINE Told(c) ==
       c \in Asking /\ c \notin Asking' /\ answer'[c].traffic = "CLEAR" =>
          <<"traffic", "CLEAR">> \in seen[c]
<1>1. ASSUME SnapshotInv, Next, NEW c \in Callers PROVE Told(c)
  <2>1. CASE Return(c)
    <3>1. /\ Contract!ClaimsOf(answer'[c]) \subseteq seen[c]
          /\ answer'[c] \in Contract!Snapshots
      BY <1>1, <2>1, ReturnIsSound
    <3>2. answer'[c].traffic = "CLEAR" =>
             <<"traffic", "CLEAR">> \in Contract!ClaimsOf(answer'[c])
      BY <3>1, ClearIsAClaim
    <3>3. QED  BY <3>1, <3>2
  <2>2. CASE ~Return(c)
    BY <1>1, <2>2, OthersGetNothing, UnknownClaimsNothing
  <2>3. QED  BY <2>1, <2>2
<1>2. SnapshotInv /\ [Next]_vars => [\A c \in Callers : Told(c)]_vars
  BY <1>1
<1>3. QED  BY <1>2, SnapshotInvariance, PTL DEF Spec, ClearIsTrue

(* Whatever app_rpt leaves out, the adjacent links of a complete snapshot  *)
(* were exactly the node's at some instant since the caller asked, and     *)
(* each was established, or was not, at such an instant: an unlink is not  *)
(* confirmed by a link that was merely not listed.  And no sample the      *)
(* service has invalidated in flight is complete.                          *)
THEOREM AdjacencyIsReal ==
    Spec => [][\A c \in Callers : answer'[c].complete =>
                  LinksReal(answer'[c], seen[c]) /\ c \notin stale]_vars
<1> DEFINE Told(c) ==
       answer'[c].complete => LinksReal(answer'[c], seen[c]) /\ c \notin stale
<1>1. ASSUME SnapshotInv, Next, NEW c \in Callers PROVE Told(c)
  <2>1. CASE Return(c)
    <3>1. /\ answer'[c].complete => LinksReal(answer'[c], seen[c])
          /\ c \in stale => ~answer'[c].complete
      BY <1>1, <2>1, ReturnIsSound
    <3>2. QED  BY <3>1
  <2>2. CASE ~Return(c)
    BY <1>1, <2>2, OthersGetNothing, UnknownClaimsNothing
  <2>3. QED  BY <2>1, <2>2
<1>2. SnapshotInv /\ [Next]_vars => [\A c \in Callers : Told(c)]_vars
  BY <1>1
<1>3. QED  BY <1>2, SnapshotInvariance, PTL DEF Spec

-----------------------------------------------------------------------------
(* Type correctness, and with it the queue of the lock.                    *)

(* deque.remove, of a queue in which nobody waits twice: only the one who  *)
(* is removed is gone.                                                     *)
LEMMA RemovesTheOne ==
    ASSUME NEW S, NEW s \in Seq(S), IsInjective(s), NEW i \in 1..Len(s)
    PROVE  RemoveFirst(s, s[i]) = RemoveAt(s, i)
<1> DEFINE I == {j \in 1..Len(s) : s[j] = s[i]}
<1>1. I = {i}
  BY DEF IsInjective
<1>2. Min(I) = i
  BY <1>1 DEF Min
<1>3. SelectInSeq(s, LAMBDA v : v = s[i]) = i
  BY <1>1, <1>2 DEF SelectInSeq
<1>4. QED
  BY <1>3 DEF RemoveFirst

LEMMA WithoutOne ==
    ASSUME NEW S, NEW s \in Seq(S), NEW i \in 1..Len(s)
    PROVE  LET t == RemoveAt(s, i) IN
           /\ t \in Seq(S)
           /\ Len(t) = Len(s) - 1
           /\ \A j \in 1..Len(t) : t[j] = IF j < i THEN s[j] ELSE s[j + 1]
<1> DEFINE f == SubSeq(s, 1, i - 1)
           g == SubSeq(s, i + 1, Len(s))
           t == f \o g
<1>1. Len(s) \in Nat /\ \A j \in 1..Len(s) : s[j] \in S
  BY LenProperties
<1>2. f \in Seq(S) /\ Len(f) = i - 1 /\ \A j \in 1..i - 1 : f[j] = s[j]
  <2>1. 1 \in Int /\ i - 1 \in Int /\ \A j \in 1..i - 1 : s[j] \in S
    BY <1>1
  <2>2. /\ f \in Seq(S) /\ Len(f) = IF 1 <= i - 1 THEN i - 1 - 1 + 1 ELSE 0
        /\ \A j \in 1..(i - 1 - 1 + 1) : f[j] = s[1 + j - 1]
    BY <2>1, SubSeqProperties
  <2>3. QED  BY <2>2, <1>1
<1>3. g \in Seq(S) /\ Len(g) = Len(s) - i /\ \A j \in 1..Len(s) - i : g[j] = s[i + j]
  <2>1. i + 1 \in Int /\ Len(s) \in Int /\ \A j \in i + 1..Len(s) : s[j] \in S
    BY <1>1
  <2>2. /\ g \in Seq(S)
        /\ Len(g) = IF i + 1 <= Len(s) THEN Len(s) - (i + 1) + 1 ELSE 0
        /\ \A j \in 1..(Len(s) - (i + 1) + 1) : g[j] = s[i + 1 + j - 1]
    BY <2>1, SubSeqProperties
  <2>3. QED  BY <2>2, <1>1
<1> HIDE DEF f, g
<1>4. /\ t \in Seq(S) /\ Len(t) = Len(f) + Len(g)
      /\ \A j \in 1..Len(f) + Len(g) : t[j] = IF j <= Len(f) THEN f[j] ELSE g[j - Len(f)]
  BY <1>2, <1>3, ConcatProperties
<1> HIDE DEF t
<1>5. Len(t) = Len(s) - 1
  BY <1>1, <1>2, <1>3, <1>4
<1>6. ASSUME NEW j \in 1..Len(t) PROVE t[j] = IF j < i THEN s[j] ELSE s[j + 1]
  <2>1. CASE j < i
    BY <2>1, <1>1, <1>2, <1>4, <1>5
  <2>2. CASE ~(j < i)
    <3>1. t[j] = g[j - (i - 1)] /\ j - (i - 1) \in 1..Len(s) - i
      BY <2>2, <1>1, <1>2, <1>3, <1>4, <1>5
    <3>2. QED  BY <2>2, <3>1, <1>1, <1>3
  <2>3. QED  BY <2>1, <2>2
<1>7. t = RemoveAt(s, i)
  BY DEF t, f, g, RemoveAt
<1>8. QED  BY <1>4, <1>5, <1>6, <1>7

Queued(x, s) == \E i \in 1..Len(s) : s[i] = x

(* Whoever is cancelled leaves the queue, and nobody else does. *)
LEMMA LeavesTheQueue ==
    ASSUME NEW S, NEW s \in Seq(S), IsInjective(s), NEW e
    PROVE  LET t == RemoveFirst(s, e) IN
           /\ t \in Seq(S) /\ IsInjective(t)
           /\ \A x : Queued(x, t) <=> Queued(x, s) /\ x # e
<1> DEFINE t == RemoveFirst(s, e)
<1>1. CASE ~Queued(e, s)
  <2>1. t = s  BY <1>1 DEF RemoveFirst, Queued
  <2>2. QED  BY <1>1, <2>1
<1>2. CASE Queued(e, s)
  <2>1. PICK i \in 1..Len(s) : s[i] = e  BY <1>2 DEF Queued
  <2>2. t = RemoveAt(s, i)  BY <2>1, RemovesTheOne
  <2> HIDE DEF t
  <2>3. /\ t \in Seq(S) /\ Len(t) = Len(s) - 1
        /\ \A j \in 1..Len(t) : t[j] = IF j < i THEN s[j] ELSE s[j + 1]
    BY <2>2, WithoutOne
  <2>4. /\ Len(s) \in Nat /\ DOMAIN s = 1..Len(s) /\ DOMAIN t = 1..Len(t)
    BY <2>3, LenProperties
  <2>5. \A j, k \in 1..Len(s) : s[j] = s[k] => j = k
    BY <2>4 DEF IsInjective
  <2>6. IsInjective(t)
    <3> SUFFICES ASSUME NEW j \in 1..Len(t), NEW k \in 1..Len(t), t[j] = t[k]
                 PROVE  j = k
      BY <2>4 DEF IsInjective
    <3> QED  BY <2>3, <2>4, <2>5
  <2>7. ASSUME NEW x, Queued(x, t) PROVE Queued(x, s) /\ x # e
    <3>1. PICK j \in 1..Len(t) : t[j] = x  BY <2>7 DEF Queued
    <3>2. PICK k \in 1..Len(s) : k # i /\ s[k] = x
      BY <3>1, <2>3, <2>4
    <3>3. QED  BY <3>2, <2>1, <2>5 DEF Queued
  <2>8. ASSUME NEW x, Queued(x, s), x # e PROVE Queued(x, t)
    <3>1. PICK k \in 1..Len(s) : s[k] = x /\ k # i  BY <2>8, <2>1 DEF Queued
    <3>2. CASE k < i
      <4>1. k \in 1..Len(t) /\ t[k] = x  BY <3>1, <3>2, <2>3, <2>4
      <4>2. QED  BY <4>1 DEF Queued
    <3>3. CASE k > i
      <4>1. k - 1 \in 1..Len(t) /\ t[k - 1] = x  BY <3>1, <3>3, <2>3, <2>4
      <4>2. QED  BY <4>1 DEF Queued
    <3>4. QED  BY <3>1, <3>2, <3>3, <2>4
  <2>9. QED  BY <2>3, <2>6, <2>7, <2>8 DEF t
<1>3. QED  BY <1>1, <1>2

(* A newcomer is queued last. *)
LEMMA JoinsTheQueue ==
    ASSUME NEW S, NEW s \in Seq(S), IsInjective(s), NEW e \in S, ~Queued(e, s)
    PROVE  LET t == Append(s, e) IN
           /\ t \in Seq(S) /\ IsInjective(t)
           /\ \A x : Queued(x, t) <=> Queued(x, s) \/ x = e
<1> DEFINE t == Append(s, e)
<1>1. /\ t \in Seq(S) /\ Len(t) = Len(s) + 1 /\ t[Len(s) + 1] = e
      /\ \A i \in 1..Len(s) : t[i] = s[i]
  BY AppendProperties
<1>2. Len(s) \in Nat /\ DOMAIN s = 1..Len(s)
  BY LenProperties
<1> HIDE DEF t
<1>3. DOMAIN t = 1..Len(t)
  BY <1>1, LenProperties
<1>4. \A j, k \in 1..Len(s) : s[j] = s[k] => j = k
  BY <1>2 DEF IsInjective
<1>5. IsInjective(t)
  <2> SUFFICES ASSUME NEW j \in 1..Len(t), NEW k \in 1..Len(t), t[j] = t[k]
               PROVE  j = k
    BY <1>3 DEF IsInjective
  <2> QED  BY <1>1, <1>2, <1>4 DEF Queued
<1>6. ASSUME NEW x PROVE Queued(x, t) <=> Queued(x, s) \/ x = e
  BY <1>1, <1>2 DEF Queued
<1>7. QED  BY <1>1, <1>5, <1>6 DEF t

(* The first in the queue takes the lock. *)
LEMMA HeadLeavesTheQueue ==
    ASSUME NEW S, NEW s \in Seq(S), IsInjective(s), s # <<>>
    PROVE  LET t == Tail(s) IN
           /\ t \in Seq(S) /\ IsInjective(t)
           /\ \A x : Queued(x, t) <=> Queued(x, s) /\ x # Head(s)
<1> DEFINE t == Tail(s)
<1>1. /\ t \in Seq(S) /\ Len(t) = Len(s) - 1
      /\ \A i \in 1..Len(t) : t[i] = s[i + 1]
  BY HeadTailProperties
<1>2. Len(s) \in Nat \ {0} /\ DOMAIN s = 1..Len(s) /\ Head(s) = s[1]
  BY LenProperties, EmptySeq
<1> HIDE DEF t
<1>3. DOMAIN t = 1..Len(t)
  BY <1>1, LenProperties
<1>4. \A j, k \in 1..Len(s) : s[j] = s[k] => j = k
  BY <1>2 DEF IsInjective
<1>5. IsInjective(t)
  <2> SUFFICES ASSUME NEW j \in 1..Len(t), NEW k \in 1..Len(t), t[j] = t[k]
               PROVE  j = k
    BY <1>3 DEF IsInjective
  <2> QED  BY <1>1, <1>2, <1>4
<1>6. ASSUME NEW x, Queued(x, t) PROVE Queued(x, s) /\ x # Head(s)
  BY <1>1, <1>2, <1>4, <1>6 DEF Queued
<1>7. ASSUME NEW x, Queued(x, s), x # Head(s) PROVE Queued(x, t)
  <2>1. PICK k \in 1..Len(s) : s[k] = x /\ k # 1  BY <1>2, <1>7 DEF Queued
  <2>2. k - 1 \in 1..Len(t) /\ t[k - 1] = x  BY <2>1, <1>1, <1>2
  <2>3. QED  BY <2>2 DEF Queued
<1>8. QED  BY <1>1, <1>5, <1>6, <1>7 DEF t

(* Exactly the callers that wait are queued, each once. *)
QueueInv ==
    /\ waiters \in Seq(Callers) /\ IsInjective(waiters)
    /\ \A c \in Callers : pc[c] = "waiting" <=> Queued(c, waiters)

(* What is told and remembered is what the contract knows. *)
ToldInv ==
    /\ answer \in [Callers -> Contract!Snapshots]
    /\ seen \in [Callers -> SUBSET Contract!Claims]

(* Asking joins the queue, taking the lock or being cancelled leaves it. *)
LEMMA QueueKept ==
    ASSUME SnapshotInv, QueueInv, [Next]_vars
    PROVE  QueueInv'
<1> USE DEF QueueInv
<1> DEFINE Types == pc \in [Callers -> {"idle", "waiting"} \cup InSession]
<1>1. Types  BY DEF SnapshotInv, ReadsOK
<1>2. CASE WorldChanges \/ Invalidate \/ UNCHANGED vars
  <2>1. UNCHANGED <<waiters, pc>>
    BY <1>2 DEF WorldChanges, Invalidate, lockVars, vars
  <2>2. QED  BY <2>1 DEF Queued, IsInjective
<1>3. ASSUME NEW c \in Callers, Ask(c) PROVE QueueInv'
  <2>1. ~Queued(c, waiters)  BY <1>3 DEF Ask
  <2>2. /\ waiters' = Append(waiters, c) /\ pc' = [pc EXCEPT ![c] = "waiting"]
    BY <1>3 DEF Ask
  <2>3. /\ waiters' \in Seq(Callers) /\ IsInjective(waiters')
        /\ \A x : Queued(x, waiters') <=> Queued(x, waiters) \/ x = c
    BY <2>1, <2>2, JoinsTheQueue
  <2>4. QED  BY <1>1, <2>2, <2>3
<1>4. ASSUME NEW c \in Callers, Acquire(c) PROVE QueueInv'
  <2>1. /\ waiters' = Tail(waiters) /\ Head(waiters) = c /\ pc[c] = "waiting"
        /\ pc' = [pc EXCEPT ![c] = "session"]
    BY <1>4 DEF Acquire
  <2>2. waiters # <<>>
    <3>1. PICK i \in 1..Len(waiters) : waiters[i] = c  BY <2>1 DEF Queued
    <3>2. QED  BY <3>1, EmptySeq
  <2>3. /\ waiters' \in Seq(Callers) /\ IsInjective(waiters')
        /\ \A x : Queued(x, waiters') <=> Queued(x, waiters) /\ x # c
    BY <2>1, <2>2, HeadLeavesTheQueue
  <2>4. QED  BY <1>1, <2>1, <2>3
<1>5. ASSUME NEW c \in Callers,
             ReadConns(c) \/ ReadVariables(c) \/ ReadSaw(c) \/ Return(c) \/ Fail(c)
      PROVE  QueueInv'
  <2>1. /\ waiters' = waiters /\ pc[c] # "waiting"
        /\ \E l \in InSession \cup {"idle"} : pc' = [pc EXCEPT ![c] = l]
    BY <1>5
    DEF ReadConns, ReadVariables, ReadSaw, Return, Fail, Served, lockVars, InSession
  <2>2. \A x \in Callers : pc'[x] = "waiting" <=> pc[x] = "waiting"
    BY <1>1, <2>1 DEF InSession
  <2>3. QED  BY <2>1, <2>2 DEF Queued, IsInjective
<1>6. ASSUME NEW c \in Callers, Cancel(c) PROVE QueueInv'
  <2>1. waiters' = RemoveFirst(waiters, c) /\ pc' = [pc EXCEPT ![c] = "idle"]
    BY <1>6 DEF Cancel, Served
  <2>2. /\ waiters' \in Seq(Callers) /\ IsInjective(waiters')
        /\ \A x : Queued(x, waiters') <=> Queued(x, waiters) /\ x # c
    BY <2>1, LeavesTheQueue
  <2>3. QED  BY <1>1, <2>1, <2>2
<1>7. QED  BY <1>2, <1>3, <1>4, <1>5, <1>6 DEF Next, Session

(* Whoever waits for the lock is queued once, in every behaviour.          *)
LEMMA QueueInvariance == Spec => [](SnapshotInv /\ QueueInv)
<1>1. Init => QueueInv
  BY EmptySeq DEF Init, QueueInv, Queued, IsInjective
<1>2. SnapshotInv /\ QueueInv /\ [Next]_vars => QueueInv'
  BY QueueKept
<1>3. QED  BY <1>1, <1>2, SnapshotInvariance, PTL DEF Spec

(* Every answer is one of the contract's. *)
LEMMA ToldKept ==
    ASSUME SnapshotInv, ToldInv, [Next]_vars
    PROVE  ToldInv'
<1> USE DEF ToldInv
<1>1. ASSUME NEW v \in Contract!Views PROVE Contract!TrueOf(v) \subseteq Contract!Claims
  <2>1. v.mode \in [Links -> Modes \cup {"absent"}] /\ v.clear \in BOOLEAN
    BY DEF Contract!Views
  <2>2. Contract!TrafficOf(v.clear) \in {"CLEAR", "ACTIVE"}
    BY DEF Contract!TrafficOf
  <2>3. \A n \in Links : Contract!StatusOf(v.mode[n]) \in {"ESTABLISHED", "CONNECTING"}
    BY DEF Contract!StatusOf
  <2>4. Contract!Adjacent(v) \subseteq Links
    BY DEF Contract!Adjacent
  <2>5. /\ <<"traffic", Contract!TrafficOf(v.clear)>> \in Contract!Claims
        /\ <<"links", Contract!Adjacent(v)>> \in Contract!Claims
    BY <2>2, <2>4 DEF Contract!Claims
  <2>6. \A n \in Links : /\ <<n, "status", Contract!StatusOf(v.mode[n])>> \in Contract!Claims
                         /\ <<n, "mode", v.mode[n]>> \in Contract!Claims
    BY <2>1, <2>3 DEF Contract!Claims
  <2>7. QED
    BY <2>4, <2>5, <2>6, Zenon DEF Contract!TrueOf
<1>2. Silent => answer' \in [Callers -> Contract!Snapshots]
  BY UnknownClaimsNothing DEF Silent
<1>3. CASE WorldChanges
  <2>1. world' \in Worlds  BY <1>3, WorldStaysWorld DEF SnapshotInv, ReadsOK
  <2>2. View' \in Contract!Views
    <3>1. /\ world'.mode \in [Links -> Modes \cup {"absent"}]
          /\ IsClear(world)' \in BOOLEAN
      BY <2>1 DEF Worlds, IsClear
    <3>2. QED  BY <3>1 DEF View, Contract!Views
  <2>3. Contract!TrueOf(View') \subseteq Contract!Claims  BY <1>1, <2>2
  <2>4. QED  BY <1>2, <1>3, <2>3 DEF WorldChanges
<1>4. ASSUME NEW c \in Callers, Ask(c) PROVE ToldInv'
  <2>1. Contract!TrueOf(View) \subseteq Contract!Claims
    BY <1>1, ViewOK DEF SnapshotInv, ReadsOK
  <2>2. QED  BY <1>2, <1>4, <2>1 DEF Ask
<1>5. ASSUME NEW c \in Callers, Return(c) PROVE ToldInv'
  <2>1. answer'[c] \in Contract!Snapshots  BY <1>5, ReturnIsSound
  <2>2. answer' \in [Callers -> Contract!Snapshots]
    BY <1>5, <2>1, UnknownClaimsNothing DEF Return, Answer
  <2>3. QED  BY <1>5, <2>2 DEF Return, Served
<1>6. ASSUME NEW c \in Callers, Fail(c) \/ Cancel(c) PROVE ToldInv'
  BY <1>2, <1>6 DEF Fail, Cancel, Served
<1>7. ASSUME \/ Invalidate
             \/ \E c \in Callers :
                   Acquire(c) \/ ReadConns(c) \/ ReadVariables(c) \/ ReadSaw(c)
      PROVE  ToldInv'
  BY <1>2, <1>7 DEF Invalidate, Acquire, ReadConns, ReadVariables, ReadSaw, history
<1>8. CASE UNCHANGED vars  BY <1>8 DEF vars
<1>9. QED  BY <1>3, <1>4, <1>5, <1>6, <1>7, <1>8 DEF Next, Session

(* Type correctness of Observer: the lock is held by the one caller in a   *)
(* session, those that wait for it are queued once each, and no answer is  *)
(* anything but a NodeState.                                               *)
THEOREM TypeCorrectness == Spec => []TypeOK
<1>1. Init => ToldInv
  BY UnknownClaimsNothing DEF Init, ToldInv
<1>2. SnapshotInv /\ ToldInv /\ [Next]_vars => ToldInv'
  BY ToldKept
<1>3. SnapshotInv /\ QueueInv /\ ToldInv => TypeOK
  <2> SUFFICES ASSUME SnapshotInv, QueueInv, ToldInv PROVE TypeOK
    OBVIOUS
  <2>1. ToSet(waiters) = {c \in Callers : pc[c] = "waiting"}
    <3>1. DOMAIN waiters = 1..Len(waiters) /\ \A i \in 1..Len(waiters) : waiters[i] \in Callers
      BY LenProperties DEF QueueInv
    <3>2. \A c \in Callers : pc[c] = "waiting" <=> \E i \in 1..Len(waiters) : waiters[i] = c
      BY DEF QueueInv, Queued
    <3>3. QED  BY <3>1, <3>2 DEF ToSet
  <2>2. stale \subseteq Asking
    BY DEF SnapshotInv, ReadsOK, StaleInv, Asking, InSession
  <2>3. QED
    BY <2>1, <2>2 DEF TypeOK, SnapshotInv, ReadsOK, InSession, QueueInv, ToldInv
<1>4. QED
  BY <1>1, <1>2, <1>3, QueueInvariance, PTL DEF Spec

(* The lock is never lost: whoever holds it is in a session, whose awaits  *)
(* all end, and the first in the queue is one that waits to take it.       *)
THEOREM LockIsNeverLost ==
    Spec => []/\ holder # Nobody => pc[holder] \in InSession
              /\ waiters # <<>> => pc[Head(waiters)] = "waiting"
<1>1. SnapshotInv /\ QueueInv =>
         /\ holder # Nobody => pc[holder] \in InSession
         /\ waiters # <<>> => pc[Head(waiters)] = "waiting"
  <2> SUFFICES ASSUME SnapshotInv, QueueInv
               PROVE  /\ holder # Nobody => pc[holder] \in InSession
                      /\ waiters # <<>> => pc[Head(waiters)] = "waiting"
    OBVIOUS
  <2>1. holder # Nobody => pc[holder] \in InSession
    BY DEF SnapshotInv, ReadsOK, HolderInv
  <2>2. ASSUME waiters # <<>> PROVE pc[Head(waiters)] = "waiting"
    <3>1. Len(waiters) \in Nat \ {0} /\ waiters[1] \in Callers /\ Head(waiters) = waiters[1]
      BY <2>2, EmptySeq, LenProperties DEF QueueInv
    <3>2. QED  BY <3>1 DEF QueueInv, Queued
  <2>3. QED  BY <2>1, <2>2
<1>2. QED  BY <1>1, QueueInvariance, PTL

(* c has asked before d, and both wait. *)
Before(c, d, s) ==
    \E i, j \in 1..Len(s) : i < j /\ s[i] = c /\ s[j] = d

(* Cancelling one does not change the order of the others. *)
LEMMA OrderOfTheOthers ==
    ASSUME NEW S, NEW s \in Seq(S), IsInjective(s), NEW c, NEW d, NEW e,
           Before(c, d, s), c # e, d # e
    PROVE  Before(c, d, RemoveFirst(s, e))
<1>1. CASE ~\E k \in 1..Len(s) : s[k] = e
  BY <1>1 DEF RemoveFirst
<1>2. ASSUME NEW k \in 1..Len(s), s[k] = e
      PROVE  Before(c, d, RemoveFirst(s, e))
  <2> DEFINE t == RemoveFirst(s, e)
  <2>1. t = RemoveAt(s, k)  BY <1>2, RemovesTheOne
  <2> HIDE DEF t
  <2>2. /\ Len(t) = Len(s) - 1 /\ Len(s) \in Nat
        /\ \A j \in 1..Len(t) : t[j] = IF j < k THEN s[j] ELSE s[j + 1]
    BY <2>1, WithoutOne, LenProperties
  <2>3. PICK i \in 1..Len(s), j \in 1..Len(s) : i < j /\ s[i] = c /\ s[j] = d
    BY DEF Before
  <2>4. i # k /\ j # k  BY <1>2, <2>3
  <2> DEFINE At(n) == IF n < k THEN n ELSE n - 1
  <2>5. ASSUME NEW n \in 1..Len(s), n # k PROVE At(n) \in 1..Len(t) /\ t[At(n)] = s[n]
    <3>1. CASE n < k  BY <3>1, <2>2
    <3>2. CASE n > k
      <4>1. At(n) = n - 1 /\ n - 1 \in 1..Len(t)  BY <3>2, <2>2
      <4>2. t[n - 1] = s[n - 1 + 1]  BY <3>2, <4>1, <2>2
      <4>3. QED  BY <4>1, <4>2
    <3>3. QED  BY <2>5, <3>1, <3>2
  <2>6. At(i) < At(j)  BY <2>2, <2>3, <2>4
  <2>7. /\ At(i) \in 1..Len(t) /\ t[At(i)] = c
        /\ At(j) \in 1..Len(t) /\ t[At(j)] = d
    BY <2>3, <2>4, <2>5
  <2> HIDE DEF At
  <2>8. QED  BY <2>6, <2>7 DEF Before, t
<1>3. QED  BY <1>1, <1>2

(* Callers are served in the order they asked: one that waits behind       *)
(* another goes on waiting behind it, until the other is served or one of  *)
(* them is cancelled.  With LockIsNeverLost, what is left to liveness is   *)
(* that a session ends.                                                    *)
THEOREM NobodyOvertakes ==
    Spec => [][\A c, d \in Callers :
                  Before(c, d, waiters) =>
                     \/ Before(c, d, waiters')
                     \/ pc'[c] # "waiting"
                     \/ pc'[d] = "idle"]_vars
<1> DEFINE Kept(c, d) ==
       Before(c, d, waiters) =>
          Before(c, d, waiters') \/ pc'[c] # "waiting" \/ pc'[d] = "idle"
<1>1. ASSUME SnapshotInv, QueueInv, Next, NEW c \in Callers, NEW d \in Callers,
             Before(c, d, waiters)
      PROVE  Kept(c, d)
  <2>1. pc \in [Callers -> {"idle", "waiting"} \cup InSession]
    BY <1>1 DEF SnapshotInv, ReadsOK
  <2>2. ASSUME NEW x \in Callers, Ask(x) PROVE Kept(c, d)
    <3>1. waiters' = Append(waiters, x)  BY <2>2 DEF Ask
    <3>2. /\ Len(waiters') = Len(waiters) + 1 /\ Len(waiters) \in Nat
          /\ \A i \in 1..Len(waiters) : waiters'[i] = waiters[i]
      BY <1>1, <3>1, AppendProperties, LenProperties DEF QueueInv
    <3>3. Before(c, d, waiters')
      BY <1>1, <3>2 DEF Before
    <3>4. QED  BY <3>3
  <2>3. ASSUME NEW x \in Callers, Acquire(x) PROVE Kept(c, d)
    <3>1. /\ waiters' = Tail(waiters) /\ Head(waiters) = x
          /\ pc' = [pc EXCEPT ![x] = "session"]
      BY <2>3 DEF Acquire
    <3>2. CASE c = x  BY <2>1, <3>1, <3>2
    <3>3. CASE c # x
      <4>1. PICK i \in 1..Len(waiters), j \in 1..Len(waiters) :
               i < j /\ waiters[i] = c /\ waiters[j] = d
        BY <1>1 DEF Before
      <4>2. waiters # <<>>  BY <4>1, EmptySeq
      <4>3. /\ Len(waiters') = Len(waiters) - 1 /\ Len(waiters) \in Nat
            /\ \A k \in 1..Len(waiters') : waiters'[k] = waiters[k + 1]
            /\ Head(waiters) = waiters[1]
        BY <1>1, <3>1, <4>2, HeadTailProperties, LenProperties DEF QueueInv
      <4>4. i # 1  BY <3>1, <3>3, <4>1, <4>3
      <4>5. /\ i - 1 \in 1..Len(waiters') /\ waiters'[i - 1] = c
            /\ j - 1 \in 1..Len(waiters') /\ waiters'[j - 1] = d
            /\ i - 1 < j - 1
        BY <4>1, <4>3, <4>4
      <4>6. QED  BY <4>5 DEF Before
    <3>4. QED  BY <3>2, <3>3
  <2>4. ASSUME NEW x \in Callers, Cancel(x) PROVE Kept(c, d)
    <3>1. waiters' = RemoveFirst(waiters, x) /\ pc' = [pc EXCEPT ![x] = "idle"]
      BY <2>4 DEF Cancel, Served
    <3>2. CASE c = x \/ d = x  BY <2>1, <3>1, <3>2
    <3>3. CASE c # x /\ d # x
      BY <1>1, <3>1, <3>3, OrderOfTheOthers DEF QueueInv
    <3>4. QED  BY <3>2, <3>3
  <2>5. ASSUME \/ WorldChanges \/ Invalidate
               \/ \E x \in Callers : Session(x)
        PROVE  Kept(c, d)
    <3>1. waiters' = waiters
      BY <2>5
      DEF WorldChanges, Invalidate, Session, ReadConns, ReadVariables, ReadSaw,
          Return, Fail, lockVars
    <3>2. QED  BY <1>1, <3>1
  <2>6. QED  BY <1>1, <2>2, <2>3, <2>4, <2>5 DEF Next
<1>2. SnapshotInv /\ QueueInv /\ [Next]_vars =>
         [\A c, d \in Callers :
             Before(c, d, waiters) =>
                \/ Before(c, d, waiters')
                \/ pc'[c] # "waiting"
                \/ pc'[d] = "idle"]_vars
  BY <1>1
<1>3. QED  BY <1>2, QueueInvariance, PTL DEF Spec

=============================================================================
