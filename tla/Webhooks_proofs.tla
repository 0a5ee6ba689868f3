-------------------------- MODULE Webhooks_proofs --------------------------
(***************************************************************************)
(* Why the reports of every link alternate, for any set of links.          *)
(*                                                                         *)
(* Between two checks what is known is what was last reported connected.   *)
(* A check compares with that and owes one notification per difference, so *)
(* each link is owed one at most; a link that is owed none was reported as *)
(* the check saw it.  Once nothing is owed, that replaces what is known.   *)
(***************************************************************************)
EXTENDS Webhooks, FiniteSetTheorems, SequenceTheorems, TLAPS

Types ==
    /\ links \in SUBSET Nodes /\ known \in SUBSET Nodes /\ current \in SUBSET Nodes
    /\ pending \in Seq(Events)
    /\ pc \in {"check", "notify", "sleep"}
    /\ reported \in [Nodes -> {"none", "connected", "disconnected"}]

Owed(n) == \E i \in 1..Len(pending) : pending[i].node = n

(* What is owed is the opposite of what was reported and what the check    *)
(* saw; each link is owed once; who is owed nothing was reported as seen.  *)
CheckInv ==
    /\ \A i \in 1..Len(pending) :
          IF pending[i].type = "connected"
          THEN pending[i].node \in current /\ reported[pending[i].node] # "connected"
          ELSE pending[i].node \notin current /\ reported[pending[i].node] = "connected"
    /\ \A i, j \in 1..Len(pending) : pending[i].node = pending[j].node => i = j
    /\ \A n \in Nodes : ~Owed(n) => (reported[n] = "connected" <=> n \in current)

(* Between two checks the memory of the loop is what its reports say.      *)
KnownIsReported ==
    pc # "notify" => \A n \in Nodes : n \in known <=> reported[n] = "connected"

ReportInv ==
    /\ Types
    /\ pc # "notify" => pending = <<>>
    /\ pc = "notify" => CheckInv
    /\ KnownIsReported

-----------------------------------------------------------------------------

(* A set in any order has each of its elements once.                       *)
LEMMA OrdersAreComplete ==
    ASSUME NEW S, IsFiniteSet(S), NEW s \in SetToSeqs(S)
    PROVE  /\ s \in Seq(S)
           /\ \A i, j \in 1..Len(s) : s[i] = s[j] => i = j
           /\ \A x \in S : \E i \in 1..Len(s) : s[i] = x
  <1> DEFINE m == Cardinality(S)
  <1>1. m \in Nat
    BY FS_CardinalityType
  <1>2. s \in [1..m -> S] /\ \A i, j \in 1..m : i # j => s[i] # s[j]
    BY DEF SetToSeqs
  <1>3. s \in Injection(1..m, S)
    BY <1>2 DEF Injection, IsInjective
  <1>4. Cardinality(1..m) = m
    BY <1>1, FS_Interval
  <1>5. s \in Surjection(1..m, S)
    BY <1>3, <1>4, FS_Injection
  <1>6. \A x \in S : \E i \in 1..m : s[i] = x
    BY <1>5 DEF Surjection
  <1> HIDE DEF m
  <1>7. s \in Seq(S) /\ Len(s) = m
    BY <1>1, <1>2
  <1>8. QED  BY <1>2, <1>6, <1>7

LEMMA InitHasInv == Init => ReportInv
  BY DEF Init, ReportInv, Types, KnownIsReported, Nothing

(* A check owes each link that changed one notification.                   *)
LEMMA CheckKeepsInv ==
    ASSUME ReportInv, Check
    PROVE  ReportInv'
  <1> DEFINE new  == links \ known
             gone == known \ links
  <1>1. /\ pc = "check" /\ pc' = "notify" /\ current' = links
        /\ pending' \in Notifications(links)
        /\ UNCHANGED <<links, known, reported>>
    BY DEF Check
  <1> DEFINE Report(cs, ds) == [i \in DOMAIN cs |-> Event("connected", cs[i])]
                                  \o [i \in DOMAIN ds |-> Event("disconnected", ds[i])]
  <1>2. PICK cs \in SetToSeqs(new), ds \in SetToSeqs(gone) : pending' = Report(cs, ds)
    <2>1. Notifications(links) =
             {Report(cs, ds) : cs \in SetToSeqs(new), ds \in SetToSeqs(gone)}
      BY DEF Notifications
    <2> HIDE DEF Report, new, gone
    <2>2. QED  BY <1>1, <2>1
  <1>3. /\ new \in SUBSET Nodes /\ gone \in SUBSET Nodes
        /\ \A n \in Nodes : n \in known <=> reported[n] = "connected"
    BY <1>1 DEF ReportInv, Types, KnownIsReported
  <1>4. IsFiniteSet(new) /\ IsFiniteSet(gone)
    BY <1>3, FS_Subset, NodesAssumption
  <1> HIDE DEF new, gone
  <1>5. /\ cs \in Seq(new)
        /\ \A i, j \in 1..Len(cs) : cs[i] = cs[j] => i = j
        /\ \A n \in new : \E i \in 1..Len(cs) : cs[i] = n
    BY <1>4, OrdersAreComplete
  <1>6. /\ ds \in Seq(gone)
        /\ \A i, j \in 1..Len(ds) : ds[i] = ds[j] => i = j
        /\ \A n \in gone : \E i \in 1..Len(ds) : ds[i] = n
    BY <1>4, OrdersAreComplete
  <1> DEFINE a == [i \in DOMAIN cs |-> Event("connected", cs[i])]
             b == [i \in DOMAIN ds |-> Event("disconnected", ds[i])]
  <1>7. /\ a \in Seq(Events) /\ Len(a) = Len(cs)
        /\ \A i \in 1..Len(cs) :
              a[i].type = "connected" /\ a[i].node = cs[i] /\ cs[i] \in new
    <2>1. cs \in [1..Len(cs) -> new] /\ Len(cs) \in Nat /\ DOMAIN cs = 1..Len(cs)
      BY <1>5
    <2>2. a \in [1..Len(cs) -> Events]
      BY <1>3, <2>1 DEF Event, Events
    <2>3. QED  BY <2>1, <2>2 DEF Event
  <1>8. /\ b \in Seq(Events) /\ Len(b) = Len(ds)
        /\ \A i \in 1..Len(ds) :
              b[i].type = "disconnected" /\ b[i].node = ds[i] /\ ds[i] \in gone
    <2>1. ds \in [1..Len(ds) -> gone] /\ Len(ds) \in Nat /\ DOMAIN ds = 1..Len(ds)
      BY <1>6
    <2>2. b \in [1..Len(ds) -> Events]
      BY <1>3, <2>1 DEF Event, Events
    <2>3. QED  BY <2>1, <2>2 DEF Event
  <1>9. pending' = a \o b
    BY <1>2
  <1> HIDE DEF Report
  <1> HIDE DEF a, b
  <1>10. /\ pending' \in Seq(Events) /\ Len(pending') = Len(cs) + Len(ds)
         /\ Len(cs) \in Nat /\ Len(ds) \in Nat
         /\ \A i \in 1..Len(pending') :
               pending'[i] = IF i <= Len(cs) THEN a[i] ELSE b[i - Len(cs)]
    <2>1. /\ a \o b \in Seq(Events) /\ Len(a \o b) = Len(a) + Len(b)
          /\ \A i \in 1..(Len(a) + Len(b)) :
                (a \o b)[i] = IF i <= Len(a) THEN a[i] ELSE b[i - Len(a)]
      <3>1. a \in Seq(Events) /\ b \in Seq(Events)
        BY <1>7, <1>8
      <3>2. QED  BY <3>1, ConcatProperties
    <2>2. QED  BY <1>5, <1>6, <1>7, <1>8, <1>9, <2>1
  <1>11. /\ \A i \in 1..Len(cs) : i \in 1..Len(pending') /\ pending'[i] = a[i]
         /\ \A i \in 1..Len(ds) : /\ Len(cs) + i \in 1..Len(pending')
                                   /\ pending'[Len(cs) + i] = b[i]
    BY <1>10
  <1>12. ASSUME NEW i \in 1..Len(pending')
         PROVE  \/ i \in 1..Len(cs)
                \/ \E j \in 1..Len(ds) : i = Len(cs) + j
    <2>1. CASE i <= Len(cs)
      BY <1>10, <2>1
    <2>2. CASE i > Len(cs)
      <3>1. i - Len(cs) \in 1..Len(ds) /\ i = Len(cs) + (i - Len(cs))
        BY <1>10, <2>2
      <3>2. QED  BY <3>1
    <2>3. QED  BY <1>10, <2>1, <2>2
  <1>13. /\ \A i \in 1..Len(cs) : /\ pending'[i].type = "connected"
                                   /\ pending'[i].node = cs[i] /\ cs[i] \in new
         /\ \A i \in 1..Len(ds) : /\ pending'[Len(cs) + i].type = "disconnected"
                                   /\ pending'[Len(cs) + i].node = ds[i] /\ ds[i] \in gone
    BY <1>7, <1>8, <1>11
  <1>14. CheckInv'
    <2>1. \A i \in 1..Len(pending') :
             IF pending'[i].type = "connected"
             THEN pending'[i].node \in current' /\ reported'[pending'[i].node] # "connected"
             ELSE pending'[i].node \notin current' /\ reported'[pending'[i].node] = "connected"
      <3> SUFFICES ASSUME NEW i \in 1..Len(pending')
                   PROVE  IF pending'[i].type = "connected"
                          THEN /\ pending'[i].node \in current'
                               /\ reported'[pending'[i].node] # "connected"
                          ELSE /\ pending'[i].node \notin current'
                               /\ reported'[pending'[i].node] = "connected"
        OBVIOUS
      <3>1. CASE i \in 1..Len(cs)
        BY <1>1, <1>3, <1>13, <3>1 DEF new
      <3>2. CASE \E j \in 1..Len(ds) : i = Len(cs) + j
        BY <1>1, <1>3, <1>13, <3>2 DEF gone
      <3>3. QED  BY <1>12, <3>1, <3>2
    <2>2. \A i, j \in 1..Len(pending') : pending'[i].node = pending'[j].node => i = j
      <3> SUFFICES ASSUME NEW i \in 1..Len(pending'), NEW j \in 1..Len(pending'),
                          pending'[i].node = pending'[j].node
                   PROVE  i = j
        OBVIOUS
      <3>1. new \cap gone = {}
        BY DEF new, gone
      <3>2. CASE i \in 1..Len(cs)
        <4>1. CASE j \in 1..Len(cs)
          BY <1>5, <1>13, <3>2, <4>1
        <4>2. CASE \E k \in 1..Len(ds) : j = Len(cs) + k
          <5>1. PICK k \in 1..Len(ds) : j = Len(cs) + k
            BY <4>2
          <5>2. pending'[j].node \in gone /\ pending'[i].node \in new
            BY <1>13, <3>2, <5>1
          <5>3. QED  BY <3>1, <5>2
        <4>3. QED  BY <1>12, <4>1, <4>2
      <3>3. CASE \E k \in 1..Len(ds) : i = Len(cs) + k
        <4> PICK k \in 1..Len(ds) : i = Len(cs) + k
          BY <3>3
        <4>1. CASE j \in 1..Len(cs)
          <5>1. pending'[i].node \in gone /\ pending'[j].node \in new
            BY <1>13, <4>1
          <5>2. QED  BY <3>1, <5>1
        <4>2. CASE \E l \in 1..Len(ds) : j = Len(cs) + l
          <5>1. PICK l \in 1..Len(ds) : j = Len(cs) + l
            BY <4>2
          <5>2. ds[k] = ds[l]
            BY <1>13, <5>1
          <5>3. QED  BY <1>6, <5>1, <5>2
        <4>3. QED  BY <1>12, <4>1, <4>2
      <3>4. QED  BY <1>12, <3>2, <3>3
    <2>3. ASSUME NEW n \in Nodes, ~Owed(n)'
          PROVE  reported'[n] = "connected" <=> n \in current'
      <3>1. n \notin new
        <4> SUFFICES ASSUME n \in new PROVE FALSE
          OBVIOUS
        <4>1. PICK i \in 1..Len(cs) : cs[i] = n
          BY <1>5
        <4>2. i \in 1..Len(pending') /\ pending'[i].node = n
          BY <1>11, <1>13, <4>1
        <4>3. QED  BY <2>3, <4>2 DEF Owed
      <3>2. n \notin gone
        <4> SUFFICES ASSUME n \in gone PROVE FALSE
          OBVIOUS
        <4>1. PICK i \in 1..Len(ds) : ds[i] = n
          BY <1>6
        <4>2. Len(cs) + i \in 1..Len(pending') /\ pending'[Len(cs) + i].node = n
          BY <1>11, <1>13, <4>1
        <4>3. QED  BY <2>3, <4>2 DEF Owed
      <3>3. QED  BY <1>1, <1>3, <3>1, <3>2 DEF new, gone
    <2>4. QED  BY <2>1, <2>2, <2>3 DEF CheckInv
  <1>15. Types'
    BY <1>1, <1>10 DEF ReportInv, Types
  <1>16. QED  BY <1>1, <1>14, <1>15 DEF ReportInv, KnownIsReported

(* A notification settles what its link is owed and touches no other link. *)
LEMMA NotifyKeepsInv ==
    ASSUME ReportInv, Notify
    PROVE  ReportInv'
  <1>1. /\ pc = "notify" /\ pc' = "notify" /\ pending # <<>> /\ pending' = Tail(pending)
        /\ reported' = [reported EXCEPT ![Head(pending).node] = Head(pending).type]
        /\ UNCHANGED <<links, known, current>>
    BY DEF Notify, ReportInv
  <1>2. pending \in Seq(Events) /\ Types /\ CheckInv
    BY <1>1 DEF ReportInv, Types
  <1>3. /\ Head(pending) = pending[1] /\ pending[1] \in Events /\ Len(pending) \in Nat
        /\ Len(pending) >= 1
        /\ pending' \in Seq(Events) /\ Len(pending') = Len(pending) - 1
        /\ \A i \in 1..Len(pending') : pending'[i] = pending[i + 1] /\ pending[i + 1] \in Events
    BY <1>1, <1>2
  <1> DEFINE m == pending[1].node
  <1>4. m \in Nodes /\ pending[1].type \in {"connected", "disconnected"}
    BY <1>3 DEF Events
  <1>5. \A n \in Nodes : reported'[n] = IF n = m THEN pending[1].type ELSE reported[n]
    BY <1>1, <1>2, <1>3 DEF Types
  <1>6. \A i \in 1..Len(pending') :
           pending'[i].node # m /\ pending'[i].node \in Nodes
    BY <1>2, <1>3 DEF CheckInv, Events
  <1> HIDE DEF m
  <1>7. Types'
    BY <1>1, <1>2, <1>3, <1>4 DEF Types
  <1>8. CheckInv'
    <2>1. \A i \in 1..Len(pending') :
             IF pending'[i].type = "connected"
             THEN pending'[i].node \in current /\ reported'[pending'[i].node] # "connected"
             ELSE pending'[i].node \notin current /\ reported'[pending'[i].node] = "connected"
      BY <1>2, <1>3, <1>5, <1>6 DEF CheckInv
    <2>2. \A i, j \in 1..Len(pending') : pending'[i].node = pending'[j].node => i = j
      BY <1>2, <1>3 DEF CheckInv
    <2>3. ASSUME NEW n \in Nodes, ~Owed(n)'
          PROVE  reported'[n] = "connected" <=> n \in current
      <3>1. CASE n = m
        BY <1>2, <1>3, <1>4, <1>5, <3>1 DEF CheckInv, m
      <3>2. CASE n # m
        <4>1. ~Owed(n)
          <5> SUFFICES ASSUME NEW i \in 1..Len(pending), pending[i].node = n
                       PROVE  FALSE
            BY DEF Owed
          <5>1. i # 1
            BY <3>2 DEF m
          <5>2. i - 1 \in 1..Len(pending') /\ pending'[i - 1] = pending[i]
            BY <1>3, <5>1
          <5>3. QED  BY <2>3, <5>2 DEF Owed
        <4>2. QED  BY <1>2, <1>5, <3>2, <4>1 DEF CheckInv
      <3>3. QED  BY <3>1, <3>2
    <2>4. QED  BY <1>1, <2>1, <2>2, <2>3 DEF CheckInv
  <1>9. QED  BY <1>1, <1>7, <1>8 DEF ReportInv, KnownIsReported

(* Once nothing is owed, the links were reported as the check saw them.    *)
LEMMA FinishKeepsInv ==
    ASSUME ReportInv, FinishCheck
    PROVE  ReportInv'
  <1>1. \A n \in Nodes : reported[n] = "connected" <=> n \in current
    BY DEF FinishCheck, ReportInv, CheckInv, Owed
  <1>2. QED  BY <1>1 DEF FinishCheck, ReportInv, Types, KnownIsReported

LEMMA StepKeepsInv == ReportInv /\ [Next]_vars => ReportInv'
  <1> SUFFICES ASSUME ReportInv, [Next]_vars PROVE ReportInv'
    OBVIOUS
  <1>1. CASE CheckFails \/ Wake
    BY <1>1 DEF CheckFails, Wake, ReportInv, Types, KnownIsReported
  <1>2. CASE Restart
    BY <1>2 DEF Restart, ReportInv, Types, KnownIsReported, Nothing
  <1>3. CASE \E n \in Nodes : LinkChanges(n)
    BY <1>3 DEF LinkChanges, loopVars, ReportInv, Types, CheckInv, Owed, KnownIsReported
  <1>4. CASE UNCHANGED vars
    BY <1>4 DEF vars, ReportInv, Types, CheckInv, Owed, KnownIsReported
  <1>5. QED
    BY <1>1, <1>2, <1>3, <1>4, CheckKeepsInv, NotifyKeepsInv, FinishKeepsInv
    DEF Next, MonitoringLoop

(* Whatever the node does between the comparison and the deliveries, what  *)
(* the loop owes is what it has not reported.                              *)
THEOREM ReportInvariance == Spec => []ReportInv
  BY InitHasInv, StepKeepsInv, PTL DEF Spec

-----------------------------------------------------------------------------

(* EventHandler: its memory holds links of the node and what it owes are   *)
(* notifications of them.                                                  *)
THEOREM TypeCorrectness == Spec => []TypeOK
  <1>1. ReportInv => TypeOK
    BY DEF ReportInv, Types, TypeOK
  <1>2. QED  BY <1>1, ReportInvariance, PTL

(* _on_node_connect and _on_node_disconnect: no report repeats the one     *)
(* before it, and no link is reported gone that was not reported there.    *)
THEOREM ReportsDoAlternate == Spec => []ReportsAlternate
  <1>1. ReportInv => ReportsAlternate
    BY DEF ReportInv, Types, CheckInv, ReportsAlternate
  <1>2. QED  BY <1>1, ReportInvariance, PTL

(* Between two checks _known_nodes is what the receiver of the webhooks    *)
(* was told, if every POST arrived: a failed one is never made up for.     *)
THEOREM MemoryIsWhatWasReported == Spec => []KnownIsReported
  <1>1. ReportInv => KnownIsReported
    BY DEF ReportInv
  <1>2. QED  BY <1>1, ReportInvariance, PTL

=============================================================================
