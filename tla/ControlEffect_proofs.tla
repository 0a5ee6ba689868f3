------------------------ MODULE ControlEffect_proofs ------------------------
(***************************************************************************)
(* Why the effect in a row is real and a command is sent for a reason, for *)
(* any links, modes, requests and policy.  The invariant says what the     *)
(* history variables owe to the observer: each claim a snapshot may make   *)
(* when it comes back was true of the node since the worker asked, so what *)
(* effect_status makes of such claims has held, and has not, accordingly.  *)
(*                                                                         *)
(* Then, action by action, that all this is a step of ControlPlane or      *)
(* invisible to it: what Decide, Verify and Finish do with a snapshot, the *)
(* control plane's worker may do with the traffic and the effect in it.    *)
(***************************************************************************)
EXTENDS ControlEffect, Naturals, TLAPS

(* A fact that was b at some instant is in the history H. *)
Holds(b, H) == (b => TRUE \in H) /\ (~b => FALSE \in H)

Denied == \A t \in {"ACTIVE", "UNKNOWN"} : Policy[request.kind][t] = "deny"

(* The observer is asked in two places only. *)
AskInv ==
    /\ request \in Requests
    /\ view \in Observer!Views
    /\ DOMAIN seen = {Worker}
    /\ Worker \in asking => pc \in {"observe", "verify"}

HeldNow == Holds(Achieved(view), held)

(* What the claims seen so far say of the command's effect, and of the     *)
(* traffic before it.                                                      *)
LinksHeld(S, H) ==
    \A L \in SUBSET Links : <<"links", L>> \in S =>
        /\ request.kind = "unlink_node" => Holds(request.node \notin L, H)
        /\ request.kind = "unlink_all" => Holds(L \subseteq foreign, H)
        /\ request.kind = "link_node" /\ request.node \notin L => FALSE \in H

ModeHeld(S, H) ==
    request.kind = "link_node" =>
        /\ \A m \in Modes \cup {"absent"} :
              <<request.node, "mode", m>> \in S => Holds(m = request.mode, H)
        /\ <<request.node, "status", "CONNECTING">> \in S => FALSE \in H

ClearHeld(S) == pc = "observe" /\ <<"traffic", "CLEAR">> \in S => wasClear

SeenHeld ==
    Worker \in asking =>
        /\ LinksHeld(seen[Worker], held) /\ ModeHeld(seen[Worker], held)
        /\ ClearHeld(seen[Worker])

(* The row and the command, by the worker's place. *)
RowInv ==
    /\ pc # "none" => effect = "PENDING"
    /\ pc = "observe" => dispatch = "QUEUED" /\ wire = "none"
    /\ pc = "connect" => dispatch = "QUEUED"
    /\ pc \in {"verify", "announced"} => dispatch = "ACKNOWLEDGED"

(* The decision is carried from the first snapshot to the write. *)
Sending == pc \in {"connect", "write"}

SendInv ==
    /\ Sending \/ dispatch = "DISPATCH_STARTED" =>
          (before # "UNKNOWN" => FALSE \in held)
    /\ Sending \/ wire # "none" => (Denied => wasClear)

EffectInv ==
    AskInv /\ HeldNow /\ SeenHeld /\ RowInv /\ SendInv /\ EffectIsTrue

-----------------------------------------------------------------------------

(* Whatever is true of one view is told of the command's effect as it is   *)
(* in that view.                                                           *)
LEMMA ClaimsOfAView ==
    ASSUME NEW v \in Observer!Views, NEW H, request \in Requests, Holds(Achieved(v), H)
    PROVE  LinksHeld(Observer!TrueOf(v), H) /\ ModeHeld(Observer!TrueOf(v), H)
  <1>1. ASSUME NEW L \in SUBSET Links, <<"links", L>> \in Observer!TrueOf(v)
        PROVE  L = Observer!Adjacent(v)
    BY <1>1 DEF Observer!TrueOf
  <1>2. LinksHeld(Observer!TrueOf(v), H)
    <2> SUFFICES ASSUME NEW L \in SUBSET Links, <<"links", L>> \in Observer!TrueOf(v)
                 PROVE  /\ request.kind = "unlink_node" => Holds(request.node \notin L, H)
                        /\ request.kind = "unlink_all" => Holds(L \subseteq foreign, H)
                        /\ request.kind = "link_node" /\ request.node \notin L
                              => FALSE \in H
      BY DEF LinksHeld
    <2>1. L = Observer!Adjacent(v)
      BY <1>1
    <2>2. request.node \in Links /\ request.mode \in Modes
      BY RequestsAssumption
    <2>3. v.mode[request.node] = "absent" <=> request.node \notin L
      BY <2>1, <2>2 DEF Observer!Adjacent
    <2>4. request.kind = "unlink_node" => Holds(request.node \notin L, H)
      BY <2>3 DEF Holds, Achieved
    <2>5. request.kind = "unlink_all" => Holds(L \subseteq foreign, H)
      BY <2>1 DEF Holds, Achieved
    <2>6. request.kind = "link_node" /\ request.node \notin L => FALSE \in H
      BY <2>2, <2>3, ModesAssumption DEF Holds, Achieved
    <2>7. QED  BY <2>4, <2>5, <2>6
  <1>3. ASSUME NEW m \in Modes \cup {"absent"}, NEW n \in Links,
               <<n, "mode", m>> \in Observer!TrueOf(v)
        PROVE  m = v.mode[n]
    BY <1>3 DEF Observer!TrueOf
  <1>4. ASSUME NEW n \in Links,
               <<n, "status", "CONNECTING">> \in Observer!TrueOf(v)
        PROVE  v.mode[n] = "C"
    BY <1>4 DEF Observer!TrueOf, Observer!StatusOf
  <1>5. ModeHeld(Observer!TrueOf(v), H)
    BY <1>3, <1>4, RequestsAssumption DEF ModeHeld, Holds, Achieved
  <1>6. QED  BY <1>2, <1>5

(* What effect_status makes of a snapshot the observer may return.         *)
LEMMA SnapshotEffect ==
    ASSUME AskInv, SeenHeld, Worker \in asking,
           NEW a \in Observer!Snapshots, Observer!ClaimsOf(a) \subseteq seen[Worker]
    PROVE  /\ effect_status(a) = "OBSERVED_SATISFIED" => TRUE \in held
           /\ effect_status(a) \in {"OBSERVED_PARTIAL", "OBSERVED_UNSATISFIED"}
                 => FALSE \in held
           /\ a.complete /\ request.kind # "announce"
                /\ effect_status(a) # "OBSERVED_SATISFIED" => FALSE \in held
  <1>1. CASE ~a.complete
    BY <1>1 DEF effect_status, Shows
  <1>2. CASE a.complete
    <2>1. a \in Observer!Complete
      BY <1>2 DEF Observer!Snapshots, Observer!Unknown
    <2>2. <<"links", a.links>> \in seen[Worker] /\ a.links \in SUBSET Links
      BY <1>2, <2>1 DEF Observer!ClaimsOf, Observer!Complete
    <2>3. request \in [kind : {"link_node", "unlink_node", "unlink_all", "announce"},
                       node : Links, mode : Modes \ {"C"}]
      BY RequestsAssumption DEF AskInv
    <2>4. CASE request.kind = "unlink_node"
      BY <1>2, <2>2, <2>4 DEF effect_status, Shows, SeenHeld, LinksHeld, Holds
    <2>5. CASE request.kind = "unlink_all"
      BY <1>2, <2>2, <2>5 DEF effect_status, Shows, SeenHeld, LinksHeld, Holds
    <2>6. CASE request.kind = "announce"
      BY <1>2, <2>6 DEF effect_status, Shows
    <2>7. CASE request.kind = "link_node"
      <3> DEFINE n == request.node
      <3>1. n \in Links /\ a.mode \in [Links -> Modes \cup {"UNKNOWN"}]
        BY <2>1, <2>3 DEF Observer!Complete
      <3>2. CASE n \notin a.links
        BY <1>2, <2>2, <2>7, <3>2 DEF effect_status, Shows, SeenHeld, LinksHeld, Holds
      <3>3. CASE n \in a.links
        <4> DEFINE m == IF a.mode[n] = "UNKNOWN" THEN "absent" ELSE a.mode[n]
        <4>1. <<n, "mode", m>> \in seen[Worker]
          BY <1>2, <3>3 DEF Observer!ClaimsOf
        <4>2. m \in Modes \cup {"absent"}
          BY <3>1
        <4>3. Holds(m = request.mode, held)
          BY <2>7, <4>1, <4>2 DEF SeenHeld, ModeHeld
        <4>4. m = request.mode <=> a.mode[n] = request.mode
          BY <2>3, <3>1, ModesAssumption
        <4>5. n \notin a.up => FALSE \in held
          <5>1. n \notin a.up => <<n, "status", "CONNECTING">> \in seen[Worker]
            BY <1>2, <3>3 DEF Observer!ClaimsOf
          <5>2. QED  BY <2>7, <5>1 DEF SeenHeld, ModeHeld
        <4>6. QED
          BY <1>2, <2>7, <3>3, <4>3, <4>4, <4>5 DEF effect_status, Shows, Holds
      <3>4. QED  BY <3>2, <3>3
    <2>8. QED  BY <2>3, <2>4, <2>5, <2>6, <2>7
  <1>3. QED  BY <1>1, <1>2 DEF Observer!Snapshots, Observer!Complete, Observer!Unknown

(* More that has been true, and a longer history. *)
LEMMA HeldGrows ==
    ASSUME NEW S, NEW T, NEW H, NEW I, H \subseteq I,
           LinksHeld(S, H), ModeHeld(S, H), LinksHeld(T, I), ModeHeld(T, I)
    PROVE  LinksHeld(S \cup T, I) /\ ModeHeld(S \cup T, I)
  BY DEF LinksHeld, ModeHeld, Holds

(* SeenHeld after a step that leaves the request alone. *)
LEMMA SeenHeldNext ==
    ASSUME request' = request, foreign' = foreign,
           Worker \in asking' =>
              /\ LinksHeld(seen'[Worker], held') /\ ModeHeld(seen'[Worker], held')
              /\ pc' = "observe" /\ <<"traffic", "CLEAR">> \in seen'[Worker] => wasClear'
    PROVE  SeenHeld'
  BY DEF SeenHeld, LinksHeld, ModeHeld, ClearHeld, Holds

(* Only the node, or only the place of the worker, changes. *)
LEMMA AchievedNext ==
    ASSUME request' = request, foreign' = foreign, view' = view, held' = held, HeldNow
    PROVE  HeldNow'
  BY DEF HeldNow, Achieved, Holds, Observer!Adjacent

-----------------------------------------------------------------------------

LEMMA ChangeKeepsInv ==
    ASSUME EffectInv, NodeChanges, UNCHANGED <<request, foreign>>
    PROVE  EffectInv'
  <1>1. PICK v \in Observer!Views :
           /\ Observer!Change(v)
           /\ held' = held \cup {Achieved(v)}
           /\ wasClear' = (wasClear \/ (pc = "observe" /\ v.clear))
    BY DEF NodeChanges
  <1>2. UNCHANGED <<request, foreign, pc, asking, dispatch, effect, before, wire>>
    BY <1>1 DEF NodeChanges, Observer!Change, rowVars
  <1>3. view' = v /\ DOMAIN seen' = {Worker}
           /\ (Worker \in asking => seen'[Worker] = seen[Worker] \cup Observer!TrueOf(v))
    BY <1>1 DEF Observer!Change
  <1>4. AskInv'
    BY <1>2, <1>3 DEF EffectInv, AskInv, Observer!Views
  <1>5. Holds(Achieved(v), held')
    <2>1. Achieved(v) \in BOOLEAN
      BY DEF Achieved
    <2>2. QED  BY <1>1, <2>1 DEF Holds
  <1>6. HeldNow'
    <2>1. Achieved(view)' <=> Achieved(v)
      BY <1>2, <1>3 DEF Achieved, Observer!Adjacent
    <2>2. QED  BY <1>5, <2>1 DEF HeldNow, Holds
  <1>7. SeenHeld'
    <2>1. LinksHeld(Observer!TrueOf(v), held') /\ ModeHeld(Observer!TrueOf(v), held')
      BY <1>5, ClaimsOfAView DEF EffectInv, AskInv
    <2>2. ASSUME Worker \in asking
          PROVE  /\ LinksHeld(seen'[Worker], held') /\ ModeHeld(seen'[Worker], held')
                 /\ pc = "observe" /\ <<"traffic", "CLEAR">> \in seen'[Worker] => wasClear'
      <3>1. LinksHeld(seen'[Worker], held') /\ ModeHeld(seen'[Worker], held')
        BY <1>1, <1>3, <2>1, <2>2, HeldGrows DEF EffectInv, SeenHeld
      <3>2. <<"traffic", "CLEAR">> \in Observer!TrueOf(v) => v.clear
        BY DEF Observer!TrueOf, Observer!TrafficOf
      <3>3. QED  BY <1>1, <1>3, <2>2, <3>1, <3>2 DEF EffectInv, SeenHeld, ClearHeld
    <2>3. QED  BY <1>2, <2>2, SeenHeldNext
  <1>8. RowInv' /\ SendInv' /\ EffectIsTrue'
    BY <1>1, <1>2 DEF EffectInv, RowInv, SendInv, Sending, Denied, EffectIsTrue
  <1>9. QED  BY <1>4, <1>6, <1>7, <1>8 DEF EffectInv

(* An answer ends what the worker may ask of what has been seen.           *)
LEMMA NotAsking ==
    ASSUME Worker \notin asking', request' = request, foreign' = foreign
    PROVE  SeenHeld'
  BY DEF SeenHeld

(* Only a complete snapshot says anything of the traffic.                  *)
LEMMA TrafficIsClaimed ==
    ASSUME NEW a \in Observer!Snapshots
    PROVE  /\ a.traffic \in {"CLEAR", "ACTIVE", "UNKNOWN"}
           /\ a.traffic # "UNKNOWN" => a.complete
  <1>1. CASE a \in Observer!Complete
    BY <1>1 DEF Observer!Complete
  <1>2. CASE a = Observer!Unknown
    BY <1>2 DEF Observer!Unknown
  <1>3. QED  BY <1>1, <1>2 DEF Observer!Snapshots

LEMMA FirstSnapshotKeepsInv ==
    ASSUME EffectInv, FirstSnapshot, UNCHANGED <<request, foreign>>
    PROVE  EffectInv'
  <1>1. PICK a \in Observer!Snapshots :
           Observer!Answer(Worker, a) /\ before' = a.traffic /\ Decide(a)
    BY DEF FirstSnapshot
  <1>2. /\ UNCHANGED <<request, foreign, view, wire, held, wasClear>>
        /\ pc = "observe" /\ dispatch = "QUEUED" /\ effect = "PENDING"
        /\ wire = "none"
        /\ Worker \in asking /\ Observer!ClaimsOf(a) \subseteq seen[Worker]
        /\ Worker \notin asking'
        /\ DOMAIN seen' = {Worker}
    BY <1>1 DEF FirstSnapshot, Observer!Answer, EffectInv, RowInv, AskInv
  <1>3. /\ effect_status(a) = "OBSERVED_SATISFIED" => TRUE \in held
        /\ a.complete /\ request.kind # "announce"
             /\ effect_status(a) # "OBSERVED_SATISFIED" => FALSE \in held
    BY <1>2, SnapshotEffect DEF EffectInv
  <1>4. CASE Finish("NOT_DISPATCHED", effect_status(a)) /\ request.kind # "announce"
                /\ effect_status(a) = "OBSERVED_SATISFIED"
    <2>1. /\ pc' = "none"
          /\ \/ dispatch' = "NOT_DISPATCHED" /\ effect' = "OBSERVED_SATISFIED"
             \/ dispatch' = dispatch /\ effect' = effect
      BY <1>4 DEF Finish, Goto, rowVars
    <2>2. RowInv' /\ SendInv' /\ EffectIsTrue'
      BY <1>2, <1>3, <1>4, <2>1 DEF RowInv, SendInv, Sending, EffectIsTrue
    <2>3. AskInv' /\ HeldNow' /\ SeenHeld'
      BY <1>2, AchievedNext, NotAsking DEF EffectInv, AskInv, Observer!Views
    <2>4. QED  BY <2>2, <2>3 DEF EffectInv
  <1>5. CASE Finish("NOT_DISPATCHED", "NOT_ATTEMPTED")
    <2>1. /\ pc' = "none"
          /\ \/ dispatch' = "NOT_DISPATCHED" /\ effect' = "NOT_ATTEMPTED"
             \/ dispatch' = dispatch /\ effect' = effect
      BY <1>5 DEF Finish, Goto, rowVars
    <2>2. RowInv' /\ SendInv' /\ EffectIsTrue'
      BY <1>2, <2>1 DEF RowInv, SendInv, Sending, EffectIsTrue
    <2>3. AskInv' /\ HeldNow' /\ SeenHeld'
      BY <1>2, AchievedNext, NotAsking DEF EffectInv, AskInv, Observer!Views
    <2>4. QED  BY <2>2, <2>3 DEF EffectInv
  <1>6. CASE /\ Permits(a) /\ Goto("connect") /\ UNCHANGED <<healthy, rowVars>>
             /\ request.kind = "announce" \/ effect_status(a) # "OBSERVED_SATISFIED"
    <2>1. pc' = "connect" /\ UNCHANGED <<dispatch, effect>>
      BY <1>6 DEF Goto, rowVars
    <2>2. before' # "UNKNOWN" => FALSE \in held
      <3>1. CASE request.kind = "announce"
        BY <3>1 DEF EffectInv, HeldNow, Achieved, Holds
      <3>2. CASE request.kind # "announce"
        <4>1. before' # "UNKNOWN" => a.complete
          BY <1>1, TrafficIsClaimed
        <4>2. QED  BY <1>3, <1>6, <3>2, <4>1
      <3>3. QED  BY <3>1, <3>2
    <2>3. Denied => wasClear
      <3>1. a.traffic \in {"CLEAR", "ACTIVE", "UNKNOWN"} /\ (a.traffic = "CLEAR" => a.complete)
        BY TrafficIsClaimed
      <3>2. Denied => a.traffic = "CLEAR"
        BY <1>6, <3>1 DEF Denied, Permits
      <3>3. a.traffic = "CLEAR" => <<"traffic", "CLEAR">> \in seen[Worker]
        BY <1>2, <3>1 DEF Observer!ClaimsOf
      <3>4. QED  BY <1>2, <3>2, <3>3 DEF EffectInv, SeenHeld, ClearHeld
    <2>4. RowInv' /\ SendInv' /\ EffectIsTrue'
      BY <1>2, <2>1, <2>2, <2>3 DEF RowInv, SendInv, Sending, Denied, EffectIsTrue
    <2>5. AskInv' /\ HeldNow' /\ SeenHeld'
      BY <1>2, AchievedNext, NotAsking DEF EffectInv, AskInv, Observer!Views
    <2>6. QED  BY <2>4, <2>5 DEF EffectInv
  <1>7. QED  BY <1>1, <1>4, <1>5, <1>6 DEF Decide

(* The end of a task that tells nothing about an effect.                   *)
LEMMA EndKeepsInv ==
    ASSUME EffectInv, NEW status, NEW result, Finish(status, result),
           status # "DISPATCH_STARTED",
           result \notin {"OBSERVED_SATISFIED", "OBSERVED_PARTIAL", "OBSERVED_UNSATISFIED"},
           StopAsking, pc # "none", UNCHANGED <<request, foreign, before, wire, held, wasClear>>
    PROVE  EffectInv'
  <1>1. view' = view /\ Worker \notin asking' /\ DOMAIN seen' = {Worker}
    BY DEF StopAsking, Observer!Answer, observerVars, EffectInv, AskInv
  <1>2. /\ pc' = "none"
        /\ \/ dispatch' = status /\ effect' = result
           \/ dispatch' = dispatch /\ effect' = effect
    BY DEF Finish, Goto, rowVars
  <1>3. RowInv' /\ SendInv' /\ EffectIsTrue'
    BY <1>2 DEF EffectInv, RowInv, SendInv, Sending, Denied, EffectIsTrue
  <1>4. AskInv' /\ HeldNow' /\ SeenHeld'
    BY <1>1, AchievedNext, NotAsking DEF EffectInv, AskInv, Observer!Views
  <1>5. QED  BY <1>3, <1>4 DEF EffectInv

LEMMA NextSnapshotKeepsInv ==
    ASSUME EffectInv, NextSnapshot, UNCHANGED <<request, foreign>>
    PROVE  EffectInv'
  <1>1. PICK a \in Observer!Snapshots : Observer!Answer(Worker, a) /\ Verify(a)
    BY DEF NextSnapshot
  <1>2. /\ UNCHANGED <<request, foreign, view, wire, held, wasClear, before>>
        /\ pc = "verify" /\ dispatch = "ACKNOWLEDGED" /\ effect = "PENDING"
        /\ Worker \in asking /\ Observer!ClaimsOf(a) \subseteq seen[Worker]
        /\ Worker \notin asking'
        /\ DOMAIN seen' = {Worker}
    BY <1>1 DEF NextSnapshot, Observer!Answer, EffectInv, RowInv, AskInv
  <1>3. /\ effect_status(a) = "OBSERVED_SATISFIED" => TRUE \in held
        /\ effect_status(a) \in {"OBSERVED_PARTIAL", "OBSERVED_UNSATISFIED"}
              => FALSE \in held
    BY <1>2, SnapshotEffect DEF EffectInv
  <1>4. /\ pc' \in {"none", "verify"} /\ dispatch' = "ACKNOWLEDGED"
        /\ \/ pc' = "none" /\ effect' = effect_status(a)
           \/ effect' = effect
    BY <1>1, <1>2 DEF Verify, Finish, Goto, rowVars
  <1>5. RowInv' /\ SendInv' /\ EffectIsTrue'
    BY <1>2, <1>3, <1>4 DEF EffectInv, RowInv, SendInv, Sending, Denied, EffectIsTrue
  <1>6. AskInv' /\ HeldNow' /\ SeenHeld'
    BY <1>2, AchievedNext, NotAsking DEF EffectInv, AskInv, Observer!Views
  <1>7. QED  BY <1>5, <1>6 DEF EffectInv

(* Steps that neither ask nor learn anything.                              *)
LEMMA QuietKeepsObserved ==
    ASSUME EffectInv, UNCHANGED <<request, foreign, view, asking, seen, held, wasClear>>,
           pc' = pc \/ pc \notin {"observe", "verify"}
    PROVE  AskInv' /\ HeldNow' /\ SeenHeld'
  <1>1. AskInv'
    BY DEF EffectInv, AskInv, Observer!Views
  <1>2. HeldNow'
    BY AchievedNext DEF EffectInv
  <1>3. SeenHeld'
    <2>1. Worker \in asking => pc' = pc
      BY DEF EffectInv, AskInv
    <2>2. QED  BY <2>1, SeenHeldNext DEF EffectInv, SeenHeld, ClearHeld
  <1>4. QED  BY <1>1, <1>2, <1>3

LEMMA AcknowledgedKeepsInv ==
    ASSUME EffectInv, Acknowledged, UNCHANGED <<request, foreign>>
    PROVE  EffectInv'
  <1>1. /\ UNCHANGED <<request, foreign, view, asking, seen, wasClear, wire, before, effect>>
        /\ pc = "reply" /\ effect = "PENDING" /\ Worker \notin asking
    BY DEF Acknowledged, observerVars, rowVars, EffectInv, RowInv, AskInv
  <1>2. CASE /\ dispatch' = "ACKNOWLEDGED" /\ pc' \in {"announced", "verify"}
             /\ held' = {Achieved(view)}
    <2>1. HeldNow'
      <3>1. Achieved(view)' <=> Achieved(view)
        BY <1>1 DEF Achieved, Observer!Adjacent
      <3>2. Achieved(view) \in BOOLEAN
        BY DEF Achieved
      <3>3. QED  BY <1>2, <3>1, <3>2 DEF HeldNow, Holds
    <2>2. AskInv' /\ SeenHeld'
      BY <1>1, NotAsking DEF EffectInv, AskInv, Observer!Views
    <2>3. RowInv' /\ SendInv' /\ EffectIsTrue'
      BY <1>1, <1>2 DEF EffectInv, RowInv, SendInv, Sending, Denied, EffectIsTrue
    <2>4. QED  BY <2>1, <2>2, <2>3 DEF EffectInv
  <1>3. CASE pc' = "none" /\ UNCHANGED <<dispatch, held>>
    <2>1. AskInv' /\ HeldNow' /\ SeenHeld'
      BY <1>1, <1>3, QuietKeepsObserved
    <2>2. RowInv' /\ SendInv' /\ EffectIsTrue'
      BY <1>1, <1>3 DEF EffectInv, RowInv, SendInv, Sending, Denied, EffectIsTrue
    <2>3. QED  BY <2>1, <2>2 DEF EffectInv
  <1>4. QED  BY <1>2, <1>3 DEF Acknowledged, Goto, rowVars

LEMMA AskAgainKeepsInv ==
    ASSUME EffectInv, AskAgain, UNCHANGED <<request, foreign>>
    PROVE  EffectInv'
  <1>1. /\ UNCHANGED <<request, foreign, view, pc, dispatch, effect, before, wire, held,
                       wasClear>>
        /\ pc = "verify" /\ DOMAIN seen' = {Worker}
        /\ seen'[Worker] = Observer!TrueOf(view)
    BY DEF AskAgain, Observer!Ask, rowVars, EffectInv, AskInv
  <1>2. AskInv'
    BY <1>1 DEF EffectInv, AskInv, Observer!Views
  <1>3. HeldNow'
    BY <1>1, AchievedNext DEF EffectInv
  <1>4. SeenHeld'
    <2>1. LinksHeld(Observer!TrueOf(view), held) /\ ModeHeld(Observer!TrueOf(view), held)
      BY ClaimsOfAView DEF EffectInv, AskInv, HeldNow
    <2>2. QED  BY <1>1, <2>1, SeenHeldNext
  <1>5. RowInv' /\ SendInv' /\ EffectIsTrue'
    BY <1>1 DEF EffectInv, RowInv, SendInv, Sending, Denied, EffectIsTrue
  <1>6. QED  BY <1>2, <1>3, <1>4, <1>5 DEF EffectInv

LEMMA StepKeepsInv ==
    ASSUME EffectInv, [Next]_vars
    PROVE  EffectInv'
  <1>1. CASE UNCHANGED vars
    <2>1. AskInv' /\ HeldNow' /\ SeenHeld'
      BY <1>1, QuietKeepsObserved DEF vars
    <2>2. RowInv' /\ SendInv' /\ EffectIsTrue'
      BY <1>1 DEF vars, EffectInv, RowInv, SendInv, Sending, Denied, EffectIsTrue
    <2>3. QED  BY <2>1, <2>2 DEF EffectInv
  <1>2. ASSUME UNCHANGED <<request, foreign>>
        PROVE  /\ NodeChanges \/ FirstSnapshot \/ Acknowledged \/ AskAgain \/ NextSnapshot
                    => EffectInv'
    BY <1>2, ChangeKeepsInv, FirstSnapshotKeepsInv, AcknowledgedKeepsInv,
       AskAgainKeepsInv, NextSnapshotKeepsInv
  <1>3. CASE NodeDecides /\ UNCHANGED <<request, foreign>>
    <2>1. AskInv' /\ HeldNow' /\ SeenHeld'
      BY <1>3, QuietKeepsObserved DEF NodeDecides, observerVars
    <2>2. RowInv' /\ SendInv' /\ EffectIsTrue'
      BY <1>3 DEF NodeDecides, rowVars, EffectInv, RowInv, SendInv, Sending, Denied,
                  EffectIsTrue
    <2>3. QED  BY <2>1, <2>2 DEF EffectInv
  <1>4. CASE Close /\ UNCHANGED <<request, foreign>>
    <2>1. AskInv' /\ HeldNow' /\ SeenHeld'
      BY <1>4, QuietKeepsObserved DEF Close, Observer!Invalidate
    <2>2. RowInv' /\ SendInv' /\ EffectIsTrue'
      BY <1>4 DEF Close, rowVars, EffectInv, RowInv, SendInv, Sending, Denied, EffectIsTrue
    <2>3. QED  BY <2>1, <2>2 DEF EffectInv
  <1>5. CASE (CrossBarrier \/ Write) /\ UNCHANGED <<request, foreign>>
    <2>1. AskInv' /\ HeldNow' /\ SeenHeld'
      BY <1>5, QuietKeepsObserved DEF CrossBarrier, Write, observerVars, Goto
    <2>2. RowInv' /\ SendInv' /\ EffectIsTrue'
      BY <1>5 DEF CrossBarrier, Write, Goto, rowVars, EffectInv, RowInv, SendInv, Sending,
                  Denied, EffectIsTrue
    <2>3. QED  BY <2>1, <2>2 DEF EffectInv
  <1>6. CASE FailBeforeDispatch /\ UNCHANGED <<request, foreign>>
    BY <1>6, EndKeepsInv DEF FailBeforeDispatch
  <1>7. CASE FailAfterDispatch /\ UNCHANGED <<request, foreign>>
    BY <1>7, EndKeepsInv DEF FailAfterDispatch
  <1>8. CASE (Rejected \/ AnnouncementDone) /\ UNCHANGED <<request, foreign>>
    <2>1. StopAsking
      BY <1>8 DEF Rejected, AnnouncementDone, StopAsking, EffectInv, AskInv
    <2>2. CASE Rejected
      BY <1>8, <2>1, <2>2, EndKeepsInv DEF Rejected
    <2>3. CASE AnnouncementDone
      <3>1. dispatch # "DISPATCH_STARTED"
        BY <2>3 DEF AnnouncementDone, EffectInv, RowInv
      <3>2. QED  BY <1>8, <2>1, <2>3, <3>1, EndKeepsInv DEF AnnouncementDone
    <2>4. QED  BY <1>8, <2>2, <2>3
  <1>9. QED  BY <1>1, <1>2, <1>3, <1>4, <1>5, <1>6, <1>7, <1>8 DEF Next, WorkerStep, Over

LEMMA InitHasInv ==
    ASSUME Init
    PROVE  EffectInv
  <1>1. AskInv
    BY DEF Init, AskInv
  <1>2. HeldNow
    <2>1. Achieved(view) \in BOOLEAN
      BY DEF Achieved
    <2>2. QED  BY <2>1 DEF Init, HeldNow, Holds
  <1>3. SeenHeld
    <2>1. seen[Worker] = Observer!TrueOf(view)
      BY DEF Init
    <2>2. LinksHeld(Observer!TrueOf(view), held) /\ ModeHeld(Observer!TrueOf(view), held)
      BY <1>1, <1>2, ClaimsOfAView DEF AskInv, HeldNow
    <2>3. <<"traffic", "CLEAR">> \in Observer!TrueOf(view) => view.clear
      BY DEF Observer!TrueOf, Observer!TrafficOf
    <2>4. QED  BY <2>1, <2>2, <2>3 DEF Init, SeenHeld, ClearHeld
  <1>4. RowInv /\ SendInv /\ EffectIsTrue
    BY DEF Init, RowInv, SendInv, Sending, EffectIsTrue
  <1>5. QED  BY <1>1, <1>2, <1>3, <1>4 DEF EffectInv

(* The invariant holds in every reachable state of a worker and its node:  *)
(* what the observer may still claim agrees with the history.              *)
THEOREM EffectInvariance == Spec => []EffectInv
  <1>1. Init => EffectInv
    BY InitHasInv
  <1>2. EffectInv /\ [Next]_vars => EffectInv'
    BY StepKeepsInv
  <1>3. QED  BY <1>1, <1>2, PTL DEF Spec

(* The effect that execute and verify_effect save was real at an instant   *)
(* they answer for, and a lasting effect is never reported missing.        *)
THEOREM EffectsAreReal == Spec => []EffectIsTrue
  <1>1. EffectInv => EffectIsTrue
    BY DEF EffectInv
  <1>2. QED  BY <1>1, EffectInvariance, PTL

(* A command is sent only for a change that was to be made and, where the  *)
(* operator denies anything else, only after the node was really clear.    *)
THEOREM CommandsHaveReasons == Spec => []SentForAReason
  <1>1. EffectInv => SentForAReason
    BY DEF EffectInv, SendInv, Denied, SentForAReason
  <1>2. QED  BY <1>1, EffectInvariance, PTL

-----------------------------------------------------------------------------
(* The steps of ControlPlane.                                              *)

(* What EffectInv does not say of the row: nothing is on the wire until it *)
(* is written, the row of a live worker is not final, and the sample that  *)
(* admits the command is stale once the service closes.                    *)
PlaneInv ==
    /\ pc \in {"observe", "connect", "write"} => wire = "none"
    /\ pc # "none" => terminal = FALSE
    /\ pc = "observe" /\ phase = "closing" /\ Worker \in asking => Worker \in stale

(* One step of ControlPlane's invariant facts, action by action. *)
LEMMA StepKeepsPlaneInv ==
    ASSUME EffectInv, PlaneInv, [Next]_vars
    PROVE  PlaneInv'
  <1> USE DEF PlaneInv
  <1>1. CASE UNCHANGED vars  BY <1>1 DEF vars
  <1>2. CASE NodeChanges
    BY <1>2 DEF NodeChanges, Observer!Change, rowVars
  <1>3. CASE NodeDecides
    BY <1>3 DEF NodeDecides, observerVars, rowVars
  <1>4. CASE Close
    BY <1>4 DEF Close, Observer!Invalidate, rowVars
  <1>5. CASE FirstSnapshot
    <2>1. Worker \notin asking' /\ wire' = wire
      BY <1>5 DEF FirstSnapshot, Observer!Answer
    <2>2. pc = "observe"  BY <1>5 DEF FirstSnapshot
    <2>3. pc' = "none" \/ (pc' = "connect" /\ terminal' = terminal)
      BY <1>5 DEF FirstSnapshot, Decide, Finish, Goto, rowVars
    <2>4. QED  BY <2>1, <2>2, <2>3
  <1>6. CASE FailBeforeDispatch \/ Rejected \/ AnnouncementDone \/ FailAfterDispatch
    BY <1>6
    DEF FailBeforeDispatch, Rejected, AnnouncementDone, FailAfterDispatch, Finish, Goto
  <1>7. CASE CrossBarrier \/ Write
    BY <1>7 DEF CrossBarrier, Write, Goto, rowVars
  <1>8. CASE Acknowledged
    BY <1>8 DEF Acknowledged, Goto, rowVars
  <1>9. CASE AskAgain
    BY <1>9 DEF AskAgain, rowVars
  <1>10. CASE NextSnapshot
    BY <1>10 DEF NextSnapshot, Verify, Finish, Goto, rowVars
  <1>11. QED
    BY <1>1, <1>2, <1>3, <1>4, <1>5, <1>6, <1>7, <1>8, <1>9, <1>10
    DEF Next, WorkerStep, Over, vars

(* A function of the one process, or of the one operation. *)
LEMMA OnlyOne ==
    ASSUME NEW x, NEW a, NEW b
    PROVE  /\ [y \in {x} |-> a][x] = a
           /\ [[y \in {x} |-> a] EXCEPT ![x] = b] = [y \in {x} |-> b]
  OBVIOUS

(* What ControlPlane reads of the worker. *)
LEMMA PlaneReads ==
    ASSUME request \in Requests
    PROVE  Plane!KindOf("operation") = request.kind
  BY DEF Plane!KindOf

(* A snapshot of the observer, as ControlPlane's worker sees it. *)
Sampled(a) == [traffic |-> a.traffic, effect |-> effect_status(a)]

LEMMA SampledIsASnapshot ==
    ASSUME NEW a \in Observer!Snapshots, request \in Requests
    PROVE  Sampled(a) \in Plane!Snapshots(request.kind)
  <1>1. request.kind \in {"link_node", "unlink_node", "unlink_all", "announce"}
    BY RequestsAssumption
  <1>2. CASE a = Observer!Unknown
    <2>1. a.complete = FALSE /\ a.traffic = "UNKNOWN"
      BY <1>2 DEF Observer!Unknown
    <2>2. effect_status(a) = "UNKNOWN"
      BY <2>1 DEF effect_status
    <2>3. QED  BY <2>1, <2>2 DEF Sampled, Plane!Snapshots
  <1>3. CASE a \in Observer!Complete
    <2>1. a.complete = TRUE /\ a.traffic \in {"CLEAR", "ACTIVE"}
      BY <1>3 DEF Observer!Complete
    <2>2. effect_status(a) \in Plane!Observable(request.kind)
      BY <1>1, <2>1 DEF effect_status, Shows, Plane!Observable
    <2>3. QED  BY <2>1, <2>2 DEF Sampled, Plane!Snapshots
  <1>4. QED  BY <1>2, <1>3 DEF Observer!Snapshots

(* The end of the worker's task is the end ControlPlane gives it.          *)
LEMMA FinishIsPlanes ==
    ASSUME NEW status, NEW result, Finish(status, result), pc # "none",
           UNCHANGED <<request, phase, wire>>
    PROVE  Plane!Finish("operation", status, result)
  <1>1. Plane!EndTask("operation")
    <2>1. Plane!Goto("operation", "none")
      BY OnlyOne DEF Finish, Goto, Plane!Goto
    <2>2. [p \in {"process"} |-> IF pc' = "none" THEN "nothing" ELSE "operation"]
             = [[p \in {"process"} |-> IF pc = "none" THEN "nothing" ELSE "operation"]
                   EXCEPT !["process"] = IF @ = "operation" THEN "nothing" ELSE @]
      BY OnlyOne DEF Finish, Goto
    <2>3. QED  BY <2>1, <2>2 DEF Plane!EndTask
  <1>2. \/ Plane!SaveTerminal("operation", status, result) /\ healthy' = healthy
        \/ Plane!SaveFails("operation")
    <2>1. ASSUME dispatch' = status, effect' = result, terminal' = TRUE
          PROVE  Plane!SaveTerminal("operation", status, result)
      BY <2>1, OnlyOne DEF Plane!SaveTerminal
    <2>2. ASSUME healthy' = FALSE, UNCHANGED rowVars
          PROVE  Plane!SaveFails("operation")
      BY <2>2, OnlyOne DEF rowVars, Plane!SaveFails, Plane!rowVars
    <2>3. QED  BY <2>1, <2>2 DEF Finish
  <1>3. QED
    BY <1>1, <1>2 DEF Plane!Finish, Plane!nodeVars

(* The first snapshot: what Decide makes of it, ControlPlane's worker may. *)
LEMMA FirstSnapshotIsPlanes ==
    ASSUME EffectInv, PlaneInv, FirstSnapshot, UNCHANGED <<request, foreign>>
    PROVE  Plane!WorkerStep("operation")
  <1>1. PICK a \in Observer!Snapshots :
           Observer!Answer(Worker, a) /\ before' = a.traffic /\ Decide(a)
    BY DEF FirstSnapshot
  <1>2. /\ request \in Requests /\ pc = "observe"
        /\ UNCHANGED <<phase, wire>>
    BY DEF FirstSnapshot, EffectInv, AskInv
  <1>3. Sampled(a) \in Plane!Snapshots(Plane!KindOf("operation"))
    BY <1>2, SampledIsASnapshot, PlaneReads
  <1>4. Plane!Sample("operation", Sampled(a))
    <2>1. phase = "closing" => a.traffic = "UNKNOWN"
      <3>1. phase = "closing" => ~a.complete
        BY <1>1, <1>2 DEF PlaneInv, Observer!Answer
      <3>2. QED  BY <3>1, TrafficIsClaimed
    <2>2. QED  BY <1>1, <2>1, OnlyOne DEF Plane!Sample, Sampled
  <1>5. CASE /\ Finish("NOT_DISPATCHED", effect_status(a))
             /\ effect_status(a) = "OBSERVED_SATISFIED"
    <2>1. Plane!Finish("operation", "NOT_DISPATCHED", "OBSERVED_SATISFIED")
      BY <1>2, <1>5, FinishIsPlanes
    <2>2. Sampled(a).effect = "OBSERVED_SATISFIED"
      BY <1>5 DEF Sampled
    <2>3. Plane!AlreadySatisfied("operation")
      BY <1>2, <1>3, <1>4, <2>1, <2>2 DEF Plane!AlreadySatisfied
    <2>4. QED  BY <2>3 DEF Plane!WorkerStep
  <1>6. ASSUME ~(request.kind # "announce" /\ effect_status(a) = "OBSERVED_SATISFIED")
        PROVE  /\ Sampled(a).effect # "OBSERVED_SATISFIED"
               /\ Permits(a) <=> Plane!Permits(Plane!KindOf("operation"), Sampled(a).traffic)
    <2>1. Sampled(a).effect # "OBSERVED_SATISFIED"
      BY <1>6 DEF Sampled, effect_status
    <2>2. a.traffic \in {"CLEAR", "ACTIVE", "UNKNOWN"}
      BY TrafficIsClaimed
    <2>3. QED  BY <1>2, <2>1, <2>2, PlaneReads DEF Permits, Plane!Permits, Sampled
  <1>7. CASE /\ ~(request.kind # "announce" /\ effect_status(a) = "OBSERVED_SATISFIED")
             /\ ~Permits(a) /\ Finish("NOT_DISPATCHED", "NOT_ATTEMPTED")
    <2>1. Plane!Finish("operation", "NOT_DISPATCHED", "NOT_ATTEMPTED")
      BY <1>2, <1>7, FinishIsPlanes
    <2>2. Plane!PolicyDenies("operation")
      BY <1>2, <1>3, <1>4, <1>6, <1>7, <2>1 DEF Plane!PolicyDenies
    <2>3. QED  BY <2>2 DEF Plane!WorkerStep
  <1>8. CASE /\ ~(request.kind # "announce" /\ effect_status(a) = "OBSERVED_SATISFIED")
             /\ Permits(a) /\ Goto("connect") /\ UNCHANGED <<healthy, rowVars>>
    <2>1. Plane!Goto("operation", "connect")
      BY <1>8, OnlyOne DEF Goto, Plane!Goto
    <2>2. UNCHANGED <<Plane!procVars, Plane!rowVars, Plane!nodeVars>>
      BY <1>2, <1>8
      DEF Goto, rowVars, Plane!procVars, Plane!rowVars, Plane!nodeVars
    <2>3. Plane!PolicyAllows("operation")
      BY <1>2, <1>3, <1>4, <1>6, <1>8, <2>1, <2>2 DEF Plane!PolicyAllows
    <2>4. QED  BY <2>3 DEF Plane!WorkerStep
  <1>9. QED  BY <1>1, <1>5, <1>7, <1>8 DEF Decide

(* A later snapshot ends the operation with the effect it shows, or does   *)
(* not show in ControlPlane.                                               *)
LEMMA NextSnapshotIsPlanes ==
    ASSUME EffectInv, NextSnapshot, UNCHANGED <<request, foreign>>
    PROVE  Plane!WorkerStep("operation") \/ UNCHANGED Plane!vars
  <1>1. PICK a \in Observer!Snapshots : Observer!Answer(Worker, a) /\ Verify(a)
    BY DEF NextSnapshot
  <1>2. /\ request \in Requests /\ pc = "verify"
        /\ UNCHANGED <<phase, before, wire>>
    BY DEF NextSnapshot, EffectInv, AskInv
  <1>3. CASE Finish(dispatch, effect_status(a))
    <2>1. Plane!Finish("operation", dispatch, Sampled(a).effect)
      BY <1>2, <1>3, FinishIsPlanes DEF Sampled
    <2>2. Sampled(a) \in Plane!Snapshots(Plane!KindOf("operation"))
      BY <1>2, SampledIsASnapshot, PlaneReads
    <2>3. Plane!Verified("operation")
      BY <1>2, <2>1, <2>2 DEF Plane!Verified
    <2>4. QED  BY <2>3 DEF Plane!WorkerStep
  <1>4. CASE UNCHANGED <<pc, healthy, rowVars>>
    BY <1>2, <1>4 DEF rowVars, Plane!vars
  <1>5. QED  BY <1>1, <1>3, <1>4 DEF Verify

(* The worker's other steps, one of ControlPlane's each. *)
LEMMA OtherWorkerSteps ==
    ASSUME EffectInv, PlaneInv, UNCHANGED <<request, foreign>>,
           FailBeforeDispatch \/ CrossBarrier \/ Write \/ Rejected \/ Acknowledged
              \/ AnnouncementDone \/ FailAfterDispatch
    PROVE  Plane!WorkerStep("operation")
  <1> DEFINE o == "operation"
  <1>1. CASE FailBeforeDispatch
    <2>1. pc \in {"observe", "connect"} /\ UNCHANGED <<phase, wire, before>>
      BY <1>1 DEF FailBeforeDispatch
    <2>2. Plane!Finish(o, "NOT_DISPATCHED", "NOT_ATTEMPTED")
      BY <1>1, <2>1, FinishIsPlanes DEF FailBeforeDispatch
    <2>3. Plane!FailBeforeDispatch(o)
      BY <2>1, <2>2 DEF Plane!FailBeforeDispatch, Plane!BeforeBarrier
    <2>4. QED  BY <2>3 DEF Plane!WorkerStep
  <1>2. CASE CrossBarrier
    <2>1. /\ pc = "connect" /\ phase = "up" /\ healthy
          /\ dispatch = "QUEUED" /\ terminal = FALSE
          /\ dispatch' = "DISPATCH_STARTED" /\ pc' = "write"
          /\ UNCHANGED <<phase, healthy, effect, terminal, before, wire>>
      BY <1>2 DEF CrossBarrier, Goto, EffectInv, RowInv, PlaneInv
    <2>2. Plane!Available("process")
      BY <2>1 DEF Plane!Available
    <2>3. Plane!StartDispatch(o)
      BY <2>1, OnlyOne DEF Plane!StartDispatch
    <2>4. Plane!Goto(o, "write")
      BY <2>1, OnlyOne DEF Plane!Goto
    <2>5. Plane!CrossBarrier(o)
      BY <2>1, <2>2, <2>3, <2>4
      DEF Plane!CrossBarrier, Plane!procVars, Plane!nodeVars
    <2>6. QED  BY <2>5 DEF Plane!WorkerStep
  <1>3. CASE Write
    <2>1. /\ pc = "write" /\ wire = "none" /\ wire' = "pending" /\ pc' = "reply"
          /\ UNCHANGED <<phase, healthy, dispatch, effect, terminal, before>>
      BY <1>3 DEF Write, Goto, rowVars, PlaneInv
    <2>2. [x \in {o} |-> IF wire' = "none" THEN 0 ELSE 1]
             = [[x \in {o} |-> IF wire = "none" THEN 0 ELSE 1] EXCEPT ![o] = @ + 1]
      BY <2>1
    <2>3. Plane!Goto(o, "reply")
      BY <2>1, OnlyOne DEF Plane!Goto
    <2>4. [x \in {o} |-> wire'] = [[x \in {o} |-> wire] EXCEPT ![o] = "pending"]
      BY <2>1, OnlyOne
    <2>5. UNCHANGED <<Plane!procVars, Plane!rowVars>>
      BY <2>1 DEF Plane!procVars, Plane!rowVars
    <2>6. Plane!Write(o)
      BY <2>1, <2>2, <2>3, <2>4, <2>5 DEF Plane!Write
    <2>7. QED  BY <2>6 DEF Plane!WorkerStep
  <1>4. CASE Rejected
    <2>1. pc = "reply" /\ wire = "refused" /\ UNCHANGED <<phase, wire, before>>
      BY <1>4 DEF Rejected
    <2>2. Plane!Finish(o, "REJECTED", "NOT_ATTEMPTED")
      BY <1>4, <2>1, FinishIsPlanes DEF Rejected
    <2>3. Plane!Rejected(o)
      BY <2>1, <2>2 DEF Plane!Rejected, Plane!CommandRejected
    <2>4. QED  BY <2>3 DEF Plane!WorkerStep
  <1>5. CASE Acknowledged
    <2>1. /\ pc = "reply" /\ UNCHANGED <<phase, before, wire>>
          /\ request \in Requests
      BY <1>5 DEF Acknowledged, EffectInv, AskInv
    <2>0. Plane!Replied(o) /\ ~Plane!CommandRejected(o)
      BY <1>5 DEF Acknowledged, Plane!Replied, Plane!CommandRejected
    <2>2. CASE /\ dispatch' = "ACKNOWLEDGED" /\ UNCHANGED <<effect, terminal, healthy>>
               /\ pc' = IF request.kind = "announce" THEN "announced" ELSE "verify"
      <3>1. Plane!Goto(o, IF Plane!KindOf(o) = "announce" THEN "announced" ELSE "verify")
        BY <2>1, <2>2, PlaneReads, OnlyOne DEF Plane!Goto
      <3>2. UNCHANGED Plane!procVars
        BY <2>1, <2>2 DEF Plane!procVars
      <3>3. [x \in {o} |-> dispatch']
               = [[x \in {o} |-> dispatch] EXCEPT ![o] = "ACKNOWLEDGED"]
        BY <2>2, OnlyOne
      <3>4. Plane!Acknowledged(o)
        BY <2>0, <2>1, <2>2, <3>1, <3>2, <3>3 DEF Plane!Acknowledged, Plane!nodeVars
      <3>5. QED  BY <3>4 DEF Plane!WorkerStep
    <2>3. CASE healthy' = FALSE /\ pc' = "none" /\ UNCHANGED <<dispatch, effect, terminal>>
      <3>1. Plane!SaveFails(o)
        BY <2>3, OnlyOne DEF Plane!SaveFails, Plane!rowVars
      <3>2. [x \in {"process"} |-> IF pc' = "none" THEN "nothing" ELSE o]
               = [[x \in {"process"} |-> IF pc = "none" THEN "nothing" ELSE o]
                     EXCEPT !["process"] = IF @ = o THEN "nothing" ELSE @]
        BY <2>1, <2>3
      <3>3. Plane!Goto(o, "none")
        BY <2>3, OnlyOne DEF Plane!Goto
      <3>4. Plane!EndTask(o)
        BY <3>2, <3>3 DEF Plane!EndTask
      <3>5. Plane!Acknowledged(o)
        BY <2>0, <2>1, <3>1, <3>4 DEF Plane!Acknowledged, Plane!nodeVars
      <3>6. QED  BY <3>5 DEF Plane!WorkerStep
    <2>4. QED  BY <1>5, <2>2, <2>3 DEF Acknowledged, Goto, rowVars
  <1>6. CASE AnnouncementDone
    <2>1. pc = "announced" /\ UNCHANGED <<phase, wire, before>>
      BY <1>6 DEF AnnouncementDone
    <2>2. Plane!Finish(o, dispatch, "UNKNOWN")
      BY <1>6, <2>1, FinishIsPlanes DEF AnnouncementDone
    <2>3. Plane!AnnouncementDone(o)
      BY <2>1, <2>2 DEF Plane!AnnouncementDone
    <2>4. QED  BY <2>3 DEF Plane!WorkerStep
  <1>7. CASE FailAfterDispatch
    <2>1. pc \in {"reply", "verify"} /\ UNCHANGED <<phase, wire, before>>
      BY <1>7 DEF FailAfterDispatch
    <2>2. Plane!Finish(o, "OUTCOME_UNKNOWN", "UNKNOWN")
      BY <1>7, <2>1, FinishIsPlanes DEF FailAfterDispatch
    <2>3. Plane!FailAfterDispatch(o)
      BY <2>1, <2>2 DEF Plane!FailAfterDispatch
    <2>4. QED  BY <2>3 DEF Plane!WorkerStep
  <1>8. QED  BY <1>1, <1>2, <1>3, <1>4, <1>5, <1>6, <1>7

(* Every step is one of ControlPlane's, or changes nothing it knows of.    *)
LEMMA StepIsPlanes ==
    ASSUME EffectInv, PlaneInv, [Next]_vars
    PROVE  [Plane!Next]_(Plane!vars)
  <1>1. CASE UNCHANGED vars
    BY <1>1 DEF vars, Plane!vars
  <1>2. CASE (NodeChanges \/ AskAgain) /\ UNCHANGED request
    BY <1>2 DEF NodeChanges, AskAgain, rowVars, Plane!vars
  <1>3. CASE NodeDecides /\ UNCHANGED request
    <2>1. /\ wire \in {"pending", "accepted"}
          /\ UNCHANGED <<phase, healthy, pc, dispatch, effect, terminal, before>>
      BY <1>3 DEF NodeDecides, rowVars
    <2>2. UNCHANGED <<Plane!procVars, Plane!rowVars, Plane!taskVars>>
      BY <1>3, <2>1 DEF Plane!procVars, Plane!rowVars, Plane!taskVars
    <2>3. CASE wire' = "executed"
      BY <2>1, <2>2, <2>3, OnlyOne DEF Plane!NodeRuns, Plane!NodeStep, Plane!Next
    <2>4. CASE wire = "pending" /\ wire' = "refused"
      BY <2>1, <2>2, <2>4, OnlyOne DEF Plane!NodeRefuses, Plane!NodeStep, Plane!Next
    <2>5. CASE wire = "pending" /\ wire' = "accepted"
      BY <2>1, <2>2, <2>5, OnlyOne DEF Plane!NodeAccepts, Plane!NodeStep, Plane!Next
    <2>6. QED  BY <1>3, <2>3, <2>4, <2>5 DEF NodeDecides
  <1>4. CASE Close /\ UNCHANGED request
    <2>1. /\ phase = "up" /\ pc \notin {"write", "announced"} /\ phase' = "closing"
          /\ UNCHANGED <<healthy, pc, dispatch, effect, terminal, before, wire>>
      BY <1>4 DEF Close, rowVars
    <2>2. UNCHANGED <<Plane!rowVars, Plane!taskVars, Plane!nodeVars>>
      BY <1>4, <2>1 DEF Plane!rowVars, Plane!taskVars, Plane!nodeVars
    <2>3. Plane!BeginClose("process")
      BY <2>1, <2>2, OnlyOne DEF Plane!BeginClose
    <2>4. QED  BY <2>3 DEF Plane!Next
  <1>5. CASE WorkerStep /\ ~AskAgain /\ UNCHANGED <<request, foreign>>
    <2>1. Plane!WorkerStep("operation") \/ UNCHANGED Plane!vars
      BY <1>5, FirstSnapshotIsPlanes, NextSnapshotIsPlanes, OtherWorkerSteps
      DEF WorkerStep
    <2>2. QED  BY <2>1 DEF Plane!Next
  <1>6. QED  BY <1>1, <1>2, <1>3, <1>4, <1>5 DEF Next, WorkerStep, Over

(* One worker that looks at a real node does nothing that the control      *)
(* plane's worker may not, for any links, requests and policy: what is     *)
(* proved of Platform with any number of processes holds of it.            *)
THEOREM WorkerIsPlanes == Spec => StepsOfControlPlane
  <1>1. Init => PlaneInv
    BY DEF Init, PlaneInv
  <1>2. EffectInv /\ PlaneInv /\ [Next]_vars => PlaneInv'
    BY StepKeepsPlaneInv
  <1>3. EffectInv /\ PlaneInv /\ [Next]_vars => [Plane!Next]_(Plane!vars)
    BY StepIsPlanes
  <1>4. QED
    BY <1>1, <1>2, <1>3, EffectInvariance, PTL DEF Spec, StepsOfControlPlane

(* The worker is first met in a state of ControlPlane's invariant, so that *)
(* every state its steps lead to is in it as well: ControlPlane_proofs     *)
(* shows that those steps preserve it.                                     *)
THEOREM WorkerStartsInPlane == Init => Plane!InductiveInvariant
  <1> SUFFICES ASSUME Init PROVE Plane!InductiveInvariant
    OBVIOUS
  <1>1. /\ phase = "up" /\ healthy = TRUE /\ pc = "observe" /\ dispatch = "QUEUED"
        /\ effect = "PENDING" /\ terminal = FALSE /\ before = "NONE" /\ wire = "none"
        /\ request \in Requests
    BY DEF Init
  <1>2. Plane!TypeOK
    BY <1>1
    DEF Plane!TypeOK, Plane!DispatchStatus, Plane!EffectStatus, Plane!WireStatus,
        Plane!Rows, Plane!Origins, Plane!BeforeBarrier, Plane!AfterBarrier
  <1>3. Plane!OwnerInv /\ Plane!WorkerInv /\ Plane!SlotInv
    BY <1>1
    DEF Plane!OwnerInv, Plane!WorkerInv, Plane!SlotInv, Plane!BeforeBarrier
  <1>4. Plane!RowInv /\ Plane!GateInv
    <2>1. (IF wire = "none" THEN 0 ELSE 1) = 0
      BY <1>1
    <2>2. Plane!RowInv
      BY <1>1, <2>1 DEF Plane!RowInv
    <2>3. Plane!GateInv
      BY <1>1, <2>1 DEF Plane!GateInv, Plane!AfterBarrier
    <2>4. QED  BY <2>2, <2>3
  <1>5. Plane!NoOrphan /\ Plane!OneUnfinished /\ Plane!SentOncePerRequest
    <2>1. \A x \in Plane!Rows : x = "operation"
      BY DEF Plane!Rows
    <2>2. Plane!NoOrphan /\ Plane!OneUnfinished
      BY <1>1, <2>1 DEF Plane!NoOrphan, Plane!OneUnfinished
    <2>3. (IF wire = "none" THEN 0 ELSE 1) <= 1
      BY <1>1
    <2>4. Plane!SentOncePerRequest
      BY <2>1, <2>3 DEF Plane!SentOncePerRequest
    <2>5. QED  BY <2>2, <2>4
  <1>6. QED
    BY <1>2, <1>3, <1>4, <1>5 DEF Plane!InductiveInvariant

=============================================================================
