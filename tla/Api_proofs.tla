----------------------------- MODULE Api_proofs -----------------------------
(***************************************************************************)
(* Why a retry is answered alike and a walk misses nothing, for any        *)
(* credentials, requests, keys, page size and number of rows.              *)
(*                                                                         *)
(* The ledger only grows, and who asked for a row, with which key and for  *)
(* what never changes; a key of a credential has one row at most.  So the  *)
(* look-up finds the row a client was told of, and no other.  A walk has   *)
(* in front of it what it has not seen: it counts rows from the newest,    *)
(* and new ones push the rest away from it, never past it.                 *)
(***************************************************************************)
EXTENDS Api, FiniteSetTheorems, TLAPS

(* What a client was told is in the ledger. *)
ToldInv ==
    \A a \in told : /\ ledger[a.id].who = a.who /\ ledger[a.id].key = a.key
                    /\ ledger[a.id].request = a.request

(* One row per key of a credential. *)
KeyInv ==
    \A i, j \in Ids :
        /\ ledger[i].key # NoKey
        /\ ledger[i].who = ledger[j].who /\ ledger[i].key = ledger[j].key
        => i = j

(* No connection to a process that is down is waiting. *)
CapsInv == (phase = "down" => caps = "none") /\ DisabledIsCurrent

(* What the walk has not seen is behind the rows it has counted. *)
WalkInv ==
    /\ walk.reading => \A i \in walk.missing : i + walk.offset <= Len(ledger)
    /\ PagingMissesNothing

ApiInv == TypeOK /\ ToldInv /\ KeyInv /\ CapsInv /\ WalkInv

-----------------------------------------------------------------------------

(* The rows stay what they are, finished or not.                           *)
Kept ==
    /\ ledger' \in Seq(Rows)
    /\ Len(ledger') = Len(ledger)
    /\ \A i \in Ids : /\ ledger'[i].who = ledger[i].who
                      /\ ledger'[i].key = ledger[i].key
                      /\ ledger'[i].request = ledger[i].request

LEMMA FinishedRowsAreKept ==
    ASSUME ledger \in Seq(Rows), NEW S,
           ledger' = [i \in Ids |-> IF i \in S THEN [ledger[i] EXCEPT !.terminal = TRUE]
                                               ELSE ledger[i]]
    PROVE  Kept
  <1>1. Ids = 1..Len(ledger) /\ \A i \in Ids : ledger[i] \in Rows
    BY DEF Ids
  <1>2. \A i \in Ids : ledger'[i] \in Rows
    BY <1>1 DEF Rows
  <1>3. ledger' \in Seq(Rows) /\ Len(ledger') = Len(ledger)
    BY <1>1, <1>2
  <1>4. QED  BY <1>1, <1>3 DEF Kept, Rows

LEMMA KeptRowsKeepInv ==
    ASSUME ApiInv, Kept, told' = told
    PROVE  ToldInv' /\ KeyInv'
  <1>1. Ids' = Ids
    BY DEF Kept, Ids, ApiInv, TypeOK
  <1>2. ToldInv'
    BY DEF Kept, Ids, ApiInv, TypeOK, ToldInv
  <1>3. KeyInv'
    BY <1>1 DEF Kept, ApiInv, KeyInv
  <1>4. QED  BY <1>2, <1>3

LEMMA WalkWaits ==
    ASSUME ApiInv, ledger' \in Seq(Rows), Len(ledger') >= Len(ledger), walk' = walk
    PROVE  WalkInv' /\ walk'.missing \subseteq Ids'
  BY DEF ApiInv, TypeOK, WalkInv, PagingMissesNothing, Ids

-----------------------------------------------------------------------------

(* A client that was told of an operation finds it, and only it.           *)
LEMMA LookupFindsTold ==
    ASSUME ApiInv, NEW a \in told, NEW c, c.who = a.who, c.key = a.key
    PROVE  RowsFor(c) = {a.id}
  <1>1. a.id \in Ids /\ a.key \in Keys /\ c.key # NoKey
    BY NumbersAssumption DEF ApiInv, TypeOK
  <1>2. ledger[a.id].who = c.who /\ ledger[a.id].key = c.key
    BY DEF ApiInv, ToldInv
  <1>3. ASSUME NEW i \in RowsFor(c)
        PROVE  i = a.id
    BY <1>1, <1>2, <1>3 DEF RowsFor, ApiInv, KeyInv
  <1>4. QED  BY <1>1, <1>2, <1>3 DEF RowsFor

(* The answer names the caller's row; a retry is answered with the same.   *)
AnsweredAlike ==
    /\ reply'.code = "ACCEPTED" =>
          LET row == ledger'[reply'.id]
          IN  <<row.who, row.key, row.request>> =
                  <<reply'.who, reply'.key, reply'.request>>
    /\ \A a \in told :
          /\ a.who = reply'.who /\ a.key = reply'.key
          /\ a.request = reply'.request
          => \/ reply'.code = "ACCEPTED" /\ reply'.id = a.id
             \/ reply'.code \in {"UNAVAILABLE", "RATE_LIMITED"}

LEMMA CodesAnswerNobody ==
    ASSUME ApiInv, NEW code, code # "ACCEPTED", reply' = Code(code)
    PROVE  AnsweredAlike
  BY CredsAssumption DEF AnsweredAlike, Code, ApiInv, TypeOK

LEMMA SubmissionsAreAnsweredAlike ==
    ASSUME ApiInv, NEW c \in Calls, Submit(c)
    PROVE  AnsweredAlike
  <1>1. CASE Unauthorised(c) \/ Unsupported(c)
    <2>1. \E code \in {"AUTHORITY_DENIED", "AUTHENTICATION_REQUIRED", "UNSUPPORTED"} :
             reply' = Code(code)
      BY <1>1 DEF Unauthorised, Unsupported
    <2>2. QED  BY <2>1, CodesAnswerNobody
  <1>2. CASE RateLimited(c) \/ Unavailable(c) \/ LedgerFails(c)
    BY <1>2 DEF RateLimited, Unavailable, LedgerFails, Answer, AnsweredAlike
  <1>3. CASE Replay(c)
    <2>1. PICK i \in RowsFor(c) : ledger[i].request = Canonical(c) /\ Accepted(c, i)
      BY <1>3 DEF Replay
    <2>2. reply' = [who |-> c.who, request |-> Meaning[c.body], key |-> c.key,
                    code |-> "ACCEPTED", id |-> i] /\ ledger' = ledger
      BY <1>3, <2>1 DEF Replay, Accepted, Answer, server
    <2>3. ledger[i].who = c.who /\ ledger[i].key = c.key
      BY DEF RowsFor
    <2>4. \A a \in told : a.who = c.who /\ a.key = c.key => a.id = i
      BY LookupFindsTold
    <2>5. QED  BY <2>1, <2>2, <2>3, <2>4 DEF AnsweredAlike, Canonical
  <1>4. CASE Conflict(c)
    <2>1. reply' = [who |-> c.who, request |-> Meaning[c.body], key |-> c.key,
                    code |-> "IDEMPOTENCY_CONFLICT", id |-> 0]
      BY <1>4 DEF Conflict, Answer
    <2>2. PICK i \in RowsFor(c) : ledger[i].request # Meaning[c.body]
      BY <1>4 DEF Conflict, Canonical
    <2>3. ASSUME NEW a \in told, a.who = c.who, a.key = c.key
          PROVE  a.request # Meaning[c.body]
      BY <2>2, <2>3, LookupFindsTold DEF ApiInv, ToldInv
    <2>4. QED  BY <2>1, <2>3 DEF AnsweredAlike
  <1>5. CASE Busy(c)
    <2>1. reply' = [who |-> c.who, request |-> Meaning[c.body], key |-> c.key,
                    code |-> "NODE_BUSY", id |-> 0] /\ RowsFor(c) = {}
      BY <1>5 DEF Busy, Answer
    <2>2. \A a \in told : ~(a.who = c.who /\ a.key = c.key)
      BY <2>1, LookupFindsTold
    <2>3. QED  BY <2>1, <2>2 DEF AnsweredAlike
  <1>6. CASE Admit(c)
    <2> DEFINE n == Len(ledger) + 1
               row == [who |-> c.who, key |-> c.key, request |-> Canonical(c),
                       terminal |-> FALSE]
    <2>1. ledger' = Append(ledger, row) /\ Len(ledger') = n /\ RowsFor(c) = {}
      BY <1>6 DEF Admit, ApiInv, TypeOK
    <2>2. reply' = [who |-> c.who, request |-> Meaning[c.body], key |-> c.key,
                    code |-> "ACCEPTED", id |-> n]
      BY <1>6, <2>1 DEF Admit, Accepted, Answer
    <2>3. ledger'[n] = row
      BY <2>1 DEF ApiInv, TypeOK
    <2>4. \A a \in told : ~(a.who = c.who /\ a.key = c.key)
      BY <2>1, LookupFindsTold
    <2>5. QED  BY <2>2, <2>3, <2>4 DEF AnsweredAlike, Canonical
  <1>7. QED  BY <1>1, <1>2, <1>3, <1>4, <1>5, <1>6 DEF Submit

-----------------------------------------------------------------------------

(* An answer that changes nothing but what this client hears.              *)
LEMMA RefusalKeepsInv ==
    ASSUME ApiInv, UNCHANGED <<phase, healthy, slot, ledger, told, caps, walk>>,
           reply'.code \in Codes, reply'.id = 0
    PROVE  ApiInv'
  <1>1. TypeOK'
    BY DEF ApiInv, TypeOK, Ids
  <1>2. ToldInv' /\ KeyInv' /\ CapsInv' /\ WalkInv'
    BY DEF ApiInv, ToldInv, KeyInv, CapsInv, DisabledIsCurrent, Available, WalkInv,
           PagingMissesNothing, Ids
  <1>3. QED  BY <1>1, <1>2 DEF ApiInv

LEMMA ReplayKeepsInv ==
    ASSUME ApiInv, NEW c \in Calls, Replay(c), UNCHANGED walk
    PROVE  ApiInv'
  <1>1. PICK i \in RowsFor(c) : ledger[i].request = Canonical(c) /\ Accepted(c, i)
    BY DEF Replay
  <1>2. UNCHANGED <<phase, healthy, slot, ledger, caps>>
    BY DEF Replay, server
  <1>3. i \in Ids /\ c.who \in Creds /\ Meaning[c.body] \in Requests /\ c.key \in Keys
    BY CredsAssumption DEF Replay, Passes, Authorised, RowsFor, Calls
  <1>4. reply' = [who |-> c.who, request |-> Meaning[c.body], key |-> c.key,
                  code |-> "ACCEPTED", id |-> i]
    BY <1>1 DEF Accepted, Answer
  <1>5. told' = told \/ told' = told \cup {[who |-> c.who, request |-> Meaning[c.body],
                                            key |-> c.key, id |-> i]}
    BY <1>1 DEF Accepted
  <1>6. told' \subseteq [who : Creds, request : Requests, key : Keys, id : Ids]
    BY <1>3, <1>5 DEF ApiInv, TypeOK
  <1>7. TypeOK'
    BY <1>2, <1>3, <1>4, <1>6 DEF ApiInv, TypeOK, Ids, Codes
  <1>8. ToldInv'
    <2>1. ledger[i].who = c.who /\ ledger[i].key = c.key /\ ledger[i].request = Meaning[c.body]
      BY <1>1 DEF RowsFor, Canonical
    <2>2. QED  BY <1>2, <1>5, <2>1 DEF ApiInv, ToldInv
  <1>9. KeyInv' /\ CapsInv' /\ WalkInv'
    BY <1>2 DEF ApiInv, KeyInv, CapsInv, DisabledIsCurrent, Available, WalkInv,
           PagingMissesNothing, Ids
  <1>10. QED  BY <1>7, <1>8, <1>9 DEF ApiInv

LEMMA AdmitKeepsInv ==
    ASSUME ApiInv, NEW c \in Calls, Admit(c), UNCHANGED walk
    PROVE  ApiInv'
  <1> DEFINE n == Len(ledger) + 1
             row == [who |-> c.who, key |-> c.key, request |-> Canonical(c),
                     terminal |-> FALSE]
  <1>1. /\ ledger' = Append(ledger, row) /\ slot' = Len(ledger') /\ RowsFor(c) = {}
        /\ Accepted(c, Len(ledger'))
        /\ UNCHANGED <<phase, healthy, caps>>
    BY DEF Admit
  <1>2. ledger \in Seq(Rows) /\ c.who \in Control /\ c.key \in Keys \cup {NoKey}
           /\ Meaning[c.body] \in Requests
    BY DEF ApiInv, TypeOK, Admit, Passes, Authorised, Calls
  <1>3. row \in Rows
    BY <1>2 DEF Rows, Canonical
  <1>4. /\ ledger' \in Seq(Rows) /\ Len(ledger') = n /\ Ids' = Ids \cup {n}
        /\ ledger'[n] = row /\ n \notin Ids
        /\ \A i \in Ids : ledger'[i] = ledger[i]
    BY <1>1, <1>2, <1>3 DEF Ids
  <1>5. reply' = [who |-> c.who, request |-> Meaning[c.body], key |-> c.key,
                  code |-> "ACCEPTED", id |-> n]
    BY <1>1, <1>4 DEF Accepted, Answer
  <1>6. \/ told' = told
        \/ c.key # NoKey /\ told' = told \cup {[who |-> c.who, request |-> Meaning[c.body],
                                                key |-> c.key, id |-> n]}
    BY <1>1, <1>4 DEF Accepted
  <1>7. TypeOK'
    <2>1. told' \subseteq [who : Creds, request : Requests, key : Keys, id : Ids']
      BY <1>2, <1>4, <1>6, CredsAssumption DEF ApiInv, TypeOK
    <2>2. slot' = n /\ ~ledger'[n].terminal
      BY <1>1, <1>4
    <2>3. walk'.missing \subseteq Ids'
      BY <1>4 DEF ApiInv, TypeOK
    <2>4. QED  BY <1>1, <1>4, <1>5, <2>1, <2>2, <2>3 DEF ApiInv, TypeOK, Codes
  <1>8. ToldInv'
    BY <1>4, <1>6 DEF ApiInv, TypeOK, ToldInv, Canonical
  <1>9. KeyInv'
    <2>1. \A i \in Ids : c.key # NoKey => ~(ledger[i].who = c.who /\ ledger[i].key = c.key)
      BY <1>1 DEF RowsFor
    <2>2. QED  BY <1>4, <2>1 DEF ApiInv, KeyInv
  <1>10. CapsInv'
    BY <1>1 DEF ApiInv, CapsInv, DisabledIsCurrent, Available
  <1>11. WalkInv'
    BY <1>4, WalkWaits DEF ApiInv, TypeOK
  <1>12. QED  BY <1>7, <1>8, <1>9, <1>10, <1>11 DEF ApiInv

LEMMA SubmitKeepsInv ==
    ASSUME ApiInv, NEW c \in Calls, Submit(c), UNCHANGED walk
    PROVE  ApiInv'
  <1>1. CASE \/ Unauthorised(c) \/ Unsupported(c) \/ RateLimited(c) \/ Unavailable(c)
             \/ LedgerFails(c) \/ Conflict(c) \/ Busy(c)
    BY <1>1, RefusalKeepsInv
       DEF Unauthorised, Unsupported, RateLimited, Unavailable, LedgerFails, Conflict,
           Busy, server, Code, Answer, Codes
  <1>2. QED  BY <1>1, ReplayKeepsInv, AdmitKeepsInv DEF Submit

-----------------------------------------------------------------------------

LEMMA ProcessKeepsInv ==
    ASSUME ApiInv, reply' = Silence, UNCHANGED <<told, walk>>,
           Start \/ WorkerEnds \/ Close \/ Exit \/ AskCapabilities \/ AnswerCapabilities
    PROVE  ApiInv'
  <1>1. ledger \in Seq(Rows) /\ Ids = 1..Len(ledger)
    BY DEF ApiInv, TypeOK, Ids
  <1>2. Kept
    <2>1. CASE UNCHANGED ledger
      BY <1>1, <2>1 DEF Kept
    <2>2. CASE ledger' = Settled(ledger)
      <3>1. ledger' = [i \in Ids |-> IF i \in Ids THEN [ledger[i] EXCEPT !.terminal = TRUE]
                                                  ELSE ledger[i]]
        BY <2>2 DEF Settled, Ids
      <3>2. QED  BY <1>1, <3>1, FinishedRowsAreKept
    <2>3. CASE slot # 0 /\ ledger' = [ledger EXCEPT ![slot].terminal = TRUE]
      <3>1. ledger' = [i \in Ids |-> IF i \in {slot} THEN [ledger[i] EXCEPT !.terminal = TRUE]
                                                     ELSE ledger[i]]
        BY <1>1, <2>3 DEF Ids
      <3>2. QED  BY <1>1, <3>1, FinishedRowsAreKept
    <2>4. QED
      BY <2>1, <2>2, <2>3 DEF Start, WorkerEnds, Close, Exit, AskCapabilities,
                              AnswerCapabilities, server
  <1>3. Ids' = Ids
    BY <1>1, <1>2 DEF Kept, Ids
  <1>4. slot' = 0 \/ UNCHANGED <<slot, ledger>>
    BY DEF Start, WorkerEnds, Close, Exit, AskCapabilities, AnswerCapabilities, server
  <1>5. /\ phase' \in {"down", "serving", "closing"} /\ healthy' \in BOOLEAN
        /\ caps' \in {"none", "enabled", "disabled"}
    BY DEF ApiInv, TypeOK, Start, WorkerEnds, Close, Exit, AskCapabilities,
           AnswerCapabilities, server, Enabled
  <1>6. TypeOK'
    <2>1. slot' \in {0, Len(ledger')} /\ (slot' # 0 => ~ledger'[slot'].terminal)
      BY <1>2, <1>4 DEF Kept, ApiInv, TypeOK
    <2>2. reply'.code \in Codes /\ reply'.id = 0
      BY DEF Silence, Code, Codes
    <2>3. QED  BY <1>2, <1>3, <1>5, <2>1, <2>2 DEF Kept, ApiInv, TypeOK
  <1>7. ToldInv' /\ KeyInv'
    BY <1>2, KeptRowsKeepInv
  <1>8. CapsInv'
    BY DEF ApiInv, TypeOK, CapsInv, DisabledIsCurrent, Available, Start, WorkerEnds, Close,
           Exit, AskCapabilities, AnswerCapabilities, server, Enabled
  <1>9. WalkInv'
    BY <1>2, WalkWaits DEF Kept, ApiInv, TypeOK
  <1>10. QED  BY <1>6, <1>7, <1>8, <1>9 DEF ApiInv

-----------------------------------------------------------------------------

(* The page at an offset, as rowids.                                       *)
LEMMA PageIsAnInterval ==
    ASSUME ledger \in Seq(Rows), NEW o \in Nat
    PROVE  \A i : i \in Page(o) <=>
              i \in Ids /\ i + o <= Len(ledger) /\ i + o + Limit > Len(ledger)
  <1>1. Ids = 1..Len(ledger) /\ Len(ledger) \in Nat /\ Limit \in Nat
    BY NumbersAssumption DEF Ids
  <1>2. Page(o) = {Len(ledger) + 1 - j : j \in {k \in Ids : o < k /\ k <= o + Limit}}
    BY DEF Page, Listing
  <1>3. ASSUME NEW i \in Page(o)
        PROVE  i \in Ids /\ i + o <= Len(ledger) /\ i + o + Limit > Len(ledger)
    <2>1. PICK j \in Ids : o < j /\ j <= o + Limit /\ i = Len(ledger) + 1 - j
      BY <1>2, <1>3
    <2>2. QED  BY <1>1, <2>1
  <1>4. ASSUME NEW i \in Ids, i + o <= Len(ledger), i + o + Limit > Len(ledger)
        PROVE  i \in Page(o)
    <2> DEFINE j == Len(ledger) + 1 - i
    <2>1. j \in Ids /\ o < j /\ j <= o + Limit /\ i = Len(ledger) + 1 - j
      BY <1>1, <1>4
    <2>2. QED  BY <1>2, <2>1
  <1>5. QED  BY <1>3, <1>4

(* A page that is not full is the last one.                                *)
LEMMA ShortPageIsTheLast ==
    ASSUME ledger \in Seq(Rows), NEW o \in Nat, Cardinality(Page(o)) # Limit
    PROVE  o + Limit > Len(ledger)
  <1>1. Limit \in Nat \ {0} /\ Len(ledger) \in Nat /\ Ids = 1..Len(ledger)
    BY NumbersAssumption DEF Ids
  <1>2. SUFFICES ASSUME o + Limit <= Len(ledger)
                 PROVE  Cardinality(Page(o)) = Limit
    BY <1>1
  <1> DEFINE a == Len(ledger) - o - Limit + 1
             b == Len(ledger) - o
  <1>3. a \in Int /\ b \in Int /\ a <= b /\ b - a + 1 = Limit /\ 1 <= a /\ b <= Len(ledger)
    BY <1>1, <1>2
  <1>4. Page(o) = a..b
    <2>1. \A i : i \in Page(o) => i \in a..b
      BY <1>1, PageIsAnInterval
    <2>2. \A i : i \in a..b => i \in Page(o)
      BY <1>1, <1>3, PageIsAnInterval
    <2>3. QED  BY <2>1, <2>2
  <1>5. Cardinality(a..b) = b - a + 1
    BY <1>3, FS_Interval
  <1>6. QED  BY <1>3, <1>4, <1>5

LEMMA WalkKeepsInv ==
    ASSUME ApiInv, reply' = Silence, UNCHANGED <<server, told, caps>>,
           BeginWalk \/ ReadPage
    PROVE  ApiInv'
  <1>1. /\ UNCHANGED <<phase, healthy, slot, ledger, told, caps>> /\ Ids' = Ids
        /\ ledger \in Seq(Rows) /\ Ids = 1..Len(ledger) /\ Len(ledger) \in Nat
        /\ Limit \in Nat
    BY NumbersAssumption DEF server, ApiInv, TypeOK, Ids
  <1>2. reply'.code \in Codes /\ reply'.id = 0
    BY DEF Silence, Code, Codes
  <1>3. ToldInv' /\ KeyInv' /\ CapsInv'
    BY <1>1 DEF ApiInv, ToldInv, KeyInv, CapsInv, DisabledIsCurrent, Available
  <1>4. CASE BeginWalk
    <2>1. walk' = [reading |-> TRUE, offset |-> 0, missing |-> Ids]
      BY <1>4 DEF BeginWalk
    <2>2. TypeOK' /\ WalkInv'
      BY <1>1, <1>2, <2>1 DEF ApiInv, TypeOK, WalkInv, PagingMissesNothing
    <2>3. QED  BY <1>3, <2>2 DEF ApiInv
  <1>5. CASE ReadPage
    <2> DEFINE o == walk.offset
               page == Page(o)
               full == Cardinality(page) = Limit
    <2>1. /\ walk.reading /\ o \in Nat /\ walk.missing \subseteq Ids
          /\ \A i \in walk.missing : i + o <= Len(ledger)
          /\ walk' = [reading |-> full, offset |-> IF full THEN o + Limit ELSE 0,
                      missing |-> walk.missing \ page]
      BY <1>5 DEF ReadPage, ApiInv, TypeOK, WalkInv
    <2>2. \A i \in walk.missing \ page : i + (o + Limit) <= Len(ledger)
      BY <1>1, <2>1, PageIsAnInterval
    <2>3. ~full => walk.missing \ page = {}
      <3>1. ~full => o + Limit > Len(ledger)
        BY <1>1, <2>1, ShortPageIsTheLast
      <3>2. QED  BY <1>1, <2>1, <2>2, <3>1
    <2>4. walk'.reading \in BOOLEAN /\ walk'.offset \in Nat /\ walk'.missing \subseteq Ids
      BY <1>1, <2>1
    <2>5. TypeOK'
      BY <1>1, <1>2, <2>4 DEF ApiInv, TypeOK
    <2>6. WalkInv'
      <3>1. CASE full
        BY <1>1, <2>1, <2>2, <3>1 DEF WalkInv, PagingMissesNothing
      <3>2. CASE ~full
        BY <2>1, <2>3, <3>2 DEF WalkInv, PagingMissesNothing
      <3>3. QED  BY <3>1, <3>2
    <2>7. QED  BY <1>3, <2>5, <2>6 DEF ApiInv
  <1>6. QED  BY <1>4, <1>5

-----------------------------------------------------------------------------

LEMMA StepKeepsInv ==
    ASSUME ApiInv, [Next]_vars
    PROVE  ApiInv'
  <1>1. CASE UNCHANGED vars
    BY <1>1 DEF vars, ApiInv, TypeOK, ToldInv, KeyInv, CapsInv, DisabledIsCurrent,
                Available, WalkInv, PagingMissesNothing, Ids
  <1>2. QED  BY <1>1, SubmitKeepsInv, ProcessKeepsInv, WalkKeepsInv DEF Next

LEMMA InitHasInv ==
    ASSUME Init
    PROVE  ApiInv
  <1>1. Ids = {} /\ ledger \in Seq(Rows) /\ Len(ledger) = 0
    BY DEF Init, Ids
  <1>2. TypeOK
    BY <1>1 DEF Init, TypeOK, Silence, Code, Codes
  <1>3. ToldInv /\ KeyInv /\ CapsInv /\ WalkInv
    BY <1>1 DEF Init, ToldInv, KeyInv, CapsInv, DisabledIsCurrent, WalkInv,
                PagingMissesNothing
  <1>4. QED  BY <1>2, <1>3 DEF ApiInv

(* The ledger only grows, its keys name one row of a credential each, what *)
(* clients were told is in it, and a walk has all it has not seen before   *)
(* it: the invariant of the whole service.                                 *)
THEOREM ApiInvariance == Spec => []ApiInv
  <1>1. Init => ApiInv
    BY InitHasInv
  <1>2. ApiInv /\ [Next]_vars => ApiInv'
    BY StepKeepsInv
  <1>3. QED  BY <1>1, <1>2, PTL DEF Spec

(* Every operation in the ledger is that of a credential with the control  *)
(* authority and of a request that is offered; the slot names the newest   *)
(* row and only while it is unfinished.                                    *)
THEOREM TypeCorrectness == Spec => []TypeOK
  <1>1. ApiInv => TypeOK
    BY DEF ApiInv
  <1>2. QED  BY <1>1, ApiInvariance, PTL

(* A keyed retry hears of the operation its client was told of, whatever   *)
(* happened in between, and a 202 always names its caller's own row.       *)
THEOREM RetriesAreSafe == Spec => RetryIsAnsweredAlike
  <1>1. ApiInv /\ [Next]_vars => [AnsweredAlike]_vars
    <2> SUFFICES ASSUME ApiInv, Next
                 PROVE  AnsweredAlike
      OBVIOUS
    <2>1. CASE \E c \in Calls : Submit(c)
      BY <2>1, SubmissionsAreAnsweredAlike
    <2>2. CASE reply' = Silence
      BY <2>2, CodesAnswerNobody DEF Silence
    <2>3. QED  BY <2>1, <2>2 DEF Next
  <1>2. QED  BY <1>1, ApiInvariance, PTL DEF Spec, RetryIsAnsweredAlike, AnsweredAlike

(* Capabilities never tell a client that control is disabled when it has   *)
(* become available since they were computed.                              *)
THEOREM DisabledIsTrue == Spec => []DisabledIsCurrent
  <1>1. ApiInv => DisabledIsCurrent
    BY DEF ApiInv, CapsInv
  <1>2. QED  BY <1>1, ApiInvariance, PTL

(* Reading GET /v1/operations page by page misses no operation that        *)
(* existed when the walk began, for every page size and any growth.        *)
THEOREM WalksAreComplete == Spec => []PagingMissesNothing
  <1>1. ApiInv => PagingMissesNothing
    BY DEF ApiInv, WalkInv
  <1>2. QED  BY <1>1, ApiInvariance, PTL

=============================================================================
