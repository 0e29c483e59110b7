---------------------------- MODULE Radar_proofs -----------------------------
(***************************************************************************)
(* What an item shows fits together, and its milestones come in order, for *)
(* any number of captures, queue workers, requests, jobs and failures; and *)
(* no more rows are written than analyses were asked for or repeated.      *)
(***************************************************************************)
EXTENDS Radar, FiniteSetTheorems, TLAPS

Ref == [jd : Nat, n : Nat]
Row == [status : Statuses \cup {Absent}, jd : Nat, match : Ref]
Columns == {"status", "jd", "match"}

WorkerStates ==
    {Idle} \cup [pc : {"findJd", "parse"}, item : Items]
    \cup [pc : {"findMatch", "score"}, item : Items, jd : Nat]
    \cup [pc : {"mark"}, item : Items, jd : Nat, match : Ref]

CallStates ==
    {Idle} \cup [pc : {"addItem", "submit"}, item : Items]
    \cup [pc : {"save"}, item : Items, row : Row]
    \cup [pc : {"update"}, item : Items, row : Row, columns : SUBSET Columns]

Types ==
    /\ item \in [Items -> Row]
    /\ jds \in [Items -> Nat]
    /\ matches \in [Items -> SUBSET Ref] /\ \A i \in Items : IsFiniteSet(matches[i])
    /\ worker \in [Workers -> WorkerStates]
    /\ call \in [Calls -> CallStates]
    /\ visited \in [Items -> SUBSET (Statuses \cup {Absent})]

\* A worker marks an item with a match of the parsed JD it marks it with.
MarksAgree == \A w \in Workers : worker[w].pc = "mark" => worker[w].match.jd = worker[w].jd

\* A copy of an item agrees as the item does, unless the item was torn.
CopiesAgree ==
    \A c \in Calls : call[c].pc \in {"save", "update"} /\ call[c].item \notin torn
                         => call[c].row.match.jd = call[c].row.jd

\* A copy's status was allowed from one that the item has had.
CopiesAllowed ==
    \A c \in Calls : call[c].pc \in {"save", "update"} =>
        \E from \in visited[call[c].item] : <<from, call[c].row.status>> \in VALID_RADAR_TRANSITIONS

Seen == \A i \in Items : item[i] # NoItem => item[i].status \in visited[i]

RadarInv ==
    /\ Types
    /\ MarksAgree /\ CopiesAgree /\ RefsAgree
    /\ CopiesAllowed /\ Seen /\ MilestonesInOrder

-----------------------------------------------------------------------------
LEMMA CallType == ASSUME Types, NEW c \in Calls, NEW state \in CallStates, SetCall(c, state)
                  PROVE  /\ call' \in [Calls -> CallStates] /\ call'[c] = state
                         /\ \A d \in Calls : d # c => call'[d] = call[d]
  BY DEF Types, SetCall

LEMMA WorkerType == ASSUME Types, NEW w \in Workers, NEW state \in WorkerStates, SetWorker(w, state)
                    PROVE  /\ worker' \in [Workers -> WorkerStates] /\ worker'[w] = state
                           /\ \A v \in Workers : v # w => worker'[v] = worker[v]
  BY DEF Types, SetWorker

LEMMA NewItem ==
    /\ [NoItem EXCEPT !.status = "BROWSED"]
          = [status |-> "BROWSED", jd |-> 0, match |-> [jd |-> 0, n |-> 0]]
    /\ [NoItem EXCEPT !.status = "BROWSED"] \in Row
    /\ NoItem \in Row /\ NoItem.match.jd = NoItem.jd /\ DOMAIN NoItem = Columns
  BY DEF NoItem, NoMatch, NoRow, Row, Ref, Statuses, Columns

\* What a column-wise UPDATE leaves in the row.
LEMMA WriteIs ==
    ASSUME Types, NEW i \in Items, NEW row \in Row, NEW columns \in SUBSET Columns,
           Write(i, row, columns)
    PROVE  /\ item'[i].status = IF "status" \in columns THEN row.status ELSE item[i].status
           /\ item'[i].jd = IF "jd" \in columns THEN row.jd ELSE item[i].jd
           /\ item'[i].match = IF "match" \in columns THEN row.match ELSE item[i].match
           /\ item' \in [Items -> Row]
           /\ \A k \in Items : k # i => item'[k] = item[k] /\ visited'[k] = visited[k]
           /\ visited'[i] = visited[i] \cup {item'[i].status}
           /\ visited' \in [Items -> SUBSET (Statuses \cup {Absent})]
<1>1. item[i] \in Row
  BY DEF Types
<1>2. Updated(item[i], row, columns)
        = [status |-> IF "status" \in columns THEN row.status ELSE item[i].status,
           jd |-> IF "jd" \in columns THEN row.jd ELSE item[i].jd,
           match |-> IF "match" \in columns THEN row.match ELSE item[i].match]
  BY <1>1 DEF Updated, Row
<1>3. Updated(item[i], row, columns) \in Row
  BY <1>1, <1>2 DEF Row
<1>4. item'[i] = Updated(item[i], row, columns) /\ \A k \in Items : k # i => item'[k] = item[k]
  BY DEF Write, Types
<1>5. item' \in [Items -> Row]
  BY <1>3 DEF Write, Types
<1>6. item'[i].status \in Statuses \cup {Absent}
  BY <1>3, <1>4 DEF Row
<1>7. /\ visited'[i] = visited[i] \cup {item'[i].status}
      /\ \A k \in Items : k # i => visited'[k] = visited[k]
      /\ visited' \in [Items -> SUBSET (Statuses \cup {Absent})]
  BY <1>6 DEF Write, Types
<1> QED BY <1>2, <1>4, <1>5, <1>7

\* An update of one of the two references tears the row, one of none or both
\* leaves it with references that agree, if they agreed in both rows.
LEMMA WriteAgrees ==
    ASSUME Types, RefsAgree, NEW i \in Items, NEW row \in Row, NEW columns \in SUBSET Columns,
           Write(i, row, columns), i \notin torn => row.match.jd = row.jd
    PROVE  RefsAgree' /\ torn \subseteq torn'
<1>1. torn \subseteq torn'
  BY DEF Write
<1>2. ASSUME i \notin torn' PROVE item'[i].match.jd = item'[i].jd
  <2>1. Cardinality(columns \cap {"jd", "match"}) # 1
    BY <1>2 DEF Write
  <2>2. \A x : Cardinality({x}) = 1
    BY FS_Singleton
  <2>3. columns \cap {"jd", "match"} # {"jd"} /\ columns \cap {"jd", "match"} # {"match"}
    BY <2>1, <2>2
  <2>4. "jd" \in columns <=> "match" \in columns
    BY <2>3
  <2> QED BY <1>1, <1>2, <2>4, WriteIs DEF RefsAgree
<1> QED BY <1>1, <1>2, WriteIs DEF RefsAgree

\* A status that may follow one the item has had, or starts nothing, keeps the
\* milestones in order.
LEMMA WriteInOrder ==
    ASSUME Types, Seen, MilestonesInOrder, NEW i \in Items, NEW row \in Row,
           NEW columns \in SUBSET Columns, Write(i, row, columns),
           \/ row.status \in {"BROWSED", "ANALYZED", "APPLIED", "OFFER_ACCEPTED"}
           \/ \E from \in visited[i] : <<from, row.status>> \in VALID_RADAR_TRANSITIONS
    PROVE  /\ Seen' /\ MilestonesInOrder'
           /\ \A k \in Items : visited[k] \subseteq visited'[k]
<1>1. \A k \in Items : visited[k] \subseteq visited'[k]
  BY WriteIs
<1>2. Seen'
  BY WriteIs DEF Seen
<1>3. item'[i].status \in {"BROWSED", "ANALYZED", "APPLIED", "OFFER_ACCEPTED", Absent} \cup visited[i]
      \/ \E from \in visited[i] : <<from, item'[i].status>> \in VALID_RADAR_TRANSITIONS
  <2>1. item[i].status \in visited[i] \cup {Absent}
    BY DEF Seen, NoItem
  <2> QED BY <2>1, WriteIs
<1>4. /\ item'[i].status = "INTERVIEWING" => "APPLIED" \in visited[i]
      /\ item'[i].status = "OFFER_RECEIVED" => "INTERVIEWING" \in visited[i]
      /\ item'[i].status = "OFFER_REJECTED" => "OFFER_RECEIVED" \in visited[i]
  BY <1>3 DEF VALID_RADAR_TRANSITIONS, MilestonesInOrder, Absent
<1>5. MilestonesInOrder'
  BY <1>1, <1>4, WriteIs DEF MilestonesInOrder
<1> QED BY <1>1, <1>2, <1>5

-----------------------------------------------------------------------------
\* A request that goes on to hold a faithful copy, or none.
LEMMA CallStep ==
    ASSUME RadarInv, NEW c \in Calls, NEW state \in CallStates, SetCall(c, state), UNCHANGED itemVars,
           state.pc \in {"save", "update"} =>
               /\ state.item \notin torn => state.row.match.jd = state.row.jd
               /\ \E from \in visited[state.item] : <<from, state.row.status>> \in VALID_RADAR_TRANSITIONS
    PROVE  RadarInv'
<1>1. /\ call' \in [Calls -> CallStates] /\ call'[c] = state
      /\ \A d \in Calls : d # c => call'[d] = call[d]
  BY CallType DEF RadarInv
<1>2. /\ item' = item /\ visited' = visited /\ torn' = torn
      /\ jds' = jds /\ matches' = matches /\ worker' = worker
  BY DEF itemVars, SetCall
<1>3. CopiesAgree'
  BY <1>1, <1>2 DEF RadarInv, CopiesAgree
<1>4. CopiesAllowed'
  BY <1>1, <1>2 DEF RadarInv, CopiesAllowed
<1> QED BY <1>1, <1>2, <1>3, <1>4 DEF RadarInv, Types, MarksAgree, RefsAgree, Seen, MilestonesInOrder

\* A worker that goes on and has found, or saved, a match of its parsed JD.
LEMMA WorkerStep ==
    ASSUME RadarInv, NEW w \in Workers, NEW state \in WorkerStates, SetWorker(w, state),
           UNCHANGED itemVars, state.pc = "mark" => state.match.jd = state.jd,
           jds' \in [Items -> Nat],
           matches' \in [Items -> SUBSET Ref] /\ \A i \in Items : IsFiniteSet(matches'[i])
    PROVE  RadarInv'
<1>1. /\ worker' \in [Workers -> WorkerStates] /\ worker'[w] = state
      /\ \A v \in Workers : v # w => worker'[v] = worker[v]
  BY WorkerType DEF RadarInv
<1>2. item' = item /\ visited' = visited /\ torn' = torn /\ call' = call
  BY DEF itemVars, SetWorker
<1>3. MarksAgree'
  BY <1>1 DEF RadarInv, MarksAgree
<1> QED BY <1>1, <1>2, <1>3
        DEF RadarInv, Types, CopiesAgree, CopiesAllowed, RefsAgree, Seen, MilestonesInOrder

\* An item is written; the request or the worker that does it has done.
LEMMA WriteStep ==
    ASSUME RadarInv, NEW i \in Items, NEW row \in Row, NEW columns \in SUBSET Columns,
           Write(i, row, columns), i \notin torn => row.match.jd = row.jd,
           \/ row.status \in {"BROWSED", "ANALYZED", "APPLIED", "OFFER_ACCEPTED"}
           \/ \E from \in visited[i] : <<from, row.status>> \in VALID_RADAR_TRANSITIONS,
           jds' = jds, matches' = matches,
           call' \in [Calls -> CallStates], worker' \in [Workers -> WorkerStates],
           \A c \in Calls : call'[c] \in {call[c], Idle},
           \A w \in Workers : worker'[w] \in {worker[w], Idle}
    PROVE  RadarInv'
<1>1. RefsAgree' /\ torn \subseteq torn'
  BY WriteAgrees DEF RadarInv
<1>2. Seen' /\ MilestonesInOrder' /\ \A k \in Items : visited[k] \subseteq visited'[k]
  BY WriteInOrder DEF RadarInv
<1>3. MarksAgree'
  BY DEF RadarInv, MarksAgree, Idle
<1>4. ASSUME NEW c \in Calls, call'[c].pc \in {"save", "update"}
      PROVE  call'[c] = call[c] /\ call[c].item \in Items
  <2>1. call'[c] = call[c]
    BY <1>4 DEF Idle
  <2> QED BY <1>4, <2>1 DEF RadarInv, Types, CallStates, Idle
<1>5. CopiesAgree'
  BY <1>1, <1>4 DEF RadarInv, CopiesAgree
<1>6. CopiesAllowed'
  BY <1>2, <1>4 DEF RadarInv, CopiesAllowed
<1>7. Types'
  BY WriteIs DEF RadarInv, Types
<1> QED BY <1>1, <1>2, <1>3, <1>5, <1>6, <1>7 DEF RadarInv

\* The UPDATE of the status alone, whatever the status was before.
LEMMA StatusStep ==
    ASSUME RadarInv, NEW i \in Items, NEW s \in {"APPLIED", "OFFER_ACCEPTED"}, UpdateStatus(i, s),
           jds' = jds, matches' = matches, worker' = worker,
           call' \in [Calls -> CallStates], \A c \in Calls : call'[c] \in {call[c], Idle}
    PROVE  RadarInv'
<1> DEFINE row == [item[i] EXCEPT !.status = s]
<1>1. item[i] \in Row
  BY DEF RadarInv, Types
<1>2. row.status = s /\ row.jd = item[i].jd /\ row.match = item[i].match /\ row \in Row
  BY <1>1 DEF Row, Statuses
<1>3. Write(i, row, {"status"}) /\ {"status"} \in SUBSET Columns
  BY DEF UpdateStatus, Columns
<1>4. i \notin torn => row.match.jd = row.jd
  BY <1>2 DEF RadarInv, RefsAgree
<1>5. worker' \in [Workers -> WorkerStates]
  BY DEF RadarInv, Types
<1> HIDE DEF row
<1> QED BY <1>2, <1>3, <1>4, <1>5, WriteStep

-----------------------------------------------------------------------------
LEMMA RequestsKeep ==
    ASSUME RadarInv, NEW c \in Calls
    PROVE  /\ \A i \in Items : Capture(c, i) \/ SaveApplication(c, i) => RadarInv'
           /\ \A i \in Items, s \in Statuses : LoadItem(c, i, s) => RadarInv'
           /\ CallSteps(c) \/ CallFails(c) => RadarInv'
<1>1. Idle \in CallStates
  BY DEF CallStates
<1>2. ASSUME NEW i \in Items, Capture(c, i) \/ SaveApplication(c, i) PROVE RadarInv'
  <2>1. [pc |-> "addItem", item |-> i] \in CallStates /\ [pc |-> "submit", item |-> i] \in CallStates
    BY DEF CallStates
  <2> QED BY <1>2, <2>1, CallStep DEF Capture, SaveApplication
<1>3. ASSUME NEW i \in Items, NEW s \in Statuses, LoadItem(c, i, s) PROVE RadarInv'
  <2> DEFINE row == [item[i] EXCEPT !.status = s]
             state == [pc |-> "save", item |-> i, row |-> row]
  <2>1. item[i] \in Row
    BY DEF RadarInv, Types
  <2>2. row.status = s /\ row.jd = item[i].jd /\ row.match = item[i].match /\ row \in Row
    BY <2>1 DEF Row
  <2>3. i \notin torn => row.match.jd = row.jd
    BY <2>2 DEF RadarInv, RefsAgree
  <2>4. item[i].status \in visited[i] /\ <<item[i].status, row.status>> \in VALID_RADAR_TRANSITIONS
    BY <1>3, <2>2 DEF LoadItem, Allowed, RadarInv, Seen
  <2>5. SetCall(c, state) /\ UNCHANGED itemVars
    BY <1>3 DEF LoadItem
  <2> HIDE DEF row
  <2>6. state \in CallStates
    BY <2>2 DEF CallStates
  <2> QED BY <2>3, <2>4, <2>5, <2>6, CallStep
<1>4. ASSUME AddItem(c) PROVE RadarInv'
  <2>1. call[c].item \in Items
    BY <1>4 DEF AddItem, RadarInv, Types, CallStates, Idle
  <2>2. /\ Write(call[c].item, [NoItem EXCEPT !.status = "BROWSED"], Columns)
        /\ SetCall(c, Idle)
    BY <1>4, NewItem DEF AddItem
  <2>3. /\ call' \in [Calls -> CallStates] /\ \A d \in Calls : call'[d] \in {call[d], Idle}
        /\ jds' = jds /\ matches' = matches /\ worker' = worker
    BY <1>1, <2>2, CallType DEF RadarInv, SetCall
  <2>4. worker' \in [Workers -> WorkerStates] /\ \A w \in Workers : worker'[w] \in {worker[w], Idle}
    BY <2>3 DEF RadarInv, Types
  <2> QED BY <2>1, <2>2, <2>3, <2>4, NewItem, WriteStep
<1>5. ASSUME SelectItem(c) PROVE RadarInv'
  <2> DEFINE columns == Changed(item[call[c].item], call[c].row)
             state == [pc |-> "update", item |-> call[c].item, row |-> call[c].row, columns |-> columns]
  <2>1. call[c].pc = "save" /\ call[c].item \in Items /\ call[c].row \in Row
    BY <1>5 DEF SelectItem, RadarInv, Types, CallStates, Idle
  <2>2. columns \in SUBSET Columns
    BY <2>1 DEF Changed, RadarInv, Types, Row, Columns
  <2>3. SetCall(c, state) /\ UNCHANGED itemVars
    BY <1>5 DEF SelectItem
  <2> HIDE DEF columns
  <2>4. state \in CallStates
    BY <2>1, <2>2 DEF CallStates
  <2>5. /\ state.item \notin torn => state.row.match.jd = state.row.jd
        /\ \E from \in visited[state.item] : <<from, state.row.status>> \in VALID_RADAR_TRANSITIONS
    BY <2>1 DEF RadarInv, CopiesAgree, CopiesAllowed
  <2> HIDE DEF state
  <2> QED BY <2>3, <2>4, <2>5, CallStep
<1>6. ASSUME UpdateItem(c) PROVE RadarInv'
  <2>1. /\ call[c].pc = "update" /\ call[c].item \in Items /\ call[c].row \in Row
        /\ call[c].columns \in SUBSET Columns
    BY <1>6 DEF UpdateItem, RadarInv, Types, CallStates, Idle
  <2>2. Write(call[c].item, call[c].row, call[c].columns) /\ SetCall(c, Idle)
    BY <1>6 DEF UpdateItem
  <2>3. /\ call[c].item \notin torn => call[c].row.match.jd = call[c].row.jd
        /\ \E from \in visited[call[c].item] : <<from, call[c].row.status>> \in VALID_RADAR_TRANSITIONS
    BY <2>1 DEF RadarInv, CopiesAgree, CopiesAllowed
  <2>4. /\ call' \in [Calls -> CallStates] /\ \A d \in Calls : call'[d] \in {call[d], Idle}
        /\ jds' = jds /\ matches' = matches /\ worker' = worker
    BY <1>1, <2>2, CallType DEF RadarInv, SetCall
  <2>5. worker' \in [Workers -> WorkerStates] /\ \A w \in Workers : worker'[w] \in {worker[w], Idle}
    BY <2>4 DEF RadarInv, Types
  <2> QED BY <2>1, <2>2, <2>3, <2>4, <2>5, WriteStep
<1>7. ASSUME MarkApplied(c) PROVE RadarInv'
  <2>1. call[c].item \in Items
    BY <1>7 DEF MarkApplied, RadarInv, Types, CallStates, Idle
  <2>2. /\ UpdateStatus(call[c].item, "APPLIED") /\ SetCall(c, Idle)
    BY <1>7 DEF MarkApplied
  <2>3. /\ call' \in [Calls -> CallStates] /\ \A d \in Calls : call'[d] \in {call[d], Idle}
        /\ jds' = jds /\ matches' = matches /\ worker' = worker
    BY <1>1, <2>2, CallType DEF RadarInv, SetCall
  <2> QED BY <2>1, <2>2, <2>3, StatusStep
<1>8. ASSUME CallFails(c) PROVE RadarInv'
  <2>1. /\ call' \in [Calls -> CallStates] /\ \A d \in Calls : call'[d] \in {call[d], Idle}
        /\ UNCHANGED <<itemVars, jds, matches, worker>>
    BY <1>1, <1>8 DEF CallFails, RadarInv, Types
  <2>2. CopiesAgree' /\ CopiesAllowed'
    BY <2>1 DEF RadarInv, CopiesAgree, CopiesAllowed, itemVars, Idle
  <2> QED BY <2>1, <2>2 DEF RadarInv, Types, MarksAgree, RefsAgree, Seen, MilestonesInOrder, itemVars
<1> QED BY <1>2, <1>3, <1>4, <1>5, <1>6, <1>7, <1>8 DEF CallSteps

LEMMA WorkersKeep ==
    ASSUME RadarInv, NEW w \in Workers
    PROVE  WorkerSteps(w) \/ JobFails(w) \/ Stall(w) => RadarInv'
<1>1. /\ jds \in [Items -> Nat]
      /\ matches \in [Items -> SUBSET Ref] /\ \A i \in Items : IsFiniteSet(matches[i])
  BY DEF RadarInv, Types
<1>2. Idle \in WorkerStates
  BY DEF WorkerStates
<1>3. ASSUME NEW i \in Items, TakeJob(w, i) PROVE RadarInv'
  <2>1. [pc |-> "findJd", item |-> i] \in WorkerStates
    BY DEF WorkerStates
  <2> QED BY <1>1, <1>3, <2>1, WorkerStep DEF TakeJob
<1>4. ASSUME FindJd(w) PROVE RadarInv'
  <2>1. worker[w].item \in Items /\ jds[worker[w].item] \in Nat
    BY <1>1, <1>4 DEF FindJd, RadarInv, Types, WorkerStates, Idle
  <2>2. /\ [pc |-> "parse", item |-> worker[w].item] \in WorkerStates
        /\ \A k \in 1..jds[worker[w].item] :
               [pc |-> "findMatch", item |-> worker[w].item, jd |-> k] \in WorkerStates
    BY <2>1 DEF WorkerStates
  <2>3. PICK state \in WorkerStates : SetWorker(w, state) /\ state.pc # "mark"
    BY <1>4, <2>2 DEF FindJd
  <2>4. UNCHANGED itemVars /\ jds' = jds /\ matches' = matches
    BY <1>4 DEF FindJd
  <2> QED BY <1>1, <2>3, <2>4, WorkerStep
<1>5. ASSUME SaveJd(w) PROVE RadarInv'
  <2>1. worker[w].item \in Items /\ jds[worker[w].item] \in Nat
    BY <1>1, <1>5 DEF SaveJd, RadarInv, Types, WorkerStates, Idle
  <2>2. [pc |-> "findMatch", item |-> worker[w].item, jd |-> jds[worker[w].item] + 1] \in WorkerStates
    BY <2>1 DEF WorkerStates
  <2>3. jds' \in [Items -> Nat] /\ UNCHANGED itemVars /\ matches' = matches
    BY <1>1, <1>5, <2>1 DEF SaveJd
  <2>4. SetWorker(w, [pc |-> "findMatch", item |-> worker[w].item, jd |-> jds[worker[w].item] + 1])
    BY <1>5 DEF SaveJd
  <2> QED BY <1>1, <2>2, <2>3, <2>4, WorkerStep
<1>6. ASSUME FindMatch(w) PROVE RadarInv'
  <2>1. worker[w].item \in Items /\ worker[w].jd \in Nat
    BY <1>6 DEF FindMatch, RadarInv, Types, WorkerStates, Idle
  <2>2. ASSUME NEW m \in MatchesOf(worker[w].item, worker[w].jd) PROVE m \in Ref /\ m.jd = worker[w].jd
    BY <1>1, <2>1 DEF MatchesOf
  <2>3. /\ [pc |-> "score", item |-> worker[w].item, jd |-> worker[w].jd] \in WorkerStates
        /\ \A m \in MatchesOf(worker[w].item, worker[w].jd) :
               [pc |-> "mark", item |-> worker[w].item, jd |-> worker[w].jd, match |-> m] \in WorkerStates
    BY <2>1, <2>2 DEF WorkerStates
  <2>4. PICK state \in WorkerStates : SetWorker(w, state) /\ (state.pc = "mark" => state.match.jd = state.jd)
    BY <1>6, <2>2, <2>3 DEF FindMatch
  <2>5. UNCHANGED itemVars /\ jds' = jds /\ matches' = matches
    BY <1>6 DEF FindMatch
  <2> QED BY <1>1, <2>4, <2>5, WorkerStep
<1>7. ASSUME SaveMatch(w) PROVE RadarInv'
  <2> DEFINE i == worker[w].item
             m == [jd |-> worker[w].jd, n |-> Cardinality(MatchesOf(i, worker[w].jd)) + 1]
             state == [pc |-> "mark", item |-> i, jd |-> worker[w].jd, match |-> m]
  <2>1. i \in Items /\ worker[w].jd \in Nat
    BY <1>7 DEF SaveMatch, RadarInv, Types, WorkerStates, Idle
  <2>2. IsFiniteSet(matches[i]) /\ MatchesOf(i, worker[w].jd) \subseteq matches[i]
    BY <1>1, <2>1 DEF MatchesOf
  <2>3. Cardinality(MatchesOf(i, worker[w].jd)) \in Nat
    BY <2>2, FS_Subset, FS_CardinalityType
  <2>4. m \in Ref /\ m.jd = worker[w].jd
    BY <2>1, <2>3 DEF Ref
  <2>5. SetWorker(w, state) /\ UNCHANGED itemVars /\ jds' = jds
        /\ matches' = [matches EXCEPT ![i] = @ \cup {m}]
    BY <1>7 DEF SaveMatch
  <2> HIDE DEF m, i
  <2>6. state \in WorkerStates /\ (state.pc = "mark" => state.match.jd = state.jd)
    BY <2>1, <2>4 DEF WorkerStates
  <2>7. IsFiniteSet(matches[i] \cup {m})
    BY <2>2, FS_AddElement
  <2>8. matches' \in [Items -> SUBSET Ref] /\ \A k \in Items : IsFiniteSet(matches'[k])
    BY <1>1, <2>1, <2>4, <2>5, <2>7
  <2> HIDE DEF state
  <2> QED BY <1>1, <2>5, <2>6, <2>8, WorkerStep
<1>8. ASSUME MarkAnalyzed(w) PROVE RadarInv'
  <2> DEFINE row == [status |-> "ANALYZED", jd |-> worker[w].jd, match |-> worker[w].match]
  <2>1. worker[w].pc = "mark" /\ worker[w].item \in Items /\ worker[w].jd \in Nat /\ worker[w].match \in Ref
    BY <1>8 DEF MarkAnalyzed, RadarInv, Types, WorkerStates, Idle
  <2>2. row \in Row /\ row.status = "ANALYZED" /\ row.match.jd = row.jd
    BY <2>1 DEF Row, Statuses, RadarInv, MarksAgree
  <2>3. Write(worker[w].item, row, Columns) /\ SetWorker(w, Idle) /\ jds' = jds /\ matches' = matches
    BY <1>8, NewItem DEF MarkAnalyzed
  <2>4. worker' \in [Workers -> WorkerStates] /\ \A v \in Workers : worker'[v] \in {worker[v], Idle}
    BY <1>2, <2>3, WorkerType DEF RadarInv
  <2>5. call' = call /\ call \in [Calls -> CallStates]
    BY <2>3 DEF SetWorker, RadarInv, Types
  <2> HIDE DEF row
  <2> QED BY <2>1, <2>2, <2>3, <2>4, <2>5, WriteStep
<1>9. ASSUME JobFails(w) PROVE RadarInv'
  BY <1>1, <1>2, <1>9, WorkerStep DEF JobFails, Idle
<1>10. ASSUME Stall(w) PROVE RadarInv'
  BY <1>10 DEF Stall, RadarInv, Types, MarksAgree, CopiesAgree, CopiesAllowed, RefsAgree, Seen,
               MilestonesInOrder, itemVars
<1> QED BY <1>3, <1>4, <1>5, <1>6, <1>7, <1>8, <1>9, <1>10 DEF WorkerSteps

LEMMA RadarStep == ASSUME RadarInv, [Next]_vars PROVE RadarInv'
<1>1. ASSUME NEW i \in Items, EnqueueAnalysis(i) PROVE RadarInv'
  BY <1>1 DEF EnqueueAnalysis, RadarInv, Types, MarksAgree, CopiesAgree, CopiesAllowed, RefsAgree, Seen,
              MilestonesInOrder, itemVars
<1>2. ASSUME NEW i \in Items, Farewell(i) PROVE RadarInv'
  <2>1. call \in [Calls -> CallStates]
    BY DEF RadarInv, Types
  <2> QED BY <1>2, <2>1, StatusStep DEF Farewell
<1>3. CASE UNCHANGED vars
  BY <1>3 DEF vars, RadarInv, Types, MarksAgree, CopiesAgree, CopiesAllowed, RefsAgree, Seen,
              MilestonesInOrder
<1> QED BY <1>1, <1>2, <1>3, RequestsKeep, WorkersKeep DEF Next

LEMMA RadarBegins == Init => RadarInv
<1> SUFFICES ASSUME Init PROVE RadarInv
  OBVIOUS
<1>1. Types
  BY NewItem, FS_EmptySet DEF Init, Types, CallStates, WorkerStates
<1>2. RefsAgree
  BY NewItem DEF Init, RefsAgree
<1> QED BY <1>1, <1>2
        DEF Init, RadarInv, MarksAgree, CopiesAgree, CopiesAllowed, Seen, MilestonesInOrder, Idle

-----------------------------------------------------------------------------
\* The match an item shows was computed for the parsed JD it shows, unless a
\* status change put back one of the two references; for any number of
\* analyses of any number of captures at once.
THEOREM ReferencesAgree == Spec => []RefsAgree
<1>1. RadarInv => RefsAgree
  BY DEF RadarInv
<1> QED BY <1>1, RadarBegins, RadarStep, PTL DEF Spec

\* No item reaches an interview or an offer without the steps before it, for
\* any number of concurrent status changes, analyses and submissions.
THEOREM MilestonesOrdered == Spec => []MilestonesInOrder
<1>1. RadarInv => MilestonesInOrder
  BY DEF RadarInv
<1> QED BY <1>1, RadarBegins, RadarStep, PTL DEF Spec

-----------------------------------------------------------------------------
(* The types, and the bound on the rows: a run of a job writes at most one  *)
(* parsed JD and one match, and there are no more runs than jobs asked for  *)
(* and jobs handed out again.                                               *)

\* The workers that are at one of these places of an analysis of i.
Doing(i, places) == {w \in Workers : worker[w].pc \in places /\ worker[w].item = i}

BeforeJd == {"findJd", "parse"}
BeforeMatch == {"findJd", "parse", "findMatch", "score"}

\* What has been written, may still be and waits to be is no more than was
\* asked for or repeated.
Budget(i) ==
    /\ IsFiniteSet(matches[i])
    /\ IsFiniteSet(Doing(i, BeforeJd)) /\ IsFiniteSet(Doing(i, BeforeMatch))
    /\ jds[i] + Cardinality(Doing(i, BeforeJd)) + waiting[i] <= asked[i] + faults
    /\ Cardinality(matches[i]) + Cardinality(Doing(i, BeforeMatch)) + waiting[i] <= asked[i] + faults
Budgets == \A i \in Items : Budget(i)

\* Only what is there is analysed, loaded or submitted, and only what was
\* captured is there.
Present ==
    /\ \A i \in Items : item[i] # NoItem => i \in captured
    /\ \A i \in Items : waiting[i] > 0 => item[i] # NoItem
    /\ \A w \in Workers : worker[w] # Idle => item[worker[w].item] # NoItem
    /\ \A c \in Calls : call[c].pc \in {"submit", "save", "update"} => item[call[c].item] # NoItem
    /\ \A c \in Calls : call[c].pc = "addItem" => call[c].item \in captured

TypedInv == TypeOK /\ Budgets /\ Present

TypedWorkers ==
    {Idle} \cup [pc : {"findJd", "parse"}, item : Items]
    \cup [pc : {"findMatch", "score"}, item : Items, jd : Rows]
    \cup [pc : {"mark"}, item : Items, jd : Rows, match : Match]

TypedCalls ==
    {Idle} \cup [pc : {"addItem", "submit"}, item : Items]
    \cup [pc : {"save"}, item : Items, row : Item]
    \cup [pc : {"update"}, item : Items, row : Item, columns : SUBSET {"status", "jd", "match"}]

LEMMA RowsAre ==
    ASSUME RadarAssumption
    PROVE  /\ Rows = 1..(MaxJobs + MaxFaults) /\ MaxJobs + MaxFaults \in Nat
           /\ Cardinality(Rows) = MaxJobs + MaxFaults
<1>1. MaxJobs + MaxFaults \in Nat /\ 1 \in Int /\ MaxJobs + MaxFaults \in Int
  BY DEF RadarAssumption
<1>2. Cardinality(1..(MaxJobs + MaxFaults)) = MaxJobs + MaxFaults
  <2>1. CASE MaxJobs + MaxFaults = 0
    <3>1. 1..(MaxJobs + MaxFaults) = {}
      BY <2>1
    <3> QED BY <2>1, <3>1, FS_EmptySet
  <2>2. CASE MaxJobs + MaxFaults # 0
    <3>1. 1 <= MaxJobs + MaxFaults
      BY <1>1, <2>2
    <3> QED BY <1>1, <3>1, FS_Interval
  <2> QED BY <2>1, <2>2
<1> QED BY <1>1, <1>2 DEF Rows

\* A worker that goes on counts where it goes, and no more where it was.
LEMMA DoingMoves ==
    ASSUME worker \in [Workers -> TypedWorkers], NEW w \in Workers, NEW state,
           SetWorker(w, state), NEW i, NEW places, IsFiniteSet(Doing(i, places))
    PROVE  /\ IsFiniteSet(Doing(i, places)') /\ Cardinality(Doing(i, places)) \in Nat
           /\ Cardinality(Doing(i, places)') =
                Cardinality(Doing(i, places))
                  - (IF worker[w].pc \in places /\ worker[w].item = i THEN 1 ELSE 0)
                  + (IF state.pc \in places /\ state.item = i THEN 1 ELSE 0)
<1> DEFINE rest == Doing(i, places) \ {w}
           now == Doing(i, places)'
<1>1. worker'[w] = state /\ \A v \in Workers : v # w => worker'[v] = worker[v]
  BY DEF SetWorker
<1>2. now = IF state.pc \in places /\ state.item = i THEN rest \cup {w} ELSE rest
  BY <1>1 DEF Doing
<1>3. w \in Doing(i, places) <=> worker[w].pc \in places /\ worker[w].item = i
  BY DEF Doing
<1>4. /\ IsFiniteSet(rest) /\ Cardinality(Doing(i, places)) \in Nat /\ Cardinality(rest) \in Nat
      /\ Cardinality(rest) = Cardinality(Doing(i, places)) - (IF w \in Doing(i, places) THEN 1 ELSE 0)
  <2>1. /\ IsFiniteSet(rest)
        /\ Cardinality(rest) = IF w \in Doing(i, places) THEN Cardinality(Doing(i, places)) - 1
                                                         ELSE Cardinality(Doing(i, places))
    BY FS_RemoveElement
  <2>2. Cardinality(Doing(i, places)) \in Nat
    BY FS_CardinalityType
  <2>3. Cardinality(rest) \in Nat
    BY <2>1, FS_CardinalityType
  <2> QED BY <2>1, <2>2, <2>3
<1>5. w \notin rest
  OBVIOUS
<1> HIDE DEF rest
<1>6. IsFiniteSet(rest \cup {w}) /\ Cardinality(rest \cup {w}) = Cardinality(rest) + 1
  BY <1>4, <1>5, FS_AddElement
<1> QED BY <1>2, <1>3, <1>4, <1>6

LEMMA DoingStays == ASSUME worker' = worker, NEW i, NEW places
                    PROVE  Doing(i, places)' = Doing(i, places)
  BY DEF Doing

\* What the invariant says in numbers.
LEMMA BudgetIs ==
    ASSUME RadarAssumption, TypedInv, NEW i \in Items
    PROVE  /\ jds[i] \in Nat /\ waiting[i] \in Nat /\ asked[i] \in Nat /\ faults \in Nat
           /\ asked[i] <= MaxJobs /\ faults <= MaxFaults
           /\ Cardinality(matches[i]) \in Nat
           /\ Cardinality(Doing(i, BeforeJd)) \in Nat /\ Cardinality(Doing(i, BeforeMatch)) \in Nat
<1>1. /\ Cardinality(matches[i]) \in Nat
      /\ Cardinality(Doing(i, BeforeJd)) \in Nat /\ Cardinality(Doing(i, BeforeMatch)) \in Nat
  BY FS_CardinalityType DEF TypedInv, Budgets, Budget
<1>2. jds[i] \in 0..(MaxJobs + MaxFaults)
  BY RowsAre DEF TypedInv, TypeOK
<1> QED BY <1>1, <1>2 DEF TypedInv, TypeOK, RadarAssumption

\* The set of the workers counted is not empty while one is in it.
LEMMA DoingSome ==
    ASSUME NEW w \in Workers, NEW i, NEW places, IsFiniteSet(Doing(i, places)),
           worker[w].pc \in places, worker[w].item = i
    PROVE  Cardinality(Doing(i, places)) >= 1
<1>1. w \in Doing(i, places)
  BY DEF Doing
<1>2. Cardinality(Doing(i, places)) \in Nat /\ Cardinality(Doing(i, places)) # 0
  BY <1>1, FS_CardinalityType, FS_EmptySet
<1> QED BY <1>2

NothingGone == \A i \in Items : item[i] # NoItem => item'[i] # NoItem
ItemsTyped ==
    /\ item' \in [Items -> Item \cup {NoItem}]
    /\ visited' \in [Items -> SUBSET Statuses] /\ torn' \subseteq captured'
    /\ \A i \in Items : item'[i] # NoItem => i \in captured'

LEMMA ItemIs == NoItem \notin Item /\ DOMAIN NoItem = Columns
                /\ [NoItem EXCEPT !.status = "BROWSED"] \in Item
  BY DEF NoItem, Item, NoMatch, Statuses, Absent, Columns

\* What is written is a whole item, if one was there or all columns are.
LEMMA WriteTyped ==
    ASSUME TypedInv, NEW i \in captured, NEW row \in Item, NEW columns, Write(i, row, columns),
           item[i] # NoItem \/ columns = Columns, captured' = captured
    PROVE  ItemsTyped /\ NothingGone /\ item'[i] # NoItem
<1>1. i \in Items /\ item[i] \in Item \cup {NoItem} /\ item \in [Items -> Item \cup {NoItem}]
  BY DEF TypedInv, TypeOK
<1>2. Updated(item[i], row, columns) \in Item
  <2>1. CASE item[i] # NoItem
    <3>1. item[i] \in Item
      BY <1>1, <2>1
    <3>2. Updated(item[i], row, columns)
            = [status |-> IF "status" \in columns THEN row.status ELSE item[i].status,
               jd |-> IF "jd" \in columns THEN row.jd ELSE item[i].jd,
               match |-> IF "match" \in columns THEN row.match ELSE item[i].match]
      BY <3>1 DEF Updated, Item
    <3>3. /\ item[i].status \in Statuses /\ row.status \in Statuses
          /\ item[i].jd \in Rows \cup {NoRow} /\ row.jd \in Rows \cup {NoRow}
          /\ item[i].match \in Match \cup {NoMatch} /\ row.match \in Match \cup {NoMatch}
      BY <3>1 DEF Item
    <3> QED BY <3>2, <3>3 DEF Item
  <2>2. CASE item[i] = NoItem
    <3>1. columns = DOMAIN item[i]
      BY <2>2, ItemIs
    <3>2. row = [c \in DOMAIN item[i] |-> row[c]]
      BY <2>2 DEF Item, NoItem
    <3> QED BY <3>1, <3>2 DEF Updated
  <2> QED BY <2>1, <2>2
<1> HIDE DEF Item
<1>3. item' = [item EXCEPT ![i] = Updated(item[i], row, columns)]
  BY DEF Write
<1>4. /\ item' \in [Items -> Item \cup {NoItem}] /\ item'[i] \in Item /\ item'[i] # NoItem
      /\ \A k \in Items : k # i => item'[k] = item[k]
  BY <1>1, <1>2, <1>3, ItemIs
<1>5. item'[i].status \in Statuses
  BY <1>4 DEF Item
<1>6. visited' \in [Items -> SUBSET Statuses]
  <2>1. visited' = [visited EXCEPT ![i] = visited[i] \cup {item'[i].status}]
    BY DEF Write
  <2> QED BY <1>1, <1>5, <2>1 DEF TypedInv, TypeOK
<1>7. torn' \subseteq captured'
  BY DEF Write, TypedInv, TypeOK
<1> QED BY <1>1, <1>4, <1>6, <1>7 DEF ItemsTyped, NothingGone, TypedInv, Present

LEMMA ItemsStay ==
    ASSUME TypedInv, UNCHANGED itemVars, captured \subseteq captured'
    PROVE  ItemsTyped /\ NothingGone
  BY DEF TypedInv, TypeOK, Present, itemVars, ItemsTyped, NothingGone

\* Requests leave the budget alone, as long as failures are counted up.
LEMMA BudgetsStay ==
    ASSUME RadarAssumption, TypedInv, UNCHANGED <<jds, matches, waiting, asked, worker>>,
           faults' \in Nat, faults' >= faults
    PROVE  Budgets'
<1> SUFFICES ASSUME NEW i \in Items PROVE Budget(i)'
  BY DEF Budgets
<1>1. Budget(i)
  BY DEF TypedInv, Budgets
<1>2. Doing(i, BeforeJd)' = Doing(i, BeforeJd) /\ Doing(i, BeforeMatch)' = Doing(i, BeforeMatch)
  BY DoingStays
<1>3. /\ jds'[i] = jds[i] /\ matches'[i] = matches[i] /\ waiting'[i] = waiting[i]
      /\ asked'[i] = asked[i]
  OBVIOUS
<1> QED BY <1>1, <1>2, <1>3, BudgetIs DEF Budget

LEMMA CallTyped ==
    ASSUME RadarAssumption, TypedInv, NEW c \in Calls, NEW state \in TypedCalls, SetCall(c, state),
           ItemsTyped, NothingGone, UNCHANGED <<asked, waiting>>,
           captured \subseteq captured', captured' \subseteq Items, applied' \subseteq captured',
           state.pc \in {"submit", "save", "update"} => item'[state.item] # NoItem,
           state.pc = "addItem" => state.item \in captured'
    PROVE  TypedInv'
<1>1. UNCHANGED <<jds, matches, worker, faults, lost>> /\ call' = [call EXCEPT ![c] = state]
  BY DEF SetCall, faultVars
<1>2. call' \in [Calls -> TypedCalls] /\ \A d \in Calls : call'[d] = IF d = c THEN state ELSE call[d]
  BY <1>1 DEF TypedInv, TypeOK, TypedCalls
<1>3. Budgets'
  BY <1>1, BudgetsStay DEF TypedInv, TypeOK
<1>4. TypeOK'
  BY <1>1, <1>2 DEF TypedInv, TypeOK, TypedCalls, ItemsTyped
<1>5. Present'
  <2>1. \A i \in Items : item'[i] # NoItem => i \in captured'
    BY DEF ItemsTyped
  <2>2. \A i \in Items : waiting'[i] > 0 => item'[i] # NoItem
    BY DEF TypedInv, Present, NothingGone
  <2>3. ASSUME NEW w \in Workers, worker'[w] # Idle PROVE item'[worker'[w].item] # NoItem
    <3>1. worker[w].item \in Items
      BY <1>1, <2>3 DEF TypedInv, TypeOK, Idle
    <3> QED BY <1>1, <2>3, <3>1 DEF TypedInv, Present, NothingGone
  <2>4. ASSUME NEW d \in Calls, call'[d].pc \in {"submit", "save", "update"}
        PROVE  item'[call'[d].item] # NoItem
    <3>1. CASE d = c
      BY <1>2, <2>4, <3>1
    <3>2. CASE d # c
      <4>1. call'[d] = call[d] /\ call[d].item \in Items
        BY <1>2, <2>4, <3>2 DEF TypedInv, TypeOK, Idle
      <4> QED BY <2>4, <4>1 DEF TypedInv, Present, NothingGone
    <3> QED BY <3>1, <3>2
  <2>5. \A d \in Calls : call'[d].pc = "addItem" => call'[d].item \in captured'
    BY <1>2 DEF TypedInv, Present
  <2> QED BY <2>1, <2>2, <2>3, <2>4, <2>5 DEF Present
<1> QED BY <1>3, <1>4, <1>5 DEF TypedInv

LEMMA RequestsTyped ==
    ASSUME RadarAssumption, TypedInv, NEW c \in Calls,
           \/ \E i \in Items : Capture(c, i) \/ SaveApplication(c, i)
           \/ \E i \in Items, s \in Statuses : LoadItem(c, i, s)
           \/ CallSteps(c) \/ CallFails(c)
    PROVE  TypedInv'
<1>1. Idle \in TypedCalls /\ Idle.pc = "idle"
  BY DEF Idle, TypedCalls
<1>2. /\ captured \subseteq Items /\ applied \subseteq captured /\ call[c] \in TypedCalls
      /\ item \in [Items -> Item \cup {NoItem}]
  BY DEF TypedInv, TypeOK, TypedCalls
<1>3. ASSUME NEW i \in Items, Capture(c, i) PROVE TypedInv'
  <2>1. [pc |-> "addItem", item |-> i] \in TypedCalls
    BY DEF TypedCalls
  <2> QED BY <1>2, <1>3, <2>1, CallTyped, ItemsStay DEF Capture
<1>4. ASSUME NEW i \in Items, SaveApplication(c, i) PROVE TypedInv'
  <2>1. [pc |-> "submit", item |-> i] \in TypedCalls /\ i \in captured
    BY <1>4 DEF TypedCalls, SaveApplication, TypedInv, Present
  <2>2. item' = item
    BY <1>4 DEF SaveApplication, itemVars
  <2> QED BY <1>2, <1>4, <2>1, <2>2, CallTyped, ItemsStay DEF SaveApplication
<1>5. ASSUME NEW i \in Items, NEW s \in Statuses, LoadItem(c, i, s) PROVE TypedInv'
  <2> DEFINE row == [item[i] EXCEPT !.status = s]
             state == [pc |-> "save", item |-> i, row |-> row]
  <2>1. item[i] \in Item
    BY <1>2, <1>5 DEF LoadItem
  <2>2. row \in Item
    BY <2>1 DEF Item
  <2>3. SetCall(c, state) /\ item[i] # NoItem /\ UNCHANGED <<captured, itemVars, asked, waiting, applied>>
    BY <1>5 DEF LoadItem
  <2> HIDE DEF row
  <2>4. state \in TypedCalls /\ state.pc = "save" /\ state.item = i
    BY <2>2 DEF TypedCalls
  <2>5. item' = item
    BY <2>3 DEF itemVars
  <2> HIDE DEF state
  <2> QED BY <1>2, <2>3, <2>4, <2>5, CallTyped, ItemsStay
<1>6. CASE AddItem(c)
  <2>1. call[c].item \in captured
    BY <1>6 DEF AddItem, TypedInv, Present
  <2>2. ItemsTyped /\ NothingGone
    BY <1>6, <2>1, ItemIs, WriteTyped DEF AddItem
  <2> QED BY <1>1, <1>2, <1>6, <2>2, CallTyped DEF AddItem
<1>7. CASE SelectItem(c)
  <2> DEFINE i == call[c].item
             state == [pc |-> "update", item |-> i, row |-> call[c].row,
                       columns |-> Changed(item[i], call[c].row)]
  <2>1. i \in Items /\ call[c].row \in Item /\ item[i] # NoItem
    BY <1>2, <1>7 DEF SelectItem, TypedCalls, Idle, TypedInv, Present
  <2>2. Changed(item[i], call[c].row) \subseteq {"status", "jd", "match"}
    <3>1. item[i] \in Item
      BY <1>2, <2>1
    <3>2. DOMAIN item[i] = {"status", "jd", "match"}
      BY <3>1 DEF Item
    <3> QED BY <3>2 DEF Changed
  <2>3. SetCall(c, state) /\ UNCHANGED <<captured, itemVars, asked, waiting, applied>>
    BY <1>7 DEF SelectItem
  <2>4. state \in TypedCalls /\ state.pc = "update" /\ state.item = i
    BY <2>1, <2>2 DEF TypedCalls
  <2>5. item' = item
    BY <2>3 DEF itemVars
  <2> HIDE DEF state, i
  <2> QED BY <1>2, <2>1, <2>3, <2>4, <2>5, CallTyped, ItemsStay
<1>8. CASE UpdateItem(c)
  <2>1. call[c].item \in Items /\ call[c].row \in Item /\ item[call[c].item] # NoItem
    BY <1>2, <1>8 DEF UpdateItem, TypedCalls, Idle, TypedInv, Present
  <2>2. call[c].item \in captured
    BY <2>1 DEF TypedInv, Present
  <2>3. ItemsTyped /\ NothingGone
    BY <1>8, <2>1, <2>2, WriteTyped DEF UpdateItem
  <2> QED BY <1>1, <1>2, <1>8, <2>3, CallTyped DEF UpdateItem
<1>9. CASE MarkApplied(c)
  <2> DEFINE i == call[c].item
             row == [item[i] EXCEPT !.status = "APPLIED"]
  <2>1. i \in Items /\ item[i] # NoItem
    BY <1>2, <1>9 DEF MarkApplied, TypedCalls, Idle, TypedInv, Present
  <2>2. i \in captured /\ item[i] \in Item
    BY <1>2, <2>1 DEF TypedInv, Present
  <2>3. row \in Item
    BY <2>2 DEF Item, Statuses
  <2>4. Write(i, row, {"status"})
    BY <1>9 DEF MarkApplied, UpdateStatus
  <2> HIDE DEF row, i
  <2>5. ItemsTyped /\ NothingGone
    BY <1>9, <2>1, <2>2, <2>3, <2>4, WriteTyped DEF MarkApplied
  <2> QED BY <1>1, <1>2, <1>9, <2>5, CallTyped DEF MarkApplied
<1>10. CASE CallFails(c)
  <2>1. /\ UNCHANGED <<captured, itemVars, jds, matches, asked, waiting, worker, applied, lost>>
        /\ faults' \in 0..MaxFaults /\ faults' >= faults
    BY <1>10 DEF CallFails, TypedInv, TypeOK, RadarAssumption
  <2>2. Budgets'
    BY <2>1, BudgetsStay
  <2>3. call' \in [Calls -> TypedCalls] /\ \A d \in Calls : call'[d] \in {call[d], Idle}
    BY <1>1, <1>10 DEF CallFails, TypedInv, TypeOK, TypedCalls
  <2>4. TypeOK'
    BY <2>1, <2>3 DEF TypedInv, TypeOK, TypedCalls, itemVars
  <2>5. Present'
    BY <1>1, <2>1, <2>3 DEF TypedInv, Present, itemVars
  <2> QED BY <2>2, <2>4, <2>5 DEF TypedInv
<1> QED BY <1>3, <1>4, <1>5, <1>6, <1>7, <1>8, <1>9, <1>10 DEF CallSteps

LEMMA ItemsActTyped ==
    ASSUME RadarAssumption, TypedInv, NEW i \in Items, EnqueueAnalysis(i) \/ Farewell(i)
    PROVE  TypedInv'
<1>1. CASE EnqueueAnalysis(i)
  <2>1. /\ UNCHANGED <<captured, item, visited, torn, jds, matches, worker, call, applied, faults, lost>>
        /\ item[i] # NoItem /\ asked[i] < MaxJobs
    BY <1>1 DEF EnqueueAnalysis, itemVars, faultVars
  <2>2. /\ asked' = [asked EXCEPT ![i] = asked[i] + 1] /\ waiting' = [waiting EXCEPT ![i] = waiting[i] + 1]
        /\ asked \in [Items -> 0..MaxJobs] /\ waiting \in [Items -> Nat]
    BY <1>1 DEF EnqueueAnalysis, TypedInv, TypeOK
  <2>3. asked' \in [Items -> 0..MaxJobs] /\ waiting' \in [Items -> Nat]
    BY <2>1, <2>2 DEF RadarAssumption
  <2>4. TypeOK'
    BY <2>1, <2>3 DEF TypedInv, TypeOK
  <2>5. Present'
    BY <2>1, <2>2 DEF TypedInv, Present
  <2>6. ASSUME NEW k \in Items PROVE Budget(k)'
    <3>1. Budget(k) /\ matches'[k] = matches[k] /\ jds'[k] = jds[k] /\ faults' = faults
      BY <2>1 DEF TypedInv, Budgets
    <3>2. Doing(k, BeforeJd)' = Doing(k, BeforeJd) /\ Doing(k, BeforeMatch)' = Doing(k, BeforeMatch)
      BY <2>1, DoingStays
    <3>3. \/ waiting'[k] = waiting[k] /\ asked'[k] = asked[k]
          \/ waiting'[k] = waiting[k] + 1 /\ asked'[k] = asked[k] + 1
      BY <2>2
    <3> QED BY <3>1, <3>2, <3>3, BudgetIs DEF Budget
  <2> QED BY <2>4, <2>5, <2>6 DEF TypedInv, Budgets
<1>2. CASE Farewell(i)
  <2> DEFINE row == [item[i] EXCEPT !.status = "OFFER_ACCEPTED"]
  <2>1. i \in captured /\ item[i] \in Item /\ item[i] # NoItem
    BY <1>2 DEF Farewell, TypedInv, TypeOK, Present
  <2>2. row \in Item
    BY <2>1 DEF Item, Statuses
  <2>3. /\ Write(i, row, {"status"})
        /\ UNCHANGED <<captured, jds, matches, asked, waiting, worker, call, applied, faults, lost>>
    BY <1>2 DEF Farewell, UpdateStatus, faultVars
  <2> HIDE DEF row
  <2>4. ItemsTyped /\ NothingGone
    BY <2>1, <2>2, <2>3, WriteTyped
  <2>5. Budgets'
    BY <2>3, BudgetsStay, BudgetIs DEF TypedInv, TypeOK
  <2>6. TypeOK'
    BY <2>3, <2>4 DEF TypedInv, TypeOK, ItemsTyped
  <2>7. /\ \A w \in Workers : worker[w] # Idle => worker[w].item \in Items
        /\ \A c \in Calls : call[c].pc \in {"submit", "save", "update"} => call[c].item \in Items
    BY DEF TypedInv, TypeOK, Idle
  <2>8. Present'
    BY <2>3, <2>4, <2>7 DEF TypedInv, Present, ItemsTyped, NothingGone
  <2> QED BY <2>5, <2>6, <2>8 DEF TypedInv
<1> QED BY <1>1, <1>2

At(w, i, places) == IF worker[w].pc \in places /\ worker[w].item = i THEN 1 ELSE 0
To(state, i, places) == IF state.pc \in places /\ state.item = i THEN 1 ELSE 0

\* The balance of a worker's step.
LEMMA BudgetMoves ==
    ASSUME RadarAssumption, TypedInv, NEW w \in Workers, NEW state, SetWorker(w, state),
           NEW i \in Items, jds'[i] \in Nat, waiting'[i] \in Nat, faults' \in Nat,
           IsFiniteSet(matches'[i]),
           jds'[i] + waiting'[i] + To(state, i, BeforeJd) + faults
              <= jds[i] + waiting[i] + At(w, i, BeforeJd) + faults',
           Cardinality(matches'[i]) + waiting'[i] + To(state, i, BeforeMatch) + faults
              <= Cardinality(matches[i]) + waiting[i] + At(w, i, BeforeMatch) + faults'
    PROVE  Budget(i)'
<1>1. Budget(i) /\ worker \in [Workers -> TypedWorkers] /\ asked'[i] = asked[i]
  BY DEF TypedInv, Budgets, TypeOK, TypedWorkers, SetWorker
<1> DEFINE jd == Cardinality(Doing(i, BeforeJd))
           match == Cardinality(Doing(i, BeforeMatch))
           jdNow == Cardinality(Doing(i, BeforeJd)')
           matchNow == Cardinality(Doing(i, BeforeMatch)')
<1>2. /\ IsFiniteSet(Doing(i, BeforeJd)')
      /\ jdNow = jd - At(w, i, BeforeJd) + To(state, i, BeforeJd)
  BY <1>1, DoingMoves DEF Budget, At, To
<1>3. /\ IsFiniteSet(Doing(i, BeforeMatch)')
      /\ matchNow = match - At(w, i, BeforeMatch) + To(state, i, BeforeMatch)
  BY <1>1, DoingMoves DEF Budget, At, To
<1>4. /\ At(w, i, BeforeJd) \in Nat /\ To(state, i, BeforeJd) \in Nat
      /\ At(w, i, BeforeMatch) \in Nat /\ To(state, i, BeforeMatch) \in Nat
      /\ Cardinality(matches'[i]) \in Nat
  BY FS_CardinalityType DEF At, To
<1>5. /\ jd \in Nat /\ match \in Nat
      /\ jds[i] + jd + waiting[i] <= asked[i] + faults
      /\ Cardinality(matches[i]) + match + waiting[i] <= asked[i] + faults
  BY <1>1, BudgetIs DEF Budget
<1> HIDE DEF jd, match, jdNow, matchNow
<1>6. /\ jds'[i] + jdNow + waiting'[i] <= asked'[i] + faults'
      /\ Cardinality(matches'[i]) + matchNow + waiting'[i] <= asked'[i] + faults'
  BY <1>1, <1>2, <1>3, <1>4, <1>5, BudgetIs
<1> QED BY <1>2, <1>3, <1>6 DEF Budget, jdNow, matchNow

LEMMA WorkerTyped ==
    ASSUME RadarAssumption, TypedInv, NEW w \in Workers, NEW state \in TypedWorkers, SetWorker(w, state),
           ItemsTyped, NothingGone, jds' \in [Items -> Nat], matches' \in [Items -> SUBSET Match],
           waiting' \in [Items -> Nat], faults' \in 0..MaxFaults, lost' \subseteq captured, Budgets',
           \A i \in Items : waiting'[i] > 0 => item[i] # NoItem,
           state # Idle => item[state.item] # NoItem
    PROVE  TypedInv'
<1>1. UNCHANGED <<captured, call, asked, applied>> /\ worker' = [worker EXCEPT ![w] = state]
  BY DEF SetWorker
<1>2. worker' \in [Workers -> TypedWorkers]
      /\ \A v \in Workers : worker'[v] = IF v = w THEN state ELSE worker[v]
  BY <1>1 DEF TypedInv, TypeOK, TypedWorkers
<1>3. jds' \in [Items -> 0..Cardinality(Rows)]
  <2> SUFFICES ASSUME NEW i \in Items PROVE jds'[i] \in 0..(MaxJobs + MaxFaults)
    BY RowsAre
  <2>1. Budget(i)' /\ jds'[i] \in Nat /\ waiting'[i] \in Nat /\ asked'[i] \in 0..MaxJobs
    BY <1>1 DEF Budgets, TypedInv, TypeOK
  <2>2. Cardinality(Doing(i, BeforeJd)') \in Nat
    BY <2>1, FS_CardinalityType DEF Budget
  <2>3. jds'[i] + Cardinality(Doing(i, BeforeJd)') + waiting'[i] <= asked'[i] + faults'
    BY <2>1 DEF Budget
  <2> QED BY <2>1, <2>2, <2>3 DEF RadarAssumption
<1>4. TypeOK'
  BY <1>1, <1>2, <1>3 DEF TypedInv, TypeOK, TypedWorkers, ItemsTyped
<1>5. Present'
  <2>1. /\ \A c \in Calls : call[c].pc \in {"submit", "save", "update"} => call[c].item \in Items
        /\ \A v \in Workers : worker'[v] # Idle => worker'[v].item \in Items
    BY <1>2 DEF TypedInv, TypeOK, Idle, TypedWorkers
  <2>2. \A v \in Workers : worker'[v] # Idle => item[worker'[v].item] # NoItem
    BY <1>2 DEF TypedInv, Present
  <2> QED BY <1>1, <2>1, <2>2 DEF TypedInv, Present, ItemsTyped, NothingGone
<1> QED BY <1>4, <1>5 DEF TypedInv

LEMMA WorkersTyped ==
    ASSUME RadarAssumption, TypedInv, NEW w \in Workers, WorkerSteps(w) \/ JobFails(w) \/ Stall(w)
    PROVE  TypedInv'
<1> DEFINE i == worker[w].item
<1>1. /\ Idle \in TypedWorkers /\ Idle.pc = "idle" /\ worker[w] \in TypedWorkers
      /\ jds \in [Items -> Nat] /\ matches \in [Items -> SUBSET Match] /\ waiting \in [Items -> Nat]
      /\ faults \in 0..MaxFaults /\ faults \in Nat /\ lost \subseteq captured /\ captured \subseteq Items
      /\ \A k \in Items : IsFiniteSet(matches[k]) /\ Cardinality(matches[k]) \in Nat
  BY FS_CardinalityType, RowsAre DEF Idle, TypedInv, TypeOK, TypedWorkers, Budgets, Budget
<1>2. worker[w] # Idle => i \in Items /\ item[i] # NoItem /\ i \in captured
  BY <1>1 DEF TypedInv, Present, TypedWorkers
<1>3. \A k \in Items : waiting[k] > 0 => item[k] # NoItem
  BY DEF TypedInv, Present
\* A worker that takes no job and writes no row goes no further back.
<1>4. ASSUME NEW state \in TypedWorkers, SetWorker(w, state),
             UNCHANGED <<jds, matches, waiting>>, faults' \in 0..MaxFaults, faults' >= faults,
             lost' \subseteq captured, ItemsTyped, NothingGone,
             \A k \in Items : /\ To(state, k, BeforeJd) <= At(w, k, BeforeJd)
                              /\ To(state, k, BeforeMatch) <= At(w, k, BeforeMatch),
             state # Idle => item[state.item] # NoItem
      PROVE  TypedInv'
  <2>1. ASSUME NEW k \in Items PROVE Budget(k)'
    <3>1. /\ jds'[k] = jds[k] /\ waiting'[k] = waiting[k] /\ matches'[k] = matches[k]
          /\ jds[k] \in Nat /\ waiting[k] \in Nat /\ faults' \in Nat
      BY <1>1, <1>4 DEF RadarAssumption
    <3>2. /\ To(state, k, BeforeJd) <= At(w, k, BeforeJd) /\ To(state, k, BeforeJd) \in Nat
          /\ To(state, k, BeforeMatch) <= At(w, k, BeforeMatch) /\ To(state, k, BeforeMatch) \in Nat
          /\ At(w, k, BeforeJd) \in Nat /\ At(w, k, BeforeMatch) \in Nat
      BY <1>4 DEF To, At
    <3> HIDE DEF i
    <3> QED BY <1>1, <1>4, <3>1, <3>2, BudgetMoves
  <2> QED BY <1>1, <1>3, <1>4, <2>1, WorkerTyped DEF Budgets
<1>5. \A k \in Items : To(Idle, k, BeforeJd) = 0 /\ To(Idle, k, BeforeMatch) = 0
                       /\ At(w, k, BeforeJd) \in {0, 1} /\ At(w, k, BeforeMatch) \in {0, 1}
  BY <1>1 DEF To, At, BeforeJd, BeforeMatch
<1>6. ASSUME NEW k \in Items, TakeJob(w, k) PROVE TypedInv'
  <2> DEFINE state == [pc |-> "findJd", item |-> k]
  <2>1. /\ SetWorker(w, state) /\ waiting' = [waiting EXCEPT ![k] = waiting[k] - 1]
        /\ UNCHANGED <<itemVars, jds, matches, faults, lost, captured>>
        /\ waiting[k] > 0 /\ worker[w] = Idle
    BY <1>6 DEF TakeJob, faultVars, SetWorker
  <2>2. state \in TypedWorkers /\ state.item = k /\ state.pc = "findJd"
    BY DEF TypedWorkers
  <2>3. waiting' \in [Items -> Nat] /\ \A j \in Items : waiting'[j] = IF j = k THEN waiting[j] - 1 ELSE waiting[j]
    BY <1>1, <2>1
  <2>4. ASSUME NEW j \in Items PROVE Budget(j)'
    <3>1. /\ To(state, j, BeforeJd) = (IF j = k THEN 1 ELSE 0)
          /\ To(state, j, BeforeMatch) = (IF j = k THEN 1 ELSE 0)
      BY DEF To, BeforeJd, BeforeMatch
    <3>2. jds'[j] = jds[j] /\ matches'[j] = matches[j] /\ faults' = faults
      BY <2>1
    <3>3. waiting'[j] + (IF j = k THEN 1 ELSE 0) = waiting[j] /\ waiting'[j] \in Nat
      BY <1>1, <2>3
    <3> HIDE DEF state, i
    <3> QED BY <1>1, <1>5, <2>1, <3>1, <3>2, <3>3, BudgetMoves
  <2>5. ItemsTyped /\ NothingGone
    BY <2>1, ItemsStay
  <2>6. \A j \in Items : waiting'[j] > 0 => item[j] # NoItem
    BY <1>1, <1>3, <2>3
  <2>7. item[k] # NoItem
    BY <1>3, <2>1
  <2> HIDE DEF state, i
  <2> QED BY <1>1, <2>1, <2>2, <2>3, <2>4, <2>5, <2>6, <2>7, WorkerTyped DEF Budgets
<1>7. CASE FindJd(w)
  <2>1. worker[w].pc = "findJd" /\ worker[w] # Idle
    BY <1>7 DEF FindJd, Idle
  <2>2. UNCHANGED <<jds, matches, waiting, faults, lost, itemVars, captured>>
    BY <1>7 DEF FindJd, faultVars, SetWorker
  <2>3. ItemsTyped /\ NothingGone
    BY <2>2, ItemsStay
  <2>4. CASE jds[i] = 0
    <3> DEFINE state == [pc |-> "parse", item |-> i]
    <3>1. SetWorker(w, state)
      BY <1>7, <2>4 DEF FindJd
    <3>2. state \in TypedWorkers /\ state.item = i
      BY <1>2, <2>1 DEF TypedWorkers
    <3>3. \A k \in Items : /\ To(state, k, BeforeJd) <= At(w, k, BeforeJd)
                           /\ To(state, k, BeforeMatch) <= At(w, k, BeforeMatch)
      BY <2>1 DEF To, At, BeforeJd, BeforeMatch
    <3> HIDE DEF state, i
    <3> QED BY <1>1, <1>2, <1>4, <2>1, <2>2, <2>3, <3>1, <3>2, <3>3
  <2>5. CASE jds[i] # 0
    <3>1. PICK k \in 1..jds[i] : SetWorker(w, [pc |-> "findMatch", item |-> i, jd |-> k])
      BY <1>7, <2>5 DEF FindJd
    <3> DEFINE state == [pc |-> "findMatch", item |-> i, jd |-> k]
    <3>2. k \in Rows
      <4>1. jds[i] \in 0..(MaxJobs + MaxFaults)
        BY <1>2, <2>1, RowsAre DEF TypedInv, TypeOK
      <4> QED BY <3>1, <4>1, RowsAre
    <3>3. state \in TypedWorkers /\ state.item = i
      BY <1>2, <2>1, <3>2 DEF TypedWorkers
    <3>4. \A j \in Items : /\ To(state, j, BeforeJd) <= At(w, j, BeforeJd)
                           /\ To(state, j, BeforeMatch) <= At(w, j, BeforeMatch)
      BY <2>1 DEF To, At, BeforeJd, BeforeMatch
    <3>5. SetWorker(w, state)
      BY <3>1
    <3> HIDE DEF state, i
    <3> QED BY <1>1, <1>2, <1>4, <2>1, <2>2, <2>3, <3>3, <3>4, <3>5
  <2> QED BY <2>4, <2>5
<1>8. CASE SaveJd(w)
  <2> DEFINE state == [pc |-> "findMatch", item |-> i, jd |-> jds[i] + 1]
  <2>1. worker[w].pc = "parse" /\ worker[w] # Idle
    BY <1>8 DEF SaveJd, Idle
  <2>2. /\ SetWorker(w, state) /\ jds' = [jds EXCEPT ![i] = jds[i] + 1]
        /\ UNCHANGED <<itemVars, matches, waiting, faults, lost, captured>>
    BY <1>8 DEF SaveJd, faultVars, SetWorker
  <2>3. jds[i] + 1 \in Rows
    <3>1. Budget(i) /\ IsFiniteSet(Doing(i, BeforeJd))
      BY <1>2, <2>1 DEF TypedInv, Budgets, Budget
    <3>2. Cardinality(Doing(i, BeforeJd)) >= 1
      BY <2>1, <3>1, DoingSome DEF BeforeJd
    <3>3. i \in Items /\ jds[i] + Cardinality(Doing(i, BeforeJd)) + waiting[i] <= asked[i] + faults
      BY <1>2, <2>1, <3>1 DEF Budget
    <3> HIDE DEF i
    <3>4. /\ jds[i] \in Nat /\ waiting[i] \in Nat /\ asked[i] \in Nat /\ faults \in Nat
          /\ asked[i] <= MaxJobs /\ faults <= MaxFaults
          /\ Cardinality(Doing(i, BeforeJd)) \in Nat /\ MaxJobs \in Nat /\ MaxFaults \in Nat
      BY <3>3, BudgetIs DEF RadarAssumption
    <3>5. jds[i] + 1 \in Nat /\ jds[i] + 1 >= 1 /\ jds[i] + 1 <= MaxJobs + MaxFaults
      BY <3>2, <3>3, <3>4
    <3> QED BY <3>5, RowsAre
  <2>4. state \in TypedWorkers /\ state.item = i
    BY <1>2, <2>1, <2>3 DEF TypedWorkers
  <2>5. ASSUME NEW k \in Items PROVE Budget(k)'
    <3>1. /\ To(state, k, BeforeJd) = 0 /\ At(w, k, BeforeJd) = (IF k = i THEN 1 ELSE 0)
          /\ To(state, k, BeforeMatch) = At(w, k, BeforeMatch)
      BY <2>1 DEF To, At, BeforeJd, BeforeMatch
    <3>2. /\ jds'[k] = jds[k] + (IF k = i THEN 1 ELSE 0) /\ jds'[k] \in Nat
          /\ matches'[k] = matches[k] /\ waiting'[k] = waiting[k] /\ faults' = faults
      BY <1>1, <2>2
    <3> HIDE DEF state, i
    <3> QED BY <1>1, <1>5, <2>2, <3>1, <3>2, BudgetMoves
  <2>6. jds' \in [Items -> Nat] /\ ItemsTyped /\ NothingGone
    <3>1. i \in Items /\ jds[i] + 1 \in Nat
      BY <1>1, <1>2, <2>1
    <3> HIDE DEF i
    <3> QED BY <1>1, <2>2, <3>1, ItemsStay
  <2> HIDE DEF state, i
  <2> QED BY <1>1, <1>2, <1>3, <2>1, <2>2, <2>4, <2>5, <2>6, WorkerTyped DEF Budgets
<1>9. CASE FindMatch(w)
  <2>1. worker[w].pc = "findMatch" /\ worker[w] # Idle
    BY <1>9 DEF FindMatch, Idle
  <2>2. UNCHANGED <<jds, matches, waiting, faults, lost, itemVars, captured>>
    BY <1>9 DEF FindMatch, faultVars, SetWorker
  <2>3. ItemsTyped /\ NothingGone
    BY <2>2, ItemsStay
  <2>4. worker[w].jd \in Rows
    BY <1>1, <2>1 DEF TypedWorkers
  <2>5. PICK state \in TypedWorkers :
           SetWorker(w, state) /\ state.pc \in {"score", "mark"} /\ state.item = i
    <3>1. CASE MatchesOf(i, worker[w].jd) = {}
      <4> DEFINE state == [pc |-> "score", item |-> i, jd |-> worker[w].jd]
      <4>1. SetWorker(w, state)
        BY <1>9, <3>1 DEF FindMatch
      <4>2. state \in TypedWorkers
        BY <1>2, <2>1, <2>4 DEF TypedWorkers
      <4> QED BY <4>1, <4>2
    <3>2. CASE MatchesOf(i, worker[w].jd) # {}
      <4>1. PICK m \in MatchesOf(i, worker[w].jd) :
               SetWorker(w, [pc |-> "mark", item |-> i, jd |-> worker[w].jd, match |-> m])
        BY <1>9, <3>2 DEF FindMatch
      <4> DEFINE state == [pc |-> "mark", item |-> i, jd |-> worker[w].jd, match |-> m]
      <4>2. m \in Match
        BY <1>1, <1>2, <2>1, <4>1 DEF MatchesOf
      <4>3. state \in TypedWorkers
        BY <1>2, <2>1, <2>4, <4>2 DEF TypedWorkers
      <4> QED BY <4>1, <4>3
    <3> QED BY <3>1, <3>2
  <2>6. \A k \in Items : /\ To(state, k, BeforeJd) <= At(w, k, BeforeJd)
                         /\ To(state, k, BeforeMatch) <= At(w, k, BeforeMatch)
    BY <2>1, <2>5 DEF To, At, BeforeJd, BeforeMatch
  <2> HIDE DEF i
  <2> QED BY <1>1, <1>2, <1>4, <2>1, <2>2, <2>3, <2>5, <2>6
<1>10. CASE SaveMatch(w)
  <2> DEFINE n == Cardinality(MatchesOf(i, worker[w].jd)) + 1
             m == [jd |-> worker[w].jd, n |-> n]
             state == [pc |-> "mark", item |-> i, jd |-> worker[w].jd, match |-> m]
  <2>1. worker[w].pc = "score" /\ worker[w] # Idle /\ worker[w].jd \in Rows
    BY <1>1, <1>10 DEF SaveMatch, Idle, TypedWorkers
  <2>2. /\ SetWorker(w, state) /\ matches' = [matches EXCEPT ![i] = matches[i] \cup {m}]
        /\ UNCHANGED <<itemVars, jds, waiting, faults, lost, captured>>
    BY <1>10 DEF SaveMatch, faultVars, SetWorker
  <2>3. n \in Rows
    <3>1. Budget(i) /\ IsFiniteSet(Doing(i, BeforeMatch)) /\ i \in Items
      BY <1>2, <2>1 DEF TypedInv, Budgets, Budget
    <3>2. Cardinality(Doing(i, BeforeMatch)) >= 1
      BY <2>1, <3>1, DoingSome DEF BeforeMatch
    <3>3. /\ Cardinality(MatchesOf(i, worker[w].jd)) <= Cardinality(matches[i])
          /\ Cardinality(MatchesOf(i, worker[w].jd)) \in Nat
      <4>1. MatchesOf(i, worker[w].jd) \in SUBSET matches[i] /\ IsFiniteSet(matches[i])
        BY <1>1, <3>1 DEF MatchesOf
      <4>2. IsFiniteSet(MatchesOf(i, worker[w].jd))
            /\ Cardinality(MatchesOf(i, worker[w].jd)) <= Cardinality(matches[i])
        BY <4>1, FS_Subset
      <4> QED BY <4>2, FS_CardinalityType
    <3> HIDE DEF i
    <3>4. Cardinality(matches[i]) + Cardinality(Doing(i, BeforeMatch)) + waiting[i] <= asked[i] + faults
      BY <3>1 DEF Budget
    <3>5. /\ waiting[i] \in Nat /\ asked[i] \in Nat /\ faults \in Nat
          /\ asked[i] <= MaxJobs /\ faults <= MaxFaults /\ Cardinality(matches[i]) \in Nat
          /\ Cardinality(Doing(i, BeforeMatch)) \in Nat /\ MaxJobs \in Nat /\ MaxFaults \in Nat
      BY <3>1, BudgetIs DEF RadarAssumption
    <3>6. n \in Nat /\ n >= 1 /\ n <= MaxJobs + MaxFaults
      BY <3>2, <3>3, <3>4, <3>5
    <3> QED BY <3>6, RowsAre
  <2>4. m \in Match
    BY <2>1, <2>3 DEF Match
  <2> HIDE DEF n, m
  <2>5. state \in TypedWorkers /\ state.item = i /\ state.pc = "mark"
    BY <1>2, <2>1, <2>4 DEF TypedWorkers
  <2>6. ASSUME NEW k \in Items PROVE Budget(k)'
    <3>1. /\ To(state, k, BeforeJd) = 0 /\ To(state, k, BeforeMatch) = 0
          /\ At(w, k, BeforeJd) = 0 /\ At(w, k, BeforeMatch) = (IF k = i THEN 1 ELSE 0)
      BY <2>1 DEF To, At, BeforeJd, BeforeMatch
    <3>2. /\ IsFiniteSet(matches[k] \cup {m})
          /\ Cardinality(matches[k] \cup {m}) <= Cardinality(matches[k]) + 1
      <4>1. IsFiniteSet(matches[k]) /\ Cardinality(matches[k]) \in Nat
        BY <1>1
      <4>2. /\ IsFiniteSet(matches[k] \cup {m})
            /\ Cardinality(matches[k] \cup {m})
                 = IF m \in matches[k] THEN Cardinality(matches[k]) ELSE Cardinality(matches[k]) + 1
        BY <4>1, FS_AddElement
      <4> QED BY <4>1, <4>2
    <3>3. /\ jds'[k] = jds[k] /\ waiting'[k] = waiting[k] /\ faults' = faults
          /\ matches'[k] = IF k = i THEN matches[k] \cup {m} ELSE matches[k]
      BY <1>1, <2>2
    <3>4. /\ IsFiniteSet(matches'[k]) /\ Cardinality(matches'[k]) \in Nat
          /\ Cardinality(matches'[k]) <= Cardinality(matches[k]) + (IF k = i THEN 1 ELSE 0)
      <4>1. IsFiniteSet(matches'[k])
        BY <1>1, <3>2, <3>3
      <4>2. Cardinality(matches'[k]) \in Nat
        BY <4>1, FS_CardinalityType
      <4> QED BY <1>1, <3>2, <3>3, <4>1, <4>2
    <3>5. jds[k] \in Nat /\ waiting[k] \in Nat /\ Cardinality(matches[k]) \in Nat
      BY <1>1
    <3>6. jds'[k] + waiting'[k] + To(state, k, BeforeJd) + faults
             <= jds[k] + waiting[k] + At(w, k, BeforeJd) + faults'
      BY <1>1, <3>1, <3>3, <3>5
    <3>7. Cardinality(matches'[k]) + waiting'[k] + To(state, k, BeforeMatch) + faults
             <= Cardinality(matches[k]) + waiting[k] + At(w, k, BeforeMatch) + faults'
      BY <1>1, <3>1, <3>3, <3>4, <3>5
    <3>8. SetWorker(w, state) /\ jds'[k] \in Nat /\ waiting'[k] \in Nat /\ faults' \in Nat
      BY <1>1, <2>2, <3>3, <3>5
    <3> HIDE DEF state, i
    <3> QED BY <3>4, <3>6, <3>7, <3>8, BudgetMoves
  <2>7. matches' \in [Items -> SUBSET Match] /\ ItemsTyped /\ NothingGone
    BY <1>1, <2>2, <2>4, ItemsStay
  <2> HIDE DEF state, i
  <2> QED BY <1>1, <1>2, <1>3, <2>1, <2>2, <2>5, <2>6, <2>7, WorkerTyped DEF Budgets
<1>11. CASE MarkAnalyzed(w)
  <2> DEFINE row == [status |-> "ANALYZED", jd |-> worker[w].jd, match |-> worker[w].match]
  <2>1. worker[w].pc = "mark" /\ worker[w] # Idle
    BY <1>11 DEF MarkAnalyzed, Idle
  <2>2. row \in Item
    BY <1>1, <2>1 DEF TypedWorkers, Item, Statuses
  <2>3. /\ Write(i, row, Columns) /\ SetWorker(w, Idle)
        /\ UNCHANGED <<jds, matches, waiting, faults, lost, captured>>
    BY <1>11, ItemIs DEF MarkAnalyzed, faultVars, SetWorker
  <2> HIDE DEF row, i
  <2>4. ItemsTyped /\ NothingGone
    BY <1>2, <2>1, <2>2, <2>3, WriteTyped
  <2> QED BY <1>1, <1>4, <1>5, <2>3, <2>4
<1>12. CASE JobFails(w)
  <2>1. /\ SetWorker(w, Idle) /\ UNCHANGED <<itemVars, jds, matches, waiting, captured>>
        /\ worker[w] # Idle /\ lost' = lost \cup {i} /\ faults < MaxFaults /\ faults' = faults + 1
    BY <1>12 DEF JobFails, SetWorker
  <2>2. ItemsTyped /\ NothingGone /\ lost' \subseteq captured
    BY <1>1, <1>2, <2>1, ItemsStay
  <2>3. faults' \in 0..MaxFaults /\ faults' >= faults
    BY <1>1, <2>1 DEF RadarAssumption
  <2> HIDE DEF i
  <2> QED BY <1>1, <1>4, <1>5, <2>1, <2>2, <2>3
<1>13. CASE Stall(w)
  <2>1. /\ worker' = [worker EXCEPT ![w] = worker[w]]
        /\ UNCHANGED <<captured, itemVars, jds, matches, asked, call, applied, lost>>
        /\ worker[w] # Idle /\ faults < MaxFaults /\ faults' = faults + 1
        /\ waiting' = [waiting EXCEPT ![i] = waiting[i] + 1]
    BY <1>13 DEF Stall, TypedInv, TypeOK
  <2>2. SetWorker(w, worker[w])
    BY <2>1 DEF SetWorker
  <2>3. faults' \in 0..MaxFaults /\ faults' \in Nat
    BY <1>1, <2>1 DEF RadarAssumption
  <2>4. /\ waiting' \in [Items -> Nat]
        /\ \A k \in Items : waiting'[k] = waiting[k] + (IF k = i THEN 1 ELSE 0)
    <3>1. i \in Items /\ waiting[i] \in Nat
      BY <1>1, <1>2, <2>1
    <3> HIDE DEF i
    <3> QED BY <1>1, <2>1, <3>1
  <2>5. ASSUME NEW k \in Items PROVE Budget(k)'
    <3>1. /\ To(worker[w], k, BeforeJd) = At(w, k, BeforeJd)
          /\ To(worker[w], k, BeforeMatch) = At(w, k, BeforeMatch)
      BY DEF To, At
    <3>2. jds'[k] = jds[k] /\ matches'[k] = matches[k] /\ waiting'[k] <= waiting[k] + 1
          /\ waiting'[k] \in Nat
      BY <1>1, <2>1, <2>4
    <3> HIDE DEF i
    <3> QED BY <1>1, <1>5, <2>1, <2>2, <2>3, <3>1, <3>2, BudgetMoves
  <2>6. ItemsTyped /\ NothingGone
    BY <2>1, ItemsStay
  <2>7. \A k \in Items : waiting'[k] > 0 => item[k] # NoItem
    BY <1>1, <1>2, <1>3, <2>1, <2>4
  <2> QED BY <1>1, <1>2, <2>1, <2>2, <2>3, <2>4, <2>5, <2>6, <2>7, WorkerTyped DEF Budgets
<1> QED BY <1>6, <1>7, <1>8, <1>9, <1>10, <1>11, <1>12, <1>13 DEF WorkerSteps

LEMMA TypedBegins == ASSUME RadarAssumption, Init PROVE TypedInv
<1>1. TypeOK
  BY RowsAre DEF Init, TypeOK, RadarAssumption
<1>2. Present
  BY DEF Init, Present, Idle
<1>3. \A i, places : Doing(i, places) = {} \/ "idle" \in places
  BY DEF Init, Doing, Idle
<1>4. ASSUME NEW i \in Items PROVE Budget(i)
  <2>1. Doing(i, BeforeJd) = {} /\ Doing(i, BeforeMatch) = {}
    BY <1>3 DEF BeforeJd, BeforeMatch
  <2>2. jds[i] = 0 /\ matches[i] = {} /\ waiting[i] = 0 /\ asked[i] = 0 /\ faults = 0
    BY DEF Init
  <2> QED BY <2>1, <2>2, FS_EmptySet DEF Budget
<1> QED BY <1>1, <1>2, <1>4 DEF TypedInv, Budgets

LEMMA TypedStep == ASSUME RadarAssumption, TypedInv, [Next]_vars PROVE TypedInv'
<1>1. CASE UNCHANGED vars
  <2>1. Budgets'
    BY <1>1, BudgetsStay DEF vars, TypedInv, TypeOK
  <2> QED BY <1>1, <2>1 DEF vars, TypedInv, TypeOK, Present
<1> QED BY <1>1, RequestsTyped, ItemsActTyped, WorkersTyped DEF Next

\* An item, once there, is whole and stays, only captured jobs are analysed,
\* moved or submitted, and a capture has no more parsed JDs and no more matches
\* of one of them than analyses were asked for or repeated; for any number of
\* captures, workers, requests, jobs and failures.
THEOREM RadarTypeCorrect == ASSUME RadarAssumption PROVE Spec => []TypeOK
<1>1. Init => TypedInv
  BY TypedBegins
<1>2. TypedInv /\ [Next]_vars => TypedInv'
  BY TypedStep
<1>3. TypedInv => TypeOK
  BY DEF TypedInv
<1> QED BY <1>1, <1>2, <1>3, PTL DEF Spec

-----------------------------------------------------------------------------
(* The safety side of AnalysisArrives: what would make it false without any *)
(* unfairness is a job that is gone while its item is BROWSED.              *)

Analysing(i) == waiting[i] > 0 \/ \E w \in Workers : worker[w] # Idle /\ worker[w].item = i

\* An item whose analysis was queued and that is still, or again, BROWSED has
\* a job that waits or runs, or one of its analyses has failed: no stalled
\* job, stale save or second analysis loses it, or takes the item back.
NoAnalysisVanishes ==
    \A i \in Items : asked[i] > 0 /\ item[i].status = "BROWSED" => i \in lost \/ Analysing(i)

AskedIsThere == \A i \in Items : asked[i] > 0 => item[i] # NoItem
\* An item is added by the request that captured it, once.
AddedOnce ==
    \A c \in Calls : call[c].pc = "addItem" =>
        /\ item[call[c].item] = NoItem
        /\ \A d \in Calls : call[d].pc = "addItem" /\ call[d].item = call[c].item => d = c
\* No status change leads back to BROWSED.
CopiesMoveOn == \A c \in Calls : call[c].pc \in {"save", "update"} => call[c].row.status # "BROWSED"

ArriveInv == AskedIsThere /\ AddedOnce /\ CopiesMoveOn /\ NoAnalysisVanishes

LEMMA StatusWritten ==
    ASSUME TypedInv, NEW i \in Items, NEW row \in Item, NEW columns, Write(i, row, columns),
           item[i] # NoItem \/ columns = Columns
    PROVE  /\ \A k \in Items : k # i => item'[k] = item[k]
           /\ item'[i].status = IF "status" \in columns THEN row.status ELSE item[i].status
<1>1. item[i] \in Item \cup {NoItem} /\ item \in [Items -> Item \cup {NoItem}]
  BY DEF TypedInv, TypeOK
<1>2. "status" \in DOMAIN item[i]
  BY <1>1, ItemIs DEF Item, NoItem, Columns
<1>3. item'[i] = Updated(item[i], row, columns) /\ \A k \in Items : k # i => item'[k] = item[k]
  BY <1>1 DEF Write
<1> QED BY <1>2, <1>3 DEF Updated

\* A request that reads, or forgets what it has read.
LEMMA CallArrives ==
    ASSUME TypedInv, ArriveInv, NEW c \in Calls, NEW state, call' = [call EXCEPT ![c] = state],
           UNCHANGED <<item, asked, waiting, worker, lost>>,
           state.pc = "addItem" => /\ item[state.item] = NoItem
                                   /\ \A d \in Calls : call[d].pc = "addItem" => call[d].item # state.item,
           state.pc \in {"save", "update"} => state.row.status # "BROWSED"
    PROVE  ArriveInv'
<1>1. \A d \in Calls : call'[d] = IF d = c THEN state ELSE call[d]
  BY DEF TypedInv, TypeOK
<1>2. AddedOnce'
  BY <1>1 DEF ArriveInv, AddedOnce
<1>3. CopiesMoveOn'
  BY <1>1 DEF ArriveInv, CopiesMoveOn
<1> QED BY <1>2, <1>3 DEF ArriveInv, AskedIsThere, NoAnalysisVanishes, Analysing

\* An item is written, by a request or a worker that is done with it.
LEMMA WriteArrives ==
    ASSUME TypedInv, ArriveInv, NEW i \in Items, NEW row \in Item, NEW columns, Write(i, row, columns),
           item[i] # NoItem \/ columns = Columns, NothingGone, UNCHANGED <<asked, waiting, lost>>,
           \A c \in Calls : call'[c] \in {call[c], Idle},
           \A c \in Calls : call'[c].pc = "addItem" => call'[c].item # i,
           \A w \in Workers : worker'[w] = worker[w] \/ worker[w].item = i,
           item'[i].status # "BROWSED" \/ asked[i] = 0 \/ (item'[i].status = item[i].status
                                                           /\ worker' = worker)
    PROVE  ArriveInv'
<1>1. /\ \A k \in Items : k # i => item'[k] = item[k]
  BY StatusWritten
<1>2. \A c \in Calls : /\ call'[c].pc = "addItem" => call'[c] = call[c] /\ call[c].item \in Items
                       /\ call'[c].pc \in {"save", "update"} => call'[c] = call[c]
  BY DEF Idle, TypedInv, TypeOK
<1>3. AskedIsThere'
  BY DEF ArriveInv, AskedIsThere, NothingGone
<1>4. AddedOnce'
  BY <1>1, <1>2 DEF ArriveInv, AddedOnce
<1>5. CopiesMoveOn'
  BY <1>2 DEF ArriveInv, CopiesMoveOn
<1>6. ASSUME NEW k \in Items, asked'[k] > 0, item'[k].status = "BROWSED"
      PROVE  k \in lost' \/ Analysing(k)'
  <2>1. asked[k] \in Nat /\ asked[k] > 0 /\ item[k].status = "BROWSED"
    BY <1>1, <1>6 DEF TypedInv, TypeOK
  <2>2. k \in lost \/ Analysing(k)
    BY <2>1 DEF ArriveInv, NoAnalysisVanishes
  <2>3. k = i => worker' = worker
    BY <1>6, <2>1
  <2>4. \A w \in Workers : worker[w].item = k => worker'[w] = worker[w]
    BY <2>3
  <2> QED BY <2>2, <2>4 DEF Analysing
<1> QED BY <1>3, <1>4, <1>5, <1>6 DEF ArriveInv, NoAnalysisVanishes

\* A worker that goes on with its item, or takes one, writes no item.
LEMMA WorkerArrives ==
    ASSUME TypedInv, ArriveInv, NEW w \in Workers, NEW state, worker' = [worker EXCEPT ![w] = state],
           UNCHANGED <<item, asked, call>>, lost \subseteq lost',
           \A i \in Items : waiting[i] > 0 => waiting'[i] > 0 \/ (state # Idle /\ state.item = i),
           worker[w] # Idle => worker[w].item \in lost' \/ (state # Idle /\ state.item = worker[w].item)
    PROVE  ArriveInv'
<1>1. \A v \in Workers : worker'[v] = IF v = w THEN state ELSE worker[v]
  BY DEF TypedInv, TypeOK
<1>2. ASSUME NEW i \in Items, i \in lost \/ Analysing(i) PROVE i \in lost' \/ Analysing(i)'
  BY <1>1, <1>2 DEF Analysing
<1> QED BY <1>2 DEF ArriveInv, AskedIsThere, AddedOnce, CopiesMoveOn, NoAnalysisVanishes

LEMMA RequestsArrive ==
    ASSUME TypedInv, ArriveInv, TypedInv', NEW c \in Calls,
           \/ \E i \in Items : Capture(c, i) \/ SaveApplication(c, i)
           \/ \E i \in Items, s \in Statuses : LoadItem(c, i, s)
           \/ CallSteps(c) \/ CallFails(c)
    PROVE  ArriveInv'
<1>1. Idle.pc = "idle" /\ call[c] \in TypedCalls /\ item \in [Items -> Item \cup {NoItem}]
  BY DEF Idle, TypedInv, TypeOK, TypedCalls
<1>2. ASSUME NEW i \in Items, Capture(c, i) PROVE ArriveInv'
  <2>1. item[i] = NoItem /\ \A d \in Calls : call[d].pc = "addItem" => call[d].item # i
    BY <1>2 DEF Capture, TypedInv, Present
  <2> QED BY <1>2, <2>1, CallArrives DEF Capture, SetCall, itemVars, faultVars
<1>3. ASSUME NEW i \in Items, SaveApplication(c, i) PROVE ArriveInv'
  BY <1>3, CallArrives DEF SaveApplication, SetCall, itemVars, faultVars
<1>4. ASSUME NEW i \in Items, NEW s \in Statuses, LoadItem(c, i, s) PROVE ArriveInv'
  <2> DEFINE row == [item[i] EXCEPT !.status = s]
             state == [pc |-> "save", item |-> i, row |-> row]
  <2>1. s # "BROWSED"
    BY <1>4 DEF LoadItem, Allowed, VALID_RADAR_TRANSITIONS
  <2>2. item[i] \in Item
    BY <1>1, <1>4 DEF LoadItem
  <2>3. row.status # "BROWSED"
    BY <2>1, <2>2 DEF Item
  <2>4. call' = [call EXCEPT ![c] = state] /\ UNCHANGED <<item, asked, waiting, worker, lost>>
    BY <1>4 DEF LoadItem, SetCall, itemVars, faultVars
  <2> HIDE DEF row
  <2> QED BY <2>3, <2>4, CallArrives
<1>5. CASE SelectItem(c)
  <2> DEFINE state == [pc |-> "update", item |-> call[c].item, row |-> call[c].row,
                       columns |-> Changed(item[call[c].item], call[c].row)]
  <2>1. call[c].row.status # "BROWSED"
    BY <1>5 DEF SelectItem, ArriveInv, CopiesMoveOn
  <2>2. call' = [call EXCEPT ![c] = state] /\ UNCHANGED <<item, asked, waiting, worker, lost>>
    BY <1>5 DEF SelectItem, SetCall, itemVars, faultVars
  <2> QED BY <2>1, <2>2, CallArrives
<1>6. CASE CallFails(c)
  BY <1>1, <1>6, CallArrives DEF CallFails, itemVars
\* The three that write.
<1>7. ASSUME SetCall(c, Idle)
      PROVE  /\ UNCHANGED <<worker, lost>> /\ \A d \in Calls : call'[d] \in {call[d], Idle}
             /\ call'[c].pc = "idle" /\ \A d \in Calls : d # c => call'[d] = call[d]
  BY <1>1, <1>7 DEF SetCall, faultVars, TypedInv, TypeOK
<1>8. CASE AddItem(c)
  <2> DEFINE i == call[c].item
             row == [NoItem EXCEPT !.status = "BROWSED"]
  <2>1. i \in captured /\ i \in Items /\ item[i] = NoItem
    BY <1>8 DEF AddItem, TypedInv, TypeOK, Present, ArriveInv, AddedOnce
  <2>2. row \in Item /\ Write(i, row, Columns)
    BY <1>8, ItemIs DEF AddItem
  <2>3. asked[i] = 0
    BY <2>1 DEF ArriveInv, AskedIsThere, TypedInv, TypeOK
  <2>4. \A d \in Calls : call'[d].pc = "addItem" => call'[d].item # i
    BY <1>7, <1>8 DEF AddItem, ArriveInv, AddedOnce
  <2>5. UNCHANGED <<asked, waiting, captured>>
    BY <1>8 DEF AddItem
  <2> HIDE DEF row, i
  <2>6. NothingGone
    BY <2>1, <2>2, <2>5, WriteTyped
  <2> QED BY <1>7, <1>8, <2>1, <2>2, <2>3, <2>4, <2>5, <2>6, WriteArrives DEF AddItem
<1>9. ASSUME NEW i \in Items, NEW row \in Item, NEW columns, Write(i, row, columns), SetCall(c, Idle),
             UNCHANGED <<asked, waiting, captured>>, item[i] # NoItem, row.status # "BROWSED"
      PROVE  ArriveInv'
  <2>1. i \in captured
    BY <1>9 DEF TypedInv, Present
  <2>2. NothingGone
    BY <1>9, <2>1, WriteTyped
  <2>3. \A d \in Calls : call'[d].pc = "addItem" => call'[d].item # i
    BY <1>7, <1>9 DEF ArriveInv, AddedOnce
  <2>4. item'[i].status = IF "status" \in columns THEN row.status ELSE item[i].status
    BY <1>9, StatusWritten
  <2> QED BY <1>7, <1>9, <2>2, <2>3, <2>4, WriteArrives
<1>10. CASE UpdateItem(c)
  <2>1. call[c].item \in Items /\ call[c].row \in Item /\ item[call[c].item] # NoItem
    BY <1>1, <1>10 DEF UpdateItem, TypedCalls, Idle, TypedInv, Present
  <2>2. call[c].row.status # "BROWSED"
    BY <1>10 DEF UpdateItem, ArriveInv, CopiesMoveOn
  <2> QED BY <1>9, <1>10, <2>1, <2>2 DEF UpdateItem
<1>11. CASE MarkApplied(c)
  <2> DEFINE i == call[c].item
             row == [item[i] EXCEPT !.status = "APPLIED"]
  <2>1. i \in Items /\ item[i] # NoItem
    BY <1>1, <1>11 DEF MarkApplied, TypedCalls, Idle, TypedInv, Present
  <2>2. item[i] \in Item
    BY <1>1, <2>1
  <2>3. row \in Item /\ row.status # "BROWSED"
    BY <2>2 DEF Item, Statuses
  <2>4. Write(i, row, {"status"})
    BY <1>11 DEF MarkApplied, UpdateStatus
  <2> HIDE DEF row, i
  <2> QED BY <1>9, <1>11, <2>1, <2>3, <2>4 DEF MarkApplied
<1> QED BY <1>2, <1>3, <1>4, <1>5, <1>6, <1>8, <1>10, <1>11 DEF CallSteps

LEMMA ItemsArrive ==
    ASSUME RadarAssumption, TypedInv, ArriveInv, NEW i \in Items, EnqueueAnalysis(i) \/ Farewell(i)
    PROVE  ArriveInv'
<1>1. CASE EnqueueAnalysis(i)
  <2>1. /\ UNCHANGED <<item, call, worker, lost>> /\ item[i] # NoItem
        /\ asked' = [asked EXCEPT ![i] = asked[i] + 1] /\ waiting' = [waiting EXCEPT ![i] = waiting[i] + 1]
        /\ asked \in [Items -> 0..MaxJobs] /\ waiting \in [Items -> Nat]
    BY <1>1 DEF EnqueueAnalysis, itemVars, faultVars, TypedInv, TypeOK
  <2>2. \A k \in Items : /\ k # i => asked'[k] = asked[k] /\ waiting'[k] = waiting[k]
                         /\ k = i => waiting'[k] > 0
    BY <2>1
  <2> QED BY <2>1, <2>2 DEF ArriveInv, AskedIsThere, AddedOnce, CopiesMoveOn, NoAnalysisVanishes, Analysing
<1>2. CASE Farewell(i)
  <2> DEFINE row == [item[i] EXCEPT !.status = "OFFER_ACCEPTED"]
  <2>1. i \in captured /\ item[i] \in Item /\ item[i] # NoItem
    BY <1>2 DEF Farewell, TypedInv, TypeOK, Present
  <2>2. row \in Item /\ row.status # "BROWSED" /\ row.status = "OFFER_ACCEPTED"
    BY <2>1 DEF Item, Statuses
  <2>3. Write(i, row, {"status"}) /\ UNCHANGED <<captured, asked, waiting, worker, call, lost>>
    BY <1>2 DEF Farewell, UpdateStatus, faultVars
  <2> HIDE DEF row
  <2>4. NothingGone /\ item'[i].status # "BROWSED"
    BY <2>1, <2>2, <2>3, WriteTyped, StatusWritten
  <2>5. \A c \in Calls : call[c].pc = "addItem" => call[c].item # i
    BY <2>1 DEF ArriveInv, AddedOnce
  <2> QED BY <2>1, <2>2, <2>3, <2>4, <2>5, WriteArrives
<1> QED BY <1>1, <1>2

LEMMA WorkersArrive ==
    ASSUME TypedInv, ArriveInv, NEW w \in Workers, WorkerSteps(w) \/ JobFails(w) \/ Stall(w)
    PROVE  ArriveInv'
<1> DEFINE i == worker[w].item
<1>1. Idle.pc = "idle" /\ worker[w] \in TypedWorkers /\ waiting \in [Items -> Nat]
  BY DEF Idle, TypedInv, TypeOK, TypedWorkers
<1>2. worker[w] # Idle => i \in Items /\ item[i] # NoItem /\ i \in captured
  BY <1>1 DEF TypedInv, Present, TypedWorkers
<1>3. ASSUME NEW k \in Items, TakeJob(w, k) PROVE ArriveInv'
  <2> DEFINE state == [pc |-> "findJd", item |-> k]
  <2>1. /\ worker' = [worker EXCEPT ![w] = state] /\ UNCHANGED <<item, asked, call, lost>>
        /\ waiting' = [waiting EXCEPT ![k] = waiting[k] - 1] /\ worker[w] = Idle
    BY <1>3 DEF TakeJob, SetWorker, itemVars, faultVars
  <2>2. state # Idle /\ state.item = k
    BY DEF Idle
  <2>3. \A j \in Items : j # k => waiting'[j] = waiting[j]
    BY <1>1, <2>1
  <2> HIDE DEF state, i
  <2> QED BY <2>1, <2>2, <2>3, WorkerArrives
<1>4. ASSUME NEW state, SetWorker(w, state), UNCHANGED <<itemVars, waiting, faultVars>>,
             state.pc # "idle", state.item = i
      PROVE  ArriveInv'
  <2>1. worker' = [worker EXCEPT ![w] = state] /\ UNCHANGED <<item, asked, call, lost, waiting>>
    BY <1>4 DEF SetWorker, itemVars, faultVars
  <2>2. state # Idle
    BY <1>1, <1>4
  <2> QED BY <1>4, <2>1, <2>2, WorkerArrives
<1>5. CASE FindJd(w)
  <2>1. PICK state : SetWorker(w, state) /\ state.pc # "idle" /\ state.item = i
    <3>1. CASE jds[i] = 0
      <4>1. SetWorker(w, [pc |-> "parse", item |-> i])
        BY <1>5, <3>1 DEF FindJd
      <4> QED BY <4>1
    <3>2. CASE jds[i] # 0
      <4>1. PICK k : SetWorker(w, [pc |-> "findMatch", item |-> i, jd |-> k])
        BY <1>5, <3>2 DEF FindJd
      <4> QED BY <4>1
    <3> QED BY <3>1, <3>2
  <2> QED BY <1>4, <1>5, <2>1 DEF FindJd
<1>6. CASE SaveJd(w)
  <2>1. SetWorker(w, [pc |-> "findMatch", item |-> i, jd |-> jds[i] + 1])
    BY <1>6 DEF SaveJd
  <2> QED BY <1>4, <1>6, <2>1 DEF SaveJd
<1>7. CASE FindMatch(w)
  <2>1. PICK state : SetWorker(w, state) /\ state.pc # "idle" /\ state.item = i
    <3>1. CASE MatchesOf(i, worker[w].jd) = {}
      <4>1. SetWorker(w, [pc |-> "score", item |-> i, jd |-> worker[w].jd])
        BY <1>7, <3>1 DEF FindMatch
      <4> QED BY <4>1
    <3>2. CASE MatchesOf(i, worker[w].jd) # {}
      <4>1. PICK m : SetWorker(w, [pc |-> "mark", item |-> i, jd |-> worker[w].jd, match |-> m])
        BY <1>7, <3>2 DEF FindMatch
      <4> QED BY <4>1
    <3> QED BY <3>1, <3>2
  <2> QED BY <1>4, <1>7, <2>1 DEF FindMatch
<1>8. CASE SaveMatch(w)
  <2>1. PICK m : SetWorker(w, [pc |-> "mark", item |-> i, jd |-> worker[w].jd, match |-> m])
    BY <1>8 DEF SaveMatch
  <2> QED BY <1>4, <1>8, <2>1 DEF SaveMatch
<1>9. CASE MarkAnalyzed(w)
  <2> DEFINE row == [status |-> "ANALYZED", jd |-> worker[w].jd, match |-> worker[w].match]
  <2>1. worker[w].pc = "mark" /\ worker[w] # Idle
    BY <1>1, <1>9 DEF MarkAnalyzed
  <2>2. row \in Item /\ row.status = "ANALYZED" /\ "status" \in Columns
    BY <1>1, <2>1 DEF TypedWorkers, Item, Statuses, Columns
  <2>3. /\ Write(i, row, Columns) /\ worker' = [worker EXCEPT ![w] = Idle]
        /\ UNCHANGED <<captured, asked, waiting, call, lost>>
    BY <1>9, ItemIs DEF MarkAnalyzed, faultVars, SetWorker
  <2>4. \A v \in Workers : worker'[v] = worker[v] \/ worker[v].item = i
    BY <2>3 DEF TypedInv, TypeOK
  <2>5. \A c \in Calls : call[c].pc = "addItem" => call[c].item # i
    BY <1>2, <2>1 DEF ArriveInv, AddedOnce
  <2> HIDE DEF row, i
  <2>6. NothingGone /\ item'[i].status # "BROWSED"
    BY <1>2, <2>1, <2>2, <2>3, WriteTyped, StatusWritten
  <2> QED BY <1>2, <2>1, <2>2, <2>3, <2>4, <2>5, <2>6, WriteArrives
<1>10. CASE JobFails(w)
  <2>1. /\ worker' = [worker EXCEPT ![w] = Idle] /\ UNCHANGED <<item, asked, call, waiting>>
        /\ lost' = lost \cup {i}
    BY <1>10 DEF JobFails, SetWorker, itemVars
  <2> HIDE DEF i
  <2> QED BY <2>1, WorkerArrives DEF i
<1>11. CASE Stall(w)
  <2>1. /\ worker' = [worker EXCEPT ![w] = worker[w]] /\ UNCHANGED <<item, asked, call, lost>>
        /\ waiting' = [waiting EXCEPT ![i] = waiting[i] + 1]
    BY <1>11 DEF Stall, itemVars, TypedInv, TypeOK
  <2>2. \A k \in Items : waiting[k] > 0 => waiting'[k] > 0
    BY <1>1, <2>1
  <2> HIDE DEF i
  <2> QED BY <2>1, <2>2, WorkerArrives
<1> QED BY <1>3, <1>5, <1>6, <1>7, <1>8, <1>9, <1>10, <1>11 DEF WorkerSteps

\* Whatever runs, stalls, saves late or fails elsewhere, a queued analysis is
\* never just gone: for any number of captures, workers, requests and jobs.
THEOREM AnalysesStay == ASSUME RadarAssumption PROVE Spec => []NoAnalysisVanishes
<1>1. Init => TypedInv /\ ArriveInv
  <2>1. Init => ArriveInv
    BY DEF Init, ArriveInv, AskedIsThere, AddedOnce, CopiesMoveOn, NoAnalysisVanishes, Idle
  <2> QED BY <2>1, TypedBegins
<1>2. TypedInv /\ ArriveInv /\ [Next]_vars => TypedInv' /\ ArriveInv'
  <2> SUFFICES ASSUME TypedInv, ArriveInv, [Next]_vars PROVE TypedInv' /\ ArriveInv'
    OBVIOUS
  <2>1. TypedInv'
    BY TypedStep
  <2>2. CASE UNCHANGED vars
    BY <2>1, <2>2 DEF vars, ArriveInv, AskedIsThere, AddedOnce, CopiesMoveOn, NoAnalysisVanishes, Analysing
  <2> QED BY <2>1, <2>2, RequestsArrive, ItemsArrive, WorkersArrive DEF Next
<1>3. ArriveInv => NoAnalysisVanishes
  BY DEF ArriveInv
<1> QED BY <1>1, <1>2, <1>3, PTL DEF Spec
=============================================================================
