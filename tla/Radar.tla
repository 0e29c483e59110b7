------------------------------- MODULE Radar --------------------------------
(***************************************************************************)
(* Radar items and everything that moves them: capture and analysis of a   *)
(* job (jobs.service.ts, jobs.processor.ts), the user's status changes     *)
(* (updateRadarStatus), recorded submissions (apply.service.ts) and the    *)
(* farewell tool of the agent. An item belongs to one capture; its owner   *)
(* is the only caller. Queue workers and requests interleave at awaits.    *)
(***************************************************************************)
EXTENDS Naturals, FiniteSets, EntitySave

CONSTANTS
    Items,          \* captures, each with its radar item
    Workers,        \* queue workers, of one or several backend instances
    Calls,          \* requests that may be in flight at once
    Shortcuts,      \* whether submissions and the farewell tool are at work
    MaxJobs,        \* bounds: analysis jobs asked for per item,
    MaxFaults       \*         failures

Absent == "no item"
VALID_RADAR_TRANSITIONS ==
    {<<"BROWSED", "ANALYZED">>, <<"BROWSED", "DECIDED_NO">>,
     <<"ANALYZED", "DECIDED">>, <<"ANALYZED", "DECIDED_NO">>,
     <<"DECIDED", "APPLIED">>,
     <<"APPLIED", "INTERVIEWING">>, <<"APPLIED", "REJECTED">>,
     <<"INTERVIEWING", "OFFER_RECEIVED">>, <<"INTERVIEWING", "REJECTED">>,
     <<"OFFER_RECEIVED", "OFFER_ACCEPTED">>, <<"OFFER_RECEIVED", "OFFER_REJECTED">>}
Statuses == {"BROWSED", "ANALYZED", "DECIDED", "DECIDED_NO", "APPLIED", "INTERVIEWING",
             "REJECTED", "OFFER_RECEIVED", "OFFER_ACCEPTED", "OFFER_REJECTED"}

ASSUME RadarAssumption ==
    /\ Shortcuts \in BOOLEAN /\ MaxJobs \in Nat /\ MaxFaults \in Nat

VARIABLES
    captured,   \* captures saved
    item,       \* the radar row of each capture: status, parsedJdId, matchId
    jds,        \* parsed-JD rows of each capture, numbered from 1
    matches,    \* match rows, each with its parsed JD and a number
    asked,      \* analysis jobs ever queued, per item
    waiting,    \* jobs waiting in the JOB_ANALYZE queue
    worker,     \* what each worker is doing
    call,       \* what each request is doing
    applied,    \* items with an application row
    faults,
    lost,       \* items an analysis of which failed
    \* observations, of no effect on the rest:
    visited,    \* the statuses each item has had
    torn        \* items of which a save wrote one of the two references only

vars == <<captured, item, jds, matches, asked, waiting, worker, call, applied, faults, lost,
          visited, torn>>
faultVars == <<faults, lost>>
itemVars == <<item, visited, torn>>

Rows == 1..(MaxJobs + MaxFaults)    \* no job writes two rows of a kind
NoRow == 0
Match == [jd : Rows, n : Rows]
NoMatch == [jd |-> NoRow, n |-> NoRow]
NoItem == [status |-> Absent, jd |-> NoRow, match |-> NoMatch]
Item == [status : Statuses, jd : Rows \cup {NoRow}, match : Match \cup {NoMatch}]
Idle == [pc |-> "idle"]

TypeOK ==
    /\ captured \subseteq Items /\ applied \subseteq captured
    /\ item \in [Items -> Item \cup {NoItem}]
    /\ jds \in [Items -> 0..Cardinality(Rows)]
    /\ matches \in [Items -> SUBSET Match]
    /\ asked \in [Items -> 0..MaxJobs] /\ waiting \in [Items -> Nat]
    /\ worker \in [Workers -> {Idle} \cup [pc : {"findJd", "parse"}, item : Items]
                      \cup [pc : {"findMatch", "score"}, item : Items, jd : Rows]
                      \cup [pc : {"mark"}, item : Items, jd : Rows, match : Match]]
    /\ call \in [Calls -> {Idle} \cup [pc : {"addItem", "submit"}, item : Items]
                    \cup [pc : {"save"}, item : Items, row : Item]
                    \cup [pc : {"update"}, item : Items, row : Item,
                          columns : SUBSET {"status", "jd", "match"}]]
    /\ faults \in 0..MaxFaults /\ lost \subseteq captured
    /\ visited \in [Items -> SUBSET Statuses] /\ torn \subseteq captured

Init ==
    /\ captured = {} /\ applied = {}
    /\ item = [i \in Items |-> NoItem]
    /\ jds = [i \in Items |-> 0]
    /\ matches = [i \in Items |-> {}]
    /\ asked = [i \in Items |-> 0]
    /\ waiting = [i \in Items |-> 0]
    /\ worker = [w \in Workers |-> Idle]
    /\ call = [c \in Calls |-> Idle]
    /\ faults = 0 /\ lost = {}
    /\ visited = [i \in Items |-> {}] /\ torn = {}

\* UPDATE jobs_radar_items SET the columns to what they are in row.
Write(i, row, columns) ==
    /\ item' = [item EXCEPT ![i] = Updated(@, row, columns)]
    /\ visited' = [visited EXCEPT ![i] = @ \cup {item'[i].status}]
    /\ torn' = torn \cup {k \in {i} : Cardinality(columns \cap {"jd", "match"}) = 1}

UpdateStatus(i, s) == Write(i, [item[i] EXCEPT !.status = s], {"status"})

-----------------------------------------------------------------------------
(* Requests *)

SetCall(c, state) ==
    /\ call' = [call EXCEPT ![c] = state]
    /\ UNCHANGED <<jds, matches, worker, faultVars>>

\* captureJob: the capture, then its radar item. Nothing looks for an
\* earlier capture of the same page.
Capture(c, i) ==
    /\ call[c] = Idle
    /\ i \notin captured
    /\ captured' = captured \cup {i}
    /\ SetCall(c, [pc |-> "addItem", item |-> i])
    /\ UNCHANGED <<itemVars, asked, waiting, applied>>

AddItem(c) ==
    /\ call[c].pc = "addItem"
    /\ Write(call[c].item, [NoItem EXCEPT !.status = "BROWSED"], DOMAIN NoItem)
    /\ SetCall(c, Idle)
    /\ UNCHANGED <<captured, asked, waiting, applied>>

\* enqueueAnalysis: as often as the page or the agent asks for it, once the
\* answer of captureJob has told them the id.
EnqueueAnalysis(i) ==
    /\ item[i] # NoItem
    /\ asked[i] < MaxJobs
    /\ asked' = [asked EXCEPT ![i] = @ + 1]
    /\ waiting' = [waiting EXCEPT ![i] = @ + 1]
    /\ UNCHANGED <<captured, itemVars, jds, matches, worker, call, applied, faultVars>>

AllowedUnchecked(from, to) == from # to     \* mutant: no table of transitions
Allowed(from, to) == <<from, to>> \in VALID_RADAR_TRANSITIONS

\* updateRadarStatus: load the row, check it, save the row that was loaded.
LoadItem(c, i, s) ==
    /\ call[c] = Idle
    /\ item[i] # NoItem
    /\ Allowed(item[i].status, s)
    /\ SetCall(c, [pc |-> "save", item |-> i, row |-> [item[i] EXCEPT !.status = s]])
    /\ UNCHANGED <<captured, itemVars, asked, waiting, applied>>

SelectItem(c) ==
    /\ call[c].pc = "save"
    /\ LET i == call[c].item
       IN SetCall(c, [pc |-> "update", item |-> i, row |-> call[c].row,
                      columns |-> Changed(item[i], call[c].row)])
    /\ UNCHANGED <<captured, itemVars, asked, waiting, applied>>

UpdateItem(c) ==
    /\ call[c].pc = "update"
    /\ Write(call[c].item, call[c].row, call[c].columns)
    /\ SetCall(c, Idle)
    /\ UNCHANGED <<captured, asked, waiting, applied>>

\* recordSubmission: the application row, then the item, whatever its status.
SaveApplication(c, i) ==
    /\ Shortcuts
    /\ call[c] = Idle
    /\ item[i] # NoItem
    /\ applied' = applied \cup {i}
    /\ SetCall(c, [pc |-> "submit", item |-> i])
    /\ UNCHANGED <<captured, itemVars, asked, waiting>>

MarkApplied(c) ==
    /\ call[c].pc = "submit"
    /\ UpdateStatus(call[c].item, "APPLIED")
    /\ SetCall(c, Idle)
    /\ UNCHANGED <<captured, asked, waiting, applied>>

\* The farewell tool, for the item the model names, whatever its status.
Farewell(i) ==
    /\ Shortcuts
    /\ item[i] # NoItem
    /\ UpdateStatus(i, "OFFER_ACCEPTED")
    /\ UNCHANGED <<captured, jds, matches, asked, waiting, worker, call, applied, faultVars>>

CallFails(c) ==
    /\ call[c] # Idle
    /\ faults < MaxFaults
    /\ faults' = faults + 1
    /\ call' = [call EXCEPT ![c] = Idle]
    /\ UNCHANGED <<captured, itemVars, jds, matches, asked, waiting, worker, applied, lost>>

-----------------------------------------------------------------------------
(* JobsProcessor.process. "Idempotent" steps look for the row they would    *)
(* write before they ask the model; which of several rows a search returns  *)
(* is up to the database.                                                   *)

SetWorker(w, state) ==
    /\ worker' = [worker EXCEPT ![w] = state]
    /\ UNCHANGED <<captured, call, asked, applied>>

TakeJob(w, i) ==
    /\ worker[w] = Idle
    /\ waiting[i] > 0
    /\ waiting' = [waiting EXCEPT ![i] = @ - 1]
    /\ SetWorker(w, [pc |-> "findJd", item |-> i])
    /\ UNCHANGED <<itemVars, jds, matches, faultVars>>

FindJd(w) ==
    /\ worker[w].pc = "findJd"
    /\ LET i == worker[w].item
       IN IF jds[i] = 0 THEN SetWorker(w, [pc |-> "parse", item |-> i])
          ELSE \E k \in 1..jds[i] : SetWorker(w, [pc |-> "findMatch", item |-> i, jd |-> k])
    /\ UNCHANGED <<itemVars, jds, matches, waiting, faultVars>>

\* mutant: the row's id is read before the row has one.
SaveJdIdTooEarly(w) ==
    /\ worker[w].pc = "parse"
    /\ LET i == worker[w].item
       IN /\ jds' = [jds EXCEPT ![i] = @ + 1]
          /\ SetWorker(w, [pc |-> "findMatch", item |-> i, jd |-> jds[i]])
    /\ UNCHANGED <<itemVars, matches, waiting, faultVars>>

SaveJd(w) ==
    /\ worker[w].pc = "parse"
    /\ LET i == worker[w].item
       IN /\ jds' = [jds EXCEPT ![i] = @ + 1]
          /\ SetWorker(w, [pc |-> "findMatch", item |-> i, jd |-> jds[i] + 1])
    /\ UNCHANGED <<itemVars, matches, waiting, faultVars>>

MatchesOfCapture(i, k) == matches[i]        \* mutant: searched by capture
MatchesOf(i, k) == {m \in matches[i] : m.jd = k}

FindMatch(w) ==
    /\ worker[w].pc = "findMatch"
    /\ LET i == worker[w].item
           k == worker[w].jd
       IN IF MatchesOf(i, k) = {}
          THEN SetWorker(w, [pc |-> "score", item |-> i, jd |-> k])
          ELSE \E m \in MatchesOf(i, k) :
                  SetWorker(w, [pc |-> "mark", item |-> i, jd |-> k, match |-> m])
    /\ UNCHANGED <<itemVars, jds, matches, waiting, faultVars>>

SaveMatch(w) ==
    /\ worker[w].pc = "score"
    /\ LET i == worker[w].item
           m == [jd |-> worker[w].jd, n |-> Cardinality(MatchesOf(i, worker[w].jd)) + 1]
       IN /\ matches' = [matches EXCEPT ![i] = @ \cup {m}]
          /\ SetWorker(w, [pc |-> "mark", item |-> i, jd |-> worker[w].jd, match |-> m])
    /\ UNCHANGED <<itemVars, jds, waiting, faultVars>>

\* mutant: the ids are written, the status is not.
MarkIdsOnly(w) ==
    /\ worker[w].pc = "mark"
    /\ Write(worker[w].item, [item[worker[w].item] EXCEPT
                                 !.jd = worker[w].jd, !.match = worker[w].match],
             {"jd", "match"})
    /\ SetWorker(w, Idle)
    /\ UNCHANGED <<jds, matches, waiting, faultVars>>

MarkAnalyzed(w) ==
    /\ worker[w].pc = "mark"
    /\ Write(worker[w].item, [status |-> "ANALYZED", jd |-> worker[w].jd,
                              match |-> worker[w].match], DOMAIN NoItem)
    /\ SetWorker(w, Idle)
    /\ UNCHANGED <<jds, matches, waiting, faultVars>>

\* The model, the search or the database fails; one attempt is all there is.
JobFails(w) ==
    /\ worker[w] # Idle
    /\ faults < MaxFaults
    /\ faults' = faults + 1
    /\ lost' = lost \cup {worker[w].item}
    /\ SetWorker(w, Idle)
    /\ UNCHANGED <<itemVars, jds, matches, waiting>>

\* The lock is not renewed in time and the queue hands the job out again.
Stall(w) ==
    /\ worker[w] # Idle
    /\ faults < MaxFaults
    /\ faults' = faults + 1
    /\ waiting' = [waiting EXCEPT ![worker[w].item] = @ + 1]
    /\ UNCHANGED <<captured, itemVars, jds, matches, asked, worker, call, applied, lost>>

-----------------------------------------------------------------------------
WorkerSteps(w) ==
    \/ \E i \in Items : TakeJob(w, i)
    \/ FindJd(w) \/ SaveJd(w) \/ FindMatch(w) \/ SaveMatch(w) \/ MarkAnalyzed(w)
CallSteps(c) == AddItem(c) \/ SelectItem(c) \/ UpdateItem(c) \/ MarkApplied(c)

Next ==
    \/ \E c \in Calls, i \in Items : Capture(c, i) \/ SaveApplication(c, i)
    \/ \E c \in Calls, i \in Items, s \in Statuses : LoadItem(c, i, s)
    \/ \E c \in Calls : CallSteps(c) \/ CallFails(c)
    \/ \E i \in Items : EnqueueAnalysis(i) \/ Farewell(i)
    \/ \E w \in Workers : WorkerSteps(w) \/ JobFails(w) \/ Stall(w)

Spec == Init /\ [][Next]_vars

\* Workers take what waits, and what has begun goes on.
Fairness ==
    /\ \A w \in Workers : WF_vars(WorkerSteps(w))
    /\ \A c \in Calls : WF_vars(CallSteps(c))

FairSpec == Spec /\ Fairness

-----------------------------------------------------------------------------
(* Properties *)

\* The match an item shows was computed for the parsed JD it shows, however
\* many analyses of the capture ran at once and whichever rows they found;
\* the one thing that parts them is a status change that is saved across
\* several analyses, and puts back one of the two references.
RefsAgree == \A i \in Items \ torn : item[i].match.jd = item[i].jd

\* No shortcut to an interview: whatever is overwritten, an item that is
\* INTERVIEWING was APPLIED before, one with an offer was INTERVIEWING.
MilestonesInOrder ==
    \A i \in Items :
        /\ "INTERVIEWING" \in visited[i] => "APPLIED" \in visited[i]
        /\ "OFFER_RECEIVED" \in visited[i] => "INTERVIEWING" \in visited[i]
        /\ "OFFER_REJECTED" \in visited[i] => "OFFER_RECEIVED" \in visited[i]

\* An item whose analysis was queued leaves BROWSED, whatever else runs or
\* fails at the same time and however often the job stalls, unless one of its
\* own analyses fails: nothing tries again.
AnalysisArrives ==
    \A i \in Items : (waiting[i] > 0 /\ item[i].status = "BROWSED")
                         ~> (item[i].status # "BROWSED" \/ i \in lost)
=============================================================================
