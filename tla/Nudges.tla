------------------------------- MODULE Nudges --------------------------------
(***************************************************************************)
(* The hourly follow-up job (followup-scheduler.service.ts): every backend *)
(* instance looks, for each checkpoint, for applications that have waited  *)
(* that long, and opens a FOLLOWUP conversation for those without one.     *)
(*                                                                         *)
(* Time is in ticks; a run starts at any tick of its hour, as timers do.   *)
(* The extension opens no FOLLOWUP conversations itself.                   *)
(***************************************************************************)
EXTENDS Naturals, FiniteSets

CONSTANTS
    Instances,      \* backend instances, one run at a time each
    Applications,          \* radar items
    Hour,           \* ticks of an hour
    Checkpoints,    \* days 3, 8 and 15, in ticks
    MaxTime, MaxMoves   \* bounds: ticks, status changes

ASSUME NudgesAssumption ==
    /\ IsFiniteSet(Instances)
    /\ Hour \in Nat \ {0} /\ Checkpoints \subseteq Nat \ {0}
    /\ MaxTime \in Nat /\ MaxMoves \in Nat

VARIABLES
    now,
    radar,      \* status and lastStatusAt of the items
    nudges,     \* FOLLOWUP conversations: id, item, whether its message is stored
    run,        \* what each instance's run is doing
    lastHour,   \* the hour of each instance's latest run
    moves,
    \* an observation:
    finished    \* start times of the latest runs that went through

nudgeVars == <<now, radar, nudges, run, lastHour, moves, finished>>

RunIdle == [pc |-> "idle"]
Nudge == [id : Nat, item : Applications, message : BOOLEAN]
\* at: the time a run took at its start; left: checkpoints to come;
\* due: the items of this checkpoint still to visit.
Run ==
    {RunIdle}
    \cup [pc : {"list"}, at : 0..MaxTime, left : SUBSET Checkpoints]
    \cup [pc : {"visit"}, at : 0..MaxTime, left : SUBSET Checkpoints, due : SUBSET Applications]
    \cup [pc : {"save"}, at : 0..MaxTime, left : SUBSET Checkpoints, due : SUBSET Applications,
          item : Applications]
    \cup [pc : {"write"}, at : 0..MaxTime, left : SUBSET Checkpoints, due : SUBSET Applications, id : Nat]

NudgesTypeOK ==
    /\ now \in 0..MaxTime /\ moves \in 0..MaxMoves
    /\ radar \in [Applications -> [applied : BOOLEAN, since : 0..MaxTime]]
    /\ nudges \subseteq Nudge
    /\ run \in [Instances -> Run]
    /\ lastHour \in [Instances -> Nat]
    /\ finished \subseteq 0..MaxTime

NudgesInit ==
    /\ now = 0 /\ moves = 0 /\ nudges = {} /\ finished = {}
    /\ radar \in [Applications -> [applied : BOOLEAN, since : {0}]]
    /\ run = [w \in Instances |-> RunIdle]
    /\ lastHour = [w \in Instances |-> 0]

SetRun(w, state) == run' = [run EXCEPT ![w] = state]
ThisHour == 1 + now \div Hour

-----------------------------------------------------------------------------
\* The item becomes APPLIED, or gets some other status.
Move(i) ==
    /\ moves < MaxMoves
    /\ moves' = moves + 1
    /\ \E applied \in BOOLEAN : radar' = [radar EXCEPT ![i] = [applied |-> applied, since |-> now]]
    /\ UNCHANGED <<now, nudges, run, lastHour, finished>>

NudgesTick ==
    /\ now < MaxTime
    /\ now' = now + 1
    /\ UNCHANGED <<radar, nudges, run, lastHour, moves, finished>>

\* @Cron('0 * * * *'); an instance that is down leaves its hour out.
StartRun(w) ==
    /\ run[w] = RunIdle /\ lastHour[w] < ThisHour
    /\ lastHour' = [lastHour EXCEPT ![w] = ThisHour]
    /\ SetRun(w, [pc |-> "list", at |-> now, left |-> Checkpoints])
    /\ UNCHANGED <<now, radar, nudges, moves, finished>>

\* mutant: the window is open at both ends.
DueExclusive(i, at, d) == radar[i].applied /\ radar[i].since + d < at /\ at < radar[i].since + d + Hour

\* APPLIED for d, and for less than an hour more.
Due(i, at, d) == radar[i].applied /\ radar[i].since + d <= at /\ at < radar[i].since + d + Hour

NextCheckpoint(left) == CHOOSE d \in left : \A e \in left : d <= e

Finishes(at) == finished' = {at} \cup {t \in finished : at <= t + Hour}

\* The items of the next checkpoint, or the end of the run.
ListDue(w) ==
    /\ run[w].pc = "list"
    /\ IF run[w].left = {}
       THEN SetRun(w, RunIdle) /\ Finishes(run[w].at)
       ELSE LET d == NextCheckpoint(run[w].left)
            IN /\ SetRun(w, [pc |-> "visit", at |-> run[w].at, left |-> run[w].left \ {d},
                             due |-> {i \in Applications : Due(i, run[w].at, d)}])
               /\ UNCHANGED finished
    /\ UNCHANGED <<now, radar, nudges, lastHour, moves>>

NudgesOf(i) == {n \in nudges : n.item = i}

\* mutant: a conversation without its message does not count.
NoNudgeOrEmpty(i) == \A n \in NudgesOf(i) : ~n.message
NoNudge(i) == NudgesOf(i) = {}

\* createNudgeIfAbsent: a conversation of any checkpoint is enough.
Visit(w) ==
    /\ run[w].pc = "visit"
    /\ IF run[w].due = {}
       THEN SetRun(w, [pc |-> "list", at |-> run[w].at, left |-> run[w].left])
       ELSE \E i \in run[w].due :
               SetRun(w, IF NoNudge(i)
                         THEN [pc |-> "save", at |-> run[w].at, left |-> run[w].left,
                               due |-> run[w].due \ {i}, item |-> i]
                         ELSE [run[w] EXCEPT !.due = @ \ {i}])
    /\ UNCHANGED <<now, radar, nudges, lastHour, moves, finished>>

NextNudge == Cardinality(nudges) + 1

SaveNudge(w) ==
    /\ run[w].pc = "save"
    /\ nudges' = nudges \cup {[id |-> NextNudge, item |-> run[w].item, message |-> FALSE]}
    /\ SetRun(w, [pc |-> "write", at |-> run[w].at, left |-> run[w].left, due |-> run[w].due,
                  id |-> NextNudge])
    /\ UNCHANGED <<now, radar, lastHour, moves, finished>>

WriteMessage(w) ==
    /\ run[w].pc = "write"
    /\ nudges' = {IF n.id = run[w].id THEN [n EXCEPT !.message = TRUE] ELSE n : n \in nudges}
    /\ SetRun(w, [pc |-> "visit", at |-> run[w].at, left |-> run[w].left, due |-> run[w].due])
    /\ UNCHANGED <<now, radar, lastHour, moves, finished>>

\* Nothing is caught: whatever throws, the rest of the run is not done.
RunFails(w) ==
    /\ run[w] # RunIdle
    /\ SetRun(w, RunIdle)
    /\ UNCHANGED <<now, radar, nudges, lastHour, moves, finished>>

NudgesNext ==
    \/ NudgesTick
    \/ \E i \in Applications : Move(i)
    \/ \E w \in Instances :
          StartRun(w) \/ ListDue(w) \/ Visit(w) \/ SaveNudge(w) \/ WriteMessage(w) \/ RunFails(w)

NudgesSpec == NudgesInit /\ [][NudgesNext]_nudgeVars

-----------------------------------------------------------------------------
\* "Safe to call multiple times": however many checkpoints, hours and failures
\* there are, an application is asked about at most once by each instance.
NudgesBounded == \A i \in Applications : Cardinality(NudgesOf(i)) <= Cardinality(Instances)

\* Two runs that went through, no more than an hour apart, let no checkpoint
\* slip between them: an application still waiting has its conversation.
NoCheckpointSlips ==
    \A i \in Applications, d \in Checkpoints, before, after \in finished :
        /\ radar[i].applied
        /\ before < radar[i].since + d /\ radar[i].since + d <= after
        /\ after <= before + Hour
        => NudgesOf(i) # {}
=============================================================================
