------------------------------- MODULE Memory --------------------------------
(***************************************************************************)
(* What the memory queue makes of a conversation (memory.processor.ts and  *)
(* context-builder.service.ts): long histories are summarised and          *)
(* archived, preferences are mined into the user's goals. The jobs run     *)
(* while prompts go on storing messages, and may stall and run twice.      *)
(***************************************************************************)
EXTENDS Conversation

CONSTANTS
    Workers,        \* queue workers, of one or several backend instances
    CompressAt,     \* ROLLING_MESSAGES_WINDOW: 20 in the code
    MineFirst       \* messages an extraction loads: 60 in the code

ASSUME MemoryAssumption == CompressAt \in Nat \ {0} /\ MineFirst \in Nat \ {0}

VARIABLES
    summaries,  \* conv_rolling_summary
    goals,      \* the user's goal memory: of each part, the authors it is from
    worker,     \* what each worker is doing
    \* observations, of no effect on the rest:
    mixed       \* prompts that ran beside another, or while a history was read

memoryVars == <<summaries, goals, worker, mixed>>
vars == <<convVars, memoryVars>>

Authors == Prompts \cup Stored

\* read: the ids whose words were summarised; masked: those of which the
\* summary was told that they are encrypted; inFlight: those drawn but not
\* inserted when the history was read.
Summary ==
    [first : Ids, last : Ids, read : SUBSET Ids, masked : SUBSET Ids, inFlight : SUBSET Ids]
\* The lists, the salary floor and the short-term goal: of none when it is null
\* or the empty string.
Goals == [lists : SUBSET Authors, salary : SUBSET Authors, aim : SUBSET Authors]
NoGoals == [lists |-> {}, salary |-> {}, aim |-> {}]
Idle == [pc |-> "idle"]

TypeOK ==
    /\ ConversationTypeOK
    /\ summaries \subseteq Summary
    /\ goals \in Goals
    /\ worker \in [Workers -> {Idle} \cup [pc : {"summarise", "archive"}, s : Summary]
                      \cup [pc : {"find"}, heard : SUBSET Authors]
                      \cup [pc : {"upsert"}, heard : SUBSET Authors, existing : Goals]]
    /\ mixed \subseteq Prompts

Init ==
    /\ ConversationInit
    /\ summaries = {} /\ goals = NoGoals /\ mixed = {}
    /\ worker = [w \in Workers |-> Idle]

RunningPrompts == {p \in Prompts : Running(p)}

\* A prompt is sent.
Send(p) ==
    /\ Respond(p)
    /\ mixed' = mixed \cup (IF RunningPrompts = {} THEN {} ELSE RunningPrompts \cup {p})
    /\ UNCHANGED <<summaries, goals, worker>>

-----------------------------------------------------------------------------
(* compressConversation *)

SetWorker(w, state) ==
    /\ worker' = [worker EXCEPT ![w] = state]
    /\ UNCHANGED <<minted, loop, stream, closes>>

Unarchived == {i \in DOMAIN msgs : ~msgs[i].archived}
IdsOf(rows) == {msgs[i].id : i \in rows}

\* messageBrief: of an encrypted user message the summary is made from the
\* placeholder. Every other row that is stored has a brief of its words.
Masked(m) == m.role = "USER" /\ ~m.plain

\* findMessagesToCompress. Whether the rows hold 10 000 tokens is up to what
\* they say; the ids are those of the first and last row by createdAt.
ReadHistory(w) ==
    /\ worker[w] = Idle /\ compress > 0
    /\ compress' = compress - 1
    /\ \/ /\ Cardinality(Unarchived) >= CompressAt
          /\ \E first, last \in Unarchived :
                /\ Unarchived \subseteq first..last
                /\ SetWorker(w, [pc |-> "summarise",
                      s |-> [first |-> msgs[first].id, last |-> msgs[last].id,
                             read |-> IdsOf({i \in Unarchived : ~Masked(msgs[i])}),
                             masked |-> IdsOf({i \in Unarchived : Masked(msgs[i])}),
                             inFlight |-> InFlight]])
       \/ SetWorker(w, Idle)
    /\ mixed' = mixed \cup RunningPrompts
    /\ UNCHANGED <<msgs, extract, faults, summaries, goals>>

\* mutant: the summary is not waited for, and its insert may fail.
SaveSummaryUnawaited(w) ==
    /\ worker[w].pc = "summarise"
    /\ summaries' \in {summaries, summaries \cup {worker[w].s}}
    /\ SetWorker(w, [worker[w] EXCEPT !.pc = "archive"])
    /\ UNCHANGED <<msgs, compress, extract, faults, goals, mixed>>

SaveSummary(w) ==
    /\ worker[w].pc = "summarise"
    /\ summaries' = summaries \cup {worker[w].s}
    /\ SetWorker(w, [worker[w] EXCEPT !.pc = "archive"])
    /\ UNCHANGED <<msgs, compress, extract, faults, goals, mixed>>

ToArchiveAll(s, id) == TRUE         \* mutant: every message of the conversation
ToArchive(s, id) == s.first <= id /\ id <= s.last

\* UPDATE ... WHERE id BETWEEN first AND last.
Archive(w) ==
    /\ worker[w].pc = "archive"
    /\ msgs' = [i \in DOMAIN msgs |->
                   [msgs[i] EXCEPT !.archived = @ \/ ToArchive(worker[w].s, msgs[i].id)]]
    /\ SetWorker(w, Idle)
    /\ UNCHANGED <<compress, extract, faults, summaries, goals, mixed>>

-----------------------------------------------------------------------------
(* extractPreferences *)

Loaded == {msgs[i] : i \in 1..(IF Len(msgs) < MineFirst THEN Len(msgs) ELSE MineFirst)}
HeardIn(rows) == {m.by : m \in {x \in rows : x.role = "USER" /\ x.plain}}

\* The first messages of the conversation; an encrypted one has no text, and
\* without any text the job is over.
LoadTranscript(w) ==
    /\ worker[w] = Idle /\ extract > 0
    /\ extract' = extract - 1
    /\ SetWorker(w, IF HeardIn(Loaded) = {} THEN Idle
                    ELSE [pc |-> "find", heard |-> HeardIn(Loaded)])
    /\ UNCHANGED <<msgs, compress, faults, summaries, goals, mixed>>

FindGoals(w) ==
    /\ worker[w].pc = "find"
    /\ SetWorker(w, [pc |-> "upsert", heard |-> worker[w].heard, existing |-> goals])
    /\ UNCHANGED <<msgs, compress, extract, faults, summaries, goals, mixed>>

\* What the model may answer: any part of what it is told; the short-term goal
\* is a string in the schema, empty where the transcript has none, unless it
\* repeats the one it was shown or leaves the field out.
Answers(heard, existing) ==
    [lists : SUBSET heard, salary : SUBSET heard, aim : (SUBSET heard) \cup {existing.aim}]

MergedFresh(existing, parsed) == parsed     \* mutant: what was known is dropped

\* The arrays are united; a number replaces the salary floor and null keeps it;
\* the short-term goal is the answer's, for it is never null.
Merged(existing, parsed) ==
    [lists |-> existing.lists \cup parsed.lists,
     salary |-> IF parsed.salary = {} THEN existing.salary ELSE parsed.salary,
     aim |-> parsed.aim]

\* The row is replaced by the merge with what was read before the model was
\* asked.
UpsertGoals(w) ==
    /\ worker[w].pc = "upsert"
    /\ \E parsed \in Answers(worker[w].heard, worker[w].existing) :
          goals' = Merged(worker[w].existing, parsed)
    /\ SetWorker(w, Idle)
    /\ UNCHANGED <<msgs, compress, extract, faults, summaries, mixed>>

-----------------------------------------------------------------------------
\* The model or the database fails, or the process dies; a job has one attempt.
JobFails(w) ==
    /\ worker[w] # Idle
    /\ Fault
    /\ SetWorker(w, Idle)
    /\ UNCHANGED <<msgs, compress, extract, summaries, goals, mixed>>

\* The lock is not renewed in time and the queue hands the job out again.
Stall(w) ==
    /\ worker[w] # Idle
    /\ Fault
    /\ IF worker[w].pc \in {"summarise", "archive"}
       THEN compress' = compress + 1 /\ UNCHANGED extract
       ELSE extract' = extract + 1 /\ UNCHANGED compress
    /\ UNCHANGED <<msgs, minted, loop, stream, closes, memoryVars>>

WorkerSteps(w) ==
    \/ ReadHistory(w) \/ SaveSummary(w) \/ Archive(w)
    \/ LoadTranscript(w) \/ FindGoals(w) \/ UpsertGoals(w)

Next ==
    \/ \E p \in Prompts : Send(p)
    \/ \E p \in Prompts : (LoopSteps(p) \/ LoopEnds(p)) /\ UNCHANGED memoryVars
    \/ Close /\ UNCHANGED memoryVars
    \/ \E w \in Workers : WorkerSteps(w) \/ JobFails(w) \/ Stall(w)

Spec == Init /\ [][Next]_vars

\* A loop that runs goes on: the model's stream ends and a tool is given up
\* after ninety seconds.
FairSpec == Spec /\ \A p \in Prompts : WF_vars(LoopSteps(p) /\ UNCHANGED memoryVars)

-----------------------------------------------------------------------------
(* Properties *)

\* s was made with m in its history, or while m was being saved: its id drawn
\* and its row not inserted. An encrypted user message is there as such.
Covers(s, m) == m.id \in s.read \cup s.inFlight \/ (Masked(m) /\ m.id \in s.masked)

\* A message is archived only when a stored summary covers it; the words of all
\* but the encrypted user messages are then in what it was made from.
ArchivedWasCovered ==
    \A i \in DOMAIN msgs : msgs[i].archived => \E s \in summaries : Covers(s, msgs[i])

\* What README.md says of the rolling summary: messages are archived when they
\* have been summarised, the user's own words among them.
ArchivedWasRead ==
    \A i \in DOMAIN msgs : msgs[i].archived =>
        \E s \in summaries : msgs[i].id \in s.read \cup s.inFlight

\* A turn leaves the history as a whole: the call is not archived without its
\* result, nor the question without its answer, unless the turn ran beside
\* another one or while a history was read.
TurnsArchivedWhole ==
    \A i, j \in DOMAIN msgs :
        /\ msgs[i].by = msgs[j].by
        /\ msgs[i].by \in Prompts \ mixed
        => msgs[i].archived = msgs[j].archived

\* What is known of the user is not lost: an extraction takes away only what
\* was written after it had read the goals, or a salary floor for another that
\* it has heard. The short-term goal is not safe: every extraction replaces it.
GoalsLostOnlyByOverlap ==
    [][/\ \A a \in goals.lists \ goals'.lists :
             \E w \in Workers : UpsertGoals(w) /\ a \notin worker[w].existing.lists
       /\ goals.salary \notin {{}, goals'.salary} =>
             \E w \in Workers :
                /\ UpsertGoals(w)
                /\ \/ goals.salary # worker[w].existing.salary
                   \/ goals'.salary # {} /\ goals'.salary \subseteq worker[w].heard]_vars
=============================================================================
