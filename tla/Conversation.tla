---------------------------- MODULE Conversation ----------------------------
(***************************************************************************)
(* A conversation and the agent loop (agent.service.ts): what a prompt     *)
(* stores, message by message, while it alternates between the model and   *)
(* the tools, and how its event stream ends. Two prompts of a conversation *)
(* may run at once: nothing keeps a client, or a second panel, from it.    *)
(*                                                                         *)
(* A message gets its id (a ulid) when the entity is made and its          *)
(* createdAt when the row is inserted, one await later: msgs is in the     *)
(* order of createdAt, and the ids of two prompts may disagree with it.    *)
(* Ids are drawn in order; two backends with apart clocks are not modelled.*)
(***************************************************************************)
EXTENDS Naturals, Sequences, FiniteSets

CONSTANTS
    Prompts,    \* the prompts sent, each at most once
    Stored,     \* authors of plaintext user messages from before encryption
    MaxRounds,  \* MAX_ITERATION: 10 in the code
    MaxCalls,   \* bounds: tool calls of one answer,
    MaxCloses,  \*         requests to close the conversation,
    MaxFaults   \*         failures

ASSUME ConversationAssumption ==
    /\ IsFiniteSet(Prompts) /\ IsFiniteSet(Stored) /\ Prompts \cap Stored = {}
    /\ MaxRounds \in Nat \ {0} /\ MaxCalls \in Nat \ {0}
    /\ MaxCloses \in Nat /\ MaxFaults \in Nat

VARIABLES
    msgs,       \* conv_messages of the conversation, by createdAt
    minted,     \* ids drawn so far
    loop,       \* where runAgentLoop is for each prompt
    stream,     \* the event stream of each prompt
    compress,   \* COMPRESS_CONVERSATION jobs waiting in the memory queue
    extract,    \* EXTRACT_PREFERENCES jobs waiting
    closes,     \* requests to close, so far
    faults

convVars == <<msgs, minted, loop, stream, compress, extract, closes, faults>>

Rounds == 1..MaxRounds
Calls == 1..MaxCalls
\* Loops are few and a loop stores a user message, answers and results.
Ids == 1..(Cardinality(Stored) + Cardinality(Prompts) * (1 + MaxRounds * (1 + MaxCalls)))

\* A message: of USER rows, whether its text is in the clear; of ASSISTANT
\* rows, the round and how many calls it makes; of TOOL_RESULT rows, the call.
Message ==
    [id : Ids, archived : BOOLEAN, by : Prompts \cup Stored, role : {"USER"}, plain : BOOLEAN]
    \cup [id : Ids, archived : BOOLEAN, by : Prompts, role : {"ASSISTANT"},
          round : Rounds, calls : 0..MaxCalls]
    \cup [id : Ids, archived : BOOLEAN, by : Prompts, role : {"TOOL_RESULT"},
          round : Rounds, call : Calls]

Loop ==
    [pc : {"unsent", "lookup", "lost", "over"}]
    \cup [pc : {"insertUser"}, id : Ids]
    \cup [pc : {"model"}, round : Rounds]
    \cup [pc : {"insertAnswer"}, round : Rounds, calls : 0..MaxCalls, id : Ids]
    \cup [pc : {"tool"}, round : Rounds, calls : Calls, call : Calls]
    \cup [pc : {"insertResult"}, round : Rounds, calls : Calls, call : Calls, id : Ids]
    \cup [pc : {"queue", "touch"}]

ConversationTypeOK ==
    /\ msgs \in Seq(Message)
    /\ minted \in Ids \cup {0}
    /\ loop \in [Prompts -> Loop]
    /\ stream \in [Prompts -> {"none", "open", "done", "error", "cut"}]
    /\ compress \in Nat /\ extract \in Nat
    /\ closes \in 0..MaxCloses /\ faults \in 0..MaxFaults

\* Messages from before the encrypted column kept their plaintext.
ConversationInit ==
    /\ \E order \in [1..Cardinality(Stored) -> Stored] :
          /\ \A i, j \in DOMAIN order : i # j => order[i] # order[j]
          /\ msgs = [i \in DOMAIN order |->
                [id |-> i, archived |-> FALSE, by |-> order[i], role |-> "USER", plain |-> TRUE]]
    /\ minted = Cardinality(Stored)
    /\ loop = [p \in Prompts |-> [pc |-> "unsent"]]
    /\ stream = [p \in Prompts |-> "none"]
    /\ compress = 0 /\ extract = 0 /\ closes = 0 /\ faults = 0

\* A lost loop is a rejected promise that nobody awaits: it does no more.
Running(p) == loop[p].pc \notin {"unsent", "lost", "over"}
Saving == {"insertUser", "insertAnswer", "insertResult"}
InFlight == {loop[p].id : p \in {q \in Prompts : loop[q].pc \in Saving}}

Goto(p, state) == loop' = [loop EXCEPT ![p] = state]

Insert(row) == msgs' = Append(msgs, row)

\* The entity is made, with the next id; its insert is the loop's next step.
Mint(p, state) ==
    /\ minted' = minted + 1
    /\ Goto(p, state)
    /\ UNCHANGED <<msgs, stream, compress, extract, closes, faults>>
NextId == minted + 1

-----------------------------------------------------------------------------
(* respond and runAgentLoop *)

\* GET conversations/:id/prompt: the stream opens and the loop runs on its
\* own. No caller passes the kind: the loop begins by looking it up.
Respond(p) ==
    /\ loop[p].pc = "unsent"
    /\ Goto(p, [pc |-> "lookup"])
    /\ stream' = [stream EXCEPT ![p] = "open"]
    /\ UNCHANGED <<msgs, minted, compress, extract, closes, faults>>

\* The kind is known; the text is encrypted and the message made.
LookupKind(p) ==
    /\ loop[p].pc = "lookup"
    /\ Mint(p, [pc |-> "insertUser", id |-> NextId])

\* saveUser: "text stays NULL on write". The context is built from what is
\* stored, and the first call of the model begins.
InsertUser(p) ==
    /\ loop[p].pc = "insertUser"
    /\ Insert([id |-> loop[p].id, archived |-> FALSE, by |-> p, role |-> "USER", plain |-> FALSE])
    /\ Goto(p, [pc |-> "model", round |-> 1])
    /\ UNCHANGED <<minted, stream, compress, extract, closes, faults>>

\* The model's turn, with any number of tool calls.
ModelAnswers(p) ==
    /\ loop[p].pc = "model"
    /\ \E n \in 0..MaxCalls :
          Mint(p, [pc |-> "insertAnswer", round |-> loop[p].round, calls |-> n, id |-> NextId])

\* saveAssistant; without tool calls the loop is left.
InsertAnswer(p) ==
    /\ loop[p].pc = "insertAnswer"
    /\ Insert([id |-> loop[p].id, archived |-> FALSE, by |-> p, role |-> "ASSISTANT",
               round |-> loop[p].round, calls |-> loop[p].calls])
    /\ Goto(p, IF loop[p].calls = 0 THEN [pc |-> "queue"]
               ELSE [pc |-> "tool", round |-> loop[p].round, calls |-> loop[p].calls, call |-> 1])
    /\ UNCHANGED <<minted, stream, compress, extract, closes, faults>>

\* executeTool: whatever the tool does, throwing and running longer than
\* ninety seconds included, there is a result.
RunTool(p) ==
    /\ loop[p].pc = "tool"
    /\ Mint(p, [pc |-> "insertResult", round |-> loop[p].round, calls |-> loop[p].calls,
                call |-> loop[p].call, id |-> NextId])

AfterResultNoBudget(l) ==       \* mutant: the loop has no budget of rounds
    IF l.call < l.calls
    THEN [pc |-> "tool", round |-> l.round, calls |-> l.calls, call |-> l.call + 1]
    ELSE [pc |-> "model", round |-> l.round + 1]

\* The next call, the next round, or the end of the budget: a round that
\* used it up is over without a closing answer.
AfterResult(l) ==
    IF l.call < l.calls
    THEN [pc |-> "tool", round |-> l.round, calls |-> l.calls, call |-> l.call + 1]
    ELSE IF l.round < MaxRounds THEN [pc |-> "model", round |-> l.round + 1]
    ELSE [pc |-> "queue"]

InsertResult(p) ==
    /\ loop[p].pc = "insertResult"
    /\ Insert([id |-> loop[p].id, archived |-> FALSE, by |-> p, role |-> "TOOL_RESULT",
               round |-> loop[p].round, call |-> loop[p].call])
    /\ Goto(p, AfterResult(loop[p]))
    /\ UNCHANGED <<minted, stream, compress, extract, closes, faults>>

\* finalizeLoop: both memory jobs, then lastActivity, then done.
QueueMemory(p) ==
    /\ loop[p].pc = "queue"
    /\ Goto(p, [pc |-> "touch"])
    /\ compress' = compress + 1 /\ extract' = extract + 1
    /\ UNCHANGED <<msgs, minted, stream, closes, faults>>

Leave(p, how) ==
    /\ Goto(p, [pc |-> "over"])
    /\ stream' = [stream EXCEPT ![p] = how]
    /\ UNCHANGED <<msgs, minted, compress, extract, closes>>

Done(p) ==
    /\ loop[p].pc = "touch"
    /\ Leave(p, "done") /\ UNCHANGED faults

\* mutant: the event of the error is sent, the stream is not completed.
ModelFailsOpen(p) ==
    /\ loop[p].pc = "model"
    /\ Goto(p, [pc |-> "over"])
    /\ UNCHANGED <<msgs, minted, stream, compress, extract, closes, faults>>

\* An error event of the model's stream ends the prompt, after any round.
ModelFails(p) ==
    /\ loop[p].pc = "model"
    /\ Leave(p, "error") /\ UNCHANGED faults

\* mutant: the remaining calls are skipped and the prompt finishes.
ArgumentsSkipped(p) ==
    /\ loop[p].pc = "tool"
    /\ Goto(p, [pc |-> "queue"])
    /\ UNCHANGED <<msgs, minted, stream, compress, extract, closes, faults>>

\* validateToolArgs throws past executeTool: neither this call nor the rest
\* of the round is answered.
ArgumentsRefused(p) ==
    /\ loop[p].pc = "tool"
    /\ Leave(p, "error") /\ UNCHANGED faults

Fault == faults < MaxFaults /\ faults' = faults + 1

\* A database or queue call throws, into the catch of the loop.
LoopThrows(p) ==
    /\ Running(p) /\ loop[p].pc # "lookup"
    /\ Fault /\ Leave(p, "error")

\* The lookup of the kind throws, before the try: the loop's promise is
\* rejected, which Sentry, once installed, only warns of. The process lives
\* and the stream is never completed.
LookupThrows(p) ==
    /\ loop[p].pc = "lookup"
    /\ Fault /\ Goto(p, [pc |-> "lost"])
    /\ UNCHANGED <<msgs, minted, stream, compress, extract, closes>>

\* The process dies, and its open streams are cut. Without Sentry it does so
\* of a lookup that throws.
Crash(p) ==
    /\ stream[p] = "open"
    /\ Fault /\ Leave(p, "cut")

\* POST conversations/:id/close.
Close ==
    /\ closes < MaxCloses
    /\ closes' = closes + 1
    /\ extract' = extract + 1
    /\ UNCHANGED <<msgs, minted, loop, stream, compress, faults>>

LoopSteps(p) ==
    \/ LookupKind(p) \/ InsertUser(p) \/ ModelAnswers(p) \/ InsertAnswer(p) \/ RunTool(p)
    \/ InsertResult(p) \/ QueueMemory(p) \/ Done(p)
LoopEnds(p) ==
    \/ ModelFails(p) \/ ArgumentsRefused(p) \/ LoopThrows(p) \/ LookupThrows(p) \/ Crash(p)

-----------------------------------------------------------------------------
(* What a prompt promises (TurnLog) *)

RowsOf(role) == {m \in {msgs[i] : i \in DOMAIN msgs} : m.role = role}
Asked == UNION {{<<m.by, m.round, k>> : k \in 1..m.calls} : m \in RowsOf("ASSISTANT")}
Answered == {<<m.by, m.round, m.call>> : m \in RowsOf("TOOL_RESULT")}

Turns == INSTANCE TurnLog WITH asked <- Asked, answered <- Answered, outcome <- stream,
                               CallsPerRound <- Calls

\* However prompts interleave and wherever they break off, calls are asked in
\* rounds of at most MaxRounds, each is answered once, and done is reported
\* only when every call of the prompt has its result in the history.
ImplementsTurns == Turns!Spec

\* A loop that is past the lookup of its kind ends the stream: no error path
\* of the try leaves the panel waiting. A lookup that throws does: its stream
\* stays open until the process stops.
StreamsEnd ==
    \A p \in Prompts : Running(p) /\ loop[p].pc # "lookup" ~> stream[p] # "open"
=============================================================================
