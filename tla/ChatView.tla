------------------------------ MODULE ChatView -------------------------------
(***************************************************************************)
(* The panel's conversation store (stores/conversation.ts) between the     *)
(* routes that send prompts, the restoring of the latest conversation when *)
(* the chat opens (Chat.tsx), notes of the background, and the backend's   *)
(* event streams (runtime.ts, sse.ts). Every await of the store lets the   *)
(* others run.                                                             *)
(*                                                                         *)
(* A conversation that the panel creates has the name of the prompt it is  *)
(* created for. The rows a prompt's answer has on the backend, tool        *)
(* results included, are one row here, and answers are not empty.          *)
(***************************************************************************)
EXTENDS Naturals, Sequences, SequencesExt

CONSTANTS
    Prompts,    \* messages the user or a route sends, each at most once
    Past,       \* conversations from before, of one answered prompt each
    Restores,   \* times the chat opens on an empty view
    NoConversation,
    MaxNotes, MaxReopens    \* bounds

ASSUME ChatAssumption ==
    /\ Past \cap Prompts = {} /\ NoConversation \notin Past \cup Prompts
    /\ MaxNotes \in Nat /\ MaxReopens \in Nat

VARIABLES
    shown,      \* messages: rows of prompts, notes and errors
    streaming, current,     \* isStreaming, currentConversationId
    prompt,     \* what sendMessage and its stream are doing
    restore,    \* what each restoring is doing
    history,    \* backend: the rows of each conversation
    chats,      \* backend: conversations a restoring may find
    serving,    \* backend: prompts whose loop runs
    notes, reopens,
    \* observations, of the panel that is open:
    cut,        \* prompts whose stream ended without done or error
    crowded     \* something began while something else was under way

chatVars == <<shown, streaming, current, prompt, restore, history, chats, serving, notes, reopens,
              cut, crowded>>

Conversations == Past \cup Prompts
Row == [role : {"user", "assistant"}, of : Conversations]
Shown == [role : {"user", "assistant"}, of : Conversations \cup {NoConversation}, open : BOOLEAN]
UserRow(p) == [role |-> "user", of |-> p]
AnswerRow(p) == [role |-> "assistant", of |-> p]

Underway == {"creating", "opening", "hung", "answering", "telling"}

ChatTypeOK ==
    /\ shown \in Seq(Shown) /\ streaming \in BOOLEAN /\ current \in Conversations \cup {NoConversation}
    /\ prompt \in [Prompts -> [pc : Underway \cup {"unsent", "done", "over"},
                               conv : Conversations \cup {NoConversation}]]
    /\ \A r \in Restores :
          \/ restore[r].pc \in {"unsent", "list", "over"}
          \/ restore[r].pc = "get" /\ restore[r].conv \in Conversations
          \/ restore[r].pc = "read" /\ restore[r].conv \in Conversations
             /\ restore[r].rows \in Seq(Row)
    /\ \A c \in Conversations : history[c] \in Seq(Row)
    /\ chats \subseteq Conversations /\ serving \subseteq Prompts /\ cut \subseteq Prompts
    /\ notes \in 0..MaxNotes /\ reopens \in 0..MaxReopens /\ crowded \in BOOLEAN

RestoreUnsent == [pc |-> "unsent"]
RestoreOver == [pc |-> "over"]

ChatInit ==
    /\ shown = <<>> /\ streaming = FALSE /\ current = NoConversation
    /\ prompt = [p \in Prompts |-> [pc |-> "unsent", conv |-> NoConversation]]
    /\ restore = [r \in Restores |-> RestoreUnsent]
    /\ history = [c \in Conversations |->
                     IF c \in Past THEN <<UserRow(c), AnswerRow(c)>> ELSE <<>>]
    /\ chats = Past /\ serving = {} /\ notes = 0 /\ reopens = 0
    /\ cut = {} /\ crowded = FALSE

-----------------------------------------------------------------------------
Running(p) == prompt[p].pc \in Underway
Loading(r) == restore[r].pc \in {"get", "read"}
Busy == streaming \/ (\E p \in Prompts : Running(p)) \/ (\E r \in Restores : Loading(r))

Push(row) == shown' = Append(shown, row)
Line(role, p) == [role |-> role, of |-> p, open |-> FALSE]
ErrorLine == Line("assistant", NoConversation)

GoesOn(p, pc) == prompt' = [prompt EXCEPT ![p].pc = pc]
Begins == crowded' = (crowded \/ Busy)

backVars == <<history, chats, serving>>
boundVars == <<notes, reopens>>

(* sendMessage *)

\* The routes, the buttons and the material that is recalled do not ask
\* whether a stream is open; only the input box does.
Send(p) ==
    /\ prompt[p].pc = "unsent"
    /\ Push(Line("user", p)) /\ streaming' = TRUE
    /\ prompt' = [prompt EXCEPT ![p] =
                     [pc |-> IF current = NoConversation THEN "creating" ELSE "opening", conv |-> current]]
    /\ Begins
    /\ UNCHANGED <<current, restore, backVars, boundVars, cut>>

\* JobAnalysis: startNewConversation, then sendMessage, in one step. A
\* restoring finds no conversation of this kind.
SendNew(p) ==
    /\ prompt[p].pc = "unsent"
    /\ shown' = <<Line("user", p)>> /\ streaming' = TRUE /\ current' = NoConversation
    /\ prompt' = [prompt EXCEPT ![p] = [pc |-> "creating", conv |-> NoConversation]]
    /\ Begins
    /\ UNCHANGED <<restore, backVars, boundVars, cut>>

CreateReturns(p) ==
    /\ prompt[p].pc = "creating"
    /\ prompt' = [prompt EXCEPT ![p] = [pc |-> "opening", conv |-> p]]
    /\ current' = p
    /\ \E kept \in {chats, chats \cup {p}} : chats' = kept     \* by its kind
    /\ UNCHANGED <<shown, streaming, restore, history, serving, boundVars, cut, crowded>>

\* mutant: a refused creation leaves the flag.
CreateFailsStreaming(p) ==
    /\ prompt[p].pc = "creating"
    /\ GoesOn(p, "over")
    /\ Push(ErrorLine)
    /\ UNCHANGED <<streaming, current, restore, backVars, boundVars, cut, crowded>>

CreateFails(p) ==
    /\ prompt[p].pc = "creating"
    /\ GoesOn(p, "over")
    /\ Push(ErrorLine) /\ streaming' = FALSE
    /\ UNCHANGED <<current, restore, backVars, boundVars, cut, crowded>>

(* The stream of a prompt *)

\* The backend stores the user's row and starts its loop.
StreamOpens(p) ==
    /\ prompt[p].pc = "opening"
    /\ GoesOn(p, "answering")
    /\ history' = [history EXCEPT ![prompt[p].conv] = Append(@, UserRow(p))]
    /\ serving' = serving \cup {p}
    /\ UNCHANGED <<shown, streaming, current, restore, chats, boundVars, cut, crowded>>

\* The lookup of the conversation's kind throws before the loop's try: no row
\* is stored, no event comes, and the backend leaves the stream open.
Hangs(p) ==
    /\ prompt[p].pc = "opening"
    /\ GoesOn(p, "hung")
    /\ UNCHANGED <<shown, streaming, current, restore, backVars, boundVars, cut, crowded>>

ServerAnswers(p) ==
    /\ p \in serving
    /\ serving' = serving \ {p}
    /\ history' = [history EXCEPT ![prompt[p].conv] = Append(@, AnswerRow(p))]
    /\ UNCHANGED <<shown, streaming, current, prompt, restore, chats, boundVars, cut, crowded>>

ServerStops(p) ==
    /\ p \in serving
    /\ serving' = serving \ {p}
    /\ UNCHANGED <<shown, streaming, current, prompt, restore, history, chats, boundVars, cut,
                   crowded>>

\* text_delta: the text so far replaces an open last row, whosever it is.
Tell(p) ==
    LET told == [role |-> "assistant", of |-> p, open |-> TRUE]
    IN shown' = IF shown # <<>> /\ Last(shown).role = "assistant" /\ Last(shown).open
                THEN Append(Front(shown), told) ELSE Append(shown, told)

\* The first delta of an answer, and those to follow: each changes something
\* only when another row has come last.
Delta(p) ==
    /\ prompt[p].pc = "answering"
    /\ GoesOn(p, "telling") /\ Tell(p)
    /\ UNCHANGED <<streaming, current, restore, backVars, boundVars, cut, crowded>>

DeltaAgain(p) ==
    /\ prompt[p].pc = "telling" /\ Tell(p)
    /\ UNCHANGED <<streaming, current, prompt, restore, backVars, boundVars, cut, crowded>>

\* done: the backend has stored the answer.
Done(p) ==
    /\ prompt[p].pc = "telling" /\ Contains(history[prompt[p].conv], AnswerRow(p))
    /\ GoesOn(p, "done")
    /\ shown' = IF shown # <<>> /\ Last(shown).role = "assistant"
                THEN Append(Front(shown), [Last(shown) EXCEPT !.open = FALSE]) ELSE shown
    /\ streaming' = FALSE
    /\ UNCHANGED <<current, restore, backVars, boundVars, cut, crowded>>

\* The backend's error event, a refused request or a broken connection.
StreamFails(p) ==
    /\ prompt[p].pc \in {"opening", "hung", "answering", "telling"}
    /\ GoesOn(p, "over")
    /\ Push(ErrorLine) /\ streaming' = FALSE
    /\ UNCHANGED <<current, restore, backVars, boundVars, cut, crowded>>

\* The body ends, as when a backend that stops closes its connections: the
\* reader leaves its loop and tells nobody.
StreamCut(p) ==
    /\ prompt[p].pc \in {"hung", "answering", "telling"}
    /\ GoesOn(p, "over")
    /\ cut' = cut \cup {p}
    /\ UNCHANGED <<shown, streaming, current, restore, backVars, boundVars, crowded>>

-----------------------------------------------------------------------------
\* injectLocalQuinnMessage: an ambient message of the background.
Note ==
    /\ notes < MaxNotes
    /\ notes' = notes + 1
    /\ Push(Line("assistant", NoConversation))
    /\ Begins
    /\ UNCHANGED <<streaming, current, prompt, restore, backVars, reopens, cut>>

\* The panel is closed and opened: its store and its requests are gone.
Reopen ==
    /\ reopens < MaxReopens
    /\ reopens' = reopens + 1
    /\ shown' = <<>> /\ streaming' = FALSE /\ current' = NoConversation
    /\ prompt' = [p \in Prompts |-> IF Running(p) THEN [prompt[p] EXCEPT !.pc = "over"]
                                    ELSE prompt[p]]
    /\ restore' = [r \in Restores |-> IF restore[r] = RestoreUnsent THEN RestoreUnsent
                                      ELSE RestoreOver]
    /\ cut' = {} /\ crowded' = FALSE
    /\ UNCHANGED <<backVars, notes>>

(* Restoring *)

SetRestore(r, state) == restore' = [restore EXCEPT ![r] = state]

RestoreBegins(r) ==
    /\ restore[r] = RestoreUnsent
    /\ shown = <<>> /\ ~streaming /\ current = NoConversation
    /\ SetRestore(r, [pc |-> "list"])
    /\ UNCHANGED <<shown, streaming, current, prompt, backVars, boundVars, cut, crowded>>

\* The answer of fetchRecentConversations: only the conversation is looked at
\* again. There may be none to restore.
ListReturns(r) ==
    /\ restore[r].pc = "list"
    /\ \/ /\ SetRestore(r, RestoreOver)
          /\ UNCHANGED <<streaming, crowded>>
       \/ /\ current = NoConversation
          /\ \E c \in chats : SetRestore(r, [pc |-> "get", conv |-> c])
          /\ streaming' = TRUE
          /\ Begins
    /\ UNCHANGED <<shown, current, prompt, backVars, boundVars, cut>>

LoadReads(r) ==
    /\ restore[r].pc = "get"
    /\ SetRestore(r, [pc |-> "read", conv |-> restore[r].conv, rows |-> history[restore[r].conv]])
    /\ UNCHANGED <<shown, streaming, current, prompt, backVars, boundVars, cut, crowded>>

\* mutant: the next prompt goes to a conversation of its own.
LoadReturnsUnnamed(r) ==
    /\ restore[r].pc = "read"
    /\ shown' = [i \in DOMAIN restore[r].rows |-> Line(restore[r].rows[i].role, restore[r].rows[i].of)]
    /\ streaming' = FALSE
    /\ SetRestore(r, RestoreOver)
    /\ UNCHANGED <<current, prompt, backVars, boundVars, cut, crowded>>

LoadReturns(r) ==
    /\ restore[r].pc = "read"
    /\ shown' = [i \in DOMAIN restore[r].rows |-> Line(restore[r].rows[i].role, restore[r].rows[i].of)]
    /\ current' = restore[r].conv /\ streaming' = FALSE
    /\ SetRestore(r, RestoreOver)
    /\ UNCHANGED <<prompt, backVars, boundVars, cut, crowded>>

LoadFails(r) ==
    /\ Loading(r)
    /\ streaming' = FALSE
    /\ SetRestore(r, RestoreOver)
    /\ UNCHANGED <<shown, current, prompt, backVars, boundVars, cut, crowded>>

-----------------------------------------------------------------------------
Proceeds(p) ==
    \/ CreateReturns(p) \/ CreateFails(p) \/ StreamOpens(p) \/ Hangs(p) \/ Delta(p)
    \/ ServerAnswers(p) \/ ServerStops(p) \/ Done(p) \/ StreamFails(p) \/ StreamCut(p)
Restoring(r) == ListReturns(r) \/ LoadReads(r) \/ LoadReturns(r) \/ LoadFails(r)

ChatNext ==
    \/ \E p \in Prompts : Send(p) \/ SendNew(p) \/ Proceeds(p) \/ DeltaAgain(p)
    \/ \E r \in Restores : RestoreBegins(r) \/ Restoring(r)
    \/ Note \/ Reopen

ChatSpec == ChatInit /\ [][ChatNext]_chatVars

\* Requests are answered or fail, and a backend's loop, once it has begun, ends
\* its stream (Conversation!StreamsEnd). Nothing need ever end one that hangs:
\* the panel has no timeout for it.
ChatFairness ==
    /\ \A p \in Prompts : WF_chatVars(prompt[p].pc # "hung" /\ Proceeds(p))
    /\ \A r \in Restores : WF_chatVars(Restoring(r))

-----------------------------------------------------------------------------
\* The settled rows are those of prompts whose answers the user has seen
\* completed. Two views that agree hold the same ones, each once, in one order.
Settled == Past \cup {p \in Prompts : prompt[p].pc = "done"}
At(rows) == {i \in DOMAIN rows : rows[i].of \in Settled}
SameRow(one, other) == one.role = other.role /\ one.of = other.of

Agree(a, b) ==
    /\ \A i \in At(a) : \E k \in At(b) : SameRow(a[i], b[k])
    /\ \A k \in At(b) : \E i \in At(a) : SameRow(a[i], b[k])
    /\ \A i, j \in At(a), k, l \in At(b) :
          SameRow(a[i], b[k]) /\ SameRow(a[j], b[l]) => (i < j <=> k < l)

\* As long as nothing is begun while something else is under way, whatever
\* fails and however often the panel is opened: the view waits exactly as long
\* as there is something to wait for, if only a stream that hangs, or was cut
\* off; and in between it shows the settled rows of the conversation that the
\* next prompt goes to.
QuietViewIsHistory ==
    ~crowded =>
        /\ streaming <=> \/ \E p \in Prompts : Running(p)
                         \/ \E r \in Restores : Loading(r)
                         \/ cut # {}
        /\ ~Busy => Agree(shown, IF current = NoConversation THEN <<>> ELSE history[current])

\* The view does not wait for ever, whatever happens at once, unless a stream
\* is cut off or hangs: either leaves the flag set with no event to come.
WaitingEnds ==
    streaming ~> (~streaming \/ cut # {} \/ \E p \in Prompts : prompt[p].pc = "hung")
=============================================================================
