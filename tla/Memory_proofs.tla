---------------------------- MODULE Memory_proofs ----------------------------
(***************************************************************************)
(* The agent loop keeps the promise of TurnLog, nothing is archived that no *)
(* summary covers, a turn that ran alone is archived whole, an entry of the *)
(* goals' lists is lost only by the overlap of two jobs and none is learnt  *)
(* from a prompt, and a loop's steps run out: for any number of prompts,    *)
(* rounds, calls, workers and failures.                                     *)
(***************************************************************************)
EXTENDS Memory, FiniteSetTheorems, SequenceTheorems, TLAPS

\* As in Conversation, without the bound on how many ids are drawn.
Msg ==
    [id : Nat, archived : BOOLEAN, by : Prompts \cup Stored, role : {"USER"}, plain : BOOLEAN]
    \cup [id : Nat, archived : BOOLEAN, by : Prompts, role : {"ASSISTANT"},
          round : Rounds, calls : 0..MaxCalls]
    \cup [id : Nat, archived : BOOLEAN, by : Prompts, role : {"TOOL_RESULT"},
          round : Rounds, call : Calls]

LoopStates ==
    [pc : {"unsent", "lookup", "lost", "over"}]
    \cup [pc : {"insertUser"}, id : Nat]
    \cup [pc : {"model"}, round : Rounds]
    \cup [pc : {"insertAnswer"}, round : Rounds, calls : 0..MaxCalls, id : Nat]
    \cup [pc : {"tool"}, round : Rounds, calls : Calls, call : Calls]
    \cup [pc : {"insertResult"}, round : Rounds, calls : Calls, call : Calls, id : Nat]
    \cup [pc : {"queue", "touch"}]

Types ==
    /\ msgs \in Seq(Msg)
    /\ minted \in Nat
    /\ loop \in [Prompts -> LoopStates]
    /\ stream \in [Prompts -> {"none", "open", "done", "error", "cut"}]

\* What the loop of p, being at l, knows of the calls that were asked and
\* answered: between rounds all are answered; within one, those of earlier
\* rounds and those before the current call.
TurnAt(p, l, asked, answered) ==
    /\ l.pc \in {"unsent", "lookup", "insertUser"} => \A c \in asked : c[1] # p
    /\ l.pc \in {"model", "insertAnswer"} =>
          \A c \in asked : c[1] = p => c[2] < l.round /\ c \in answered
    /\ l.pc \in {"tool", "insertResult"} =>
          /\ l.call <= l.calls /\ \A k \in 1..l.calls : <<p, l.round, k>> \in asked
          /\ \A c \in asked : c[1] = p =>
                /\ c[2] <= l.round
                /\ c[2] = l.round => c[3] <= l.calls
                /\ c \in answered <=> c[2] < l.round \/ c[3] < l.call
    /\ l.pc \in {"queue", "touch"} => \A c \in asked : c[1] = p => c \in answered

StreamAt(l, s) ==
    /\ s = "none" <=> l.pc = "unsent"
    /\ s = "open" <=> l.pc \notin {"unsent", "over"}

TurnInv ==
    /\ Types
    /\ Asked \subseteq Prompts \X Rounds \X Calls /\ Answered \subseteq Asked
    /\ \A p \in Prompts : TurnAt(p, loop[p], Asked, Answered) /\ StreamAt(loop[p], stream[p])

-----------------------------------------------------------------------------
(* What the messages ask and answer *)

LEMMA AskedIs == \A c : c \in Asked <=>
                    \E i \in DOMAIN msgs : /\ msgs[i].role = "ASSISTANT"
                                           /\ \E k \in 1..msgs[i].calls : c = <<msgs[i].by, msgs[i].round, k>>
  BY DEF Asked, RowsOf

LEMMA AnsweredIs == \A c : c \in Answered <=>
                       \E i \in DOMAIN msgs : /\ msgs[i].role = "TOOL_RESULT"
                                              /\ c = <<msgs[i].by, msgs[i].round, msgs[i].call>>
  BY DEF Answered, RowsOf

LEMMA Appended ==
    ASSUME msgs \in Seq(Msg), NEW row \in Msg, Insert(row)
    PROVE  /\ msgs' \in Seq(Msg)
           /\ Asked' = Asked \cup (IF row.role = "ASSISTANT"
                                   THEN {<<row.by, row.round, k>> : k \in 1..row.calls} ELSE {})
           /\ Answered' = Answered \cup (IF row.role = "TOOL_RESULT"
                                         THEN {<<row.by, row.round, row.call>>} ELSE {})
<1>1. /\ msgs' \in Seq(Msg) /\ Len(msgs') = Len(msgs) + 1 /\ Len(msgs) \in Nat
      /\ msgs'[Len(msgs) + 1] = row
      /\ \A i \in 1..Len(msgs) : msgs'[i] = msgs[i]
      /\ DOMAIN msgs = 1..Len(msgs) /\ DOMAIN msgs' = 1..(Len(msgs) + 1)
  BY DEF Insert
<1>2. \A c : c \in Asked' <=>
                 \/ c \in Asked
                 \/ row.role = "ASSISTANT" /\ \E k \in 1..row.calls : c = <<row.by, row.round, k>>
  <2>1. \A c : c \in Asked' <=>
                 \E i \in DOMAIN msgs' : /\ msgs'[i].role = "ASSISTANT"
                                         /\ \E k \in 1..msgs'[i].calls : c = <<msgs'[i].by, msgs'[i].round, k>>
    BY DEF Asked, RowsOf
  <2>2. ASSUME NEW c, c \in Asked'
        PROVE  c \in Asked \/ (row.role = "ASSISTANT" /\ \E k \in 1..row.calls : c = <<row.by, row.round, k>>)
    <3>1. PICK i \in DOMAIN msgs' :
             msgs'[i].role = "ASSISTANT" /\ \E k \in 1..msgs'[i].calls : c = <<msgs'[i].by, msgs'[i].round, k>>
      BY <2>1, <2>2
    <3>2. CASE i = Len(msgs) + 1
      BY <1>1, <3>1, <3>2
    <3>3. CASE i # Len(msgs) + 1
      <4>1. i \in DOMAIN msgs /\ msgs'[i] = msgs[i]
        BY <1>1, <3>3
      <4> QED BY <3>1, <4>1, AskedIs
    <3> QED BY <3>2, <3>3
  <2>3. ASSUME NEW c, c \in Asked PROVE c \in Asked'
    <3>1. PICK i \in DOMAIN msgs :
             msgs[i].role = "ASSISTANT" /\ \E k \in 1..msgs[i].calls : c = <<msgs[i].by, msgs[i].round, k>>
      BY <2>3, AskedIs
    <3>2. i \in DOMAIN msgs' /\ msgs'[i] = msgs[i]
      BY <1>1
    <3> QED BY <2>1, <3>1, <3>2
  <2>4. ASSUME NEW k \in 1..row.calls, row.role = "ASSISTANT"
        PROVE  <<row.by, row.round, k>> \in Asked'
    <3>1. Len(msgs) + 1 \in DOMAIN msgs'
      BY <1>1
    <3> QED BY <1>1, <2>1, <2>4, <3>1
  <2> QED BY <2>2, <2>3, <2>4
<1>3. \A c : c \in Answered' <=>
                 \/ c \in Answered
                 \/ row.role = "TOOL_RESULT" /\ c = <<row.by, row.round, row.call>>
  <2>1. \A c : c \in Answered' <=>
                 \E i \in DOMAIN msgs' : /\ msgs'[i].role = "TOOL_RESULT"
                                         /\ c = <<msgs'[i].by, msgs'[i].round, msgs'[i].call>>
    BY DEF Answered, RowsOf
  <2> QED BY <1>1, <2>1, AnsweredIs
<1> QED BY <1>1, <1>2, <1>3

LEMMA Kept == ASSUME msgs' = msgs PROVE Asked' = Asked /\ Answered' = Answered
  BY DEF Asked, Answered, RowsOf

\* Archiving changes neither.
LEMMA ArchiveKeeps ==
    ASSUME msgs \in Seq(Msg), NEW w \in Workers, Archive(w)
    PROVE  msgs' \in Seq(Msg) /\ Asked' = Asked /\ Answered' = Answered
<1> DEFINE flag(i) == msgs[i].archived \/ ToArchive(worker[w].s, msgs[i].id)
<1>1. /\ Len(msgs) \in Nat /\ DOMAIN msgs = 1..Len(msgs) /\ \A i \in DOMAIN msgs : msgs[i] \in Msg
  OBVIOUS
<1>2. msgs' = [i \in DOMAIN msgs |-> [msgs[i] EXCEPT !.archived = flag(i)]]
  BY DEF Archive
<1>3. \A i \in DOMAIN msgs : flag(i) \in BOOLEAN
  BY <1>1 DEF Msg, ToArchive
<1> HIDE DEF flag
<1>4. ASSUME NEW i \in DOMAIN msgs
      PROVE  /\ msgs'[i] \in Msg /\ msgs'[i].role = msgs[i].role /\ msgs'[i].by = msgs[i].by
             /\ msgs[i].role = "ASSISTANT" =>
                    msgs'[i].round = msgs[i].round /\ msgs'[i].calls = msgs[i].calls
             /\ msgs[i].role = "TOOL_RESULT" =>
                    msgs'[i].round = msgs[i].round /\ msgs'[i].call = msgs[i].call
  <2>1. msgs'[i] = [msgs[i] EXCEPT !.archived = flag(i)] /\ msgs[i] \in Msg /\ flag(i) \in BOOLEAN
    BY <1>1, <1>2, <1>3
  <2>2. CASE msgs[i].role = "USER"
    <3>1. msgs[i] \in [id : Nat, archived : BOOLEAN, by : Prompts \cup Stored, role : {"USER"},
                       plain : BOOLEAN]
      BY <2>1, <2>2 DEF Msg
    <3> QED BY <2>1, <2>2, <3>1 DEF Msg
  <2>3. CASE msgs[i].role = "ASSISTANT"
    <3>1. msgs[i] \in [id : Nat, archived : BOOLEAN, by : Prompts, role : {"ASSISTANT"},
                       round : Rounds, calls : 0..MaxCalls]
      BY <2>1, <2>3 DEF Msg
    <3> QED BY <2>1, <2>3, <3>1 DEF Msg
  <2>4. CASE msgs[i].role = "TOOL_RESULT"
    <3>1. msgs[i] \in [id : Nat, archived : BOOLEAN, by : Prompts, role : {"TOOL_RESULT"},
                       round : Rounds, call : Calls]
      BY <2>1, <2>4 DEF Msg
    <3> QED BY <2>1, <2>4, <3>1 DEF Msg
  <2> QED BY <2>1, <2>2, <2>3, <2>4 DEF Msg
<1>5. DOMAIN msgs' = 1..Len(msgs) /\ msgs' \in Seq(Msg)
  <2>1. DOMAIN msgs' = 1..Len(msgs)
    BY <1>1, <1>2
  <2>2. msgs' = [i \in 1..Len(msgs) |-> msgs'[i]]
    BY <1>1, <1>2
  <2>3. msgs' \in [1..Len(msgs) -> Msg]
    BY <1>1, <1>4, <2>2
  <2> QED BY <1>1, <2>1, <2>3, SeqDef
<1>6. \A c : c \in Asked' <=>
                 \E i \in DOMAIN msgs' : /\ msgs'[i].role = "ASSISTANT"
                                         /\ \E k \in 1..msgs'[i].calls : c = <<msgs'[i].by, msgs'[i].round, k>>
  BY DEF Asked, RowsOf
<1>7. \A c : c \in Answered' <=>
                 \E i \in DOMAIN msgs' : /\ msgs'[i].role = "TOOL_RESULT"
                                         /\ c = <<msgs'[i].by, msgs'[i].round, msgs'[i].call>>
  BY DEF Answered, RowsOf
<1>8. Asked' = Asked
  <2>1. DOMAIN msgs' = DOMAIN msgs
    BY <1>1, <1>5
  <2>2. ASSUME NEW c, c \in Asked' PROVE c \in Asked
    <3>1. PICK i \in DOMAIN msgs :
             msgs'[i].role = "ASSISTANT" /\ \E k \in 1..msgs'[i].calls : c = <<msgs'[i].by, msgs'[i].round, k>>
      BY <1>6, <2>1, <2>2
    <3> QED BY <1>4, <3>1, AskedIs
  <2>3. ASSUME NEW c, c \in Asked PROVE c \in Asked'
    <3>1. PICK i \in DOMAIN msgs :
             msgs[i].role = "ASSISTANT" /\ \E k \in 1..msgs[i].calls : c = <<msgs[i].by, msgs[i].round, k>>
      BY <2>3, AskedIs
    <3> QED BY <1>4, <1>6, <2>1, <3>1
  <2> QED BY <2>2, <2>3
<1>9. Answered' = Answered
  <2>1. \A i \in DOMAIN msgs : msgs[i].role = "TOOL_RESULT" =>
           <<msgs'[i].by, msgs'[i].round, msgs'[i].call>> = <<msgs[i].by, msgs[i].round, msgs[i].call>>
    BY <1>4
  <2>2. DOMAIN msgs' = DOMAIN msgs /\ \A i \in DOMAIN msgs : msgs'[i].role = msgs[i].role
    BY <1>1, <1>4, <1>5
  <2>3. \A c : c \in Answered' <=> c \in Answered
    <3>1. ASSUME NEW c, c \in Answered' PROVE c \in Answered
      <4>1. PICK i \in DOMAIN msgs' : /\ msgs'[i].role = "TOOL_RESULT"
                                     /\ c = <<msgs'[i].by, msgs'[i].round, msgs'[i].call>>
        BY <1>7, <3>1
      <4>2. i \in DOMAIN msgs /\ msgs[i].role = "TOOL_RESULT"
            /\ c = <<msgs[i].by, msgs[i].round, msgs[i].call>>
        BY <2>1, <2>2, <4>1
      <4> QED BY <4>2, AnsweredIs
    <3>2. ASSUME NEW c, c \in Answered PROVE c \in Answered'
      <4>1. PICK i \in DOMAIN msgs : /\ msgs[i].role = "TOOL_RESULT"
                                    /\ c = <<msgs[i].by, msgs[i].round, msgs[i].call>>
        BY <3>2, AnsweredIs
      <4>2. i \in DOMAIN msgs' /\ msgs'[i].role = "TOOL_RESULT"
            /\ c = <<msgs'[i].by, msgs'[i].round, msgs'[i].call>>
        BY <2>1, <2>2, <4>1
      <4> QED BY <1>7, <4>2
    <3> QED BY <3>1, <3>2
  <2> QED BY <2>3
<1> QED BY <1>5, <1>8, <1>9

-----------------------------------------------------------------------------
(* Steps of the loops *)

\* The loop of p goes on to l; what is asked and answered in its step is p's.
LEMMA LoopMoves ==
    ASSUME TurnInv, NEW p \in Prompts, NEW l \in LoopStates, Goto(p, l),
           stream' \in [Prompts -> {"none", "open", "done", "error", "cut"}],
           \A q \in Prompts \ {p} : stream'[q] = stream[q], StreamAt(l, stream'[p]),
           msgs' \in Seq(Msg), minted' \in Nat,
           NEW fresh \in SUBSET (Prompts \X Rounds \X Calls), \A c \in fresh : c[1] = p,
           NEW result \in SUBSET Asked, \A c \in result : c[1] = p,
           Asked' = Asked \cup fresh, Answered' = Answered \cup result,
           TurnAt(p, l, Asked', Answered')
    PROVE  TurnInv'
<1>1. /\ loop' \in [Prompts -> LoopStates] /\ loop'[p] = l
      /\ \A q \in Prompts \ {p} : loop'[q] = loop[q]
  BY DEF Goto, TurnInv, Types
<1>2. Asked' \subseteq Prompts \X Rounds \X Calls /\ Answered' \subseteq Asked'
  BY DEF TurnInv
<1>3. ASSUME NEW q \in Prompts \ {p} PROVE TurnAt(q, loop'[q], Asked', Answered')
  <2>1. TurnAt(q, loop[q], Asked, Answered)
    BY DEF TurnInv
  <2>2. \A c : c[1] = q => (c \in Asked' <=> c \in Asked) /\ (c \in Answered' <=> c \in Answered)
    OBVIOUS
  <2>3. Asked \subseteq Asked'
    OBVIOUS
  <2> QED BY <1>1, <2>1, <2>2, <2>3 DEF TurnAt
<1>4. \A q \in Prompts : StreamAt(loop'[q], stream'[q])
  BY <1>1 DEF TurnInv
<1>5. \A q \in Prompts : TurnAt(q, loop'[q], Asked', Answered')
  BY <1>1, <1>3
<1> QED BY <1>1, <1>2, <1>4, <1>5 DEF TurnInv, Types

\* A step that stores nothing.
LEMMA QuietMove ==
    ASSUME TurnInv, NEW p \in Prompts, NEW l \in LoopStates, Goto(p, l),
           stream' \in [Prompts -> {"none", "open", "done", "error", "cut"}],
           \A q \in Prompts \ {p} : stream'[q] = stream[q], StreamAt(l, stream'[p]),
           msgs' = msgs, minted' \in Nat, TurnAt(p, l, Asked, Answered)
    PROVE  TurnInv' /\ Asked' = Asked /\ Answered' = Answered
<1>1. Asked' = Asked \cup {} /\ Answered' = Answered \cup {}
  BY Kept
<1>2. msgs' \in Seq(Msg)
  BY DEF TurnInv, Types
<1>3. TurnAt(p, l, Asked', Answered')
  BY Kept
<1>4. /\ {} \in SUBSET (Prompts \X Rounds \X Calls) /\ {} \in SUBSET Asked
      /\ \A c \in {} : c[1] = p
  OBVIOUS
<1>5. TurnInv'
  BY <1>1, <1>2, <1>3, <1>4, LoopMoves
<1> QED BY <1>5, Kept

LEMMA AtLoop ==
    ASSUME TurnInv, NEW p \in Prompts
    PROVE  /\ TurnAt(p, loop[p], Asked, Answered) /\ StreamAt(loop[p], stream[p])
           /\ loop[p].pc \in {"unsent", "lookup", "lost", "over", "insertUser", "model",
                              "insertAnswer", "tool", "insertResult", "queue", "touch"}
           /\ loop[p].pc \in {"model", "insertAnswer", "tool", "insertResult"} => loop[p].round \in Rounds
           /\ loop[p].pc = "insertAnswer" => loop[p].calls \in 0..MaxCalls
           /\ loop[p].pc \in {"tool", "insertResult"} => loop[p].calls \in Calls /\ loop[p].call \in Calls
           /\ loop[p].pc \in {"insertUser", "insertAnswer", "insertResult"} => loop[p].id \in Nat
<1>1. loop[p] \in LoopStates
  BY DEF TurnInv, Types
<1>2. TurnAt(p, loop[p], Asked, Answered) /\ StreamAt(loop[p], stream[p])
  BY DEF TurnInv
<1> QED BY <1>1, <1>2 DEF LoopStates

Mapped == [Turns!Next]_<<Asked, Answered, stream>>

LEMMA SendStep == ASSUME TurnInv, NEW p \in Prompts, Respond(p) PROVE TurnInv' /\ Mapped
<1> DEFINE l == [pc |-> "lookup"]
<1>1. minted' \in Nat /\ l \in LoopStates
  BY DEF Respond, TurnInv, Types, LoopStates
<1>2. /\ stream' \in [Prompts -> {"none", "open", "done", "error", "cut"}]
      /\ stream'[p] = "open" /\ \A q \in Prompts \ {p} : stream'[q] = stream[q]
      /\ stream[p] = "none"
  BY AtLoop DEF Respond, TurnInv, Types, StreamAt
<1>3. StreamAt(l, stream'[p]) /\ TurnAt(p, l, Asked, Answered)
  BY <1>2, AtLoop DEF Respond, StreamAt, TurnAt
<1>4. Goto(p, l) /\ msgs' = msgs /\ stream' = [stream EXCEPT ![p] = "open"]
  BY DEF Respond
<1> HIDE DEF l
<1>5. TurnInv' /\ Asked' = Asked /\ Answered' = Answered
  BY <1>1, <1>2, <1>3, <1>4, QuietMove
<1>6. Turns!Open(p)
  BY <1>2, <1>4, <1>5 DEF Turns!Open
<1> QED BY <1>5, <1>6 DEF Mapped, Turns!Next

\* The steps of a loop that store nothing and leave the stream open.
LEMMA SilentStep ==
    ASSUME TurnInv, ConversationAssumption, NEW p \in Prompts,
           LookupKind(p) \/ LookupThrows(p) \/ ModelAnswers(p) \/ RunTool(p) \/ QueueMemory(p)
    PROVE  TurnInv' /\ Mapped
<1>1. PICK l \in LoopStates :
         /\ Goto(p, l) /\ msgs' = msgs /\ stream' = stream /\ minted' \in Nat
         /\ l.pc \notin {"unsent", "over"} /\ loop[p].pc \notin {"unsent", "over"}
         /\ TurnAt(p, l, Asked, Answered)
  <2>1. CASE ModelAnswers(p)
    <3>1. PICK n \in 0..MaxCalls :
             Mint(p, [pc |-> "insertAnswer", round |-> loop[p].round, calls |-> n, id |-> NextId])
      BY <2>1 DEF ModelAnswers
    <3> DEFINE l == [pc |-> "insertAnswer", round |-> loop[p].round, calls |-> n, id |-> NextId]
    <3>2. l \in LoopStates /\ minted' \in Nat
      BY <2>1, <3>1, AtLoop DEF ModelAnswers, LoopStates, NextId, TurnInv, Types, Mint
    <3>3. TurnAt(p, l, Asked, Answered)
      BY <2>1, AtLoop DEF ModelAnswers, TurnAt
    <3> QED BY <2>1, <3>1, <3>2, <3>3 DEF ModelAnswers, Mint
  <2>2. CASE RunTool(p)
    <3> DEFINE l == [pc |-> "insertResult", round |-> loop[p].round, calls |-> loop[p].calls,
                     call |-> loop[p].call, id |-> NextId]
    <3>1. l \in LoopStates /\ minted' \in Nat
      BY <2>2, AtLoop DEF RunTool, LoopStates, NextId, TurnInv, Types, Mint
    <3>2. TurnAt(p, l, Asked, Answered)
      BY <2>2, AtLoop DEF RunTool, TurnAt
    <3> QED BY <2>2, <3>1, <3>2 DEF RunTool, Mint
  <2>3. CASE QueueMemory(p)
    <3>1. [pc |-> "touch"] \in LoopStates /\ minted' \in Nat
      BY <2>3 DEF QueueMemory, LoopStates, TurnInv, Types
    <3>2. TurnAt(p, [pc |-> "touch"], Asked, Answered)
      BY <2>3, AtLoop DEF QueueMemory, TurnAt
    <3> QED BY <2>3, <3>1, <3>2 DEF QueueMemory
  <2>4. CASE LookupKind(p)
    <3> DEFINE l == [pc |-> "insertUser", id |-> NextId]
    <3>1. l \in LoopStates /\ minted' \in Nat
      BY <2>4 DEF LookupKind, LoopStates, NextId, TurnInv, Types, Mint
    <3>2. TurnAt(p, l, Asked, Answered)
      BY <2>4, AtLoop DEF LookupKind, TurnAt
    <3> QED BY <2>4, <3>1, <3>2 DEF LookupKind, Mint
  <2>5. CASE LookupThrows(p)
    <3>1. [pc |-> "lost"] \in LoopStates /\ minted' \in Nat
      BY <2>5 DEF LookupThrows, LoopStates, TurnInv, Types
    <3>2. TurnAt(p, [pc |-> "lost"], Asked, Answered)
      BY DEF TurnAt
    <3> QED BY <2>5, <3>1, <3>2 DEF LookupThrows
  <2> QED BY <2>1, <2>2, <2>3, <2>4, <2>5
<1>2. StreamAt(l, stream'[p])
  BY <1>1, AtLoop DEF StreamAt
<1>3. stream' \in [Prompts -> {"none", "open", "done", "error", "cut"}]
  BY <1>1 DEF TurnInv, Types
<1>4. TurnInv' /\ Asked' = Asked /\ Answered' = Answered
  BY <1>1, <1>2, <1>3, QuietMove
<1> QED BY <1>1, <1>4 DEF Mapped

LEMMA LeaveStep ==
    ASSUME TurnInv, NEW p \in Prompts, NEW how \in {"done", "error", "cut"}, Leave(p, how),
           loop[p].pc \notin {"unsent", "over"}, how = "done" => loop[p].pc = "touch"
    PROVE  TurnInv' /\ Mapped
<1> DEFINE l == [pc |-> "over"]
<1>1. l \in LoopStates /\ minted' \in Nat /\ TurnAt(p, l, Asked, Answered)
  BY DEF Leave, LoopStates, TurnInv, Types, TurnAt
<1>2. /\ stream' \in [Prompts -> {"none", "open", "done", "error", "cut"}]
      /\ stream'[p] = how /\ \A q \in Prompts \ {p} : stream'[q] = stream[q]
      /\ stream[p] = "open"
  BY AtLoop DEF Leave, TurnInv, Types, StreamAt
<1>3. StreamAt(l, stream'[p])
  BY <1>2 DEF StreamAt
<1>4. Goto(p, l) /\ msgs' = msgs /\ stream' = [stream EXCEPT ![p] = how]
  BY DEF Leave
<1> HIDE DEF l
<1>5. TurnInv' /\ Asked' = Asked /\ Answered' = Answered
  BY <1>1, <1>2, <1>3, <1>4, QuietMove
<1>6. how = "done" => Turns!Of(p) \subseteq Answered
  BY AtLoop DEF TurnAt, Turns!Of
<1>7. Turns!Close(p, how)
  BY <1>2, <1>4, <1>5, <1>6 DEF Turns!Close
<1> QED BY <1>5, <1>7 DEF Mapped, Turns!Next

LEMMA InsertUserStep ==
    ASSUME TurnInv, ConversationAssumption, NEW p \in Prompts, InsertUser(p)
    PROVE  TurnInv' /\ Mapped
<1> DEFINE row == [id |-> loop[p].id, archived |-> FALSE, by |-> p, role |-> "USER", plain |-> FALSE]
           l == [pc |-> "model", round |-> 1]
<1>1. row \in Msg /\ row.role = "USER" /\ Insert(row)
  BY AtLoop DEF InsertUser, Msg
<1>2. l \in LoopStates /\ 1 \in Rounds /\ Goto(p, l) /\ minted' \in Nat /\ stream' = stream
  BY DEF InsertUser, LoopStates, Rounds, ConversationAssumption, TurnInv, Types
<1>3. TurnAt(p, l, Asked, Answered) /\ StreamAt(l, stream[p])
  BY AtLoop DEF InsertUser, TurnAt, StreamAt
<1>4. stream' \in [Prompts -> {"none", "open", "done", "error", "cut"}] /\ msgs \in Seq(Msg)
  BY <1>2 DEF TurnInv, Types
<1> HIDE DEF row, l
<1>5. msgs' \in Seq(Msg) /\ Asked' = Asked \cup {} /\ Answered' = Answered \cup {}
  BY <1>1, <1>4, Appended
<1>6. TurnAt(p, l, Asked', Answered')
  BY <1>3, <1>5
<1>7. TurnInv'
  BY <1>2, <1>3, <1>4, <1>5, <1>6, LoopMoves
<1> QED BY <1>2, <1>5, <1>7 DEF Mapped

LEMMA InsertAnswerStep ==
    ASSUME TurnInv, ConversationAssumption, NEW p \in Prompts, InsertAnswer(p)
    PROVE  TurnInv' /\ Mapped
<1> DEFINE r == loop[p].round
           n == loop[p].calls
           row == [id |-> loop[p].id, archived |-> FALSE, by |-> p, role |-> "ASSISTANT",
                   round |-> r, calls |-> n]
           fresh == {<<p, r, k>> : k \in 1..n}
           l == IF n = 0 THEN [pc |-> "queue"]
                ELSE [pc |-> "tool", round |-> r, calls |-> n, call |-> 1]
<1>1. loop[p].pc = "insertAnswer" /\ r \in Rounds /\ n \in 0..MaxCalls /\ loop[p].id \in Nat
  BY AtLoop DEF InsertAnswer
<1>2. /\ row \in Msg /\ row.role = "ASSISTANT" /\ row.by = p /\ row.round = r /\ row.calls = n
      /\ Insert(row) /\ Goto(p, l) /\ minted' \in Nat /\ stream' = stream
  BY <1>1 DEF InsertAnswer, Msg, TurnInv, Types
<1>3. l \in LoopStates
  BY <1>1 DEF LoopStates, Calls, ConversationAssumption
<1>4. fresh \in SUBSET (Prompts \X Rounds \X Calls) /\ \A c \in fresh : c[1] = p
  BY <1>1 DEF Calls
<1>5. stream' \in [Prompts -> {"none", "open", "done", "error", "cut"}] /\ msgs \in Seq(Msg)
  BY <1>2 DEF TurnInv, Types
<1>6. StreamAt(l, stream'[p]) /\ stream[p] = "open"
  BY <1>1, <1>2, AtLoop DEF StreamAt
<1>7. /\ \A c \in Asked : c[1] = p => c[2] < r /\ c \in Answered
      /\ Asked \subseteq Prompts \X Rounds \X Calls /\ Answered \subseteq Asked
  BY <1>1, AtLoop DEF TurnAt, TurnInv
<1>8. msgs' \in Seq(Msg) /\ Asked' = Asked \cup fresh /\ Answered' = Answered \cup {}
  <2> HIDE DEF row
  <2> QED BY <1>2, <1>5, Appended
<1>9. TurnAt(p, l, Asked', Answered')
  <2>1. CASE n = 0
    <3>1. fresh = {}
      BY <2>1
    <3> QED BY <1>7, <1>8, <2>1, <3>1 DEF TurnAt
  <2>2. CASE n # 0
    <3>1. l = [pc |-> "tool", round |-> r, calls |-> n, call |-> 1] /\ n >= 1
      BY <1>1, <2>2
    <3>2. \A k \in 1..n : <<p, r, k>> \in Asked'
      BY <1>8
    <3>3. ASSUME NEW c \in Asked', c[1] = p
          PROVE  /\ c[2] <= r
                 /\ c[2] = r => c[3] <= n
                 /\ c \in Answered' <=> c[2] < r \/ c[3] < 1
      <4>1. CASE c \in Asked
        BY <1>1, <1>7, <1>8, <3>3, <4>1 DEF Rounds
      <4>2. CASE c \in fresh
        <5>1. PICK k \in 1..n : c = <<p, r, k>>
          BY <4>2
        <5>2. c \notin Asked
          BY <1>1, <1>7, <5>1 DEF Rounds
        <5> QED BY <1>1, <1>7, <1>8, <5>1, <5>2 DEF Rounds
      <4> QED BY <1>8, <4>1, <4>2
    <3> HIDE DEF l
    <3> QED BY <3>1, <3>2, <3>3 DEF TurnAt
  <2> QED BY <2>1, <2>2
<1>10. TurnInv'
  <2> HIDE DEF l, fresh
  <2> QED BY <1>2, <1>3, <1>4, <1>5, <1>6, <1>8, <1>9, LoopMoves
<1>11. Mapped
  <2>1. CASE n = 0
    BY <1>2, <1>8, <2>1 DEF Mapped
  <2>2. CASE n # 0
    <3>1. n \in Calls
      BY <1>1, <2>2 DEF Calls
    <3>2. Turns!Ask(p, r, n)
      BY <1>2, <1>6, <1>7, <1>8 DEF Turns!Ask, Turns!Of
    <3> QED BY <1>1, <3>1, <3>2 DEF Mapped, Turns!Next
  <2> QED BY <2>1, <2>2
<1> QED BY <1>10, <1>11

LEMMA InsertResultStep ==
    ASSUME TurnInv, ConversationAssumption, NEW p \in Prompts, InsertResult(p)
    PROVE  TurnInv' /\ Mapped
<1> DEFINE r == loop[p].round
           n == loop[p].calls
           k == loop[p].call
           row == [id |-> loop[p].id, archived |-> FALSE, by |-> p, role |-> "TOOL_RESULT",
                   round |-> r, call |-> k]
           c0 == <<p, r, k>>
           l == IF k < n THEN [pc |-> "tool", round |-> r, calls |-> n, call |-> k + 1]
                ELSE IF r < MaxRounds THEN [pc |-> "model", round |-> r + 1]
                ELSE [pc |-> "queue"]
<1>1. /\ loop[p].pc = "insertResult" /\ r \in Rounds /\ n \in Calls /\ k \in Calls /\ loop[p].id \in Nat
      /\ Rounds \subseteq Nat /\ Calls \subseteq Nat /\ MaxRounds \in Nat /\ MaxCalls \in Nat
  BY AtLoop DEF InsertResult, Rounds, Calls, ConversationAssumption
<1>2. /\ row \in Msg /\ row.role = "TOOL_RESULT" /\ row.by = p /\ row.round = r /\ row.call = k
      /\ Insert(row) /\ Goto(p, l) /\ minted' \in Nat /\ stream' = stream
  BY <1>1 DEF InsertResult, AfterResult, Msg, TurnInv, Types
<1>3. /\ k <= n /\ \A j \in 1..n : <<p, r, j>> \in Asked
      /\ \A c \in Asked : c[1] = p => /\ c[2] <= r
                                      /\ c[2] = r => c[3] <= n
                                      /\ c \in Answered <=> c[2] < r \/ c[3] < k
      /\ Asked \subseteq Prompts \X Rounds \X Calls /\ Answered \subseteq Asked
  BY <1>1, AtLoop DEF TurnAt, TurnInv
<1> HIDE DEF r, n, k, row
<1>4. c0 \in Asked /\ c0 \notin Answered /\ c0[1] = p /\ c0[2] = r /\ c0[3] = k
  <2>1. c0 \in Asked
    BY <1>1, <1>3 DEF Calls
  <2>2. c0[1] = p /\ c0[2] = r /\ c0[3] = k
    OBVIOUS
  <2> HIDE DEF c0
  <2>3. c0 \in Answered <=> c0[2] < r \/ c0[3] < k
    BY <1>3, <2>1, <2>2
  <2>4. r \in Nat /\ k \in Nat
    BY <1>1
  <2>5. c0 \notin Answered
    BY <2>2, <2>3, <2>4
  <2> QED BY <2>1, <2>2, <2>5
<1>5. stream' \in [Prompts -> {"none", "open", "done", "error", "cut"}] /\ msgs \in Seq(Msg)
  BY <1>2 DEF TurnInv, Types
<1>6. msgs' \in Seq(Msg) /\ Asked' = Asked \cup {} /\ Answered' = Answered \cup {c0}
  BY <1>2, <1>5, Appended
<1>7. ASSUME NEW c \in Asked, c[1] = p
      PROVE  c \in Answered' <=> c[2] < r \/ c[3] <= k
  <2>1. c = <<p, c[2], c[3]>> /\ c[2] \in Nat /\ c[3] \in Nat
    <3>1. c \in Prompts \X Rounds \X Calls
      BY <1>3, <1>7
    <3>2. PICK x \in Prompts, y \in Rounds, z \in Calls : c = <<x, y, z>>
      BY <3>1
    <3> QED BY <1>1, <1>7, <3>2
  <2>2. c = c0 <=> c[2] = r /\ c[3] = k
    BY <2>1, <1>4
  <2>3. c \in Answered' <=> c \in Answered \/ (c[2] = r /\ c[3] = k)
    BY <1>6, <2>2
  <2>4. /\ c[2] <= r /\ c[2] \in Nat /\ c[3] \in Nat /\ r \in Nat /\ k \in Nat
        /\ c \in Answered <=> c[2] < r \/ c[3] < k
    BY <1>1, <1>3, <1>7, <2>1
  <2> QED BY <2>3, <2>4
<1>8. l \in LoopStates /\ l.pc \notin {"unsent", "over"} /\ TurnAt(p, l, Asked', Answered')
  <2>1. CASE k < n
    <3>1. l = [pc |-> "tool", round |-> r, calls |-> n, call |-> k + 1]
      BY <2>1
    <3>2. l \in LoopStates
      BY <1>1, <2>1, <3>1 DEF LoopStates, Calls
    <3>3. \A c \in Asked : c[1] = p => /\ c[2] <= r
                                       /\ c[2] = r => c[3] <= n
                                       /\ c \in Answered' <=> c[2] < r \/ c[3] < k + 1
      <4>1. \A c \in Asked : c[3] \in Nat
        BY <1>1, <1>3
      <4> QED BY <1>1, <1>3, <1>7, <4>1
    <3> HIDE DEF l
    <3> QED BY <1>1, <1>3, <1>6, <2>1, <3>1, <3>2, <3>3 DEF TurnAt
  <2>2. CASE ~(k < n)
    <3>1. \A c \in Asked : c[1] = p => c[2] < r + 1 /\ c \in Answered'
      <4>1. k = n
        BY <1>1, <1>3, <2>2
      <4>2. \A c \in Asked : c[2] \in Nat /\ c[3] \in Nat
        BY <1>1, <1>3
      <4> QED BY <1>1, <1>3, <1>7, <4>1, <4>2
    <3>2. CASE r < MaxRounds
      <4>1. l = [pc |-> "model", round |-> r + 1]
        BY <2>2, <3>2
      <4>2. l \in LoopStates
        BY <1>1, <3>2, <4>1 DEF LoopStates, Rounds
      <4> HIDE DEF l
      <4> QED BY <1>6, <3>1, <4>1, <4>2 DEF TurnAt
    <3>3. CASE ~(r < MaxRounds)
      <4>1. l = [pc |-> "queue"]
        BY <2>2, <3>3
      <4> QED BY <1>6, <3>1, <4>1 DEF TurnAt, LoopStates
    <3> QED BY <3>2, <3>3
  <2> QED BY <2>1, <2>2
<1>9. StreamAt(l, stream'[p]) /\ stream[p] = "open"
  BY <1>1, <1>2, <1>8, AtLoop DEF StreamAt
<1>10. TurnInv'
  <2> HIDE DEF l, c0
  <2>1. /\ {} \in SUBSET (Prompts \X Rounds \X Calls) /\ \A c \in {} : c[1] = p
        /\ {c0} \in SUBSET Asked /\ \A c \in {c0} : c[1] = p
    BY <1>4
  <2> QED BY <1>2, <1>5, <1>6, <1>8, <1>9, <2>1, LoopMoves
<1>11. Turns!Answer(c0)
  <2> HIDE DEF c0
  <2> QED BY <1>2, <1>4, <1>6, <1>9 DEF Turns!Answer
<1>12. c0 \in Turns!Call
  BY <1>1 DEF Turns!Call
<1> QED BY <1>10, <1>11, <1>12 DEF Mapped, Turns!Next

\* Whatever leaves the loops alone and keeps the calls and results.
LEMMA BesideLoops ==
    ASSUME TurnInv, loop' = loop, stream' = stream, minted' = minted,
           msgs' \in Seq(Msg), Asked' = Asked, Answered' = Answered
    PROVE  TurnInv' /\ Mapped
<1>1. TurnInv'
  BY DEF TurnInv, Types
<1> QED BY <1>1 DEF Mapped

LEMMA TurnStep == ASSUME TurnInv, ConversationAssumption, [Next]_vars PROVE TurnInv' /\ Mapped
<1>1. ASSUME NEW p \in Prompts, Send(p) PROVE TurnInv' /\ Mapped
  BY <1>1, SendStep DEF Send
<1>2. ASSUME NEW p \in Prompts, LoopSteps(p) PROVE TurnInv' /\ Mapped
  <2>1. CASE Done(p)
    BY <2>1, LeaveStep DEF Done
  <2> QED BY <1>2, <2>1, InsertUserStep, InsertAnswerStep, InsertResultStep, SilentStep DEF LoopSteps
<1>3. ASSUME NEW p \in Prompts, LoopEnds(p) PROVE TurnInv' /\ Mapped
  <2>1. CASE LookupThrows(p)
    BY <2>1, SilentStep
  <2>2. CASE ~LookupThrows(p)
    <3>1. loop[p].pc \notin {"unsent", "over"} /\ \E how \in {"error", "cut"} : Leave(p, how)
      BY <1>3, <2>2, AtLoop
         DEF LoopEnds, ModelFails, ArgumentsRefused, LoopThrows, Crash, Running, StreamAt
    <3> QED BY <3>1, LeaveStep
  <2> QED BY <2>1, <2>2
<1>4. ASSUME msgs' = msgs, loop' = loop, stream' = stream, minted' = minted PROVE TurnInv' /\ Mapped
  BY <1>4, Kept, BesideLoops DEF TurnInv, Types
<1>5. ASSUME NEW w \in Workers, WorkerSteps(w) \/ JobFails(w) \/ Stall(w) PROVE TurnInv' /\ Mapped
  <2>1. CASE Archive(w)
    <3>1. loop' = loop /\ stream' = stream /\ minted' = minted
      BY <2>1 DEF Archive, SetWorker
    <3> QED BY <2>1, <3>1, ArchiveKeeps, BesideLoops DEF TurnInv, Types
  <2>2. CASE ~Archive(w)
    BY <1>4, <1>5, <2>2 DEF WorkerSteps, ReadHistory, SaveSummary, LoadTranscript, FindGoals,
                            UpsertGoals, JobFails, Stall, SetWorker
  <2> QED BY <2>1, <2>2
<1>6. CASE Close \/ UNCHANGED vars
  BY <1>4, <1>6 DEF Close, vars, convVars
<1> QED BY <1>1, <1>2, <1>3, <1>5, <1>6 DEF Next

LEMMA TurnBegins == ASSUME ConversationAssumption, Init PROVE TurnInv /\ Turns!Init
<1> DEFINE n == Cardinality(Stored)
<1>1. n \in Nat
  BY FS_CardinalityType DEF ConversationAssumption
<1>2. PICK order \in [1..n -> Stored] :
         msgs = [i \in 1..n |-> [id |-> i, archived |-> FALSE, by |-> order[i], role |-> "USER",
                                 plain |-> TRUE]]
  BY DEF Init, ConversationInit
<1> HIDE DEF n
<1>3. \A i \in 1..n : msgs[i] \in Msg /\ msgs[i].role = "USER"
  BY <1>1, <1>2 DEF Msg
<1>4. msgs \in [1..n -> Msg]
  BY <1>2, <1>3
<1>5. msgs \in Seq(Msg) /\ DOMAIN msgs = 1..n
  BY <1>1, <1>4, SeqDef
<1>6. Asked = {} /\ Answered = {}
  BY <1>3, <1>5, AskedIs, AnsweredIs
<1>7. Types
  BY <1>1, <1>5 DEF Init, ConversationInit, Types, LoopStates, n
<1>8. TurnInv
  BY <1>6, <1>7 DEF Init, ConversationInit, TurnInv, TurnAt, StreamAt
<1>9. Turns!Init
  BY <1>6 DEF Init, ConversationInit, Turns!Init
<1> QED BY <1>8, <1>9

-----------------------------------------------------------------------------
(* Nothing is archived that no summary covers *)

SummaryOf == [first : Nat, last : Nat, read : SUBSET Nat, masked : SUBSET Nat,
              inFlight : SUBSET Nat]
Compressing(state) == state.pc \in {"summarise", "archive"}

\* What is in the range of a summary being made is covered by it, or archived
\* already; ids drawn since lie beyond it.
Faithful(s) ==
    /\ s.last <= minted
    /\ \A i \in DOMAIN msgs : ToArchive(s, msgs[i].id) => Covers(s, msgs[i]) \/ msgs[i].archived
    /\ \A p \in Prompts : loop[p].pc \in Saving /\ loop[p].id <= s.last => loop[p].id \in s.inFlight

ReadInv ==
    /\ \A i \in DOMAIN msgs : msgs[i].id <= minted
    /\ \A p \in Prompts : loop[p].pc \in Saving => loop[p].id <= minted
    /\ worker = [w \in Workers |-> worker[w]]
    /\ \A w \in Workers : Compressing(worker[w]) =>
          /\ worker[w].s \in SummaryOf
          /\ worker[w] = [pc |-> worker[w].pc, s |-> worker[w].s]
          /\ Faithful(worker[w].s)
          /\ worker[w].pc = "archive" => worker[w].s \in summaries
    /\ ArchivedWasCovered

\* A step of the loop of p: it goes on to l, draws the next id for a message,
\* stores the message whose id it has drawn, or neither. Before a loop is past
\* its lookup nothing is stored.
Stores(p, row) ==
    /\ Insert(row)
    /\ row.by = p /\ ~row.archived
    /\ loop[p].pc \in Saving /\ row.id = loop[p].id
LoopEffect(p, l) ==
    /\ Goto(p, l) /\ loop[p].pc # "over" /\ l.pc # "unsent"
    /\ l.pc \in {"lookup", "lost"} => loop[p].pc \in {"unsent", "lookup"} /\ msgs' = msgs
    /\ \/ l.pc \in Saving /\ l.id = minted + 1 /\ minted' = minted + 1 /\ msgs' = msgs
       \/ l.pc \notin Saving /\ minted' = minted /\ msgs' = msgs
       \/ l.pc \notin Saving /\ minted' = minted /\ \E row \in Msg : Stores(p, row)

LEMMA LoopHasEffect ==
    ASSUME TurnInv, NEW p \in Prompts, Respond(p) \/ LoopSteps(p) \/ LoopEnds(p)
    PROVE  \E l : LoopEffect(p, l)
<1>1. CASE Respond(p) \/ LookupThrows(p)
  <2>1. \E l \in {[pc |-> "lookup"], [pc |-> "lost"]} : LoopEffect(p, l)
    BY <1>1 DEF Respond, LookupThrows, LoopEffect, Saving
  <2> QED BY <2>1
<1>6. CASE LookupKind(p)
  <2> DEFINE l == [pc |-> "insertUser", id |-> NextId]
  <2>1. LoopEffect(p, l)
    BY <1>6 DEF LookupKind, Mint, NextId, LoopEffect, Saving
  <2> QED BY <2>1
<1>2. CASE ModelAnswers(p)
  <2>1. PICK n \in 0..MaxCalls :
           Mint(p, [pc |-> "insertAnswer", round |-> loop[p].round, calls |-> n, id |-> NextId])
    BY <1>2 DEF ModelAnswers
  <2> DEFINE l == [pc |-> "insertAnswer", round |-> loop[p].round, calls |-> n, id |-> NextId]
  <2>2. LoopEffect(p, l)
    BY <1>2, <2>1 DEF ModelAnswers, Mint, NextId, LoopEffect, Saving
  <2> QED BY <2>2
<1>3. CASE RunTool(p)
  <2> DEFINE l == [pc |-> "insertResult", round |-> loop[p].round, calls |-> loop[p].calls,
                   call |-> loop[p].call, id |-> NextId]
  <2>1. LoopEffect(p, l)
    BY <1>3 DEF RunTool, Mint, NextId, LoopEffect, Saving
  <2> QED BY <2>1
<1>4. CASE InsertUser(p) \/ InsertAnswer(p) \/ InsertResult(p)
  <2>1. PICK row \in Msg : Stores(p, row)
    <3>1. CASE InsertUser(p)
      <4> DEFINE row == [id |-> loop[p].id, archived |-> FALSE, by |-> p, role |-> "USER",
                         plain |-> FALSE]
      <4>1. row \in Msg /\ Stores(p, row)
        BY <3>1, AtLoop DEF InsertUser, Msg, Stores, Saving
      <4> QED BY <4>1
    <3>2. CASE InsertAnswer(p)
      <4> DEFINE row == [id |-> loop[p].id, archived |-> FALSE, by |-> p, role |-> "ASSISTANT",
                         round |-> loop[p].round, calls |-> loop[p].calls]
      <4>1. row \in Msg /\ Stores(p, row)
        BY <3>2, AtLoop DEF InsertAnswer, Msg, Stores, Saving
      <4> QED BY <4>1
    <3>3. CASE InsertResult(p)
      <4> DEFINE row == [id |-> loop[p].id, archived |-> FALSE, by |-> p, role |-> "TOOL_RESULT",
                         round |-> loop[p].round, call |-> loop[p].call]
      <4>1. row \in Msg /\ Stores(p, row)
        BY <3>3, AtLoop DEF InsertResult, Msg, Stores, Saving
      <4> QED BY <4>1
    <3> QED BY <1>4, <3>1, <3>2, <3>3
  <2>2. PICK l : Goto(p, l) /\ minted' = minted /\ l.pc \notin Saving \cup {"unsent", "lookup", "lost"}
    BY <1>4 DEF InsertUser, InsertAnswer, InsertResult, AfterResult, Saving
  <2>3. LoopEffect(p, l)
    BY <2>1, <2>2 DEF LoopEffect, Stores, Saving
  <2> QED BY <2>3
<1>5. CASE QueueMemory(p) \/ Done(p) \/ (LoopEnds(p) /\ ~LookupThrows(p))
  <2>1. PICK l : Goto(p, l) /\ msgs' = msgs /\ minted' = minted /\ l.pc \notin Saving \cup {"unsent", "lookup", "lost"}
    BY <1>5 DEF QueueMemory, Done, LoopEnds, ModelFails, ArgumentsRefused, LoopThrows, Crash, Leave, Saving
  <2>2. loop[p].pc # "over"
    BY <1>5, AtLoop DEF QueueMemory, Done, LoopEnds, ModelFails, ArgumentsRefused, LoopThrows, Crash,
                        Running, StreamAt
  <2>3. LoopEffect(p, l)
    BY <2>1, <2>2 DEF LoopEffect
  <2> QED BY <2>3
<1> QED BY <1>1, <1>2, <1>3, <1>4, <1>5, <1>6 DEF LoopSteps

\* A step of a loop: it may draw the next id, or insert the row whose id it
\* has drawn.
LEMMA LoopReads ==
    ASSUME TurnInv, ReadInv, NEW p \in Prompts, NEW l, Goto(p, l),
           minted' \in Nat, minted <= minted', worker' = worker, summaries' = summaries,
           l.pc \in Saving => l.id = minted' /\ minted < minted',
           \/ msgs' = msgs
           \/ \E row \in Msg : /\ Insert(row) /\ ~row.archived
                               /\ loop[p].pc \in Saving /\ row.id = loop[p].id
    PROVE  ReadInv'
<1>1. loop'[p] = l /\ \A q \in Prompts \ {p} : loop'[q] = loop[q]
  BY DEF Goto, TurnInv, Types
<1>2. /\ minted \in Nat /\ Len(msgs) \in Nat /\ DOMAIN msgs = 1..Len(msgs)
      /\ \A i \in DOMAIN msgs : msgs[i].id \in Nat
      /\ \A q \in Prompts : loop[q].pc \in Saving => loop[q].id \in Nat
  BY AtLoop DEF TurnInv, Types, Msg, Saving
<1>3. ASSUME NEW i \in DOMAIN msgs'
      PROVE  \/ i \in DOMAIN msgs /\ msgs'[i] = msgs[i]
             \/ ~msgs'[i].archived /\ loop[p].pc \in Saving /\ msgs'[i].id = loop[p].id
  BY <1>2 DEF Insert, TurnInv, Types
<1>4. \A i \in DOMAIN msgs' : msgs'[i].id <= minted'
  BY <1>2, <1>3 DEF ReadInv
<1>5. \A q \in Prompts : loop'[q].pc \in Saving => loop'[q].id <= minted'
  BY <1>1, <1>2 DEF ReadInv
<1>6. ASSUME NEW s \in SummaryOf, Faithful(s) PROVE Faithful(s)'
  <2>1. s.last <= minted' /\ s.last \in Nat /\ s.last <= minted
    BY <1>2, <1>6 DEF Faithful, SummaryOf
  <2>2. \A i \in DOMAIN msgs' : ToArchive(s, msgs'[i].id) =>
           Covers(s, msgs'[i]) \/ msgs'[i].archived
    BY <1>2, <1>3, <1>6 DEF Faithful, ToArchive, Covers
  <2>3. \A q \in Prompts : loop'[q].pc \in Saving /\ loop'[q].id <= s.last => loop'[q].id \in s.inFlight
    BY <1>1, <1>2, <1>6, <2>1 DEF Faithful
  <2> QED BY <2>1, <2>2, <2>3 DEF Faithful
<1>7. ArchivedWasCovered'
  BY <1>3 DEF ReadInv, ArchivedWasCovered
<1> QED BY <1>4, <1>5, <1>6, <1>7 DEF ReadInv

LEMMA LoopsRead ==
    ASSUME TurnInv, ReadInv, NEW p \in Prompts,
           Respond(p) \/ LoopSteps(p) \/ LoopEnds(p), worker' = worker, summaries' = summaries
    PROVE  ReadInv'
<1>1. PICK l : LoopEffect(p, l)
  BY LoopHasEffect
<1>2. minted \in Nat
  BY DEF TurnInv, Types
<1> QED BY <1>1, <1>2, LoopReads DEF LoopEffect, Stores

\* A worker's step that archives nothing: it goes on with the same summary,
\* with a new one that is faithful, or with none.
LEMMA WorkerReads ==
    ASSUME ReadInv, NEW w \in Workers, NEW state, worker' = [worker EXCEPT ![w] = state],
           msgs' = msgs, minted' = minted, loop' = loop, summaries \subseteq summaries',
           Compressing(state) => /\ state = [pc |-> state.pc, s |-> state.s] /\ state.s \in SummaryOf
                                 /\ Faithful(state.s)
                                 /\ state.pc = "archive" => state.s \in summaries'
    PROVE  ReadInv'
<1>1. worker'[w] = state /\ \A v \in Workers \ {w} : worker'[v] = worker[v]
      /\ worker' = [u \in Workers |-> worker'[u]]
  BY DEF ReadInv
<1>2. \A s : Faithful(s)' <=> Faithful(s)
  BY DEF Faithful
<1>3. ArchivedWasCovered'
  BY DEF ReadInv, ArchivedWasCovered
<1>4. ASSUME NEW v \in Workers, Compressing(worker'[v])
      PROVE  /\ worker'[v].s \in SummaryOf
             /\ worker'[v] = [pc |-> worker'[v].pc, s |-> worker'[v].s]
             /\ Faithful(worker'[v].s)
             /\ worker'[v].pc = "archive" => worker'[v].s \in summaries'
  <2>1. CASE v = w
    BY <1>1, <1>4, <2>1
  <2>2. CASE v # w
    <3>1. worker'[v] = worker[v] /\ Compressing(worker[v])
      BY <1>1, <1>4, <2>2
    <3> QED BY <3>1 DEF ReadInv
  <2> QED BY <2>1, <2>2
<1> QED BY <1>1, <1>2, <1>3, <1>4 DEF ReadInv

LEMMA HistoryRead ==
    ASSUME TurnInv, ReadInv, NEW w \in Workers, ReadHistory(w) PROVE ReadInv'
<1>1. /\ minted \in Nat /\ \A i \in DOMAIN msgs : msgs[i].id \in Nat /\ msgs[i].archived \in BOOLEAN
      /\ \A q \in Prompts : loop[q].pc \in Saving => loop[q].id \in Nat
  BY AtLoop DEF TurnInv, Types, Msg, Saving
<1>2. msgs' = msgs /\ minted' = minted /\ loop' = loop /\ summaries' = summaries
  BY DEF ReadHistory, SetWorker
<1>3. CASE SetWorker(w, Idle)
  <2>1. ~Compressing(Idle) /\ worker' = [worker EXCEPT ![w] = Idle]
    BY <1>3 DEF Compressing, Idle, SetWorker
  <2> QED BY <1>2, <2>1, WorkerReads
<1>4. ASSUME NEW first \in Unarchived, NEW last \in Unarchived,
             SetWorker(w, [pc |-> "summarise",
                           s |-> [first |-> msgs[first].id, last |-> msgs[last].id,
                                  read |-> IdsOf({i \in Unarchived : ~Masked(msgs[i])}),
                                  masked |-> IdsOf({i \in Unarchived : Masked(msgs[i])}),
                                  inFlight |-> InFlight]])
      PROVE  ReadInv'
  <2> DEFINE clear == {i \in Unarchived : ~Masked(msgs[i])}
             hidden == {i \in Unarchived : Masked(msgs[i])}
             s == [first |-> msgs[first].id, last |-> msgs[last].id, read |-> IdsOf(clear),
                   masked |-> IdsOf(hidden), inFlight |-> InFlight]
             state == [pc |-> "summarise", s |-> s]
  <2>1. first \in DOMAIN msgs /\ last \in DOMAIN msgs
    BY DEF Unarchived
  <2>2. IdsOf(clear) \subseteq Nat /\ IdsOf(hidden) \subseteq Nat
    BY <1>1 DEF IdsOf, Unarchived
  <2>3. InFlight \subseteq Nat
    BY <1>1 DEF InFlight
  <2>4. s \in SummaryOf
    BY <1>1, <2>1, <2>2, <2>3 DEF SummaryOf
  <2>5. /\ s.last = msgs[last].id /\ s.inFlight = InFlight
        /\ s.read = IdsOf(clear) /\ s.masked = IdsOf(hidden)
    OBVIOUS
  <2> HIDE DEF s
  <2>6. \A i \in DOMAIN msgs : Covers(s, msgs[i]) \/ msgs[i].archived
    BY <2>5 DEF Covers, IdsOf, Unarchived
  <2>7. \A p \in Prompts : loop[p].pc \in Saving => loop[p].id \in s.inFlight
    BY <2>5 DEF InFlight
  <2>8. Faithful(s)
    BY <2>1, <2>5, <2>6, <2>7 DEF Faithful, ReadInv
  <2>9. worker' = [worker EXCEPT ![w] = state]
    BY <1>4 DEF SetWorker, s
  <2> QED BY <1>2, <2>4, <2>8, <2>9, WorkerReads
<1> QED BY <1>3, <1>4 DEF ReadHistory

LEMMA ArchiveReads ==
    ASSUME TurnInv, ReadInv, NEW w \in Workers, Archive(w) PROVE ReadInv'
<1>1. \A i \in DOMAIN msgs : msgs[i] \in Msg
  BY DEF TurnInv, Types
<1>2. /\ DOMAIN msgs' = DOMAIN msgs /\ minted' = minted /\ loop' = loop /\ summaries' = summaries
      /\ worker'[w] = Idle /\ \A v \in Workers \ {w} : worker'[v] = worker[v]
      /\ worker' = [v \in Workers |-> worker'[v]]
  BY DEF Archive, SetWorker, ReadInv
<1>3. ASSUME NEW i \in DOMAIN msgs
      PROVE  /\ msgs'[i].id = msgs[i].id
             /\ msgs'[i].archived = (msgs[i].archived \/ ToArchive(worker[w].s, msgs[i].id))
             /\ \A s : Covers(s, msgs'[i]) <=> Covers(s, msgs[i])
  <2>1. msgs'[i] = [msgs[i] EXCEPT !.archived = msgs[i].archived \/ ToArchive(worker[w].s, msgs[i].id)]
    BY DEF Archive
  <2>2. msgs[i] \in Msg
    BY <1>1
  <2>3. "archived" \in DOMAIN msgs[i] /\ "id" \in DOMAIN msgs[i]
    BY <2>2 DEF Msg
  <2>4. /\ msgs'[i].id = msgs[i].id
        /\ msgs'[i].archived = (msgs[i].archived \/ ToArchive(worker[w].s, msgs[i].id))
    BY <2>1, <2>3
  <2>5. Masked(msgs'[i]) <=> Masked(msgs[i])
    BY <2>1, <2>2 DEF Msg, Masked
  <2> QED BY <2>4, <2>5 DEF Covers
<1>4. Faithful(worker[w].s) /\ worker[w].s \in summaries
  BY DEF Archive, ReadInv, Compressing
<1>5. ArchivedWasCovered'
  <2> SUFFICES ASSUME NEW i \in DOMAIN msgs, msgs'[i].archived
               PROVE  \E s \in summaries : Covers(s, msgs[i])
    BY <1>2, <1>3 DEF ArchivedWasCovered
  <2>1. CASE msgs[i].archived
    BY <2>1 DEF ReadInv, ArchivedWasCovered
  <2>2. CASE ~msgs[i].archived
    BY <1>3, <1>4, <2>2 DEF Faithful
  <2> QED BY <2>1, <2>2
<1>6. ASSUME NEW s, Faithful(s) PROVE Faithful(s)'
  BY <1>2, <1>3, <1>6 DEF Faithful
<1>7. ASSUME NEW v \in Workers, Compressing(worker'[v])
      PROVE  /\ worker'[v].s \in SummaryOf
             /\ worker'[v] = [pc |-> worker'[v].pc, s |-> worker'[v].s]
             /\ Faithful(worker[v].s)'
             /\ worker'[v].pc = "archive" => worker'[v].s \in summaries'
  <2>1. v # w
    BY <1>2, <1>7 DEF Compressing, Idle
  <2>2. worker'[v] = worker[v] /\ Compressing(worker[v])
    BY <1>2, <1>7, <2>1
  <2> QED BY <1>2, <1>6, <2>2 DEF ReadInv
<1> QED BY <1>2, <1>3, <1>5, <1>6, <1>7 DEF ReadInv

LEMMA ReadStep == ASSUME TurnInv, ReadInv, [Next]_vars PROVE ReadInv'
<1>1. ASSUME NEW p \in Prompts, Send(p) PROVE ReadInv'
  BY <1>1, LoopsRead DEF Send
<1>2. ASSUME NEW p \in Prompts, LoopSteps(p) \/ LoopEnds(p), UNCHANGED memoryVars PROVE ReadInv'
  BY <1>2, LoopsRead DEF memoryVars
<1>3. CASE UNCHANGED <<msgs, minted, loop, worker, summaries>>
  BY <1>3 DEF ReadInv, ArchivedWasCovered, Faithful
<1>4. ASSUME NEW w \in Workers, SaveSummary(w) PROVE ReadInv'
  <2>1. PICK s \in SummaryOf : worker[w] = [pc |-> "summarise", s |-> s] /\ Faithful(s)
    BY <1>4 DEF SaveSummary, ReadInv, Compressing
  <2> DEFINE state == [pc |-> "archive", s |-> s]
  <2>2. [worker[w] EXCEPT !.pc = "archive"] = state /\ worker[w].s = s
    BY <2>1
  <2>3. worker' = [worker EXCEPT ![w] = state]
    BY <1>4, <2>2 DEF SaveSummary, SetWorker
  <2>4. /\ msgs' = msgs /\ minted' = minted /\ loop' = loop
        /\ summaries \subseteq summaries' /\ s \in summaries'
    BY <1>4, <2>2 DEF SaveSummary, SetWorker
  <2>5. state = [pc |-> state.pc, s |-> state.s] /\ state.s = s
    OBVIOUS
  <2> HIDE DEF state
  <2> QED BY <2>1, <2>3, <2>4, <2>5, WorkerReads
<1>5. ASSUME NEW w \in Workers, LoadTranscript(w) \/ FindGoals(w) \/ UpsertGoals(w) \/ JobFails(w)
      PROVE  ReadInv'
  <2>1. PICK state : worker' = [worker EXCEPT ![w] = state] /\ ~Compressing(state)
    BY <1>5 DEF LoadTranscript, FindGoals, UpsertGoals, JobFails, SetWorker, Compressing, Idle
  <2>2. msgs' = msgs /\ minted' = minted /\ loop' = loop /\ summaries' = summaries
    BY <1>5 DEF LoadTranscript, FindGoals, UpsertGoals, JobFails, SetWorker
  <2> QED BY <2>1, <2>2, WorkerReads
<1>6. CASE Close /\ UNCHANGED memoryVars
  BY <1>3, <1>6 DEF Close, memoryVars
<1>7. ASSUME NEW w \in Workers, Stall(w) PROVE ReadInv'
  BY <1>3, <1>7 DEF Stall, memoryVars
<1>8. CASE UNCHANGED vars
  BY <1>3, <1>8 DEF vars, convVars, memoryVars
<1> QED BY <1>1, <1>2, <1>4, <1>5, <1>6, <1>7, <1>8, HistoryRead, ArchiveReads DEF Next, WorkerSteps

LEMMA ReadBegins == ASSUME ConversationAssumption, Init PROVE ReadInv
<1> DEFINE n == Cardinality(Stored)
<1>1. n \in Nat
  BY FS_CardinalityType DEF ConversationAssumption
<1>2. PICK order \in [1..n -> Stored] :
         msgs = [i \in 1..n |-> [id |-> i, archived |-> FALSE, by |-> order[i], role |-> "USER",
                                 plain |-> TRUE]]
  BY DEF Init, ConversationInit
<1>3. minted = n
  BY DEF Init, ConversationInit
<1> HIDE DEF n
<1>4. \A i \in DOMAIN msgs : msgs[i].id <= minted /\ ~msgs[i].archived
  BY <1>1, <1>2, <1>3
<1> QED BY <1>4 DEF Init, ConversationInit, ReadInv, ArchivedWasCovered, Compressing, Idle, Saving

-----------------------------------------------------------------------------
(* Turns leave the history whole. A prompt that ran with no other beside it  *)
(* and with no history read has its messages side by side, in the order of  *)
(* their ids, and any summary was read before it was sent or after it ended.*)

Unmixed == Prompts \ mixed
RowOf(p) == {i \in DOMAIN msgs : msgs[i].by = p}

Alone == \A p \in Unmixed : Running(p) => \A q \in Prompts : Running(q) => q = p

\* The messages of a prompt that is not over.
StillWhole ==
    \A p \in Unmixed :
        /\ loop[p].pc \in {"unsent", "lookup", "lost"} => RowOf(p) = {}
        /\ loop[p].pc # "over" => \A i \in RowOf(p) : ~msgs[i].archived

\* The ids of a prompt's messages are in the order of the history.
InOrder ==
    \A p \in Unmixed : \A i \in RowOf(p), j \in DOMAIN msgs :
        /\ i < j => msgs[i].id < msgs[j].id
        /\ j < i => msgs[j].id < msgs[i].id

\* An id that is drawn is later than what it has to follow.
DrawnLater ==
    \A p \in Unmixed :
        /\ loop[p].pc \in Saving => \A j \in DOMAIN msgs : msgs[j].id < loop[p].id
        /\ \A i \in RowOf(p), q \in Prompts : loop[q].pc \in Saving => msgs[i].id < loop[q].id

\* A summary being made ends before a prompt that is not over, and takes the
\* unarchived messages of one that is over together.
SparesTurns(s) ==
    \A p \in Unmixed :
        /\ loop[p].pc # "over" => \A i \in RowOf(p) : s.last < msgs[i].id
        /\ loop[p].pc \in Saving => s.last < loop[p].id
        /\ \A i, j \in RowOf(p) :
              ToArchive(s, msgs[i].id) /\ ~ToArchive(s, msgs[j].id) => msgs[j].archived

WholeInv ==
    /\ Alone /\ StillWhole /\ InOrder /\ DrawnLater
    /\ \A w \in Workers : Compressing(worker[w]) => SparesTurns(worker[w].s)
    /\ TurnsArchivedWhole

\* What a step of a loop leaves: the old messages, and at most one new, of p.
LEMMA AfterEffect ==
    ASSUME TurnInv, ReadInv, NEW p \in Prompts, NEW l, LoopEffect(p, l)
    PROVE  /\ loop'[p] = l /\ \A q \in Prompts \ {p} : loop'[q] = loop[q]
           /\ \A i \in DOMAIN msgs : i \in Nat /\ i \in DOMAIN msgs' /\ msgs'[i] = msgs[i]
                                     /\ msgs[i].id \in Nat /\ msgs[i].id <= minted
                                     /\ msgs[i].archived \in BOOLEAN
           /\ \A i \in DOMAIN msgs' \ DOMAIN msgs :
                 /\ msgs'[i].by = p /\ ~msgs'[i].archived
                 /\ loop[p].pc \in Saving /\ msgs'[i].id = loop[p].id /\ l.pc \notin Saving
                 /\ \A j \in DOMAIN msgs : j < i
                 /\ \A j \in DOMAIN msgs' : j = i \/ j \in DOMAIN msgs
           /\ l.pc \in Saving => l.id = minted + 1 /\ msgs' = msgs
           /\ minted \in Nat /\ \A q \in Prompts : loop[q].pc \in Saving => loop[q].id \in Nat
<1>1. loop'[p] = l /\ \A q \in Prompts \ {p} : loop'[q] = loop[q]
  BY DEF LoopEffect, Goto, TurnInv, Types
<1>2. /\ msgs \in Seq(Msg) /\ Len(msgs) \in Nat /\ DOMAIN msgs = 1..Len(msgs) /\ minted \in Nat
      /\ \A i \in DOMAIN msgs : msgs[i] \in Msg
  BY DEF TurnInv, Types
<1>3. \A i \in DOMAIN msgs : msgs[i].id \in Nat /\ msgs[i].archived \in BOOLEAN /\ msgs[i].id <= minted
  BY <1>2 DEF Msg, ReadInv
<1>4. \A q \in Prompts : loop[q].pc \in Saving => loop[q].id \in Nat
  BY AtLoop DEF Saving
<1>5. l.pc \in Saving => l.id = minted + 1 /\ msgs' = msgs
  BY DEF LoopEffect
<1>6. CASE msgs' = msgs
  BY <1>1, <1>2, <1>3, <1>4, <1>5, <1>6
<1>7. CASE l.pc \notin Saving /\ \E row \in Msg : Stores(p, row)
  <2>1. PICK row \in Msg : Stores(p, row)
    BY <1>7
  <2>2. /\ DOMAIN msgs' = 1..(Len(msgs) + 1) /\ msgs'[Len(msgs) + 1] = row
        /\ \A i \in 1..Len(msgs) : msgs'[i] = msgs[i]
    BY <1>2, <2>1 DEF Stores, Insert
  <2>3. \A i \in DOMAIN msgs' \ DOMAIN msgs : i = Len(msgs) + 1
    BY <1>2, <2>2
  <2>4. \A i \in DOMAIN msgs : i \in Nat /\ i \in DOMAIN msgs' /\ msgs'[i] = msgs[i]
    BY <1>2, <2>2
  <2>5. \A i \in DOMAIN msgs' \ DOMAIN msgs :
                 /\ msgs'[i].by = p /\ ~msgs'[i].archived
                 /\ loop[p].pc \in Saving /\ msgs'[i].id = loop[p].id
                 /\ \A j \in DOMAIN msgs : j < i
                 /\ \A j \in DOMAIN msgs' : j = i \/ j \in DOMAIN msgs
    BY <1>2, <2>1, <2>2, <2>3 DEF Stores
  <2> QED BY <1>1, <1>2, <1>3, <1>4, <1>5, <1>7, <2>4, <2>5
<1> QED BY <1>6, <1>7 DEF LoopEffect

\* A step of a loop leaves whole what was whole.
LEMMA LoopWhole ==
    ASSUME TurnInv, ReadInv, WholeInv, NEW p \in Prompts, NEW l, LoopEffect(p, l),
           worker' = worker, mixed \subseteq mixed', Alone'
    PROVE  WholeInv'
<1>1. /\ loop'[p] = l /\ \A q \in Prompts \ {p} : loop'[q] = loop[q]
      /\ loop[p].pc # "over" /\ l.pc # "unsent"
      /\ l.pc \in {"lookup", "lost"} => loop[p].pc \in {"unsent", "lookup"} /\ msgs' = msgs
  BY AfterEffect DEF LoopEffect
<1>2. \A i \in DOMAIN msgs : i \in Nat /\ i \in DOMAIN msgs' /\ msgs'[i] = msgs[i]
                             /\ msgs[i].id \in Nat /\ msgs[i].id <= minted /\ msgs[i].archived \in BOOLEAN
  BY AfterEffect
<1>3. \A i \in DOMAIN msgs' \ DOMAIN msgs :
         /\ msgs'[i].by = p /\ ~msgs'[i].archived
         /\ loop[p].pc \in Saving /\ msgs'[i].id = loop[p].id /\ l.pc \notin Saving
         /\ \A j \in DOMAIN msgs : j < i
         /\ \A j \in DOMAIN msgs' : j = i \/ j \in DOMAIN msgs
  BY AfterEffect
<1>4. /\ l.pc \in Saving => l.id = minted + 1 /\ msgs' = msgs
      /\ minted \in Nat /\ \A q \in Prompts : loop[q].pc \in Saving => loop[q].id \in Nat
  BY AfterEffect
<1>5. Unmixed' \subseteq Unmixed /\ \A q \in Unmixed : q \in Prompts
  BY DEF Unmixed
<1>6. \A q \in Prompts : \A i \in RowOf(q)' :
         \/ i \in RowOf(q) /\ i \in DOMAIN msgs
         \/ q = p /\ i \in DOMAIN msgs' \ DOMAIN msgs
  BY <1>2, <1>3 DEF RowOf
<1>7. \A q \in Prompts : \A i \in RowOf(q) : i \in DOMAIN msgs
  BY DEF RowOf
\* A prompt that ran alone has no other that saves beside it.
<1>8. \A q \in Unmixed' \ {p}, i \in DOMAIN msgs' \ DOMAIN msgs : loop[q].pc \notin Saving
  BY <1>3, <1>5 DEF WholeInv, Alone, Running, Saving
<1>9. p \in Unmixed' => \A q \in Prompts \ {p}, i \in DOMAIN msgs' \ DOMAIN msgs : loop[q].pc \notin Saving
  BY <1>3, <1>5 DEF WholeInv, Alone, Running, Saving
<1>10. StillWhole'
  <2> SUFFICES ASSUME NEW q \in Unmixed'
               PROVE  /\ loop'[q].pc \in {"unsent", "lookup", "lost"} => RowOf(q)' = {}
                      /\ loop'[q].pc # "over" => \A i \in RowOf(q)' : ~msgs'[i].archived
    BY DEF StillWhole
  <2>1. /\ loop[q].pc \in {"unsent", "lookup", "lost"} => RowOf(q) = {}
        /\ loop[q].pc # "over" => \A i \in RowOf(q) : ~msgs[i].archived
    BY <1>5 DEF WholeInv, StillWhole
  <2>2. CASE q = p
    BY <1>1, <1>2, <1>3, <1>5, <1>6, <2>1, <2>2
  <2>3. CASE q # p
    BY <1>1, <1>2, <1>5, <1>6, <2>1, <2>3
  <2> QED BY <2>2, <2>3
<1>11. InOrder'
  <2> SUFFICES ASSUME NEW q \in Unmixed', NEW i \in RowOf(q)', NEW j \in DOMAIN msgs'
               PROVE  /\ i < j => msgs'[i].id < msgs'[j].id
                      /\ j < i => msgs'[j].id < msgs'[i].id
    BY DEF InOrder
  <2>0. q \in Unmixed /\ q \in Prompts /\ i \in DOMAIN msgs'
    BY <1>5 DEF RowOf
  <2>1. CASE i \in RowOf(q) /\ j \in DOMAIN msgs
    BY <1>2, <1>7, <2>0, <2>1 DEF WholeInv, InOrder
  <2>2. CASE i \in RowOf(q) /\ j \notin DOMAIN msgs
    <3>1. msgs[i].id < loop[p].id
      BY <1>3, <2>0, <2>2 DEF WholeInv, DrawnLater
    <3>2. i < j /\ i \in Nat /\ j \in DOMAIN msgs' \ DOMAIN msgs /\ i \in DOMAIN msgs
      BY <1>2, <1>3, <1>7, <2>0, <2>2
    <3>3. ~(j < i)
      <4>1. j \in Nat
        <5>1. DOMAIN msgs' \subseteq Nat
          BY DEF LoopEffect, Stores, Insert, TurnInv, Types
        <5> QED BY <5>1
      <4> QED BY <3>2, <4>1
    <3> QED BY <1>2, <1>3, <3>1, <3>2, <3>3
  <2>3. CASE i \in DOMAIN msgs' \ DOMAIN msgs /\ q = p
    <3>1. \A k \in DOMAIN msgs : msgs[k].id < loop[p].id
      BY <1>3, <2>0, <2>3 DEF WholeInv, DrawnLater
    <3>2. j = i \/ (j \in DOMAIN msgs /\ j < i /\ j \in Nat)
      BY <1>2, <1>3, <2>3
    <3>3. DOMAIN msgs' \subseteq Nat
      BY DEF LoopEffect, Stores, Insert, TurnInv, Types
    <3>4. ~(i < j)
      BY <2>0, <3>2, <3>3
    <3> QED BY <1>2, <1>3, <2>3, <3>1, <3>2, <3>3, <3>4
  <2> QED BY <1>6, <2>0, <2>1, <2>2, <2>3
<1>12. DrawnLater'
  <2> SUFFICES ASSUME NEW q \in Unmixed'
               PROVE  /\ loop'[q].pc \in Saving => \A j \in DOMAIN msgs' : msgs'[j].id < loop'[q].id
                      /\ \A i \in RowOf(q)', r \in Prompts :
                            loop'[r].pc \in Saving => msgs'[i].id < loop'[r].id
    BY DEF DrawnLater
  <2>0. q \in Unmixed /\ q \in Prompts
    BY <1>5
  <2>1. ASSUME loop'[q].pc \in Saving, NEW j \in DOMAIN msgs' PROVE msgs'[j].id < loop'[q].id
    <3>1. CASE q = p
      BY <1>1, <1>2, <1>4, <2>1, <3>1
    <3>2. CASE q # p
      <4>1. j \in DOMAIN msgs /\ loop'[q] = loop[q]
        BY <1>1, <1>8, <2>0, <2>1, <3>2
      <4> QED BY <1>2, <2>0, <2>1, <4>1 DEF WholeInv, DrawnLater
    <3> QED BY <3>1, <3>2
  <2>2. ASSUME NEW i \in RowOf(q)', NEW r \in Prompts, loop'[r].pc \in Saving
        PROVE  msgs'[i].id < loop'[r].id
    <3>1. CASE r = p
      <4>1. l.id = minted + 1 /\ msgs' = msgs /\ loop'[r] = l
        BY <1>1, <1>4, <2>2, <3>1
      <4>2. i \in DOMAIN msgs
        BY <1>6, <2>0, <4>1 DEF RowOf
      <4> QED BY <1>2, <1>4, <4>1, <4>2
    <3>2. CASE r # p /\ i \in RowOf(q)
      <4>1. loop'[r] = loop[r] /\ msgs'[i] = msgs[i]
        BY <1>1, <1>2, <1>7, <2>0, <3>2
      <4> QED BY <2>0, <2>2, <3>2, <4>1 DEF WholeInv, DrawnLater
    <3>3. CASE r # p /\ q = p /\ i \in DOMAIN msgs' \ DOMAIN msgs
      BY <1>1, <1>9, <2>2, <3>3
    <3> QED BY <1>6, <2>0, <2>2, <3>1, <3>2, <3>3
  <2> QED BY <2>1, <2>2
<1>13. ASSUME NEW w \in Workers, Compressing(worker'[w]) PROVE SparesTurns(worker[w].s)'
  <2>1. SparesTurns(worker[w].s) /\ Faithful(worker[w].s) /\ worker[w].s \in SummaryOf
    BY <1>13 DEF WholeInv, ReadInv
  <2>0. PICK s : s = worker[w].s
    OBVIOUS
  <2>2. s \in SummaryOf /\ s.first \in Nat /\ s.last \in Nat /\ s.last <= minted /\ SparesTurns(s)
    BY <2>0, <2>1 DEF SummaryOf, Faithful
  <2>3. ASSUME NEW q \in Unmixed'
        PROVE  /\ loop'[q].pc # "over" => \A i \in RowOf(q)' : s.last < msgs'[i].id
               /\ loop'[q].pc \in Saving => s.last < loop'[q].id
               /\ \A i, j \in RowOf(q)' :
                     ToArchive(s, msgs'[i].id) /\ ~ToArchive(s, msgs'[j].id) => msgs'[j].archived
    <3>1. /\ q \in Prompts
          /\ loop[q].pc # "over" => \A i \in RowOf(q) : s.last < msgs[i].id
          /\ loop[q].pc \in Saving => s.last < loop[q].id
          /\ \A i, j \in RowOf(q) :
                ToArchive(s, msgs[i].id) /\ ~ToArchive(s, msgs[j].id) => msgs[j].archived
      BY <1>5, <2>2 DEF SparesTurns
    <3>2. CASE q # p
      <4>1. \A i \in RowOf(q)' : i \in RowOf(q) /\ msgs'[i] = msgs[i]
        BY <1>2, <1>6, <3>1, <3>2
      <4> QED BY <1>1, <3>1, <3>2, <4>1
    <3>3. CASE q = p
      <4>1. \A i \in RowOf(q)' : s.last < msgs'[i].id /\ msgs'[i].id \in Nat
        BY <1>1, <1>2, <1>3, <1>4, <1>6, <3>1, <3>3
      <4>2. \A i \in RowOf(q)' : ~ToArchive(s, msgs'[i].id)
        BY <2>2, <4>1 DEF ToArchive
      <4>3. l.pc \in Saving => s.last < l.id
        BY <1>4, <2>2
      <4> QED BY <1>1, <3>3, <4>1, <4>2, <4>3
    <3> QED BY <3>2, <3>3
  <2>4. worker'[w].s = s
    BY <2>0
  <2> QED BY <2>3, <2>4 DEF SparesTurns
<1>14. TurnsArchivedWhole'
  <2> SUFFICES ASSUME NEW i \in DOMAIN msgs', NEW j \in DOMAIN msgs',
                      msgs'[i].by = msgs'[j].by, msgs'[i].by \in Prompts \ mixed'
               PROVE  msgs'[i].archived = msgs'[j].archived
    BY DEF TurnsArchivedWhole
  <2>1. CASE i \in DOMAIN msgs /\ j \in DOMAIN msgs
    BY <1>2, <2>1 DEF WholeInv, TurnsArchivedWhole
  <2>2. CASE i \notin DOMAIN msgs \/ j \notin DOMAIN msgs
    <3>1. msgs'[i].by = p /\ msgs'[j].by = p
      BY <1>3, <2>2
    <3>2. ~msgs'[i].archived /\ ~msgs'[j].archived
      <4>1. p \in Unmixed /\ \A k \in RowOf(p) : ~msgs[k].archived
        BY <1>1, <3>1 DEF Unmixed, WholeInv, StillWhole
      <4>2. \A k \in DOMAIN msgs' : msgs'[k].by = p => ~msgs'[k].archived
        BY <1>2, <1>3, <4>1 DEF RowOf
      <4> QED BY <3>1, <4>2
    <3>3. msgs'[i].archived \in BOOLEAN /\ msgs'[j].archived \in BOOLEAN
      <4>1. msgs' \in Seq(Msg)
        BY DEF LoopEffect, Stores, Insert, TurnInv, Types
      <4>2. msgs'[i] \in Msg /\ msgs'[j] \in Msg
        BY <4>1
      <4> QED BY <4>2 DEF Msg
    <3> QED BY <3>2, <3>3
  <2> QED BY <2>1, <2>2
<1> QED BY <1>10, <1>11, <1>12, <1>13, <1>14 DEF WholeInv

\* A step that stores nothing and moves no loop: more prompts may be mixed,
\* and a summary that a worker begins spares the turns.
LEMMA WorkerWhole ==
    ASSUME WholeInv, msgs' = msgs, loop' = loop, mixed \subseteq mixed',
           \A w \in Workers : Compressing(worker'[w]) =>
               \/ Compressing(worker[w]) /\ worker'[w].s = worker[w].s
               \/ SparesTurns(worker[w].s)'
    PROVE  WholeInv'
<1>1. Unmixed' \subseteq Unmixed /\ \A q : RowOf(q)' = RowOf(q)
  BY DEF Unmixed, RowOf
<1>2. Alone' /\ StillWhole'
  BY <1>1 DEF WholeInv, Alone, StillWhole, Running
<1>3. InOrder' /\ DrawnLater'
  BY <1>1 DEF WholeInv, InOrder, DrawnLater
<1>4. \A s : SparesTurns(s) => SparesTurns(s)'
  BY <1>1 DEF SparesTurns
<1>5. TurnsArchivedWhole'
  BY DEF WholeInv, TurnsArchivedWhole
<1>6. ASSUME NEW w \in Workers, Compressing(worker'[w]) PROVE SparesTurns(worker[w].s)'
  <2>1. CASE Compressing(worker[w]) /\ worker'[w].s = worker[w].s
    <3>1. PICK s : s = worker[w].s /\ SparesTurns(s)
      BY <2>1 DEF WholeInv
    <3>2. \A q \in Unmixed' :
             /\ loop'[q].pc # "over" => \A i \in RowOf(q)' : s.last < msgs'[i].id
             /\ loop'[q].pc \in Saving => s.last < loop'[q].id
             /\ \A i, j \in RowOf(q)' :
                   ToArchive(s, msgs'[i].id) /\ ~ToArchive(s, msgs'[j].id) => msgs'[j].archived
      BY <1>1, <3>1 DEF SparesTurns
    <3>3. worker'[w].s = s
      BY <2>1, <3>1
    <3> QED BY <3>2, <3>3 DEF SparesTurns
  <2> QED BY <1>6, <2>1
<1> QED BY <1>2, <1>3, <1>5, <1>6 DEF WholeInv

\* The history that is read holds every unarchived message of a prompt that
\* is over between its first and its last, and nothing of one yet unsent.
LEMMA HistoryWhole ==
    ASSUME TurnInv, ReadInv, WholeInv, NEW w \in Workers, ReadHistory(w) PROVE WholeInv'
<1>1. msgs' = msgs /\ loop' = loop /\ mixed' = mixed \cup RunningPrompts
  BY DEF ReadHistory, SetWorker
<1>2. ASSUME NEW v \in Workers \ {w} PROVE worker'[v] = worker[v]
  BY DEF ReadHistory, SetWorker, ReadInv
<1>3. CASE SetWorker(w, Idle)
  <2>1. ~Compressing(worker'[w])
    BY <1>3 DEF SetWorker, ReadInv, Compressing, Idle
  <2> QED BY <1>1, <1>2, <2>1, WorkerWhole
<1>4. ASSUME NEW first \in Unarchived, NEW last \in Unarchived, Unarchived \subseteq first..last,
             SetWorker(w, [pc |-> "summarise",
                           s |-> [first |-> msgs[first].id, last |-> msgs[last].id,
                                  read |-> IdsOf({i \in Unarchived : ~Masked(msgs[i])}),
                                  masked |-> IdsOf({i \in Unarchived : Masked(msgs[i])}),
                                  inFlight |-> InFlight]])
      PROVE  WholeInv'
  <2>1. worker'[w].s.first = msgs[first].id /\ worker'[w].s.last = msgs[last].id
    BY <1>4 DEF SetWorker, ReadInv
  <2>2. PICK s : s = worker'[w].s
    OBVIOUS
  <2>3. /\ first \in DOMAIN msgs /\ last \in DOMAIN msgs /\ DOMAIN msgs \subseteq Nat
        /\ \A i \in DOMAIN msgs : msgs[i].id \in Nat /\ msgs[i].archived \in BOOLEAN
    BY DEF Unarchived, TurnInv, Types, Msg
  <2>4. Unmixed' \subseteq Unmixed /\ \A q : RowOf(q)' = RowOf(q)
    BY <1>1 DEF Unmixed, RowOf
  <2>5. \A q \in Unmixed' : loop[q].pc \in {"unsent", "lost", "over"}
    BY <1>1 DEF Unmixed, RunningPrompts, Running
  <2>6. ASSUME NEW q \in Unmixed', NEW i \in RowOf(q), ~ToArchive(s, msgs[i].id)
        PROVE  msgs[i].archived
    <3> SUFFICES ASSUME ~msgs[i].archived PROVE FALSE
      OBVIOUS
    <3>1. i \in DOMAIN msgs /\ i \in Unarchived /\ q \in Unmixed
      BY <2>4 DEF RowOf, Unarchived
    <3>2. first <= i /\ i <= last /\ i \in Nat /\ first \in Nat /\ last \in Nat
      BY <1>4, <2>3, <3>1
    <3>3. msgs[first].id <= msgs[i].id
      <4>1. CASE first = i
        BY <2>3, <4>1
      <4>2. CASE first < i
        BY <2>3, <3>1, <4>2 DEF WholeInv, InOrder
      <4> QED BY <3>2, <4>1, <4>2
    <3>4. msgs[i].id <= msgs[last].id
      <4>1. CASE last = i
        BY <2>3, <4>1
      <4>2. CASE i < last
        BY <2>3, <3>1, <4>2 DEF WholeInv, InOrder
      <4> QED BY <3>2, <4>1, <4>2
    <3> QED BY <2>1, <2>2, <2>6, <3>3, <3>4 DEF ToArchive
  <2>7. \A q \in Unmixed' :
             /\ loop'[q].pc # "over" => \A i \in RowOf(q)' : s.last < msgs'[i].id
             /\ loop'[q].pc \in Saving => s.last < loop'[q].id
             /\ \A i, j \in RowOf(q)' :
                   ToArchive(s, msgs'[i].id) /\ ~ToArchive(s, msgs'[j].id) => msgs'[j].archived
    <3>1. \A q \in Unmixed' : loop[q].pc # "over" => RowOf(q) = {}
      BY <2>4, <2>5 DEF WholeInv, StillWhole
    <3>2. \A q \in Unmixed' : loop[q].pc \notin Saving
      BY <2>5 DEF Saving
    <3> QED BY <1>1, <2>4, <2>6, <3>1, <3>2
  <2>8. SparesTurns(worker[w].s)'
    BY <2>2, <2>7 DEF SparesTurns
  <2> QED BY <1>1, <1>2, <2>8, WorkerWhole
<1> QED BY <1>3, <1>4 DEF ReadHistory

\* A range that spares the turns takes all of a prompt's messages or none.
LEMMA ArchiveWhole ==
    ASSUME TurnInv, ReadInv, WholeInv, NEW w \in Workers, Archive(w) PROVE WholeInv'
<1>1. /\ loop' = loop /\ mixed' = mixed /\ DOMAIN msgs' = DOMAIN msgs
      /\ worker'[w] = Idle /\ \A v \in Workers \ {w} : worker'[v] = worker[v]
  BY DEF Archive, SetWorker, ReadInv
<1>2. PICK s : s = worker[w].s
  OBVIOUS
<1>3. s \in SummaryOf /\ SparesTurns(s)
  BY <1>2 DEF Archive, ReadInv, WholeInv, Compressing
<1>4. ASSUME NEW i \in DOMAIN msgs
      PROVE  /\ msgs'[i].id = msgs[i].id /\ msgs'[i].by = msgs[i].by /\ msgs[i].id \in Nat
             /\ msgs[i].archived \in BOOLEAN
             /\ msgs'[i].archived = (msgs[i].archived \/ ToArchive(s, msgs[i].id))
  <2>1. msgs'[i] = [msgs[i] EXCEPT !.archived = msgs[i].archived \/ ToArchive(s, msgs[i].id)]
    BY <1>2 DEF Archive
  <2>2. msgs[i] \in Msg
    BY DEF TurnInv, Types
  <2>3. /\ "archived" \in DOMAIN msgs[i] /\ "id" \in DOMAIN msgs[i] /\ "by" \in DOMAIN msgs[i]
        /\ msgs[i].id \in Nat /\ msgs[i].archived \in BOOLEAN
    BY <2>2 DEF Msg
  <2> QED BY <2>1, <2>3
<1>5. Unmixed' = Unmixed /\ \A q : RowOf(q)' = RowOf(q)
  BY <1>1, <1>4 DEF Unmixed, RowOf
<1>6. \A q : \A i \in RowOf(q) : i \in DOMAIN msgs
  BY DEF RowOf
<1>7. Alone' /\ InOrder' /\ DrawnLater'
  BY <1>1, <1>4, <1>5, <1>6 DEF WholeInv, Alone, Running, InOrder, DrawnLater
<1>8. StillWhole'
  <2>1. ASSUME NEW q \in Unmixed, loop[q].pc # "over", NEW i \in RowOf(q) PROVE ~msgs'[i].archived
    <3>1. ~msgs[i].archived /\ s.last < msgs[i].id
      BY <1>3, <2>1 DEF WholeInv, StillWhole, SparesTurns
    <3>2. ~ToArchive(s, msgs[i].id)
      BY <1>3, <1>4, <1>6, <3>1 DEF ToArchive, SummaryOf
    <3> QED BY <1>4, <1>6, <3>1, <3>2
  <2> QED BY <1>1, <1>5, <2>1 DEF WholeInv, StillWhole
<1>9. ASSUME NEW v \in Workers, Compressing(worker'[v]) PROVE SparesTurns(worker[v].s)'
  <2>1. v # w
    BY <1>1, <1>9 DEF Compressing, Idle
  <2>2. PICK t : t = worker[v].s /\ SparesTurns(t) /\ worker'[v].s = t
    BY <1>1, <1>9, <2>1 DEF WholeInv
  <2>3. \A q \in Unmixed' :
             /\ loop'[q].pc # "over" => \A i \in RowOf(q)' : t.last < msgs'[i].id
             /\ loop'[q].pc \in Saving => t.last < loop'[q].id
             /\ \A i, j \in RowOf(q)' :
                   ToArchive(t, msgs'[i].id) /\ ~ToArchive(t, msgs'[j].id) => msgs'[j].archived
    BY <1>1, <1>4, <1>5, <1>6, <2>2 DEF SparesTurns
  <2> QED BY <2>2, <2>3 DEF SparesTurns
<1>10. TurnsArchivedWhole'
  <2> SUFFICES ASSUME NEW i \in DOMAIN msgs, NEW j \in DOMAIN msgs,
                      msgs[i].by = msgs[j].by, msgs[i].by \in Unmixed
               PROVE  msgs'[i].archived = msgs'[j].archived
    BY <1>1, <1>4 DEF TurnsArchivedWhole, Unmixed
  <2>1. msgs[i].archived = msgs[j].archived
    BY DEF WholeInv, TurnsArchivedWhole, Unmixed
  <2>2. i \in RowOf(msgs[i].by) /\ j \in RowOf(msgs[i].by)
    BY DEF RowOf
  <2>3. /\ ToArchive(s, msgs[i].id) /\ ~ToArchive(s, msgs[j].id) => msgs[j].archived
        /\ ToArchive(s, msgs[j].id) /\ ~ToArchive(s, msgs[i].id) => msgs[i].archived
    BY <1>3, <2>2 DEF SparesTurns
  <2>4. ToArchive(s, msgs[i].id) \in BOOLEAN /\ ToArchive(s, msgs[j].id) \in BOOLEAN
    BY DEF ToArchive
  <2> QED BY <1>4, <2>1, <2>3, <2>4
<1> QED BY <1>7, <1>8, <1>9, <1>10 DEF WholeInv

LEMMA WholeStep == ASSUME TurnInv, ReadInv, WholeInv, [Next]_vars PROVE WholeInv'
<1>1. ASSUME NEW p \in Prompts, Send(p) PROVE WholeInv'
  <2>1. PICK l : LoopEffect(p, l)
    BY <1>1, LoopHasEffect DEF Send
  <2>2. /\ worker' = worker /\ mixed \subseteq mixed' /\ ~Running(p)
        /\ mixed' = mixed \cup (IF RunningPrompts = {} THEN {} ELSE RunningPrompts \cup {p})
    BY <1>1 DEF Send, Respond, Running
  <2>3. \A q \in Prompts \ {p} : loop'[q] = loop[q]
    BY <2>1, AfterEffect
  <2>4. Alone'
    <3>1. CASE RunningPrompts = {}
      <4>1. \A q \in Prompts : ~Running(q)
        BY <3>1 DEF RunningPrompts
      <4>2. \A q \in Prompts : loop'[q].pc \notin {"unsent", "lost", "over"} => q = p
        BY <2>3, <4>1 DEF Running
      <4>3. Unmixed' \subseteq Prompts
        BY DEF Unmixed
      <4> QED BY <4>2, <4>3 DEF Alone, Running
    <3>2. CASE RunningPrompts # {}
      BY <2>2, <2>3, <3>2 DEF Alone, Running, RunningPrompts, Unmixed
    <3> QED BY <3>1, <3>2
  <2> QED BY <2>1, <2>2, <2>4, LoopWhole
<1>2. ASSUME NEW p \in Prompts, LoopSteps(p) \/ LoopEnds(p), UNCHANGED memoryVars PROVE WholeInv'
  <2>1. PICK l : LoopEffect(p, l)
    BY <1>2, LoopHasEffect
  <2>2. worker' = worker /\ mixed' = mixed
    BY <1>2 DEF memoryVars
  <2>3. \A q \in Prompts \ {p} : loop'[q] = loop[q]
    BY <2>1, AfterEffect
  <2>5. Running(p) \/ loop'[p].pc = "over"
    <3>1. CASE Crash(p)
      <4>1. Goto(p, [pc |-> "over"])
        BY <3>1 DEF Crash, Leave
      <4> QED BY <4>1 DEF Goto, TurnInv, Types
    <3>2. CASE ~Crash(p)
      BY <1>2, <3>2 DEF LoopSteps, LoopEnds, Running, LookupKind, InsertUser, ModelAnswers, InsertAnswer,
                        RunTool, InsertResult, QueueMemory, Done, ModelFails, ArgumentsRefused,
                        LoopThrows, LookupThrows
    <3> QED BY <3>1, <3>2
  <2>4. Alone'
    BY <2>2, <2>3, <2>5 DEF WholeInv, Alone, Running, Unmixed
  <2> QED BY <2>1, <2>2, <2>4, LoopWhole
<1>3. CASE UNCHANGED <<msgs, loop, worker, mixed>>
  BY <1>3, WorkerWhole
<1>4. ASSUME NEW w \in Workers, SaveSummary(w) PROVE WholeInv'
  <2>1. Compressing(worker[w])
    BY <1>4 DEF SaveSummary, Compressing
  <2>2. /\ worker'[w] = [worker[w] EXCEPT !.pc = "archive"]
        /\ \A v \in Workers \ {w} : worker'[v] = worker[v]
        /\ msgs' = msgs /\ loop' = loop /\ mixed' = mixed
    BY <1>4 DEF SaveSummary, SetWorker, ReadInv
  <2>3. worker[w] = [pc |-> worker[w].pc, s |-> worker[w].s]
    BY <2>1 DEF ReadInv
  <2>4. worker'[w].s = worker[w].s
    BY <2>2, <2>3
  <2> QED BY <2>1, <2>2, <2>4, WorkerWhole
<1>5. ASSUME NEW w \in Workers, LoadTranscript(w) \/ FindGoals(w) \/ UpsertGoals(w) \/ JobFails(w)
      PROVE  WholeInv'
  <2>1. PICK state : worker' = [worker EXCEPT ![w] = state] /\ ~Compressing(state)
    BY <1>5 DEF LoadTranscript, FindGoals, UpsertGoals, JobFails, SetWorker, Compressing, Idle
  <2>2. worker'[w] = state /\ \A v \in Workers \ {w} : worker'[v] = worker[v]
    BY <2>1 DEF ReadInv
  <2>3. msgs' = msgs /\ loop' = loop /\ mixed' = mixed
    BY <1>5 DEF LoadTranscript, FindGoals, UpsertGoals, JobFails, SetWorker
  <2> QED BY <2>1, <2>2, <2>3, WorkerWhole
<1>6. CASE Close /\ UNCHANGED memoryVars
  BY <1>3, <1>6 DEF Close, memoryVars
<1>7. ASSUME NEW w \in Workers, Stall(w) PROVE WholeInv'
  BY <1>3, <1>7 DEF Stall, memoryVars
<1>8. CASE UNCHANGED vars
  BY <1>3, <1>8 DEF vars, convVars, memoryVars
<1> QED BY <1>1, <1>2, <1>4, <1>5, <1>6, <1>7, <1>8, HistoryWhole, ArchiveWhole DEF Next, WorkerSteps

LEMMA WholeBegins == ASSUME ConversationAssumption, Init PROVE WholeInv
<1> DEFINE n == Cardinality(Stored)
<1>1. PICK order \in [1..n -> Stored] :
         msgs = [i \in 1..n |-> [id |-> i, archived |-> FALSE, by |-> order[i], role |-> "USER",
                                 plain |-> TRUE]]
  BY DEF Init, ConversationInit
<1> HIDE DEF n
<1>2. \A i \in DOMAIN msgs : msgs[i].by \in Stored /\ msgs[i].archived = FALSE
  BY <1>1
<1>3. \A p \in Unmixed : RowOf(p) = {} /\ loop[p].pc = "unsent"
  BY <1>2 DEF RowOf, Unmixed, Init, ConversationInit, ConversationAssumption
<1>4. \A w \in Workers : ~Compressing(worker[w])
  BY DEF Init, Compressing, Idle
<1>5. Alone /\ StillWhole /\ InOrder /\ DrawnLater
  BY <1>3 DEF Alone, Running, StillWhole, InOrder, DrawnLater, Saving
<1> QED BY <1>2, <1>4, <1>5 DEF WholeInv, TurnsArchivedWhole

-----------------------------------------------------------------------------
(* Types. A prompt has a slot for its message, and in each round one for the *)
(* answer and one for each result; every id that is drawn uses one up.       *)

UserSlot == <<0, 0>>
Slots == {UserSlot} \cup Rounds \X (0..MaxCalls)
MaxIds == Cardinality(Stored) + Cardinality(Prompts) * (1 + MaxRounds * (1 + MaxCalls))

\* A loop that is at l has still to draw the id of slot s, or may have to.
Drawable(l, s) ==
    \/ l.pc \in {"unsent", "lookup"}
    \/ l.pc = "insertUser" /\ s # UserSlot
    \/ l.pc = "model" /\ s # UserSlot /\ s[1] >= l.round
    \/ l.pc = "insertAnswer" /\ (s[1] > l.round \/ (s[1] = l.round /\ s[2] >= 1))
    \/ l.pc = "tool" /\ (s[1] > l.round \/ (s[1] = l.round /\ s[2] >= l.call))
    \/ l.pc = "insertResult" /\ (s[1] > l.round \/ (s[1] = l.round /\ s[2] > l.call))

Remaining == {x \in Prompts \X Slots : Drawable(loop[x[1]], x[2])}

DrawInv == minted + Cardinality(Remaining) <= MaxIds

Positive ==
    /\ \A i \in DOMAIN msgs : msgs[i].id # 0
    /\ \A p \in Prompts : loop[p].pc \in Saving => loop[p].id # 0

Counters == compress \in Nat /\ extract \in Nat /\ closes \in 0..MaxCloses /\ faults \in 0..MaxFaults

WorkerState ==
    {Idle} \cup [pc : {"summarise", "archive"}, s : Summary]
    \cup [pc : {"find"}, heard : SUBSET Authors]
    \cup [pc : {"upsert"}, heard : SUBSET Authors, existing : Goals]

MemoryTyped ==
    /\ summaries \subseteq Summary /\ goals \in Goals
    /\ worker \in [Workers -> WorkerState] /\ mixed \subseteq Prompts

TypeInv == DrawInv /\ Positive /\ Counters /\ MemoryTyped

\* What a step of a loop does to the slots of its prompt: none comes back,
\* and an id that is drawn takes one.
SlotsUsed(p, l) ==
    /\ \A s \in Slots : Drawable(l, s) => Drawable(loop[p], s)
    /\ \/ minted' = minted
       \/ /\ minted' = minted + 1
          /\ \E s \in Slots : Drawable(loop[p], s) /\ ~Drawable(l, s)

LEMMA SlotIs ==
    ASSUME ConversationAssumption, NEW s \in Slots
    PROVE  /\ s[1] \in Nat /\ s[2] \in Nat
           /\ s # UserSlot => s[1] >= 1
           /\ s = UserSlot => s[1] = 0
  BY DEF Slots, UserSlot, Rounds, ConversationAssumption

LEMMA LoopUsesSlots ==
    ASSUME ConversationAssumption, TurnInv, NEW p \in Prompts, Respond(p) \/ LoopSteps(p) \/ LoopEnds(p)
    PROVE  \E l : Goto(p, l) /\ SlotsUsed(p, l)
<1> USE DEF SlotsUsed, Drawable
<1>0. \A s \in Slots : /\ s[1] \in Nat /\ s[2] \in Nat
                       /\ s # UserSlot => s[1] >= 1
                       /\ s = UserSlot => s[1] = 0
  BY SlotIs
<1>8. CASE Respond(p) \/ LookupThrows(p)
  <2>1. PICK l \in {[pc |-> "lookup"], [pc |-> "lost"]} :
           Goto(p, l) /\ minted' = minted /\ loop[p].pc \in {"unsent", "lookup"}
    BY <1>8 DEF Respond, LookupThrows
  <2>2. Goto(p, l) /\ SlotsUsed(p, l)
    BY <2>1
  <2> QED BY <2>2
<1>1. CASE LookupKind(p)
  <2> DEFINE l == [pc |-> "insertUser", id |-> NextId]
  <2>1. Goto(p, l) /\ minted' = minted + 1 /\ loop[p].pc = "lookup"
    BY <1>1 DEF LookupKind, Mint
  <2>2. UserSlot \in Slots /\ l.pc = "insertUser"
    BY DEF Slots
  <2> HIDE DEF l
  <2>3. Goto(p, l) /\ SlotsUsed(p, l)
    BY <2>1, <2>2
  <2> QED BY <2>3
<1>2. CASE InsertUser(p)
  <2> DEFINE l == [pc |-> "model", round |-> 1]
  <2>1. Goto(p, l) /\ minted' = minted /\ loop[p].pc = "insertUser"
    BY <1>2 DEF InsertUser
  <2>2. Goto(p, l) /\ SlotsUsed(p, l)
    BY <1>0, <2>1
  <2> QED BY <2>2
<1>3. CASE ModelAnswers(p)
  <2>1. PICK n \in 0..MaxCalls :
           Mint(p, [pc |-> "insertAnswer", round |-> loop[p].round, calls |-> n, id |-> NextId])
    BY <1>3 DEF ModelAnswers
  <2> DEFINE l == [pc |-> "insertAnswer", round |-> loop[p].round, calls |-> n, id |-> NextId]
             s == <<loop[p].round, 0>>
  <2>2. /\ Goto(p, l) /\ minted' = minted + 1 /\ loop[p].pc = "model" /\ loop[p].round \in Rounds
        /\ l.pc = "insertAnswer" /\ l.round = loop[p].round
    BY <1>3, <2>1, AtLoop DEF ModelAnswers, Mint
  <2> HIDE DEF l
  <2>3. /\ s \in Slots /\ s # UserSlot /\ s[1] = loop[p].round /\ s[2] = 0
        /\ loop[p].round \in Nat /\ loop[p].round >= 1
    BY <2>2 DEF Slots, UserSlot, Rounds, ConversationAssumption
  <2> HIDE DEF s
  <2>4. Drawable(loop[p], s) /\ ~Drawable(l, s)
    BY <2>2, <2>3
  <2>5. \A t \in Slots : Drawable(l, t) => Drawable(loop[p], t)
    BY <1>0, <2>2, <2>3
  <2> QED BY <2>2, <2>3, <2>4, <2>5
<1>4. CASE InsertAnswer(p)
  <2> DEFINE l == IF loop[p].calls = 0 THEN [pc |-> "queue"]
                  ELSE [pc |-> "tool", round |-> loop[p].round, calls |-> loop[p].calls, call |-> 1]
  <2>1. Goto(p, l) /\ minted' = minted /\ loop[p].pc = "insertAnswer"
    BY <1>4 DEF InsertAnswer
  <2>2. l.pc = "queue" \/ (l.pc = "tool" /\ l.round = loop[p].round /\ l.call = 1)
    OBVIOUS
  <2> HIDE DEF l
  <2>3. Goto(p, l) /\ SlotsUsed(p, l)
    BY <1>0, <2>1, <2>2
  <2> QED BY <2>3
<1>5. CASE RunTool(p)
  <2> DEFINE l == [pc |-> "insertResult", round |-> loop[p].round, calls |-> loop[p].calls,
                   call |-> loop[p].call, id |-> NextId]
             s == <<loop[p].round, loop[p].call>>
  <2>1. /\ Goto(p, l) /\ minted' = minted + 1 /\ loop[p].pc = "tool"
        /\ l.pc = "insertResult" /\ l.round = loop[p].round /\ l.call = loop[p].call
    BY <1>5 DEF RunTool, Mint
  <2> HIDE DEF l
  <2>2. loop[p].round \in Rounds /\ loop[p].call \in Calls
    BY <2>1, AtLoop
  <2>3. s \in Slots /\ s[1] = loop[p].round /\ s[2] = loop[p].call /\ s[1] \in Nat /\ s[2] \in Nat
    BY <2>2 DEF Slots, Rounds, Calls, ConversationAssumption
  <2> HIDE DEF s
  <2>4. Drawable(loop[p], s) /\ ~Drawable(l, s)
    BY <2>1, <2>3
  <2>5. \A t \in Slots : Drawable(l, t) => Drawable(loop[p], t)
    BY <1>0, <2>1, <2>2 DEF Calls, ConversationAssumption
  <2> QED BY <2>1, <2>3, <2>4, <2>5
<1>6. CASE InsertResult(p)
  <2> DEFINE l == AfterResult(loop[p])
  <2>1. Goto(p, l) /\ minted' = minted /\ loop[p].pc = "insertResult"
    BY <1>6 DEF InsertResult
  <2>2. loop[p].round \in Nat /\ loop[p].round >= 1 /\ loop[p].call \in Nat
    BY <2>1, AtLoop DEF Rounds, Calls, ConversationAssumption
  <2>3. \/ l.pc = "queue" \/ (l.pc = "model" /\ l.round = loop[p].round + 1)
        \/ (l.pc = "tool" /\ l.round = loop[p].round /\ l.call = loop[p].call + 1)
    BY DEF AfterResult
  <2> HIDE DEF l
  <2>4. Goto(p, l) /\ SlotsUsed(p, l)
    BY <1>0, <2>1, <2>2, <2>3
  <2> QED BY <2>4
<1>7. CASE QueueMemory(p) \/ Done(p) \/ (LoopEnds(p) /\ ~LookupThrows(p))
  <2>1. PICK l : Goto(p, l) /\ minted' = minted /\ l.pc \in {"touch", "over"}
    BY <1>7 DEF QueueMemory, Done, LoopEnds, ModelFails, ArgumentsRefused, LoopThrows, Crash, Leave
  <2>2. Goto(p, l) /\ SlotsUsed(p, l)
    BY <2>1
  <2> QED BY <2>2
<1> QED BY <1>1, <1>2, <1>3, <1>4, <1>5, <1>6, <1>7, <1>8 DEF LoopSteps

LEMMA SlotsAreMany ==
    ASSUME ConversationAssumption
    PROVE  /\ IsFiniteSet(Prompts \X Slots)
           /\ Cardinality(Prompts \X Slots) = Cardinality(Prompts) * (1 + MaxRounds * (1 + MaxCalls))
           /\ MaxIds \in Nat
<1>1. /\ MaxRounds \in Nat /\ MaxCalls \in Nat /\ IsFiniteSet(Prompts)
      /\ Cardinality(Prompts) \in Nat /\ Cardinality(Stored) \in Nat
  BY FS_CardinalityType DEF ConversationAssumption
<1>2. /\ IsFiniteSet(Rounds) /\ Cardinality(Rounds) = MaxRounds
      /\ IsFiniteSet(0..MaxCalls) /\ Cardinality(0..MaxCalls) = 1 + MaxCalls
  <2>1. IsFiniteSet(1..MaxRounds) /\ Cardinality(1..MaxRounds) = MaxRounds
    <3>1. 1 \in Int /\ MaxRounds \in Int /\ MaxRounds >= 1
      BY DEF ConversationAssumption
    <3>2. /\ IsFiniteSet(1..MaxRounds)
          /\ Cardinality(1..MaxRounds) = IF 1 > MaxRounds THEN 0 ELSE MaxRounds - 1 + 1
      BY <3>1, FS_Interval
    <3> QED BY <3>1, <3>2
  <2>2. IsFiniteSet(0..MaxCalls) /\ Cardinality(0..MaxCalls) = 1 + MaxCalls
    <3>1. 0 \in Int /\ MaxCalls \in Int /\ MaxCalls >= 0
      BY <1>1
    <3>2. /\ IsFiniteSet(0..MaxCalls)
          /\ Cardinality(0..MaxCalls) = IF 0 > MaxCalls THEN 0 ELSE MaxCalls - 0 + 1
      BY <3>1, FS_Interval
    <3> QED BY <3>1, <3>2
  <2> QED BY <2>1, <2>2 DEF Rounds
<1>3. /\ IsFiniteSet(Rounds \X (0..MaxCalls))
      /\ Cardinality(Rounds \X (0..MaxCalls)) = MaxRounds * (1 + MaxCalls)
  BY <1>2, FS_Product
<1>4. Slots = Rounds \X (0..MaxCalls) \cup {UserSlot} /\ UserSlot \notin Rounds \X (0..MaxCalls)
  BY <1>1 DEF Slots, UserSlot, Rounds
<1>5. MaxRounds * (1 + MaxCalls) \in Nat
  BY <1>1
<1>6. IsFiniteSet(Slots) /\ Cardinality(Slots) = 1 + MaxRounds * (1 + MaxCalls)
  <2> DEFINE R == Rounds \X (0..MaxCalls)
             n == MaxRounds * (1 + MaxCalls)
  <2>1. /\ IsFiniteSet(R) /\ Cardinality(R) = n /\ n \in Nat
        /\ Slots = R \cup {UserSlot} /\ UserSlot \notin R
    BY <1>3, <1>4, <1>5
  <2> HIDE DEF R, n
  <2>2. IsFiniteSet(R \cup {UserSlot}) /\ Cardinality(R \cup {UserSlot}) = Cardinality(R) + 1
    BY <2>1, FS_AddElement
  <2>3. IsFiniteSet(Slots) /\ Cardinality(Slots) = 1 + n
    BY <2>1, <2>2
  <2> QED BY <2>3 DEF n
<1>7. Cardinality(Prompts) * (1 + MaxRounds * (1 + MaxCalls)) \in Nat
  BY <1>1, <1>5
<1> QED BY <1>1, <1>6, <1>7, FS_Product DEF MaxIds

LEMMA RemainingIs ==
    ASSUME ConversationAssumption
    PROVE  IsFiniteSet(Remaining) /\ Cardinality(Remaining) \in Nat
<1>1. Remaining \in SUBSET (Prompts \X Slots)
  BY DEF Remaining
<1> QED BY <1>1, SlotsAreMany, FS_Subset, FS_CardinalityType

\* Every id is one of those the slots allow.
LEMMA IdsBounded ==
    ASSUME ConversationAssumption, TurnInv, ReadInv, TypeInv
    PROVE  /\ Ids = 1..MaxIds /\ MaxIds \in Nat /\ minted \in Ids \cup {0}
           /\ \A i \in DOMAIN msgs : msgs[i].id \in Ids
           /\ \A p \in Prompts : loop[p].pc \in Saving => loop[p].id \in Ids
<1>1. Ids = 1..MaxIds /\ MaxIds \in Nat
  BY SlotsAreMany DEF Ids, MaxIds
<1>2. minted \in Nat /\ minted <= MaxIds
  BY <1>1, RemainingIs DEF TurnInv, Types, TypeInv, DrawInv
<1>3. /\ \A i \in DOMAIN msgs : msgs[i].id \in Nat
      /\ \A p \in Prompts : loop[p].pc \in Saving => loop[p].id \in Nat
  BY AtLoop DEF TurnInv, Types, Msg, Saving
<1>4. \A n \in Nat : n # 0 /\ n <= minted => n \in Ids
  BY <1>1, <1>2
<1> QED BY <1>1, <1>2, <1>3, <1>4 DEF TypeInv, Positive, ReadInv

\* An id that is drawn takes a slot from those that remain.
LEMMA LoopDraws ==
    ASSUME ConversationAssumption, TurnInv, DrawInv, NEW p \in Prompts, NEW l, Goto(p, l), SlotsUsed(p, l)
    PROVE  DrawInv'
<1>1. loop'[p] = l /\ \A q \in Prompts \ {p} : loop'[q] = loop[q]
  BY DEF Goto, TurnInv, Types
<1>2. Remaining' \subseteq Remaining
  BY <1>1 DEF Remaining, SlotsUsed
<1>3. /\ IsFiniteSet(Remaining) /\ Cardinality(Remaining) \in Nat
      /\ minted \in Nat /\ MaxIds \in Nat /\ MaxIds' = MaxIds
  BY RemainingIs, SlotsAreMany DEF TurnInv, Types, MaxIds
<1>4. CASE minted' = minted
  <2>1. IsFiniteSet(Remaining') /\ Cardinality(Remaining') <= Cardinality(Remaining)
    BY <1>2, <1>3, FS_Subset
  <2>2. Cardinality(Remaining') \in Nat
    BY <2>1, FS_CardinalityType
  <2> QED BY <1>3, <1>4, <2>1, <2>2 DEF DrawInv
<1>5. ASSUME minted' = minted + 1, NEW s \in Slots, Drawable(loop[p], s), ~Drawable(l, s)
      PROVE  DrawInv'
  <2>1. <<p, s>> \in Remaining /\ <<p, s>> \notin Remaining'
    BY <1>1, <1>5 DEF Remaining
  <2>2. Remaining' \subseteq Remaining \ {<<p, s>>}
    BY <1>2, <2>1
  <2>3. /\ IsFiniteSet(Remaining \ {<<p, s>>})
        /\ Cardinality(Remaining \ {<<p, s>>}) = Cardinality(Remaining) - 1
    BY <1>3, <2>1, FS_RemoveElement
  <2>4. IsFiniteSet(Remaining') /\ Cardinality(Remaining') <= Cardinality(Remaining) - 1
    BY <2>2, <2>3, FS_Subset
  <2>5. Cardinality(Remaining') \in Nat
    BY <2>4, FS_CardinalityType
  <2> QED BY <1>3, <1>5, <2>4, <2>5 DEF DrawInv
<1> QED BY <1>4, <1>5 DEF SlotsUsed

\* A step of a loop draws an id of its own and leaves those it had drawn.
LEMMA LoopTyped ==
    ASSUME ConversationAssumption, TurnInv, ReadInv, TypeInv, NEW p \in Prompts,
           Respond(p) \/ LoopSteps(p) \/ LoopEnds(p)
    PROVE  DrawInv' /\ Positive' /\ Counters'
<1>1. PICK l : Goto(p, l) /\ SlotsUsed(p, l)
  BY LoopUsesSlots
<1>2. DrawInv'
  BY <1>1, LoopDraws DEF TypeInv
<1>3. PICK m : LoopEffect(p, m)
  BY LoopHasEffect
<1>4. Positive'
  <2>1. /\ loop'[p] = m /\ \A q \in Prompts \ {p} : loop'[q] = loop[q]
        /\ \A i \in DOMAIN msgs : msgs'[i] = msgs[i]
        /\ \A i \in DOMAIN msgs' \ DOMAIN msgs : loop[p].pc \in Saving /\ msgs'[i].id = loop[p].id
        /\ m.pc \in Saving => m.id = minted + 1
        /\ minted \in Nat
    BY <1>3, AfterEffect
  <2> QED BY <2>1 DEF Positive, TypeInv
<1>5. Counters'
  <2>1. compress' \in {compress, compress + 1} /\ extract' \in {extract, extract + 1} /\ closes' = closes
    BY DEF Respond, LoopSteps, LookupKind, InsertUser, ModelAnswers, Mint, InsertAnswer, RunTool,
           InsertResult, QueueMemory, Done, LoopEnds, ModelFails, ArgumentsRefused, LoopThrows,
           LookupThrows, Crash, Leave
  <2>2. faults' = faults \/ Fault
    BY DEF Respond, LoopSteps, LookupKind, InsertUser, ModelAnswers, Mint, InsertAnswer, RunTool,
           InsertResult, QueueMemory, Done, LoopEnds, ModelFails, ArgumentsRefused, LoopThrows,
           LookupThrows, Crash, Leave
  <2>3. faults' \in 0..MaxFaults
    BY <2>2 DEF Fault, TypeInv, Counters, ConversationAssumption
  <2> QED BY <2>1, <2>3 DEF TypeInv, Counters
<1> QED BY <1>2, <1>4, <1>5

\* What a worker goes on with is typed.
LEMMA WorkerTyped ==
    ASSUME MemoryTyped, NEW w \in Workers, NEW state \in WorkerState,
           worker' = [worker EXCEPT ![w] = state],
           summaries' \subseteq Summary, goals' \in Goals, mixed' \subseteq Prompts
    PROVE  MemoryTyped'
  BY DEF MemoryTyped

LEMMA WorkerSaves ==
    ASSUME MemoryTyped, NEW w \in Workers, SaveSummary(w) PROVE MemoryTyped'
<1>1. worker[w] \in WorkerState /\ worker[w].pc = "summarise"
  BY DEF MemoryTyped, SaveSummary
<1>2. worker[w] \in [pc : {"summarise", "archive"}, s : Summary]
  BY <1>1 DEF WorkerState, Idle
<1>3. worker[w].s \in Summary
  BY <1>2
<1>4. [worker[w] EXCEPT !.pc = "archive"] \in [pc : {"summarise", "archive"}, s : Summary]
  BY <1>2
<1>5. PICK state : state = [worker[w] EXCEPT !.pc = "archive"]
  OBVIOUS
<1>6. state \in WorkerState
  BY <1>4, <1>5 DEF WorkerState
<1>7. worker' = [worker EXCEPT ![w] = state]
  BY <1>5 DEF SaveSummary, SetWorker
<1>8. summaries' \subseteq Summary /\ goals' \in Goals /\ mixed' \subseteq Prompts
  BY <1>3 DEF SaveSummary, MemoryTyped
<1> QED BY <1>6, <1>7, <1>8, WorkerTyped

LEMMA WorkerMines ==
    ASSUME MemoryAssumption, TurnInv, MemoryTyped, NEW w \in Workers,
           LoadTranscript(w) \/ FindGoals(w) \/ UpsertGoals(w)
    PROVE  MemoryTyped'
<1>0. /\ summaries' = summaries /\ mixed' = mixed
      /\ summaries \subseteq Summary /\ goals \in Goals /\ mixed \subseteq Prompts
  BY DEF LoadTranscript, FindGoals, UpsertGoals, MemoryTyped
<1>1. HeardIn(Loaded) \subseteq Authors
  <2>1. \A i \in DOMAIN msgs : msgs[i].by \in Authors
    BY DEF TurnInv, Types, Msg, Authors
  <2>2. Loaded \subseteq {msgs[i] : i \in DOMAIN msgs}
    BY DEF Loaded, TurnInv, Types, MemoryAssumption
  <2> QED BY <2>1, <2>2 DEF HeardIn
<1>2. CASE LoadTranscript(w)
  <2>1. PICK state \in WorkerState : worker' = [worker EXCEPT ![w] = state]
    BY <1>1, <1>2 DEF LoadTranscript, SetWorker, WorkerState
  <2> QED BY <1>0, <1>2, <2>1, WorkerTyped DEF LoadTranscript
<1>3. CASE FindGoals(w)
  <2>1. worker[w] \in WorkerState /\ worker[w].pc = "find"
    BY <1>3 DEF MemoryTyped, FindGoals
  <2>2. worker[w].heard \subseteq Authors
    BY <2>1 DEF WorkerState, Idle
  <2>3. PICK state \in WorkerState : worker' = [worker EXCEPT ![w] = state]
    BY <1>0, <1>3, <2>2 DEF FindGoals, SetWorker, WorkerState
  <2> QED BY <1>0, <1>3, <2>3, WorkerTyped DEF FindGoals
<1>4. CASE UpsertGoals(w)
  <2>1. worker[w] \in WorkerState /\ worker[w].pc = "upsert"
    BY <1>4 DEF MemoryTyped, UpsertGoals
  <2>2. worker[w].heard \subseteq Authors /\ worker[w].existing \in Goals
    BY <2>1 DEF WorkerState, Idle
  <2>3. goals' \in Goals
    <3>1. PICK parsed \in Answers(worker[w].heard, worker[w].existing) :
             goals' = Merged(worker[w].existing, parsed)
      BY <1>4 DEF UpsertGoals
    <3>2. parsed \in Goals
      BY <2>2, <3>1 DEF Answers, Goals
    <3> QED BY <2>2, <3>1, <3>2 DEF Merged, Goals
  <2>4. Idle \in WorkerState /\ worker' = [worker EXCEPT ![w] = Idle]
    BY <1>4 DEF UpsertGoals, SetWorker, WorkerState
  <2> QED BY <1>0, <2>3, <2>4, WorkerTyped
<1> QED BY <1>2, <1>3, <1>4

LEMMA HistoryTyped ==
    ASSUME ConversationAssumption, TurnInv, ReadInv, TypeInv, NEW w \in Workers, ReadHistory(w)
    PROVE  MemoryTyped'
<1>1. summaries' \subseteq Summary /\ goals' \in Goals /\ mixed' \subseteq Prompts
  BY DEF ReadHistory, TypeInv, MemoryTyped, RunningPrompts
<1>2. CASE SetWorker(w, Idle)
  <2>1. Idle \in WorkerState /\ worker' = [worker EXCEPT ![w] = Idle]
    BY <1>2 DEF SetWorker, WorkerState
  <2> QED BY <1>1, <2>1, WorkerTyped DEF TypeInv
<1>3. ASSUME NEW first \in Unarchived, NEW last \in Unarchived,
             SetWorker(w, [pc |-> "summarise",
                           s |-> [first |-> msgs[first].id, last |-> msgs[last].id,
                                  read |-> IdsOf({i \in Unarchived : ~Masked(msgs[i])}),
                                  masked |-> IdsOf({i \in Unarchived : Masked(msgs[i])}),
                                  inFlight |-> InFlight]])
      PROVE  MemoryTyped'
  <2> DEFINE clear == {i \in Unarchived : ~Masked(msgs[i])}
             hidden == {i \in Unarchived : Masked(msgs[i])}
             state == [pc |-> "summarise",
                       s |-> [first |-> msgs[first].id, last |-> msgs[last].id,
                              read |-> IdsOf(clear), masked |-> IdsOf(hidden),
                              inFlight |-> InFlight]]
  <2>1. msgs[first].id \in Ids /\ msgs[last].id \in Ids
    BY IdsBounded DEF Unarchived
  <2>2. IdsOf(clear) \subseteq Ids /\ IdsOf(hidden) \subseteq Ids
    BY IdsBounded DEF IdsOf, Unarchived
  <2>3. InFlight \subseteq Ids
    BY IdsBounded DEF InFlight
  <2>4. state \in WorkerState
    BY <2>1, <2>2, <2>3 DEF WorkerState, Summary
  <2>5. worker' = [worker EXCEPT ![w] = state]
    BY <1>3 DEF SetWorker
  <2> HIDE DEF state
  <2> QED BY <1>1, <2>4, <2>5, WorkerTyped DEF TypeInv
<1> QED BY <1>2, <1>3 DEF ReadHistory

LEMMA TypeStep ==
    ASSUME ConversationAssumption, MemoryAssumption, TurnInv, ReadInv, TypeInv, [Next]_vars
    PROVE  TypeInv'
<1>0. MemoryTyped /\ Counters /\ Positive /\ DrawInv /\ Idle \in WorkerState
  BY DEF TypeInv, WorkerState
<1>1. ASSUME NEW p \in Prompts, Send(p) PROVE TypeInv'
  <2>1. MemoryTyped'
    BY <1>0, <1>1 DEF Send, MemoryTyped, RunningPrompts
  <2> QED BY <1>1, <2>1, LoopTyped DEF Send, TypeInv
<1>2. ASSUME NEW p \in Prompts, LoopSteps(p) \/ LoopEnds(p), UNCHANGED memoryVars PROVE TypeInv'
  <2>1. MemoryTyped'
    BY <1>0, <1>2 DEF memoryVars, MemoryTyped
  <2> QED BY <1>2, <2>1, LoopTyped DEF TypeInv
<1>3. ASSUME minted' = minted, loop' = loop, DOMAIN msgs' = DOMAIN msgs,
             \A i \in DOMAIN msgs : msgs'[i].id = msgs[i].id
      PROVE  DrawInv' /\ Positive'
  BY <1>0, <1>3 DEF DrawInv, Remaining, Positive, MaxIds
<1>4. ASSUME NEW w \in Workers, WorkerSteps(w) \/ JobFails(w) PROVE TypeInv'
  <2>1. DOMAIN msgs' = DOMAIN msgs /\ \A i \in DOMAIN msgs : msgs'[i].id = msgs[i].id
    <3>1. CASE msgs' = msgs
      BY <3>1
    <3>2. CASE Archive(w)
      <4>1. DOMAIN msgs' = DOMAIN msgs
        BY <3>2 DEF Archive
      <4>2. ASSUME NEW i \in DOMAIN msgs PROVE msgs'[i].id = msgs[i].id
        <5>1. msgs'[i] = [msgs[i] EXCEPT !.archived = msgs[i].archived
                                                      \/ ToArchive(worker[w].s, msgs[i].id)]
          BY <3>2 DEF Archive
        <5>2. "id" \in DOMAIN msgs[i]
          BY DEF TurnInv, Types, Msg
        <5> QED BY <5>1, <5>2
      <4> QED BY <4>1, <4>2
    <3> QED BY <1>4, <3>1, <3>2 DEF WorkerSteps, ReadHistory, SaveSummary, LoadTranscript, FindGoals,
                                    UpsertGoals, JobFails
  <2>2. minted' = minted /\ loop' = loop /\ closes' = closes
    BY <1>4 DEF WorkerSteps, ReadHistory, SaveSummary, Archive, LoadTranscript, FindGoals,
                UpsertGoals, JobFails, SetWorker
  <2>3. Counters'
    <3>1. compress' = compress \/ (compress > 0 /\ compress' = compress - 1)
      BY <1>4 DEF WorkerSteps, ReadHistory, SaveSummary, Archive, LoadTranscript, FindGoals,
                  UpsertGoals, JobFails
    <3>2. extract' = extract \/ (extract > 0 /\ extract' = extract - 1)
      BY <1>4 DEF WorkerSteps, ReadHistory, SaveSummary, Archive, LoadTranscript, FindGoals,
                  UpsertGoals, JobFails
    <3>3. faults' = faults \/ Fault
      BY <1>4 DEF WorkerSteps, ReadHistory, SaveSummary, Archive, LoadTranscript, FindGoals,
                  UpsertGoals, JobFails
    <3>4. faults' \in 0..MaxFaults
      BY <1>0, <3>3 DEF Fault, Counters, ConversationAssumption
    <3> QED BY <1>0, <2>2, <3>1, <3>2, <3>4 DEF Counters
  <2>4. MemoryTyped'
    <3>1. CASE Archive(w) \/ JobFails(w)
      <4>1. worker' = [worker EXCEPT ![w] = Idle]
        BY <3>1 DEF Archive, JobFails, SetWorker
      <4>2. summaries' = summaries /\ goals' = goals /\ mixed' = mixed
        BY <3>1 DEF Archive, JobFails
      <4> QED BY <1>0, <4>1, <4>2, WorkerTyped DEF MemoryTyped
    <3> QED BY <1>0, <1>4, <3>1, HistoryTyped, WorkerSaves, WorkerMines DEF WorkerSteps
  <2> QED BY <1>3, <2>1, <2>2, <2>3, <2>4 DEF TypeInv
<1>5. ASSUME NEW w \in Workers, Stall(w) PROVE TypeInv'
  <2>1. Counters'
    <3>1. faults' \in 0..MaxFaults
      BY <1>0, <1>5 DEF Stall, Fault, Counters, ConversationAssumption
    <3> QED BY <1>0, <1>5, <3>1 DEF Stall, Counters
  <2>2. MemoryTyped'
    BY <1>0, <1>5 DEF Stall, memoryVars, MemoryTyped
  <2>3. msgs' = msgs /\ minted' = minted /\ loop' = loop
    BY <1>5 DEF Stall
  <2> QED BY <1>3, <2>1, <2>2, <2>3 DEF TypeInv
<1>6. CASE Close /\ UNCHANGED memoryVars
  <2>1. Counters'
    BY <1>0, <1>6 DEF Close, Counters, ConversationAssumption
  <2>2. MemoryTyped'
    BY <1>0, <1>6 DEF memoryVars, MemoryTyped
  <2>3. msgs' = msgs /\ minted' = minted /\ loop' = loop
    BY <1>6 DEF Close
  <2> QED BY <1>3, <2>1, <2>2, <2>3 DEF TypeInv
<1>7. CASE UNCHANGED vars
  <2>1. Counters' /\ MemoryTyped' /\ msgs' = msgs /\ minted' = minted /\ loop' = loop
    BY <1>0, <1>7 DEF vars, convVars, memoryVars, Counters, MemoryTyped
  <2> QED BY <1>3, <2>1 DEF TypeInv
<1> QED BY <1>1, <1>2, <1>4, <1>5, <1>6, <1>7 DEF Next

LEMMA TypeBegins == ASSUME ConversationAssumption, Init PROVE TypeInv
<1> DEFINE n == Cardinality(Stored)
<1>1. n \in Nat
  BY FS_CardinalityType DEF ConversationAssumption
<1>2. PICK order \in [1..n -> Stored] :
         msgs = [i \in 1..n |-> [id |-> i, archived |-> FALSE, by |-> order[i], role |-> "USER",
                                 plain |-> TRUE]]
  BY DEF Init, ConversationInit
<1>3. \A p \in Prompts : loop[p].pc = "unsent"
  BY DEF Init, ConversationInit
<1>4. DrawInv
  <2>1. Remaining = Prompts \X Slots
    BY <1>3 DEF Remaining, Drawable
  <2>2. Cardinality(Remaining) = Cardinality(Prompts) * (1 + MaxRounds * (1 + MaxCalls))
    BY <2>1, SlotsAreMany
  <2>3. minted = Cardinality(Stored)
    BY DEF Init, ConversationInit
  <2>4. minted + Cardinality(Remaining) = MaxIds
    BY <2>2, <2>3 DEF MaxIds
  <2> QED BY <2>4, SlotsAreMany DEF DrawInv
<1> HIDE DEF n
<1>5. Positive
  BY <1>1, <1>2, <1>3 DEF Positive, Saving
<1>6. Counters /\ MemoryTyped
  BY DEF Init, ConversationInit, Counters, MemoryTyped, WorkerState, Goals, NoGoals, ConversationAssumption
<1> QED BY <1>4, <1>5, <1>6 DEF TypeInv

LEMMA TypesHold ==
    ASSUME ConversationAssumption, TurnInv, ReadInv, TypeInv PROVE TypeOK
<1>1. /\ minted \in Ids \cup {0}
      /\ \A i \in DOMAIN msgs : msgs[i].id \in Ids
      /\ \A p \in Prompts : loop[p].pc \in Saving => loop[p].id \in Ids
  BY IdsBounded
<1>2. msgs \in Seq(Message)
  <2>1. msgs \in Seq(Msg) /\ Len(msgs) \in Nat /\ DOMAIN msgs = 1..Len(msgs)
    BY DEF TurnInv, Types
  <2>2. ASSUME NEW i \in 1..Len(msgs) PROVE msgs[i] \in Message
    <3>1. msgs[i] \in Msg /\ msgs[i].id \in Ids
      BY <1>1, <2>1
    <3> QED BY <3>1 DEF Msg, Message
  <2>3. msgs = [i \in 1..Len(msgs) |-> msgs[i]]
    BY <2>1
  <2>4. msgs \in [1..Len(msgs) -> Message]
    BY <2>2, <2>3
  <2> QED BY <2>1, <2>4, SeqDef
<1>3. loop \in [Prompts -> Loop]
  <2>1. loop \in [Prompts -> LoopStates]
    BY DEF TurnInv, Types
  <2>2. ASSUME NEW p \in Prompts PROVE loop[p] \in Loop
    <3>1. loop[p] \in LoopStates /\ (loop[p].pc \in Saving => loop[p].id \in Ids)
      BY <1>1, <2>1
    <3> QED BY <3>1 DEF LoopStates, Loop, Saving
  <2> QED BY <2>1, <2>2
<1>4. /\ stream \in [Prompts -> {"none", "open", "done", "error", "cut"}]
      /\ compress \in Nat /\ extract \in Nat /\ closes \in 0..MaxCloses /\ faults \in 0..MaxFaults
  BY DEF TurnInv, Types, TypeInv, Counters
<1>5. MemoryTyped
  BY DEF TypeInv
<1>6. ConversationTypeOK
  BY <1>1, <1>2, <1>3, <1>4 DEF ConversationTypeOK
<1> QED BY <1>5, <1>6 DEF TypeOK, MemoryTyped, WorkerState

-----------------------------------------------------------------------------
\* Every variable keeps its type: the loops draw no more ids than their rounds
\* and calls allow, and a summary's range is of ids that were drawn.
THEOREM MemoryTypeCorrect ==
    ASSUME ConversationAssumption, MemoryAssumption PROVE Spec => []TypeOK
<1>1. Init => TurnInv /\ ReadInv /\ TypeInv
  BY TurnBegins, ReadBegins, TypeBegins
<1>2. TurnInv /\ ReadInv /\ TypeInv /\ [Next]_vars => TurnInv' /\ ReadInv' /\ TypeInv'
  BY TurnStep, ReadStep, TypeStep
<1>3. TurnInv /\ ReadInv /\ TypeInv => TypeOK
  BY TypesHold
<1> QED BY <1>1, <1>2, <1>3, PTL DEF Spec

\* The conversation implements the promise of TurnLog: calls are asked in
\* rounds, each is answered once, and done is reported only when every call
\* has its result, for any number of prompts at once and whatever fails.
THEOREM TurnRefinement == ASSUME ConversationAssumption PROVE Spec => ImplementsTurns
<1>1. Init => TurnInv /\ Turns!Init
  BY TurnBegins
<1>2. TurnInv /\ [Next]_vars => TurnInv' /\ [Turns!Next]_<<Asked, Answered, stream>>
  BY TurnStep DEF Mapped
<1> QED BY <1>1, <1>2, PTL DEF Spec, ImplementsTurns, Turns!Spec

\* No message is archived that no stored summary covers: each was in the
\* history of one, an encrypted user message as such, or was being saved as
\* that was read; for any number of compressions, prompts, failures and stalls.
THEOREM NothingArchivedUncovered == ASSUME ConversationAssumption PROVE Spec => []ArchivedWasCovered
<1>1. Init => TurnInv /\ ReadInv
  BY TurnBegins, ReadBegins
<1>2. TurnInv /\ ReadInv /\ [Next]_vars => TurnInv' /\ ReadInv'
  BY TurnStep, ReadStep
<1>3. ReadInv => ArchivedWasCovered
  BY DEF ReadInv
<1> QED BY <1>1, <1>2, <1>3, PTL DEF Spec

\* The messages of a prompt are archived together, for any number of prompts,
\* rounds, calls, workers and failures: the ids of a prompt that ran alone are
\* in the order of its rows, so that a range of ids takes all of them or none.
THEOREM TurnsLeaveWhole == ASSUME ConversationAssumption PROVE Spec => []TurnsArchivedWhole
<1>1. Init => TurnInv /\ ReadInv /\ WholeInv
  BY TurnBegins, ReadBegins, WholeBegins
<1>2. TurnInv /\ ReadInv /\ WholeInv /\ [Next]_vars => TurnInv' /\ ReadInv' /\ WholeInv'
  BY TurnStep, ReadStep, WholeStep
<1>3. WholeInv => TurnsArchivedWhole
  BY DEF WholeInv
<1> QED BY <1>1, <1>2, <1>3, PTL DEF Spec

\* An entry of the goals' lists is taken away only by an extraction that read
\* the goals before it was written, and a salary floor only by such a one or
\* for a floor that the extraction has heard.
THEOREM GoalsSurvive == Spec => GoalsLostOnlyByOverlap
<1> DEFINE Lists == \A a \in goals.lists \ goals'.lists :
                      \E w \in Workers : UpsertGoals(w) /\ a \notin worker[w].existing.lists
           Salary == goals.salary \notin {{}, goals'.salary} =>
                      \E w \in Workers :
                         /\ UpsertGoals(w)
                         /\ \/ goals.salary # worker[w].existing.salary
                            \/ goals'.salary # {} /\ goals'.salary \subseteq worker[w].heard
<1>1. ASSUME NEW w \in Workers, UpsertGoals(w) PROVE Lists /\ Salary
  <2>1. PICK parsed \in Answers(worker[w].heard, worker[w].existing) :
           goals' = Merged(worker[w].existing, parsed)
    BY <1>1 DEF UpsertGoals
  <2>2. /\ goals'.lists = worker[w].existing.lists \cup parsed.lists
        /\ \/ goals'.salary = worker[w].existing.salary
           \/ goals'.salary = parsed.salary /\ goals'.salary # {}
        /\ parsed.salary \subseteq worker[w].heard
    BY <2>1 DEF Merged, Answers
  <2> QED BY <1>1, <2>2
<1>2. ASSUME goals' = goals PROVE Lists /\ Salary
  BY <1>2
<1>3. [Next]_vars => [Lists /\ Salary]_vars
  <2> SUFFICES ASSUME Next PROVE Lists /\ Salary
    OBVIOUS
  <2> HIDE DEF Lists, Salary
  <2>1. goals' = goals \/ \E w \in Workers : UpsertGoals(w)
    BY DEF Next, Send, memoryVars, WorkerSteps, ReadHistory, SaveSummary, Archive, LoadTranscript,
           FindGoals, JobFails, Stall
  <2> QED BY <1>1, <1>2, <2>1
<1> QED BY <1>3, PTL DEF Spec, GoalsLostOnlyByOverlap

-----------------------------------------------------------------------------
(* The safety side of StreamsEnd: how far a running loop is from its end *)

PerRound == 2 * MaxCalls + 2            \* model, answer; each call and its result
Budget == 4 + MaxRounds * PerRound      \* lookup and prompt, the rounds, queue and touch

\* The most steps of its own that a loop at l has left.
StepsLeft(l) ==
    CASE l.pc = "lookup" -> Budget
      [] l.pc = "insertUser" -> Budget - 1
      [] l.pc = "model" -> 2 + (MaxRounds - l.round + 1) * PerRound
      [] l.pc = "insertAnswer" -> 2 + (MaxRounds - l.round) * PerRound + 2 * MaxCalls + 1
      [] l.pc = "tool" -> 2 + (MaxRounds - l.round) * PerRound + 2 * (l.calls - l.call) + 2
      [] l.pc = "insertResult" -> 2 + (MaxRounds - l.round) * PerRound + 2 * (l.calls - l.call) + 1
      [] l.pc = "queue" -> 2
      [] l.pc = "touch" -> 1
      [] OTHER -> 0

\* An open stream has a loop that runs and that ends within its budget, or one
\* whose lookup of the kind has thrown.
OpenIsRunning ==
    \A p \in Prompts : stream[p] = "open" =>
        \/ Running(p) /\ StepsLeft(loop[p]) \in 1..Budget
        \/ loop[p].pc = "lost"

\* No step, of this loop or of anything beside it, puts the end off.
RunsOut ==
    \A p \in Prompts : stream[p] = "open" =>
        \/ stream'[p] # "open"
        \/ loop'[p] = loop[p]
        \/ StepsLeft(loop'[p]) < StepsLeft(loop[p])
StreamsRunOut == [][RunsOut]_vars

LEMMA Times ==
    ASSUME NEW a \in Nat, NEW b \in Nat, NEW c \in Nat, a <= c
    PROVE  /\ a * b \in Nat /\ (a + 1) * b = a * b + b /\ a * b <= c * b
<1>1. a * b \in Nat /\ (a + 1) * b = a * b + b
  OBVIOUS
<1>2. PICK d \in Nat : c = a + d
  <2>1. c - a \in Nat /\ c = a + (c - a)
    OBVIOUS
  <2> QED BY <2>1
<1>3. c * b = a * b + d * b /\ d * b \in Nat
  BY <1>2
<1> QED BY <1>1, <1>3

\* The rounds that are left after l's, in steps.
Later(l) == (MaxRounds - l.round) * PerRound

LEMMA LaterIs ==
    ASSUME ConversationAssumption, NEW l, l.round \in Rounds
    PROVE  /\ Later(l) \in Nat /\ Later(l) + PerRound <= MaxRounds * PerRound
           /\ (MaxRounds - l.round + 1) * PerRound = Later(l) + PerRound
<1> DEFINE a == MaxRounds - l.round
<1>1. a \in Nat /\ a + 1 \in Nat /\ a + 1 <= MaxRounds /\ MaxRounds \in Nat /\ PerRound \in Nat
  BY DEF ConversationAssumption, Rounds, PerRound
<1> HIDE DEF a
<1>2. a * PerRound \in Nat /\ (a + 1) * PerRound = a * PerRound + PerRound
  BY <1>1, Times
<1>3. (a + 1) * PerRound <= MaxRounds * PerRound
  BY <1>1, Times
<1>4. Later(l) = a * PerRound /\ (MaxRounds - l.round + 1) * PerRound = (a + 1) * PerRound
  BY DEF Later, a
<1> QED BY <1>2, <1>3, <1>4

LEMMA LeftIs ==
    ASSUME NEW l
    PROVE  /\ l.pc = "lookup" => StepsLeft(l) = Budget
           /\ l.pc = "lost" => StepsLeft(l) = 0
           /\ l.pc = "insertUser" => StepsLeft(l) = Budget - 1
           /\ l.pc = "model" => StepsLeft(l) = 2 + (MaxRounds - l.round + 1) * PerRound
           /\ l.pc = "insertAnswer" => StepsLeft(l) = 2 + Later(l) + 2 * MaxCalls + 1
           /\ l.pc = "tool" => StepsLeft(l) = 2 + Later(l) + 2 * (l.calls - l.call) + 2
           /\ l.pc = "insertResult" => StepsLeft(l) = 2 + Later(l) + 2 * (l.calls - l.call) + 1
           /\ l.pc = "queue" => StepsLeft(l) = 2
           /\ l.pc = "touch" => StepsLeft(l) = 1
  BY DEF StepsLeft, Later

LEMMA LoopAt ==
    ASSUME ConversationAssumption, TurnInv, NEW p \in Prompts
    PROVE  /\ loop \in [Prompts -> LoopStates] /\ loop[p] \in LoopStates
           /\ loop[p].pc \in {"model", "insertAnswer", "tool", "insertResult"} => loop[p].round \in Rounds
           /\ loop[p].pc = "insertAnswer" => loop[p].calls \in 0..MaxCalls
           /\ loop[p].pc \in {"tool", "insertResult"} =>
                 /\ loop[p].calls \in Calls /\ loop[p].call \in Calls
                 /\ loop[p].call <= loop[p].calls
<1>1. loop \in [Prompts -> LoopStates] /\ loop[p] \in LoopStates /\ TurnAt(p, loop[p], Asked, Answered)
  BY DEF TurnInv, Types
<1>2. /\ loop[p].pc \in {"model", "insertAnswer", "tool", "insertResult"} => loop[p].round \in Rounds
      /\ loop[p].pc = "insertAnswer" => loop[p].calls \in 0..MaxCalls
      /\ loop[p].pc \in {"tool", "insertResult"} => loop[p].calls \in Calls /\ loop[p].call \in Calls
  BY <1>1 DEF LoopStates
<1>3. loop[p].pc \in {"tool", "insertResult"} => loop[p].call <= loop[p].calls
  BY <1>1 DEF TurnAt
<1> QED BY <1>1, <1>2, <1>3

LEMMA LeftBounded ==
    ASSUME ConversationAssumption, TurnInv, NEW p \in Prompts, Running(p)
    PROVE  StepsLeft(loop[p]) \in 1..Budget
<1> DEFINE l == loop[p]
           all == MaxRounds * PerRound
<1>1. MaxCalls \in Nat /\ PerRound = 2 * MaxCalls + 2 /\ Budget = 4 + all
  BY DEF ConversationAssumption, PerRound, Budget
<1>2. all \in Nat
  BY Times DEF ConversationAssumption, PerRound
<1>3. l.pc \in {"lookup", "insertUser", "model", "insertAnswer", "tool", "insertResult", "queue",
               "touch"}
  BY LoopAt DEF LoopStates, Running
<1>4. ASSUME l.round \in Rounds
      PROVE  /\ Later(l) \in Nat /\ Later(l) + PerRound <= all
             /\ (MaxRounds - l.round + 1) * PerRound = Later(l) + PerRound
  BY <1>4, LaterIs
<1>5. CASE l.pc \in {"lookup", "insertUser", "queue", "touch"}
  <2> HIDE DEF all
  <2> QED BY <1>1, <1>2, <1>5, LeftIs
<1>6. CASE l.pc \in {"model", "insertAnswer", "tool", "insertResult"}
  <2>1. l.round \in Rounds
    BY <1>6, LoopAt
  <2>2. /\ l.pc \in {"tool", "insertResult"} =>
              l.calls \in 1..MaxCalls /\ l.call \in 1..MaxCalls /\ l.call <= l.calls
    BY LoopAt DEF Calls
  <2> HIDE DEF all, l
  <2>3. CASE l.pc = "model"
    <3>1. StepsLeft(l) = 2 + (MaxRounds - l.round + 1) * PerRound
      BY <2>3, LeftIs
    <3>2. StepsLeft(l) = 2 + (Later(l) + PerRound)
      BY <1>4, <2>1, <3>1, Zenon
    <3> QED BY <1>1, <1>2, <1>4, <2>1, <3>2 DEF l
  <2>4. CASE l.pc = "insertAnswer"
    <3>1. StepsLeft(l) = 2 + Later(l) + 2 * MaxCalls + 1
      BY <2>4, LeftIs
    <3> QED BY <1>1, <1>2, <1>4, <2>1, <3>1 DEF l
  <2>5. CASE l.pc \in {"tool", "insertResult"}
    <3>1. StepsLeft(l) \in {2 + Later(l) + 2 * (l.calls - l.call) + k : k \in 1..2}
      BY <2>5, LeftIs
    <3>2. PICK k \in 1..2 : StepsLeft(l) = 2 + Later(l) + 2 * (l.calls - l.call) + k
      BY <3>1
    <3> QED BY <1>1, <1>2, <1>4, <2>1, <2>2, <2>5, <3>2 DEF l
  <2> QED BY <1>6, <2>3, <2>4, <2>5
<1> QED BY <1>3, <1>5, <1>6

LEMMA StepDown ==
    ASSUME ConversationAssumption, TurnInv, NEW p \in Prompts, LoopSteps(p), ~Done(p)
    PROVE  StepsLeft(loop'[p]) < StepsLeft(loop[p])
<1> DEFINE l == loop[p]
           m == loop'[p]
           all == MaxRounds * PerRound
<1>1. MaxCalls \in Nat /\ MaxRounds \in Nat /\ 1 \in Rounds /\ 1 \in Calls
      /\ PerRound = 2 * MaxCalls + 2 /\ Budget = 4 + all
  BY DEF ConversationAssumption, PerRound, Budget, Rounds, Calls
<1>2. all \in Nat
  BY <1>1, Times
<1>3. loop \in [Prompts -> LoopStates] /\ \A s : Goto(p, s) => m = s
  BY LoopAt DEF Goto
<1>4. ASSUME NEW k, k.round \in Rounds
      PROVE  /\ Later(k) \in Nat /\ Later(k) + PerRound <= all
             /\ (MaxRounds - k.round + 1) * PerRound = Later(k) + PerRound
  BY <1>4, LaterIs
<1>5. CASE InsertUser(p)
  <2>1. l.pc = "insertUser" /\ m = [pc |-> "model", round |-> 1]
    BY <1>3, <1>5 DEF InsertUser
  <2>2. m.pc = "model" /\ m.round = 1
    BY <2>1
  <2> HIDE DEF all, l, m
  <2>3. StepsLeft(m) = 2 + Later(m) + PerRound /\ Later(m) + PerRound <= all /\ Later(m) \in Nat
    BY <1>1, <1>4, <2>2, LeftIs
  <2>4. StepsLeft(l) = 3 + all
    BY <1>1, <1>2, <2>1, LeftIs
  <2>5. StepsLeft(m) < StepsLeft(l)
    BY <1>1, <1>2, <2>3, <2>4
  <2> QED BY <2>5 DEF l, m
<1>6. CASE ModelAnswers(p)
  <2>1. PICK n \in 0..MaxCalls : m = [pc |-> "insertAnswer", round |-> l.round, calls |-> n, id |-> NextId]
    BY <1>3, <1>6 DEF ModelAnswers, Mint
  <2>2. l.pc = "model" /\ l.round \in Rounds /\ m.pc = "insertAnswer" /\ m.round = l.round
    BY <1>6, <2>1, LoopAt DEF ModelAnswers
  <2> HIDE DEF all, l, m
  <2>3. Later(m) = Later(l)
    BY <2>2 DEF Later
  <2>4. StepsLeft(m) < StepsLeft(l)
    BY <1>1, <1>4, <2>2, <2>3, LeftIs
  <2> QED BY <2>4 DEF l, m
<1>7. CASE InsertAnswer(p)
  <2>1. /\ l.pc = "insertAnswer" /\ l.round \in Rounds /\ l.calls \in 0..MaxCalls
        /\ m = IF l.calls = 0 THEN [pc |-> "queue"]
               ELSE [pc |-> "tool", round |-> l.round, calls |-> l.calls, call |-> 1]
    BY <1>3, <1>7, LoopAt DEF InsertAnswer
  <2>2. \/ m.pc = "queue"
        \/ m.pc = "tool" /\ m.round = l.round /\ m.calls = l.calls /\ m.call = 1
    BY <2>1
  <2> HIDE DEF all, l, m
  <2>3. m.pc = "tool" /\ m.round = l.round => Later(m) = Later(l)
    BY DEF Later
  <2>4. StepsLeft(m) < StepsLeft(l)
    BY <1>1, <1>4, <2>1, <2>2, <2>3, LeftIs
  <2> QED BY <2>4 DEF l, m
<1>8. CASE RunTool(p)
  <2>1. /\ l.pc = "tool" /\ l.round \in Rounds /\ l.calls \in Calls /\ l.call \in Calls
        /\ m = [pc |-> "insertResult", round |-> l.round, calls |-> l.calls, call |-> l.call,
                id |-> NextId]
    BY <1>3, <1>8, LoopAt DEF RunTool, Mint
  <2>2. m.pc = "insertResult" /\ m.round = l.round /\ m.calls = l.calls /\ m.call = l.call
    BY <2>1
  <2> HIDE DEF all, l, m
  <2>3. Later(m) = Later(l)
    BY <2>2 DEF Later
  <2>4. StepsLeft(m) < StepsLeft(l)
    BY <1>1, <1>4, <2>1, <2>2, <2>3, LeftIs DEF Calls
  <2> QED BY <2>4 DEF l, m
<1>9. CASE InsertResult(p)
  <2>1. /\ l.pc = "insertResult" /\ l.round \in Rounds /\ l.calls \in Calls /\ l.call \in Calls
        /\ l.call <= l.calls /\ m = AfterResult(l)
    BY <1>3, <1>9, LoopAt DEF InsertResult
  <2>2. \/ /\ m.pc = "tool" /\ m.round = l.round /\ m.calls = l.calls /\ m.call = l.call + 1
        \/ m.pc = "model" /\ m.round = l.round + 1 /\ l.round < MaxRounds
        \/ m.pc = "queue"
    BY <2>1 DEF AfterResult
  <2> HIDE DEF all, l, m
  <2>3. CASE m.pc = "tool" /\ m.round = l.round /\ m.calls = l.calls /\ m.call = l.call + 1
    <3>1. Later(m) = Later(l)
      BY <2>3 DEF Later
    <3> QED BY <1>4, <2>1, <2>3, <3>1, LeftIs DEF Calls, l, m
  <2>4. CASE m.pc = "model" /\ m.round = l.round + 1 /\ l.round < MaxRounds
    <3>1. MaxRounds - m.round + 1 = MaxRounds - l.round
      BY <1>1, <2>1, <2>4 DEF Rounds
    <3>2. StepsLeft(m) = 2 + Later(l)
      BY <2>4, <3>1, LeftIs DEF Later
    <3>3. StepsLeft(m) < StepsLeft(l)
      BY <1>1, <1>4, <2>1, <3>2, LeftIs DEF Calls
    <3> QED BY <3>3 DEF l, m
  <2>5. CASE m.pc = "queue"
    <3>1. StepsLeft(m) < StepsLeft(l)
      BY <1>1, <1>4, <2>1, <2>5, LeftIs DEF Calls
    <3> QED BY <3>1 DEF l, m
  <2> QED BY <2>2, <2>3, <2>4, <2>5
<1>10. CASE QueueMemory(p)
  <2>1. l.pc = "queue" /\ m.pc = "touch"
    BY <1>3, <1>10 DEF QueueMemory
  <2> QED BY <2>1, LeftIs
<1>11. CASE LookupKind(p)
  <2>1. l.pc = "lookup" /\ m = [pc |-> "insertUser", id |-> NextId]
    BY <1>3, <1>11 DEF LookupKind, Mint
  <2>2. m.pc = "insertUser"
    BY <2>1
  <2> HIDE DEF all, l, m
  <2>3. StepsLeft(m) < StepsLeft(l)
    BY <1>1, <1>2, <2>1, <2>2, LeftIs
  <2> QED BY <2>3 DEF l, m
<1> QED BY <1>5, <1>6, <1>7, <1>8, <1>9, <1>10, <1>11 DEF LoopSteps

LEMMA NextRunsOut == ASSUME ConversationAssumption, TurnInv, [Next]_vars PROVE RunsOut
<1> SUFFICES ASSUME NEW p \in Prompts, stream[p] = "open", loop'[p] # loop[p]
             PROVE  stream'[p] # "open" \/ StepsLeft(loop'[p]) < StepsLeft(loop[p])
  BY DEF RunsOut
<1>1. loop \in [Prompts -> LoopStates] /\ stream \in [Prompts -> {"none", "open", "done", "error", "cut"}]
  BY DEF TurnInv, Types
<1>2. loop[p].pc # "unsent"
  BY DEF TurnInv, StreamAt
<1>3. PICK q \in Prompts : Send(q) \/ LoopSteps(q) \/ LoopEnds(q)
  BY DEF Next, vars, convVars, Close, WorkerSteps, ReadHistory, SaveSummary, Archive, LoadTranscript,
         FindGoals, UpsertGoals, JobFails, Stall, SetWorker
<1>4. PICK s : Goto(q, s)
  BY <1>3 DEF Send, Respond, LoopSteps, LookupKind, InsertUser, ModelAnswers, InsertAnswer, RunTool,
              InsertResult, QueueMemory, Done, LoopEnds, ModelFails, ArgumentsRefused, LoopThrows,
              LookupThrows, Crash, Mint, Leave
<1>5. q = p
  BY <1>1, <1>4 DEF Goto
<1>6. CASE LoopSteps(p) /\ ~Done(p)
  BY <1>6, StepDown
<1>7. CASE Done(p) \/ (LoopEnds(p) /\ ~LookupThrows(p))
  BY <1>1, <1>7 DEF Done, LoopEnds, ModelFails, ArgumentsRefused, LoopThrows, Crash, Leave
<1>8. CASE LookupThrows(p)
  <2>1. loop[p].pc = "lookup" /\ loop'[p].pc = "lost"
    BY <1>1, <1>8 DEF LookupThrows, Goto
  <2>2. Budget \in Nat /\ Budget > 0
    <3>1. MaxRounds * PerRound \in Nat
      BY Times DEF ConversationAssumption, PerRound
    <3> QED BY <3>1 DEF Budget
  <2> QED BY <2>1, <2>2, LeftIs
<1> QED BY <1>2, <1>3, <1>5, <1>6, <1>7, <1>8 DEF Send, Respond

LEMMA TurnInvariant == ASSUME ConversationAssumption PROVE Spec => []TurnInv
<1>1. (Init => TurnInv) /\ (TurnInv /\ [Next]_vars => TurnInv')
  BY TurnBegins, TurnStep
<1> QED BY <1>1, PTL DEF Spec

\* No stream is left open by a loop that is over: while the panel waits, the
\* loop runs, at most MaxRounds * (2 * MaxCalls + 2) + 4 steps from its end, or
\* its lookup has thrown before the try. No other error leaves a stream open.
THEOREM OpenStreamsRun == ASSUME ConversationAssumption PROVE Spec => []OpenIsRunning
<1>1. TurnInv => OpenIsRunning
  BY LeftBounded, AtLoop DEF StreamAt, OpenIsRunning, Running
<1> QED BY <1>1, TurnInvariant, PTL

\* Each step of the loop brings it closer, and nothing else moves it: what
\* StreamsEnd takes beside this is that the loop's steps are taken.
THEOREM StreamsComeToAnEnd == ASSUME ConversationAssumption PROVE Spec => StreamsRunOut
<1>1. TurnInv /\ [Next]_vars => [RunsOut]_vars
  BY NextRunsOut
<1> QED BY <1>1, TurnInvariant, PTL DEF Spec, StreamsRunOut

-----------------------------------------------------------------------------
(* What is said in a prompt reaches no goal: the extraction, like the       *)
(* summary (ArchivedWasRead), looks for words that are stored encrypted.   *)

Mining(state) == state.pc \in {"find", "upsert"}

OfStored(g) == g.lists \subseteq Stored /\ g.salary \subseteq Stored /\ g.aim \subseteq Stored

\* Rows in the clear are from before the encrypted column, and so is all that
\* was, is being or has been learnt.
UnheardInv ==
    /\ \A i \in DOMAIN msgs : msgs[i].role = "USER" /\ msgs[i].plain => msgs[i].by \in Stored
    /\ worker = [w \in Workers |-> worker[w]]
    /\ \A w \in Workers : /\ Mining(worker[w]) => worker[w].heard \subseteq Stored
                          /\ worker[w].pc = "upsert" => OfStored(worker[w].existing)
    /\ OfStored(goals)

\* Nothing said in a prompt of today's code is ever among the goals.
NoPromptIsHeard == (goals.lists \cup goals.salary \cup goals.aim) \cap Prompts = {}

LEMMA HeardIsStored ==
    ASSUME MemoryAssumption, TurnInv, UnheardInv PROVE HeardIn(Loaded) \subseteq Stored
<1>1. \A m \in Loaded : \E i \in DOMAIN msgs : m = msgs[i]
  <2>1. Len(msgs) \in Nat /\ DOMAIN msgs = 1..Len(msgs) /\ MineFirst \in Nat
    BY DEF TurnInv, Types, MemoryAssumption
  <2> QED BY <2>1 DEF Loaded
<1> QED BY <1>1 DEF HeardIn, UnheardInv

\* A step of worker w to a state that has heard nothing else.
LEMMA WorkerUnheard ==
    ASSUME UnheardInv, NEW w \in Workers, NEW s, SetWorker(w, s), msgs' = msgs, OfStored(goals'),
           Mining(s) => s.heard \subseteq Stored, s.pc = "upsert" => OfStored(s.existing)
    PROVE  UnheardInv'
<1>1. /\ worker' = [v \in Workers |-> worker'[v]]
      /\ \A v \in Workers : worker'[v] = IF v = w THEN s ELSE worker[v]
  BY DEF SetWorker, UnheardInv
<1>2. \A v \in Workers : /\ Mining(worker'[v]) => worker'[v].heard \subseteq Stored
                         /\ worker'[v].pc = "upsert" => OfStored(worker'[v].existing)
  BY <1>1 DEF UnheardInv
<1> QED BY <1>1, <1>2 DEF UnheardInv

LEMMA NextUnheard ==
    ASSUME ConversationAssumption, MemoryAssumption, TurnInv, UnheardInv, [Next]_vars
    PROVE  UnheardInv'
<1>1. ASSUME UNCHANGED <<worker, goals>>, msgs' = msgs \/ \E row : Insert(row) /\ ~(row.role = "USER" /\ row.plain)
      PROVE  UnheardInv'
  <2>1. \A i \in DOMAIN msgs' : \/ i \in DOMAIN msgs /\ msgs'[i] = msgs[i]
                                \/ ~(msgs'[i].role = "USER" /\ msgs'[i].plain)
    BY <1>1 DEF Insert, TurnInv, Types
  <2> QED BY <1>1, <2>1 DEF UnheardInv
<1>2. ASSUME NEW p \in Prompts, Send(p) PROVE UnheardInv'
  BY <1>1, <1>2 DEF Send, Respond
<1>3. ASSUME NEW p \in Prompts, LoopSteps(p) \/ LoopEnds(p), UNCHANGED memoryVars PROVE UnheardInv'
  <2>1. CASE InsertUser(p) \/ InsertAnswer(p) \/ InsertResult(p)
    <3>1. \E row : Insert(row) /\ ~(row.role = "USER" /\ row.plain)
      BY <2>1 DEF InsertUser, InsertAnswer, InsertResult
    <3> QED BY <1>1, <1>3, <3>1 DEF memoryVars
  <2>2. CASE ~(InsertUser(p) \/ InsertAnswer(p) \/ InsertResult(p))
    <3>1. msgs' = msgs
      BY <1>3, <2>2 DEF LoopSteps, LoopEnds, LookupKind, ModelAnswers, RunTool, QueueMemory, Done,
                        ModelFails, ArgumentsRefused, LoopThrows, LookupThrows, Crash, Mint, Leave
    <3> QED BY <1>1, <1>3, <3>1 DEF memoryVars
  <2> QED BY <2>1, <2>2
<1>4. ASSUME NEW w \in Workers, JobFails(w) \/ ReadHistory(w) \/ SaveSummary(w) PROVE UnheardInv'
  <2>1. PICK s : SetWorker(w, s) /\ ~Mining(s) /\ msgs' = msgs /\ goals' = goals
    <3>1. CASE JobFails(w)
      BY <3>1 DEF JobFails, Mining, Idle
    <3>2. CASE ReadHistory(w)
      BY <3>2 DEF ReadHistory, Mining, Idle
    <3>3. CASE SaveSummary(w)
      <4> DEFINE s == [worker[w] EXCEPT !.pc = "archive"]
      <4>1. s.pc # "find" /\ s.pc # "upsert"
        BY <3>3 DEF SaveSummary
      <4> QED BY <3>3, <4>1 DEF SaveSummary, Mining
    <3> QED BY <1>4, <3>1, <3>2, <3>3
  <2> QED BY <2>1, WorkerUnheard DEF UnheardInv, Mining
<1>5. ASSUME NEW w \in Workers, LoadTranscript(w) PROVE UnheardInv'
  <2> DEFINE s == [pc |-> "find", heard |-> HeardIn(Loaded)]
  <2>1. SetWorker(w, s) \/ SetWorker(w, Idle)
    BY <1>5 DEF LoadTranscript
  <2>2. s.heard \subseteq Stored /\ s.pc = "find" /\ ~Mining(Idle)
    BY HeardIsStored DEF Mining, Idle
  <2>3. msgs' = msgs /\ OfStored(goals')
    BY <1>5 DEF LoadTranscript, UnheardInv
  <2> HIDE DEF s
  <2> QED BY <2>1, <2>2, <2>3, WorkerUnheard DEF Mining
<1>6. ASSUME NEW w \in Workers, FindGoals(w) PROVE UnheardInv'
  <2> DEFINE s == [pc |-> "upsert", heard |-> worker[w].heard, existing |-> goals]
  <2>1. SetWorker(w, s) /\ msgs' = msgs /\ goals' = goals
    BY <1>6 DEF FindGoals
  <2>2. s.heard \subseteq Stored /\ OfStored(s.existing) /\ s.pc = "upsert"
    BY <1>6 DEF FindGoals, UnheardInv, Mining
  <2> HIDE DEF s
  <2> QED BY <2>1, <2>2, WorkerUnheard DEF UnheardInv
<1>7. ASSUME NEW w \in Workers, UpsertGoals(w) PROVE UnheardInv'
  <2>1. SetWorker(w, Idle) /\ msgs' = msgs
    BY <1>7 DEF UpsertGoals
  <2>2. OfStored(goals')
    <3>1. PICK parsed \in Answers(worker[w].heard, worker[w].existing) :
             goals' = Merged(worker[w].existing, parsed)
      BY <1>7 DEF UpsertGoals
    <3>2. worker[w].heard \subseteq Stored /\ OfStored(worker[w].existing)
      BY <1>7 DEF UpsertGoals, UnheardInv, Mining
    <3>3. OfStored(parsed)
      BY <3>1, <3>2 DEF Answers, OfStored
    <3> QED BY <3>1, <3>2, <3>3 DEF Merged, OfStored
  <2> QED BY <2>1, <2>2, WorkerUnheard DEF Idle, Mining
<1>8. ASSUME NEW w \in Workers, Archive(w) PROVE UnheardInv'
  <2>1. /\ SetWorker(w, Idle) /\ goals' = goals /\ DOMAIN msgs' = DOMAIN msgs
        /\ \A i \in DOMAIN msgs : msgs'[i] = [msgs[i] EXCEPT !.archived = @ \/ ToArchive(worker[w].s, msgs[i].id)]
    BY <1>8 DEF Archive
  <2>2. \A i \in DOMAIN msgs : msgs[i] \in Msg
    BY DEF TurnInv, Types
  <2>3. ASSUME NEW i \in DOMAIN msgs', msgs'[i].role = "USER", msgs'[i].plain
        PROVE  msgs'[i].by \in Stored
    <3>1. msgs'[i].role = msgs[i].role /\ msgs'[i].by = msgs[i].by
      BY <2>1, <2>2, <2>3 DEF Msg
    <3>2. msgs[i] \in [id : Nat, archived : BOOLEAN, by : Prompts \cup Stored, role : {"USER"},
                       plain : BOOLEAN]
      BY <2>1, <2>2, <2>3, <3>1 DEF Msg
    <3>3. msgs'[i].plain = msgs[i].plain
      BY <2>1, <2>3, <3>2
    <3> QED BY <2>1, <2>3, <3>1, <3>3 DEF UnheardInv
  <2>4. /\ worker' = [v \in Workers |-> worker'[v]]
        /\ \A v \in Workers : worker'[v] = IF v = w THEN Idle ELSE worker[v]
    BY <2>1 DEF SetWorker, UnheardInv
  <2>5. \A v \in Workers : /\ Mining(worker'[v]) => worker'[v].heard \subseteq Stored
                           /\ worker'[v].pc = "upsert" => OfStored(worker'[v].existing)
    BY <2>4 DEF UnheardInv, Mining, Idle
  <2> QED BY <2>1, <2>3, <2>4, <2>5 DEF UnheardInv
<1>9. ASSUME UNCHANGED <<msgs, worker, goals>> PROVE UnheardInv'
  BY <1>9 DEF UnheardInv
<1>10. CASE (Close /\ UNCHANGED memoryVars) \/ UNCHANGED vars \/ \E w \in Workers : Stall(w)
  BY <1>9, <1>10 DEF Close, Stall, vars, convVars, memoryVars
<1> QED BY <1>2, <1>3, <1>4, <1>5, <1>6, <1>7, <1>8, <1>10 DEF Next, WorkerSteps

\* Goals are learnt from rows in the clear alone: for any number of prompts,
\* jobs, failures and stalls, an extraction never tells what a user has said to
\* the agent since its words are stored encrypted.
THEOREM GoalsNeverFromPrompts ==
    ASSUME ConversationAssumption, MemoryAssumption PROVE Spec => []NoPromptIsHeard
<1>1. Init => UnheardInv
  <2> SUFFICES ASSUME Init PROVE UnheardInv
    OBVIOUS
  <2>1. ASSUME NEW i \in DOMAIN msgs PROVE msgs[i].by \in Stored
    BY <2>1 DEF Init, ConversationInit
  <2> QED BY <2>1 DEF Init, UnheardInv, Mining, Idle, NoGoals, OfStored
<1>2. TurnInv /\ UnheardInv /\ [Next]_vars => UnheardInv'
  BY NextUnheard
<1>3. UnheardInv => NoPromptIsHeard
  BY DEF UnheardInv, NoPromptIsHeard, OfStored, ConversationAssumption
<1> QED BY <1>1, <1>2, <1>3, TurnInvariant, PTL DEF Spec
=============================================================================
