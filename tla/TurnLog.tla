------------------------------- MODULE TurnLog --------------------------------
(***************************************************************************)
(* What a conversation promises of each prompt: the model asks for tools   *)
(* in rounds, a round begins when the calls of the last one are answered,  *)
(* each call is answered once, and the prompt is reported done only with   *)
(* nothing left to answer. A prompt may instead end in an error, or be cut *)
(* off with its process, at any point.                                     *)
(***************************************************************************)
EXTENDS Naturals

CONSTANTS Prompts, Rounds, CallsPerRound

VARIABLES
    asked,      \* tool calls stored, <<prompt, round, number>>
    answered,   \* tool results stored, by the call they answer
    outcome     \* none, open, done, error or cut, for each prompt

Call == Prompts \X Rounds \X CallsPerRound
Of(p) == {c \in asked : c[1] = p}

Init ==
    /\ asked = {} /\ answered = {}
    /\ outcome = [p \in Prompts |-> "none"]

Open(p) ==
    /\ outcome[p] = "none"
    /\ outcome' = [outcome EXCEPT ![p] = "open"]
    /\ UNCHANGED <<asked, answered>>

\* A round asks for the calls 1..n, later than every round before it.
Ask(p, r, n) ==
    /\ outcome[p] = "open"
    /\ UNCHANGED <<answered, outcome>>
    /\ Of(p) \subseteq answered
    /\ \A c \in Of(p) : c[2] < r
    /\ asked' = asked \cup {<<p, r, k>> : k \in 1..n}

Answer(c) ==
    /\ outcome[c[1]] = "open"
    /\ UNCHANGED <<outcome, asked>>
    /\ c \in asked \ answered
    /\ answered' = answered \cup {c}

Close(p, how) ==
    /\ outcome[p] = "open"
    /\ outcome' = [outcome EXCEPT ![p] = how]
    /\ how = "done" => Of(p) \subseteq answered
    /\ UNCHANGED <<asked, answered>>

Next ==
    \/ \E p \in Prompts : Open(p)
    \/ \E p \in Prompts, r \in Rounds, n \in CallsPerRound : Ask(p, r, n)
    \/ \E c \in Call : Answer(c)
    \/ \E p \in Prompts, how \in {"done", "error", "cut"} : Close(p, how)

Spec == Init /\ [][Next]_<<asked, answered, outcome>>
=============================================================================
