------------------------------ MODULE MCMemory -------------------------------
(* Instances of Memory, and with it of Conversation, for TLC. *)
EXTENDS Memory

CONSTANTS q1, q2, old1, w1, w2

TwoPrompts == {q1, q2}
OneStored == {old1}
TwoWorkers == {w1, w2}

\* Two prompts: one may use tools and may fail, the other does neither.
OneUsesTools == loop[q2].pc \notin {"tool", "lost"} /\ stream[q2] \notin {"cut", "error"}

\* What an extraction does depends neither on answers and results nor on what
\* is archived, and it changes nothing a loop or a compression reads: it is
\* enough to let the extractions run after two short turns.
Mining(w) == worker[w].pc \in {"find", "upsert"}
ExtractionsLast ==
    (\E w \in Workers : Mining(w)) \/ goals # NoGoals \/ closes > 0 =>
        /\ RunningPrompts = {}
        /\ Len(msgs) <= Cardinality(Stored) + 4
        /\ compress = 0 /\ summaries = {}

\* Two workers are at work at once only beside prompts that are over, and
\* after a failure at most one prompt is still running.
WorkersApart == Cardinality({w \in Workers : worker[w] # Idle}) <= 1 \/ RunningPrompts = {}
FaultsApart == faults > 0 => Cardinality(RunningPrompts) <= 1

\* Steps: jobs fail and stall when no prompt runs; of two idle workers, which
\* are alike, the first one takes the job.
JobsFailLate == faults' # faults /\ loop' = loop => RunningPrompts = {}
SecondWorkerSecond == worker[w2] = Idle /\ worker'[w2] # Idle => worker[w1] # Idle
=============================================================================
