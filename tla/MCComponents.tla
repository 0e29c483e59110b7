---------------------------- MODULE MCComponents -----------------------------
(***************************************************************************)
(* Instances for TLC of the components that share no state with another:  *)
(* the radar, the panel's chat, applying on LinkedIn, nudges, daily        *)
(* recommendations and the circuit breaker. In each behaviour one of them, *)
(* named by turn, runs, and the others stay as they began: their states    *)
(* are added up, never multiplied.                                         *)
(***************************************************************************)
EXTENDS Radar, ChatView, EasyApply, Nudges, Recommendation, CircuitBreaker

CONSTANTS i1, w1, w2, c1, p1, p2, old1, r1, j1, j2, t1, b1, b2, a1, u1, q1, q2

OneItem == {i1}
TwoWorkers == {w1, w2}
OneCall == {c1}
TwoPrompts == {p1, p2}
OnePast == {old1}
OneRestore == {r1}
TwoJobs == {j1, j2}
OneTab == {t1}
TwoBackends == {b1, b2}
OneApplication == {a1}
TwoCheckpoints == {1, 3}
OneReader == {u1}
TwoReplies == {q1, q2}
TwoCallers == {c1, w1}

VARIABLE turn

apart == <<turn, vars, chatVars, easyVars, nudgeVars, recoVars, breakerVars>>

ApartInit ==
    /\ turn \in {"radar", "chat", "easy", "nudges", "recommendation", "breaker"}
    /\ Init /\ ChatInit /\ EasyInit /\ NudgesInit /\ RecoInit /\ BreakerInit
    \* What does not run begins in one way only.
    /\ turn = "easy" \/ page[t1].job = j1
    /\ turn = "nudges" \/ ~radar[a1].applied
    /\ turn = "recommendation" \/ paying = {}

ApartNext ==
    /\ UNCHANGED turn
    /\ \/ /\ turn = "radar" /\ Next
          /\ UNCHANGED <<chatVars, easyVars, nudgeVars, recoVars, breakerVars>>
       \/ /\ turn = "chat" /\ ChatNext
          /\ UNCHANGED <<vars, easyVars, nudgeVars, recoVars, breakerVars>>
       \/ /\ turn = "easy" /\ EasyNext
          /\ UNCHANGED <<vars, chatVars, nudgeVars, recoVars, breakerVars>>
       \/ /\ turn = "nudges" /\ NudgesNext
          /\ UNCHANGED <<vars, chatVars, easyVars, recoVars, breakerVars>>
       \/ /\ turn = "recommendation" /\ RecoNext
          /\ UNCHANGED <<vars, chatVars, easyVars, nudgeVars, breakerVars>>
       \/ /\ turn = "breaker" /\ BreakerNext
          /\ UNCHANGED <<vars, chatVars, easyVars, nudgeVars, recoVars>>

\* What is asked of a component that does not run cannot be done: where one
\* begins, none of its fair steps is enabled.
ApartSpec == ApartInit /\ [][ApartNext]_apart /\ Fairness /\ ChatFairness

AllTypeOK ==
    /\ turn = "radar" => TypeOK
    /\ turn = "chat" => ChatTypeOK
    /\ turn = "easy" => EasyTypeOK
    /\ turn = "nudges" => NudgesTypeOK
    /\ turn = "recommendation" => RecoTypeOK
    /\ turn = "breaker" => BreakerTypeOK

-----------------------------------------------------------------------------
(* Constraints. Prompts, and backends, are alike: the first one begins.    *)

FirstPromptFirst == prompt[p2].pc # "unsent" => prompt[p1].pc # "unsent"
SecondWorkerSecond == worker[w2] = Idle /\ worker'[w2] # Idle => worker[w1] # Idle
FirstBackendFirst == lastHour[b2] <= lastHour[b1] \/ run[b1] # RunIdle

\* The radar: two analyses at once only before there is an interview.
AnalysesFirst ==
    (\E w \in Workers : worker[w] = Idle) \/ \A i \in Items : "INTERVIEWING" \notin visited[i]

\* The chat: a note or a reopened panel, and one prompt beside a note; the
\* restoring runs beside one prompt, or two prompts at once without it; the
\* backend is not left behind; after something has begun while something else
\* was under way, the panel is not opened again and no stream is cut, which
\* would excuse the view from ending its wait.
OneExtra == notes + reopens <= 1
TwoAtOnce == (\E p \in Prompts : ~Running(p)) \/ \A r \in Restores : restore[r].pc \in {"unsent", "over"}
BackendKeepsUp == \A p \in serving : Running(p) \/ \A q \in Prompts : ~Running(q)
CrowdedOnce == crowded => reopens = 0 /\ cut = {}

OneBesideNote == notes > 0 => Cardinality({p \in Prompts : Running(p)} \cup serving) <= 1

\* Nudges: the status changes early, so that every checkpoint is reached.
EarlyMove == \A a \in Applications : radar[a].since <= 1

\* Recommendations: the replies are to one row and follow the mailing.
RepliesLast ==
    (\E q \in Replies : reply[q] # ReplyIdle) \/ feedback[1] # {} =>
        /\ Cardinality(recos) = 1
        /\ \A m \in Mailers : mailing[m] = MailingIdle

\* Replies tell whether the recommendation is liked, for no reason.
OneKey == \A q \in Replies : reply[q] # ReplyIdle => "reason" \notin reply[q].keys

\* Applying: one approval or one recorded application.
OneRecorded == Cardinality(recorded) + Cardinality(approving) <= 1
=============================================================================
