----------------------------- MODULE Jobs_proofs -----------------------------
(***************************************************************************)
(* What the backend does on its own, proved about for every size: the      *)
(* hourly nudges and the daily recommendations, for any number of backend  *)
(* instances, applications, readers and replies; the parsing of resumes,   *)
(* for any number of files and workers; and the breaker of the calls to    *)
(* the model, for any number of callers and any threshold. They share      *)
(* nothing but this file.                                                  *)
(***************************************************************************)
EXTENDS Nudges, Recommendation, CircuitBreaker, ResumeParsing, FiniteSetTheorems, TLAPS

-----------------------------------------------------------------------------
(* Nudges                                                                   *)
\* The instances that have found no conversation for i and will open one.
Opening(i) == {w \in Instances : run[w].pc = "save" /\ run[w].item = i}

Shared(i) == Cardinality(NudgesOf(i)) + Cardinality(Opening(i)) <= Cardinality(Instances)

\* A conversation is opened by an instance that found none. While it is
\* opening one it counts as if it had: it visits i no more once there is one.
NudgesInv ==
    /\ NudgesTypeOK
    /\ IsFiniteSet(nudges)
    /\ \A i \in Applications : Shared(i)

-----------------------------------------------------------------------------
LEMMA RunType == ASSUME NEW w \in Instances, NEW state \in Run, NudgesTypeOK, SetRun(w, state)
                 PROVE  run' \in [Instances -> Run]
  BY DEF NudgesTypeOK, SetRun

LEMMA TypeInit == ASSUME NudgesAssumption, NudgesInit PROVE NudgesTypeOK
  BY DEF NudgesAssumption, NudgesInit, NudgesTypeOK, Run

LEMMA Busy == ASSUME NEW w \in Instances, NudgesTypeOK, run[w] # RunIdle
              PROVE  /\ run[w].at \in 0..MaxTime /\ run[w].left \in SUBSET Checkpoints
                     /\ run[w].pc \in {"list", "visit", "save", "write"}
                     /\ run[w].pc # "list" => run[w].due \in SUBSET Applications
                     /\ run[w].pc = "save" => run[w].item \in Applications
                     /\ run[w].pc = "write" => run[w].id \in Nat
  BY DEF NudgesTypeOK, Run

LEMMA Visiting == ASSUME NEW w \in Instances, NudgesTypeOK, run[w].pc = "visit",
                         NEW due \in SUBSET Applications
                  PROVE  /\ [run[w] EXCEPT !.due = due]
                              = [pc |-> "visit", at |-> run[w].at, left |-> run[w].left, due |-> due]
                         /\ [run[w] EXCEPT !.due = due] \in Run
<1>1. run[w] \in [pc : {"visit"}, at : 0..MaxTime, left : SUBSET Checkpoints, due : SUBSET Applications]
  BY DEF NudgesTypeOK, Run, RunIdle
<1> QED BY <1>1 DEF Run

LEMMA TypeStep == ASSUME NudgesAssumption, NudgesTypeOK, IsFiniteSet(nudges), [NudgesNext]_nudgeVars
                  PROVE  NudgesTypeOK'
<1>1. CASE NudgesTick
  BY <1>1 DEF NudgesAssumption, NudgesTypeOK, NudgesTick
<1>2. ASSUME NEW i \in Applications, Move(i) PROVE NudgesTypeOK'
  BY <1>2 DEF NudgesAssumption, NudgesTypeOK, Move
<1>3. ASSUME NEW w \in Instances, StartRun(w) PROVE NudgesTypeOK'
  <2>1. [pc |-> "list", at |-> now, left |-> Checkpoints] \in Run
    BY DEF Run, NudgesTypeOK
  <2>2. ThisHour \in Nat
    BY DEF ThisHour, NudgesTypeOK, NudgesAssumption
  <2> QED BY <1>3, <2>1, <2>2, RunType DEF StartRun, NudgesTypeOK
<1>4. ASSUME NEW w \in Instances, ListDue(w) PROVE NudgesTypeOK'
  <2>1. run[w] # RunIdle
    BY <1>4 DEF ListDue, RunIdle
  <2>2. run[w].at \in 0..MaxTime /\ run[w].left \in SUBSET Checkpoints
    BY <2>1, Busy
  <2>3. CASE run[w].left = {}
    <3>1. RunIdle \in Run
      BY DEF Run
    <3>2. SetRun(w, RunIdle) /\ finished' \subseteq 0..MaxTime
      BY <1>4, <2>2, <2>3 DEF ListDue, Finishes, NudgesTypeOK
    <3> QED BY <1>4, <3>1, <3>2, RunType DEF ListDue, NudgesTypeOK
  <2>4. CASE run[w].left # {}
    <3> DEFINE d == NextCheckpoint(run[w].left)
               state == [pc |-> "visit", at |-> run[w].at, left |-> run[w].left \ {d},
                         due |-> {i \in Applications : Due(i, run[w].at, d)}]
    <3>1. state \in Run
      BY <2>2 DEF Run
    <3>2. SetRun(w, state) /\ finished' = finished
      BY <1>4, <2>4 DEF ListDue
    <3> HIDE DEF state
    <3> QED BY <1>4, <3>1, <3>2, RunType DEF ListDue, NudgesTypeOK
  <2> QED BY <2>3, <2>4
<1>5. ASSUME NEW w \in Instances, Visit(w) PROVE NudgesTypeOK'
  <2>1. run[w].pc = "visit" /\ run[w] # RunIdle
    BY <1>5 DEF Visit, RunIdle
  <2>2. /\ run[w].at \in 0..MaxTime /\ run[w].left \in SUBSET Checkpoints
        /\ run[w].due \in SUBSET Applications
    BY <2>1, Busy
  <2>3. \E state \in Run : SetRun(w, state)
    <3>1. CASE run[w].due = {}
      <4>1. [pc |-> "list", at |-> run[w].at, left |-> run[w].left] \in Run
        BY <2>2 DEF Run
      <4> QED BY <1>5, <3>1, <4>1 DEF Visit
    <3>2. CASE run[w].due # {}
      <4>1. PICK i \in run[w].due :
                    SetRun(w, IF NoNudge(i)
                              THEN [pc |-> "save", at |-> run[w].at, left |-> run[w].left,
                                    due |-> run[w].due \ {i}, item |-> i]
                              ELSE [run[w] EXCEPT !.due = @ \ {i}])
        BY <1>5, <3>2 DEF Visit
      <4>2. [pc |-> "save", at |-> run[w].at, left |-> run[w].left,
             due |-> run[w].due \ {i}, item |-> i] \in Run
        BY <2>2 DEF Run
      <4>3. [run[w] EXCEPT !.due = run[w].due \ {i}] \in Run
        BY <2>1, <2>2, Visiting
      <4> QED BY <4>1, <4>2, <4>3
    <3> QED BY <3>1, <3>2
  <2> QED BY <1>5, <2>3, RunType DEF Visit, NudgesTypeOK
<1>6. ASSUME NEW w \in Instances, SaveNudge(w) PROVE NudgesTypeOK'
  <2>1. /\ run[w].at \in 0..MaxTime /\ run[w].left \in SUBSET Checkpoints
        /\ run[w].due \in SUBSET Applications /\ run[w].item \in Applications
    BY <1>6, Busy DEF SaveNudge, RunIdle
  <2>2. NextNudge \in Nat
    BY FS_CardinalityType DEF NextNudge
  <2>3. [pc |-> "write", at |-> run[w].at, left |-> run[w].left, due |-> run[w].due,
         id |-> NextNudge] \in Run
    BY <2>1, <2>2 DEF Run
  <2>4. run' \in [Instances -> Run]
    BY <1>6, <2>3, RunType DEF SaveNudge
  <2>5. nudges' \subseteq Nudge
    <3>1. [id |-> NextNudge, item |-> run[w].item, message |-> FALSE] \in Nudge
      BY <2>1, <2>2 DEF Nudge
    <3> QED BY <1>6, <3>1 DEF SaveNudge, NudgesTypeOK
  <2> QED BY <1>6, <2>4, <2>5 DEF SaveNudge, NudgesTypeOK
<1>7. ASSUME NEW w \in Instances, WriteMessage(w) PROVE NudgesTypeOK'
  <2>1. /\ run[w].at \in 0..MaxTime /\ run[w].left \in SUBSET Checkpoints
        /\ run[w].due \in SUBSET Applications
    BY <1>7, Busy DEF WriteMessage, RunIdle
  <2>2. [pc |-> "visit", at |-> run[w].at, left |-> run[w].left, due |-> run[w].due] \in Run
    BY <2>1 DEF Run
  <2>3. run' \in [Instances -> Run]
    BY <1>7, <2>2, RunType DEF WriteMessage
  <2>4. nudges' \subseteq Nudge
    <3>1. ASSUME NEW n \in nudges
          PROVE  (IF n.id = run[w].id THEN [n EXCEPT !.message = TRUE] ELSE n) \in Nudge
      <4>1. n \in Nudge
        BY DEF NudgesTypeOK
      <4>2. [n EXCEPT !.message = TRUE] \in Nudge
        BY <4>1 DEF Nudge
      <4> QED BY <4>1, <4>2
    <3> QED BY <1>7, <3>1 DEF WriteMessage
  <2> QED BY <1>7, <2>3, <2>4 DEF WriteMessage, NudgesTypeOK
<1>8. ASSUME NEW w \in Instances, RunFails(w) PROVE NudgesTypeOK'
  <2>1. RunIdle \in Run
    BY DEF Run
  <2> QED BY <1>8, <2>1, RunType DEF RunFails, NudgesTypeOK
<1>9. CASE UNCHANGED nudgeVars
  BY <1>9 DEF nudgeVars, NudgesTypeOK
<1> QED BY <1>1, <1>2, <1>3, <1>4, <1>5, <1>6, <1>7, <1>8, <1>9 DEF NudgesNext

-----------------------------------------------------------------------------
\* No conversation is opened and nobody more is opening one for i.
LEMMA StaysShared ==
    ASSUME NudgesAssumption, NudgesInv, NEW i \in Applications,
           nudges' = nudges, Opening(i)' \subseteq Opening(i)
    PROVE  Shared(i)'
<1>1. IsFiniteSet(NudgesOf(i)) /\ IsFiniteSet(Opening(i)) /\ IsFiniteSet(Instances)
  BY FS_Subset DEF NudgesOf, Opening, NudgesInv, NudgesAssumption
<1>2. Cardinality(Opening(i)') <= Cardinality(Opening(i))
  BY <1>1, FS_Subset
<1>3. Cardinality(Opening(i)') \in Nat /\ Cardinality(Opening(i)) \in Nat
      /\ Cardinality(NudgesOf(i)) \in Nat /\ Cardinality(Instances) \in Nat
  BY <1>1, FS_Subset, FS_CardinalityType
<1>4. NudgesOf(i)' = NudgesOf(i)
  BY DEF NudgesOf
<1>5. Shared(i)
  BY DEF NudgesInv
<1> HIDE DEF NudgesInv
<1> QED BY <1>2, <1>3, <1>4, <1>5 DEF Shared

\* The conversation takes the place of the instance that was opening it.
LEMMA OpenedOne ==
    ASSUME NudgesAssumption, NudgesInv, NEW w \in Instances, SaveNudge(w)
    PROVE  IsFiniteSet(nudges') /\ \A i \in Applications : Shared(i)'
<1> DEFINE n == [id |-> NextNudge, item |-> run[w].item, message |-> FALSE]
<1>1. IsFiniteSet(nudges')
  BY FS_AddElement DEF SaveNudge, NudgesInv
<1>2. ASSUME NEW i \in Applications PROVE Shared(i)'
  <2>1. CASE run[w].item = i
    <3>1. NudgesOf(i)' = NudgesOf(i) \cup {n}
      BY <2>1 DEF NudgesOf, SaveNudge
    <3> HIDE DEF n
    <3>2. w \in Opening(i) /\ Opening(i)' = Opening(i) \ {w}
      BY <2>1 DEF Opening, SaveNudge, SetRun, NudgesInv, NudgesTypeOK
    <3>3. IsFiniteSet(NudgesOf(i)) /\ IsFiniteSet(Opening(i)) /\ IsFiniteSet(Instances)
      BY FS_Subset DEF NudgesOf, Opening, NudgesInv, NudgesAssumption
    <3>4. Cardinality(NudgesOf(i)') <= Cardinality(NudgesOf(i)) + 1
          /\ Cardinality(NudgesOf(i)') \in Nat /\ Cardinality(NudgesOf(i)) \in Nat
      <4>1. Cardinality(NudgesOf(i)) \in Nat /\ IsFiniteSet(NudgesOf(i) \cup {n})
        BY <3>3, FS_AddElement, FS_CardinalityType
      <4>2. Cardinality(NudgesOf(i) \cup {n})
              = IF n \in NudgesOf(i) THEN Cardinality(NudgesOf(i)) ELSE Cardinality(NudgesOf(i)) + 1
        BY <3>3, FS_AddElement
      <4>3. Cardinality(NudgesOf(i) \cup {n}) \in Nat
        BY <4>1, FS_CardinalityType
      <4> QED BY <3>1, <4>1, <4>2, <4>3
    <3>5. Cardinality(Opening(i)') = Cardinality(Opening(i)) - 1
          /\ Cardinality(Opening(i)) \in Nat
      BY <3>2, <3>3, FS_RemoveElement, FS_CardinalityType
    <3>6. Cardinality(Instances) \in Nat /\ Shared(i)
      BY <3>3, FS_CardinalityType DEF NudgesInv
    <3> QED BY <3>4, <3>5, <3>6 DEF Shared
  <2>2. CASE run[w].item # i
    <3>1. NudgesOf(i)' = NudgesOf(i)
      BY <2>2 DEF NudgesOf, SaveNudge
    <3>2. Opening(i)' = Opening(i)
      BY <2>2 DEF Opening, SaveNudge, SetRun, NudgesInv, NudgesTypeOK
    <3> QED BY <3>1, <3>2 DEF Shared, NudgesInv
  <2> QED BY <2>1, <2>2
<1> QED BY <1>1, <1>2

\* A conversation that gets its message is the same conversation.
LEMMA WroteOne ==
    ASSUME NudgesAssumption, NudgesInv, NEW w \in Instances, WriteMessage(w)
    PROVE  IsFiniteSet(nudges') /\ \A i \in Applications : Shared(i)'
<1> DEFINE f == [n \in nudges |-> IF n.id = run[w].id THEN [n EXCEPT !.message = TRUE] ELSE n]
<1>1. IsFiniteSet(nudges')
  <2>1. f \in Surjection(nudges, nudges')
    BY DEF WriteMessage, Surjection
  <2> QED BY <2>1, FS_Surjection DEF NudgesInv
<1>2. ASSUME NEW i \in Applications PROVE Shared(i)'
  <2> DEFINE g == [n \in NudgesOf(i) |-> f[n]]
  <2>1. \A n \in nudges : f[n].item = n.item
    BY DEF NudgesInv, NudgesTypeOK, Nudge
  <2>2. g \in Surjection(NudgesOf(i), NudgesOf(i)')
    <3>1. nudges' = {f[n] : n \in nudges}
      BY DEF WriteMessage
    <3> HIDE DEF f
    <3>2. NudgesOf(i)' = {f[n] : n \in NudgesOf(i)}
      BY <2>1, <3>1 DEF NudgesOf
    <3> QED BY <3>2 DEF Surjection
  <2>3. IsFiniteSet(NudgesOf(i)) /\ IsFiniteSet(Opening(i)) /\ IsFiniteSet(Instances)
    BY FS_Subset DEF NudgesOf, Opening, NudgesInv, NudgesAssumption
  <2> HIDE DEF g
  <2>4. Cardinality(NudgesOf(i)') <= Cardinality(NudgesOf(i)) /\ IsFiniteSet(NudgesOf(i)')
    BY <2>2, <2>3, FS_Surjection
  <2>5. Opening(i)' = Opening(i)
    BY DEF Opening, WriteMessage, SetRun, NudgesInv, NudgesTypeOK
  <2>6. Cardinality(NudgesOf(i)) \in Nat /\ Cardinality(NudgesOf(i)') \in Nat
        /\ Cardinality(Opening(i)) \in Nat /\ Cardinality(Instances) \in Nat /\ Shared(i)
    BY <2>3, <2>4, FS_CardinalityType DEF NudgesInv
  <2> QED BY <2>4, <2>5, <2>6 DEF Shared
<1> QED BY <1>1, <1>2

\* An instance begins to open one only when there is none.
LEMMA VisitedOne ==
    ASSUME NudgesAssumption, NudgesInv, NEW w \in Instances, Visit(w), NEW i \in Applications
    PROVE  Shared(i)'
<1>1. nudges' = nudges
  BY DEF Visit
<1>2. CASE NoNudge(i)
  <2>1. IsFiniteSet(Instances)
    BY DEF NudgesAssumption
  <2>2. NudgesOf(i)' = {}
    BY <1>1, <1>2 DEF NoNudge, NudgesOf
  <2>3. Cardinality(Opening(i)') <= Cardinality(Instances) /\ IsFiniteSet(Opening(i)')
    BY <2>1, FS_Subset DEF Opening
  <2>4. Cardinality(Opening(i)') \in Nat /\ Cardinality(NudgesOf(i)') = 0
    BY <2>2, <2>3, FS_EmptySet, FS_CardinalityType
  <2> QED BY <2>3, <2>4 DEF Shared
<1>3. CASE ~NoNudge(i)
  <2>1. Opening(i)' \subseteq Opening(i)
    <3>1. run'[w].pc # "save" \/ run'[w].item # i
      <4>1. CASE run[w].due = {}
        BY <4>1 DEF Visit, SetRun, NudgesInv, NudgesTypeOK
      <4>2. CASE run[w].due # {}
        <5>1. PICK k \in run[w].due :
                      SetRun(w, IF NoNudge(k)
                                THEN [pc |-> "save", at |-> run[w].at, left |-> run[w].left,
                                      due |-> run[w].due \ {k}, item |-> k]
                                ELSE [run[w] EXCEPT !.due = @ \ {k}])
          BY <4>2 DEF Visit
        <5>2. CASE NoNudge(k)
          BY <1>3, <5>1, <5>2 DEF SetRun, NudgesInv, NudgesTypeOK
        <5>3. CASE ~NoNudge(k)
          <6>1. run'[w] = [run[w] EXCEPT !.due = run[w].due \ {k}]
            BY <5>1, <5>3 DEF SetRun, NudgesInv, NudgesTypeOK
          <6>2. run[w].due \in SUBSET Applications
            BY Busy DEF Visit, NudgesInv, RunIdle
          <6> QED BY <6>1, <6>2, Visiting DEF Visit, NudgesInv
        <5> QED BY <5>2, <5>3
      <4> QED BY <4>1, <4>2
    <3>2. \A v \in Instances : v # w => run'[v] = run[v]
      BY DEF Visit, SetRun, NudgesInv, NudgesTypeOK
    <3> QED BY <3>1, <3>2 DEF Opening
  <2> QED BY <1>1, <2>1, StaysShared
<1> QED BY <1>2, <1>3

LEMMA SharedStep ==
    ASSUME NudgesAssumption, NudgesInv, [NudgesNext]_nudgeVars
    PROVE  IsFiniteSet(nudges') /\ \A i \in Applications : Shared(i)'
<1>1. ASSUME nudges' = nudges, \A i \in Applications : Opening(i)' \subseteq Opening(i)
      PROVE  IsFiniteSet(nudges') /\ \A i \in Applications : Shared(i)'
  BY <1>1, StaysShared DEF NudgesInv
<1>2. CASE NudgesTick \/ UNCHANGED nudgeVars \/ \E i \in Applications : Move(i)
  BY <1>1, <1>2 DEF NudgesTick, nudgeVars, Move, Opening
<1>3. ASSUME NEW w \in Instances, StartRun(w) \/ ListDue(w) \/ RunFails(w)
      PROVE  IsFiniteSet(nudges') /\ \A i \in Applications : Shared(i)'
  <2>1. run'[w].pc # "save" /\ nudges' = nudges
    BY <1>3 DEF StartRun, ListDue, RunFails, SetRun, RunIdle, NudgesInv, NudgesTypeOK
  <2>2. \A v \in Instances : v # w => run'[v] = run[v]
    BY <1>3 DEF StartRun, ListDue, RunFails, SetRun, NudgesInv, NudgesTypeOK
  <2> QED BY <1>1, <2>1, <2>2 DEF Opening
<1>4. ASSUME NEW w \in Instances, Visit(w)
      PROVE  IsFiniteSet(nudges') /\ \A i \in Applications : Shared(i)'
  BY <1>4, VisitedOne DEF Visit, NudgesInv
<1> QED BY <1>2, <1>3, <1>4, OpenedOne, WroteOne DEF NudgesNext

LEMMA InvInit == ASSUME NudgesAssumption, NudgesInit PROVE NudgesInv
<1>1. IsFiniteSet(nudges)
  BY FS_EmptySet DEF NudgesInit
<1>2. ASSUME NEW i \in Applications PROVE Shared(i)
  <2>1. NudgesOf(i) = {} /\ Opening(i) = {}
    BY DEF NudgesInit, NudgesOf, Opening, RunIdle
  <2>2. Cardinality(Instances) \in Nat
    BY FS_CardinalityType DEF NudgesAssumption
  <2> QED BY <2>1, <2>2, FS_EmptySet DEF Shared
<1> QED BY <1>1, <1>2, TypeInit DEF NudgesInv

LEMMA InvSafe == ASSUME NudgesAssumption, NudgesInv PROVE NudgesBounded
<1> SUFFICES ASSUME NEW i \in Applications
             PROVE  Cardinality(NudgesOf(i)) <= Cardinality(Instances)
  BY DEF NudgesBounded
<1>1. IsFiniteSet(NudgesOf(i)) /\ IsFiniteSet(Opening(i)) /\ IsFiniteSet(Instances)
  BY FS_Subset DEF NudgesOf, Opening, NudgesInv, NudgesAssumption
<1>2. Cardinality(NudgesOf(i)) \in Nat /\ Cardinality(Opening(i)) \in Nat
      /\ Cardinality(Instances) \in Nat /\ Shared(i)
  BY <1>1, FS_CardinalityType DEF NudgesInv
<1> QED BY <1>2 DEF Shared

-----------------------------------------------------------------------------
\* The variables of the follow-up job keep their types.
THEOREM NudgesTypeCorrect == ASSUME NudgesAssumption PROVE NudgesSpec => []NudgesTypeOK
<1>1. NudgesInit => NudgesInv
  BY InvInit
<1>2. NudgesInv /\ [NudgesNext]_nudgeVars => NudgesInv'
  BY TypeStep, SharedStep DEF NudgesInv
<1>3. NudgesInv => NudgesTypeOK
  BY DEF NudgesInv
<1> QED BY <1>1, <1>2, <1>3, PTL DEF NudgesSpec

\* However many runs, failures and status changes there are, an application is
\* asked about at most once by each instance.
THEOREM NudgesAreBounded == ASSUME NudgesAssumption PROVE NudgesSpec => []NudgesBounded
<1>1. NudgesInit => NudgesInv
  BY InvInit
<1>2. NudgesInv /\ [NudgesNext]_nudgeVars => NudgesInv'
  BY TypeStep, SharedStep DEF NudgesInv
<1>3. NudgesInv => NudgesBounded
  BY InvSafe
<1> QED BY <1>1, <1>2, <1>3, PTL DEF NudgesSpec

-----------------------------------------------------------------------------
(* No checkpoint slips. A run that is past a checkpoint has seen, or still   *)
(* holds, every application that is due at it; an application whose status  *)
(* changes is due at none, because no checkpoint is on the day itself.      *)

Asked(i) == NudgesOf(i) # {}

\* The run will still look for a conversation of i, or is opening one.
Asks(state, i) ==
    \/ state.pc \in {"visit", "save", "write"} /\ i \in state.due
    \/ state.pc = "save" /\ state.item = i

PastAsked(state) ==
    \A i \in Applications, d \in Checkpoints :
        state.pc # "idle" /\ d \notin state.left /\ Due(i, state.at, d)
            => Asked(i) \/ Asks(state, i)

\* The same of the state a run goes to, in a step that leaves the items alone.
WillHaveAsked(state) ==
    \A i \in Applications, d \in Checkpoints :
        state.pc # "idle" /\ d \notin state.left /\ Due(i, state.at, d)
            => Asked(i)' \/ Asks(state, i)

FinishedAsked ==
    \A i \in Applications, d \in Checkpoints, t \in finished : Due(i, t, d) => Asked(i)

NoLaterStarts ==
    /\ \A w \in Instances : run[w].pc # "idle" => run[w].at <= now
    /\ \A t \in finished : t <= now

SlipInv ==
    /\ NoLaterStarts
    /\ \A w \in Instances : PastAsked(run[w])
    /\ FinishedAsked

\* A conversation is never removed.
LEMMA AskedStays ==
    ASSUME NudgesTypeOK, [NudgesNext]_nudgeVars, NEW i, Asked(i)
    PROVE  Asked(i)'
<1>1. CASE nudges' = nudges
  BY <1>1 DEF Asked, NudgesOf
<1>2. ASSUME NEW w \in Instances, SaveNudge(w) PROVE Asked(i)'
  BY <1>2 DEF SaveNudge, Asked, NudgesOf
<1>3. ASSUME NEW w \in Instances, WriteMessage(w) PROVE Asked(i)'
  <2>1. PICK n \in nudges : n.item = i
    BY DEF Asked, NudgesOf
  <2> DEFINE m == IF n.id = run[w].id THEN [n EXCEPT !.message = TRUE] ELSE n
  <2>2. m \in nudges'
    BY <1>3 DEF WriteMessage
  <2>3. m.item = i
    BY <2>1 DEF NudgesTypeOK, Nudge
  <2> QED BY <2>2, <2>3 DEF Asked, NudgesOf
<1> QED BY <1>1, <1>2, <1>3 DEF NudgesNext, nudgeVars, NudgesTick, Move, StartRun, ListDue, Visit, RunFails

\* While the items stay as they are, one run's next state is all there is to
\* look at.
LEMMA PastAskedStep ==
    ASSUME NudgesTypeOK, [NudgesNext]_nudgeVars, SlipInv, radar' = radar,
           NEW w \in Instances, NEW state, SetRun(w, state), WillHaveAsked(state)
    PROVE  \A v \in Instances : PastAsked(run[v])'
<1> SUFFICES ASSUME NEW v \in Instances PROVE PastAsked(run[v])'
  OBVIOUS
<1>1. CASE v = w
  <2>1. run'[v] = state
    BY <1>1 DEF SetRun, NudgesTypeOK
  <2> QED BY <2>1 DEF PastAsked, WillHaveAsked, Asks, Due
<1>2. CASE v # w
  <2>1. run'[v] = run[v] /\ PastAsked(run[v])
    BY <1>2 DEF SetRun, NudgesTypeOK, SlipInv
  <2> QED BY <2>1, AskedStays DEF PastAsked, Asks, Due
<1> QED BY <1>1, <1>2

LEMMA FinishedStep ==
    ASSUME NudgesTypeOK, [NudgesNext]_nudgeVars, SlipInv, radar' = radar,
           \A i \in Applications, d \in Checkpoints, t \in finished' \ finished :
              Due(i, t, d) => Asked(i)
    PROVE  FinishedAsked'
<1> SUFFICES ASSUME NEW i \in Applications, NEW d \in Checkpoints, NEW t \in finished', Due(i, t, d)
             PROVE  Asked(i)'
  BY DEF FinishedAsked, Due
<1>1. Asked(i)
  BY DEF SlipInv, FinishedAsked
<1> QED BY <1>1, AskedStays

\* A change of status starts the clock again, after every run's start.
LEMMA MovedIsNotDue ==
    ASSUME NudgesAssumption, NudgesTypeOK, NEW i \in Applications, Move(i), SlipInv
    PROVE  SlipInv'
<1>1. PICK applied \in BOOLEAN : radar' = [radar EXCEPT ![i] = [applied |-> applied, since |-> now]]
  BY DEF Move
<1>2. UNCHANGED <<now, nudges, run, finished>>
  BY DEF Move
<1>3. \A k : Asked(k)' = Asked(k)
  BY <1>2 DEF Asked, NudgesOf
<1>4. ASSUME NEW k \in Applications, NEW d \in Checkpoints, NEW t \in Nat, t <= now, Due(k, t, d)'
      PROVE  Due(k, t, d)
  <2>1. CASE k = i
    <3>1. radar'[k].since = now
      BY <1>1, <2>1 DEF NudgesTypeOK
    <3>2. now + d <= t
      BY <1>4, <3>1 DEF Due
    <3>3. d \in Nat \ {0} /\ now \in Nat
      BY DEF NudgesAssumption, NudgesTypeOK
    <3> QED BY <1>4, <3>2, <3>3
  <2>2. CASE k # i
    BY <1>1, <1>4, <2>2 DEF Due, NudgesTypeOK
  <2> QED BY <2>1, <2>2
<1>5. \A w \in Instances : run[w].pc # "idle" => run[w].at \in Nat /\ run[w].at <= now
  BY Busy DEF SlipInv, NoLaterStarts, RunIdle
<1>6. \A t \in finished : t \in Nat /\ t <= now
  BY DEF SlipInv, NoLaterStarts, NudgesTypeOK
<1>7. \A w \in Instances : PastAsked(run[w])'
  BY <1>2, <1>3, <1>4, <1>5 DEF SlipInv, PastAsked, Asks
<1>8. FinishedAsked'
  BY <1>2, <1>3, <1>4, <1>6 DEF SlipInv, FinishedAsked
<1>9. NoLaterStarts'
  BY <1>2 DEF SlipInv, NoLaterStarts
<1> QED BY <1>7, <1>8, <1>9 DEF SlipInv

LEMMA NoLaterStep ==
    ASSUME NudgesAssumption, NudgesTypeOK, [NudgesNext]_nudgeVars, NoLaterStarts
    PROVE  NoLaterStarts'
<1>0. run \in [Instances -> Run] /\ now \in Nat
  BY DEF NudgesTypeOK
<1>1. CASE NudgesTick
  <2>1. now' = now + 1 /\ UNCHANGED <<run, finished>>
    BY <1>1 DEF NudgesTick
  <2>2. \A w \in Instances : run[w].pc # "idle" => run[w].at \in Nat
    BY Busy DEF RunIdle
  <2> QED BY <1>0, <2>1, <2>2 DEF NoLaterStarts, NudgesTypeOK
<1>2. ASSUME NEW w \in Instances, NEW state, SetRun(w, state), now' = now,
             state.pc # "idle" => state.at <= now,
             \A t \in finished' : t \in finished \/ t <= now
      PROVE  NoLaterStarts'
  BY <1>0, <1>2 DEF NoLaterStarts, SetRun
<1>3. ASSUME NEW w \in Instances, StartRun(w) PROVE NoLaterStarts'
  BY <1>0, <1>2, <1>3 DEF StartRun, NoLaterStarts
<1>4. ASSUME NEW w \in Instances, ListDue(w) PROVE NoLaterStarts'
  <2>1. run[w].at <= now /\ now' = now
    BY <1>4 DEF ListDue, NoLaterStarts
  <2>2. CASE run[w].left = {}
    BY <1>2, <1>4, <2>1, <2>2 DEF ListDue, Finishes, RunIdle
  <2>3. CASE run[w].left # {}
    BY <1>2, <1>4, <2>1, <2>3 DEF ListDue
  <2> QED BY <2>2, <2>3
<1>5. ASSUME NEW w \in Instances, Visit(w) PROVE NoLaterStarts'
  <2>1. run[w].at <= now /\ UNCHANGED <<now, finished>>
    BY <1>5 DEF Visit, NoLaterStarts
  <2>2. CASE run[w].due = {}
    BY <1>2, <1>5, <2>1, <2>2 DEF Visit
  <2>3. CASE run[w].due # {}
    <3>1. PICK i \in run[w].due :
                  SetRun(w, IF NoNudge(i)
                            THEN [pc |-> "save", at |-> run[w].at, left |-> run[w].left,
                                  due |-> run[w].due \ {i}, item |-> i]
                            ELSE [run[w] EXCEPT !.due = @ \ {i}])
      BY <1>5, <2>3 DEF Visit
    <3>2. CASE NoNudge(i)
      BY <1>2, <2>1, <3>1, <3>2
    <3>3. CASE ~NoNudge(i)
      <4> DEFINE state == [run[w] EXCEPT !.due = run[w].due \ {i}]
      <4>1. run[w].due \in SUBSET Applications
        BY <1>5, Busy DEF Visit, RunIdle
      <4>2. state.at = run[w].at /\ SetRun(w, state)
        BY <1>5, <3>1, <3>3, <4>1, Visiting DEF Visit
      <4> HIDE DEF state
      <4> QED BY <1>2, <2>1, <4>2
    <3> QED BY <3>2, <3>3
  <2> QED BY <2>2, <2>3
<1>6. ASSUME NEW w \in Instances, SaveNudge(w) PROVE NoLaterStarts'
  <2>1. run[w].at <= now /\ UNCHANGED <<now, finished>>
    BY <1>6 DEF SaveNudge, NoLaterStarts
  <2> QED BY <1>2, <1>6, <2>1 DEF SaveNudge
<1>7. ASSUME NEW w \in Instances, WriteMessage(w) PROVE NoLaterStarts'
  <2>1. run[w].at <= now /\ UNCHANGED <<now, finished>>
    BY <1>7 DEF WriteMessage, NoLaterStarts
  <2> QED BY <1>2, <1>7, <2>1 DEF WriteMessage
<1>8. ASSUME NEW w \in Instances, RunFails(w) PROVE NoLaterStarts'
  BY <1>2, <1>8 DEF RunFails, RunIdle
<1>9. CASE UNCHANGED nudgeVars \/ \E i \in Applications : Move(i)
  BY <1>9 DEF nudgeVars, Move, NoLaterStarts
<1> QED BY <1>1, <1>3, <1>4, <1>5, <1>6, <1>7, <1>8, <1>9 DEF NudgesNext

LEMMA SlipStep ==
    ASSUME NudgesAssumption, NudgesTypeOK, SlipInv, [NudgesNext]_nudgeVars
    PROVE  SlipInv'
<1>0. run \in [Instances -> Run] /\ NoLaterStarts'
  BY NoLaterStep DEF NudgesTypeOK, SlipInv
<1>1. CASE UNCHANGED <<radar, nudges, run, finished>>
  BY <1>0, <1>1 DEF SlipInv, PastAsked, Asks, FinishedAsked, Asked, NudgesOf, Due
<1>2. ASSUME NEW w \in Instances, NEW state, SetRun(w, state), WillHaveAsked(state),
             radar' = radar, finished' = finished
      PROVE  SlipInv'
  <2>1. FinishedAsked'
    BY <1>2, FinishedStep
  <2>2. \A v \in Instances : PastAsked(run[v])'
    BY <1>2, PastAskedStep
  <2> QED BY <1>0, <2>1, <2>2 DEF SlipInv
<1>3. ASSUME NEW w \in Instances, StartRun(w) PROVE SlipInv'
  <2> DEFINE state == [pc |-> "list", at |-> now, left |-> Checkpoints]
  <2>1. WillHaveAsked(state)
    BY <1>3 DEF StartRun, WillHaveAsked
  <2> QED BY <1>2, <1>3, <2>1 DEF StartRun
<1>4. ASSUME NEW w \in Instances, ListDue(w) PROVE SlipInv'
  <2>1. /\ UNCHANGED <<radar, nudges, now>> /\ run[w].pc = "list" /\ PastAsked(run[w])
        /\ \A i : Asked(i)' = Asked(i)
    BY <1>4 DEF ListDue, SlipInv, Asked, NudgesOf
  <2>2. CASE run[w].left = {}
    <3>1. SetRun(w, RunIdle) /\ Finishes(run[w].at)
      BY <1>4, <2>2 DEF ListDue
    <3>2. \A i \in Applications, d \in Checkpoints, t \in finished' \ finished : Due(i, t, d) => Asked(i)
      BY <2>1, <2>2, <3>1 DEF Finishes, PastAsked, Asks
    <3>3. WillHaveAsked(RunIdle)
      BY DEF WillHaveAsked, RunIdle
    <3> QED BY <1>0, <2>1, <3>1, <3>2, <3>3, FinishedStep, PastAskedStep DEF SlipInv
  <2>3. CASE run[w].left # {}
    <3> DEFINE d == NextCheckpoint(run[w].left)
               due == {i \in Applications : Due(i, run[w].at, d)}
               state == [pc |-> "visit", at |-> run[w].at, left |-> run[w].left \ {d}, due |-> due]
    <3>1. SetRun(w, state) /\ finished' = finished
      BY <1>4, <2>3 DEF ListDue
    <3>2. ASSUME NEW i \in Applications, NEW e \in Checkpoints,
                 e \notin run[w].left \ {d}, Due(i, run[w].at, e)
          PROVE  Asked(i)' \/ i \in due
      <4>1. CASE e \notin run[w].left
        BY <2>1, <3>2, <4>1 DEF PastAsked, Asks
      <4>2. CASE e = d
        BY <3>2, <4>2
      <4> QED BY <3>2, <4>1, <4>2
    <3> HIDE DEF due, d
    <3>3. WillHaveAsked(state)
      BY <2>1, <3>2 DEF PastAsked, WillHaveAsked, Asks
    <3> QED BY <1>2, <2>1, <3>1, <3>3
  <2> QED BY <2>2, <2>3
<1>5. ASSUME NEW w \in Instances, Visit(w) PROVE SlipInv'
  <2>1. /\ UNCHANGED <<radar, nudges, now, finished>> /\ run[w].pc = "visit" /\ PastAsked(run[w])
        /\ \A i : Asked(i)' = Asked(i)
    BY <1>5 DEF Visit, SlipInv, Asked, NudgesOf
  <2>2. CASE run[w].due = {}
    <3> DEFINE state == [pc |-> "list", at |-> run[w].at, left |-> run[w].left]
    <3>1. SetRun(w, state)
      BY <1>5, <2>2 DEF Visit
    <3>2. WillHaveAsked(state)
      BY <2>1, <2>2 DEF PastAsked, WillHaveAsked, Asks
    <3> QED BY <1>2, <2>1, <3>1, <3>2
  <2>3. CASE run[w].due # {}
    <3>1. PICK i \in run[w].due :
                  SetRun(w, IF NoNudge(i)
                            THEN [pc |-> "save", at |-> run[w].at, left |-> run[w].left,
                                  due |-> run[w].due \ {i}, item |-> i]
                            ELSE [run[w] EXCEPT !.due = @ \ {i}])
      BY <1>5, <2>3 DEF Visit
    <3>2. CASE NoNudge(i)
      <4> DEFINE state == [pc |-> "save", at |-> run[w].at, left |-> run[w].left,
                           due |-> run[w].due \ {i}, item |-> i]
      <4>1. WillHaveAsked(state)
        BY <2>1 DEF PastAsked, WillHaveAsked, Asks
      <4> QED BY <1>2, <2>1, <3>1, <3>2, <4>1
    <3>3. CASE ~NoNudge(i)
      <4> DEFINE due == run[w].due \ {i}
                 state == [run[w] EXCEPT !.due = due]
      <4>1. due \in SUBSET Applications
        BY <2>1, Busy DEF RunIdle
      <4>2. state = [pc |-> "visit", at |-> run[w].at, left |-> run[w].left, due |-> due]
        BY <2>1, <4>1, Visiting
      <4>3. SetRun(w, state)
        BY <3>1, <3>3
      <4>4. Asked(i)
        BY <3>3 DEF NoNudge, Asked
      <4> HIDE DEF state
      <4>5. WillHaveAsked(state)
        BY <2>1, <4>2, <4>4 DEF PastAsked, WillHaveAsked, Asks
      <4> QED BY <1>2, <2>1, <4>3, <4>5
    <3> QED BY <3>2, <3>3
  <2> QED BY <2>2, <2>3
<1>6. ASSUME NEW w \in Instances, SaveNudge(w) PROVE SlipInv'
  <2> DEFINE state == [pc |-> "write", at |-> run[w].at, left |-> run[w].left, due |-> run[w].due,
                       id |-> NextNudge]
  <2>1. /\ UNCHANGED <<radar, finished>> /\ run[w].pc = "save" /\ PastAsked(run[w])
        /\ SetRun(w, state)
    BY <1>6 DEF SaveNudge, SlipInv
  <2>2. \A i : Asked(i) \/ i = run[w].item => Asked(i)'
    <3> DEFINE n == [id |-> NextNudge, item |-> run[w].item, message |-> FALSE]
    <3>1. n \in nudges' /\ n.item = run[w].item
      BY <1>6 DEF SaveNudge
    <3> HIDE DEF n
    <3>2. ASSUME NEW i, i = run[w].item PROVE Asked(i)'
      BY <3>1, <3>2 DEF Asked, NudgesOf
    <3> QED BY <3>2, AskedStays
  <2>3. WillHaveAsked(state)
    BY <2>1, <2>2 DEF PastAsked, WillHaveAsked, Asks
  <2> HIDE DEF state
  <2> QED BY <1>2, <2>1, <2>3
<1>7. ASSUME NEW w \in Instances, WriteMessage(w) PROVE SlipInv'
  <2> DEFINE state == [pc |-> "visit", at |-> run[w].at, left |-> run[w].left, due |-> run[w].due]
  <2>1. /\ UNCHANGED <<radar, finished>> /\ run[w].pc = "write" /\ PastAsked(run[w])
        /\ SetRun(w, state)
    BY <1>7 DEF WriteMessage, SlipInv
  <2>2. \A i : Asked(i) => Asked(i)'
    BY AskedStays
  <2>3. WillHaveAsked(state)
    BY <2>1, <2>2 DEF PastAsked, WillHaveAsked, Asks
  <2> HIDE DEF state
  <2> QED BY <1>2, <2>1, <2>3
<1>8. ASSUME NEW w \in Instances, RunFails(w) PROVE SlipInv'
  <2>1. WillHaveAsked(RunIdle)
    BY DEF WillHaveAsked, RunIdle
  <2> QED BY <1>2, <1>8, <2>1 DEF RunFails
<1>9. CASE NudgesTick \/ UNCHANGED nudgeVars
  BY <1>1, <1>9 DEF NudgesTick, nudgeVars
<1> QED BY <1>3, <1>4, <1>5, <1>6, <1>7, <1>8, <1>9, MovedIsNotDue DEF NudgesNext

\* Two runs that went through, no more than an hour apart, let no checkpoint
\* slip between them: an application still waiting has its conversation.
THEOREM CheckpointsHold == ASSUME NudgesAssumption PROVE NudgesSpec => []NoCheckpointSlips
<1>1. NudgesInit => SlipInv
  BY DEF NudgesInit, SlipInv, NoLaterStarts, PastAsked, FinishedAsked, RunIdle
<1>2. NudgesTypeOK /\ SlipInv /\ [NudgesNext]_nudgeVars => SlipInv'
  BY SlipStep
<1>3. NudgesTypeOK /\ SlipInv => NoCheckpointSlips
  <2> SUFFICES ASSUME NudgesTypeOK, SlipInv,
                      NEW i \in Applications, NEW d \in Checkpoints,
                      NEW before \in finished, NEW after \in finished,
                      radar[i].applied, before < radar[i].since + d,
                      radar[i].since + d <= after, after <= before + Hour
               PROVE  NudgesOf(i) # {}
    BY DEF NoCheckpointSlips
  <2>1. before \in Nat /\ after \in Nat /\ radar[i].since \in Nat /\ d \in Nat /\ Hour \in Nat
    BY DEF NudgesTypeOK, NudgesAssumption
  <2>2. Due(i, after, d)
    BY <2>1 DEF Due
  <2> QED BY <2>2 DEF SlipInv, FinishedAsked, Asked
<1> QED BY <1>1, <1>2, <1>3, NudgesTypeCorrect, PTL DEF NudgesSpec

-----------------------------------------------------------------------------
(* Recommendations                                                          *)
Mailing ==
    {MailingIdle}
    \cup [pc : {"next"}, left : SUBSET Readers, day : Days]
    \cup [pc : {"build"}, left : SUBSET Readers, day : Days, user : Readers]
    \cup [pc : {"send"}, left : SUBSET Readers, day : Days, user : Readers, reco : Recos]

Reply == {ReplyIdle} \cup [pc : {"save"}, reco : Recos, keys : SUBSET Keys]

RecoTypes == RecoTypeOK /\ mailing \in [Mailers -> Mailing]

LEMMA MailingType == ASSUME NEW m \in Mailers, NEW state \in Mailing, RecoTypes, SetMailing(m, state)
                     PROVE  mailing' \in [Mailers -> Mailing]
  BY DEF RecoTypes, SetMailing

LEMMA MailingOk == ASSUME NEW m \in Mailers, mailing \in [Mailers -> Mailing]
                   PROVE  \/ mailing[m] = MailingIdle
                          \/ /\ mailing[m].pc \in {"next", "build", "send"}
                             /\ mailing[m].left \subseteq Readers /\ mailing[m].day \in Days
                             /\ mailing[m].pc # "next" => mailing[m].user \in Readers
                             /\ mailing[m].pc = "send" => mailing[m].reco \in Recos
  BY DEF Mailing

LEMMA AtNext == ASSUME NEW m \in Mailers, RecoTypes, mailing[m].pc = "next", NEW left
                PROVE  [mailing[m] EXCEPT !.left = left]
                         = [pc |-> "next", left |-> left, day |-> mailing[m].day]
<1>1. mailing[m] \in [pc : {"next"}, left : SUBSET Readers, day : Days]
  BY DEF RecoTypes, Mailing, MailingIdle
<1> QED BY <1>1

\* A step of a run leaves the requests alone, and keeps the types.
LEMMA MailingTypes ==
    ASSUME RecommendationAssumption, RecoTypes, NEW m \in Mailers,
           NEW state \in Mailing, SetMailing(m, state),
           paying' = paying, today' = today, feedback' = feedback, reply' = reply,
           changes' = changes, overlapped' = overlapped,
           mailedDay' \in [Mailers -> 0..(MaxDay + 1)],
           recos' \subseteq [id : Recos, user : Readers],
           mails' \subseteq [user : Readers, reco : Recos, day : Days, by : Mailers, run : Days]
    PROVE  RecoTypes'
<1>1. mailing' \in [Mailers -> Mailing]
  BY MailingType
<1>2. \A k \in Mailers :
          \/ mailing'[k] = MailingIdle
          \/ /\ mailing'[k].pc \in {"next", "build", "send"}
             /\ mailing'[k].left \subseteq Readers /\ mailing'[k].day \in Days
             /\ mailing'[k].pc # "next" => mailing'[k].user \in Readers
             /\ mailing'[k].pc = "send" => mailing'[k].reco \in Recos
  BY <1>1 DEF Mailing
<1> QED BY <1>1, <1>2 DEF RecoTypes, RecoTypeOK

LEMMA LoadTypes == ASSUME RecommendationAssumption, RecoTypes, NEW q \in Replies, NEW r \in Recos,
                          NEW keys \in SUBSET Keys, Load(q, r, keys)
                   PROVE  RecoTypes'
<1>1. reply' \in [Replies -> Reply] /\ overlapped' \subseteq Recos
  BY DEF RecoTypes, RecoTypeOK, Load, Reply
<1> QED BY <1>1 DEF RecoTypes, RecoTypeOK, Load, Reply

LEMMA KeysOfRow == ASSUME RecoTypes, NEW r \in Recos, NEW given \in SUBSET {"liked", "reason"}
                   PROVE  /\ feedback[r] \cup {"clickedAt"} \in SUBSET Keys
                          /\ (feedback[r] \ {"liked", "reason"}) \cup given \in SUBSET Keys
  BY DEF RecoTypes, RecoTypeOK, Keys

LEMMA MailedType == ASSUME RecoTypes, NEW m \in Mailers, mailing[m].pc = "send"
                    PROVE  Mailed(m) \subseteq [user : Readers, reco : Recos, day : Days,
                                                by : Mailers, run : Days]
<1>1. /\ mailing[m].user \in Readers /\ mailing[m].reco \in Recos /\ mailing[m].day \in Days
      /\ today \in Days
  BY MailingOk DEF RecoTypes, RecoTypeOK, MailingIdle
<1>2. [user |-> mailing[m].user, reco |-> mailing[m].reco, day |-> today,
       by |-> m, run |-> mailing[m].day] \in [user : Readers, reco : Recos, day : Days,
                                              by : Mailers, run : Days]
  BY <1>1
<1> QED BY <1>2 DEF Mailed, RecoTypes, RecoTypeOK

LEMMA TypesInit == ASSUME RecommendationAssumption, RecoInit PROVE RecoTypes
  BY DEF RecommendationAssumption, RecoInit, RecoTypes, RecoTypeOK, Mailing, Days, Recos

LEMMA TypesStep == ASSUME RecommendationAssumption, RecoTypes, [RecoNext]_recoVars
                   PROVE  RecoTypes'
<1>1. CASE NextDay
  BY <1>1 DEF RecommendationAssumption, NextDay, RecoTypes, RecoTypeOK, Days
<1>2. ASSUME NEW u \in Readers, Subscribes(u) PROVE RecoTypes'
  BY <1>2 DEF RecommendationAssumption, Subscribes, RecoTypes, RecoTypeOK
<1>3. ASSUME NEW u \in Readers, Build(u) PROVE RecoTypes'
  BY <1>3 DEF Build, AddReco, RecoTypes, RecoTypeOK
<1>4. ASSUME NEW m \in Mailers, StartMailing(m) PROVE RecoTypes'
  <2>1. [pc |-> "next", left |-> paying, day |-> today] \in Mailing
    BY DEF Mailing, RecoTypes, RecoTypeOK
  <2>2. mailedDay' \in [Mailers -> 0..(MaxDay + 1)]
    BY <1>4 DEF RecommendationAssumption, StartMailing, RecoTypes, RecoTypeOK, Days
  <2> QED BY <1>4, <2>1, <2>2, MailingTypes DEF StartMailing, RecoTypes, RecoTypeOK
<1>5. ASSUME NEW m \in Mailers, NextReader(m) PROVE RecoTypes'
  <2>1. mailing[m].left \in SUBSET Readers /\ mailing[m].day \in Days
    BY <1>5, MailingOk DEF NextReader, RecoTypes, MailingIdle
  <2>2. MailingIdle \in Mailing
    BY DEF Mailing
  <2>3. ASSUME NEW u \in mailing[m].left
        PROVE  /\ [mailing[m] EXCEPT !.left = mailing[m].left \ {u}] \in Mailing
               /\ [pc |-> "build", left |-> [mailing[m] EXCEPT !.left = mailing[m].left \ {u}].left,
                   day |-> [mailing[m] EXCEPT !.left = mailing[m].left \ {u}].day, user |-> u]
                      \in Mailing
    <3>1. [mailing[m] EXCEPT !.left = mailing[m].left \ {u}]
             = [pc |-> "next", left |-> mailing[m].left \ {u}, day |-> mailing[m].day]
      BY <1>5, AtNext DEF NextReader
    <3> QED BY <2>1, <3>1 DEF Mailing
  <2>4. \E state \in Mailing : SetMailing(m, state)
    BY <1>5, <2>2, <2>3 DEF NextReader
  <2> QED BY <1>5, <2>4, MailingTypes DEF NextReader, RecoTypes, RecoTypeOK
<1> DEFINE Rest(m) == [pc |-> "next", left |-> mailing[m].left, day |-> mailing[m].day]
<1>6. ASSUME NEW m \in Mailers, mailing[m].pc \in {"build", "send"} PROVE Rest(m) \in Mailing
  BY <1>6, MailingOk DEF Mailing, RecoTypes, MailingIdle
<1>7. ASSUME NEW m \in Mailers, BuildReco(m) PROVE RecoTypes'
  <2>1. /\ mailing[m].left \subseteq Readers /\ mailing[m].day \in Days
        /\ mailing[m].user \in Readers /\ NextReco \in Recos
    BY <1>7, MailingOk DEF BuildReco, AddReco, RecoTypes, MailingIdle
  <2>2. [pc |-> "send", left |-> mailing[m].left, day |-> mailing[m].day,
         user |-> mailing[m].user, reco |-> NextReco] \in Mailing
    BY <2>1 DEF Mailing
  <2>3. \E state \in Mailing : SetMailing(m, state)
    BY <1>6, <1>7, <2>2 DEF BuildReco, TakeNext
  <2>4. recos' \subseteq [id : Recos, user : Readers]
    BY <1>7, <2>1 DEF BuildReco, AddReco, RecoTypes, RecoTypeOK
  <2> QED BY <1>7, <2>3, <2>4, MailingTypes DEF BuildReco, RecoTypes, RecoTypeOK
<1>8. ASSUME NEW m \in Mailers, SendMail(m) PROVE RecoTypes'
  <2>1. SetMailing(m, Rest(m)) /\ Rest(m) \in Mailing
    BY <1>6, <1>8 DEF SendMail, TakeNext
  <2> HIDE DEF Rest
  <2> QED BY <1>8, <2>1, MailingTypes, MailedType DEF SendMail, RecoTypes, RecoTypeOK
<1>9. ASSUME NEW m \in Mailers, MailFails(m) PROVE RecoTypes'
  <2>1. SetMailing(m, Rest(m)) /\ Rest(m) \in Mailing
    BY <1>6, <1>9 DEF MailFails, TakeNext
  <2> HIDE DEF Rest
  <2> QED BY <1>9, <2>1, MailingTypes, MailedType DEF MailFails, RecoTypes, RecoTypeOK
<1>10. ASSUME NEW m \in Mailers, MailingStops(m) PROVE RecoTypes'
  <2>1. MailingIdle \in Mailing
    BY DEF Mailing
  <2> QED BY <1>10, <2>1, MailingTypes DEF MailingStops, RecoTypes, RecoTypeOK
<1>11. ASSUME NEW q \in Replies, NEW mail \in mails, Click(q, mail) PROVE RecoTypes'
  <2>1. mail.reco \in Recos
    BY DEF RecoTypes, RecoTypeOK
  <2>2. feedback[mail.reco] \cup {"clickedAt"} \in SUBSET Keys
    BY <2>1, KeysOfRow
  <2> QED BY <1>11, <2>1, <2>2, LoadTypes DEF Click
<1>12. ASSUME NEW q \in Replies, NEW r \in recos, NEW given \in SUBSET {"liked", "reason"},
              Feedback(q, r.id, given)
       PROVE  RecoTypes'
  <2>1. r.id \in Recos
    BY DEF RecoTypes, RecoTypeOK
  <2>2. (feedback[r.id] \ {"liked", "reason"}) \cup given \in SUBSET Keys
    BY <2>1, KeysOfRow
  <2> QED BY <1>12, <2>1, <2>2, LoadTypes DEF Feedback
<1>13. ASSUME NEW q \in Replies, SaveFeedback(q) PROVE RecoTypes'
  <2>1. reply[q].reco \in Recos /\ reply[q].keys \in SUBSET Keys
    BY <1>13 DEF SaveFeedback, ReplyIdle, RecoTypes, RecoTypeOK
  <2>2. feedback' \in [Recos -> SUBSET Keys] /\ reply' \in [Replies -> Reply]
    BY <1>13, <2>1 DEF SaveFeedback, RecoTypes, RecoTypeOK, Reply
  <2> QED BY <1>13, <2>2 DEF SaveFeedback, RecoTypes, RecoTypeOK, Reply
<1>14. ASSUME NEW q \in Replies, ReplyFails(q) PROVE RecoTypes'
  BY <1>14 DEF ReplyFails, RecoTypes, RecoTypeOK
<1>15. CASE UNCHANGED recoVars
  BY <1>15 DEF recoVars, RecoTypes, RecoTypeOK
<1> QED BY <1>1, <1>2, <1>3, <1>4, <1>5, <1>7, <1>8, <1>9, <1>10, <1>11, <1>12, <1>13, <1>14, <1>15
        DEF RecoNext

-----------------------------------------------------------------------------
\* While no two requests held a copy of the row at once, the copy a request
\* holds is the only one, and has the click if the row has.
CopiesFaithful ==
    \A q \in Replies : reply[q].pc = "save" /\ reply[q].reco \notin overlapped =>
        /\ \A other \in Replies \ {q} :
              ~(reply[other].pc = "save" /\ reply[other].reco = reply[q].reco)
        /\ "clickedAt" \in feedback[reply[q].reco] => "clickedAt" \in reply[q].keys

FeedbackInv == RecoTypes /\ CopiesFaithful

LEMMA LoadFaithful ==
    ASSUME FeedbackInv, NEW q \in Replies, NEW r \in Recos, NEW keys \in SUBSET Keys,
           "clickedAt" \in feedback[r] => "clickedAt" \in keys, Load(q, r, keys)
    PROVE  CopiesFaithful'
<1>1. /\ reply' \in [Replies -> Reply] /\ reply \in [Replies -> Reply]
      /\ reply'[q] = [pc |-> "save", reco |-> r, keys |-> keys]
      /\ \A p \in Replies : p # q => reply'[p] = reply[p]
      /\ feedback' = feedback
  BY DEF FeedbackInv, RecoTypes, RecoTypeOK, Load, Reply
<1>2. reply[q].pc # "save"
  BY DEF Load, ReplyIdle
<1>3. overlapped \subseteq overlapped'
  BY DEF Load
<1>4. ASSUME NEW p \in Replies, reply[p].pc = "save", reply[p].reco = r PROVE r \in overlapped'
  BY <1>4 DEF Load
<1>5. ASSUME NEW p \in Replies, reply'[p].pc = "save", reply'[p].reco \notin overlapped',
             NEW other \in Replies \ {p}
      PROVE  ~(reply'[other].pc = "save" /\ reply'[other].reco = reply'[p].reco)
  <2>1. CASE p = q
    BY <1>1, <1>4, <1>5, <2>1
  <2>2. CASE other = q
    BY <1>1, <1>4, <1>5, <2>2
  <2>3. CASE p # q /\ other # q
    BY <1>1, <1>3, <1>5, <2>3 DEF FeedbackInv, CopiesFaithful
  <2> QED BY <2>1, <2>2, <2>3
<1>6. ASSUME NEW p \in Replies, reply'[p].pc = "save", reply'[p].reco \notin overlapped',
             "clickedAt" \in feedback'[reply'[p].reco]
      PROVE  "clickedAt" \in reply'[p].keys
  <2>1. CASE p = q
    BY <1>1, <1>6, <2>1
  <2>2. CASE p # q
    BY <1>1, <1>3, <1>6, <2>2 DEF FeedbackInv, CopiesFaithful
  <2> QED BY <2>1, <2>2
<1> QED BY <1>5, <1>6 DEF CopiesFaithful

LEMMA SavedAlone ==
    ASSUME FeedbackInv, NEW q \in Replies, SaveFeedback(q)
    PROVE  /\ CopiesFaithful'
           /\ \A r \in Recos : "clickedAt" \in feedback[r] =>
                  "clickedAt" \in feedback'[r] \/ r \in overlapped
<1>1. /\ reply[q].pc = "save" /\ reply[q].reco \in Recos
      /\ feedback'[reply[q].reco] = reply[q].keys
      /\ \A r \in Recos : r # reply[q].reco => feedback'[r] = feedback[r]
      /\ reply'[q] = ReplyIdle /\ \A p \in Replies : p # q => reply'[p] = reply[p]
      /\ overlapped' = overlapped
  BY DEF SaveFeedback, FeedbackInv, RecoTypes, RecoTypeOK, ReplyIdle
<1>2. \A p \in Replies : reply[p].pc = "save" => reply[p].reco \in Recos
  BY DEF FeedbackInv, RecoTypes, RecoTypeOK, ReplyIdle
<1>3. CopiesFaithful'
  <2> SUFFICES ASSUME NEW p \in Replies, reply'[p].pc = "save", reply'[p].reco \notin overlapped'
               PROVE  /\ \A other \in Replies \ {p} :
                            ~(reply'[other].pc = "save" /\ reply'[other].reco = reply'[p].reco)
                      /\ "clickedAt" \in feedback'[reply'[p].reco] => "clickedAt" \in reply'[p].keys
    BY DEF CopiesFaithful
  <2>1. p # q /\ reply'[p] = reply[p] /\ reply[p].reco \in Recos
    BY <1>1, <1>2 DEF ReplyIdle
  <2>2. \A other \in Replies \ {p} : ~(reply[other].pc = "save" /\ reply[other].reco = reply[p].reco)
    BY <1>1, <2>1 DEF FeedbackInv, CopiesFaithful
  <2>3. feedback'[reply[p].reco] = feedback[reply[p].reco]
    BY <1>1, <2>1, <2>2
  <2>4. \A other \in Replies \ {p} : other # q => reply'[other] = reply[other]
    BY <1>1
  <2>5. reply'[q].pc # "save"
    BY <1>1 DEF ReplyIdle
  <2> QED BY <1>1, <2>1, <2>2, <2>3, <2>4, <2>5 DEF FeedbackInv, CopiesFaithful
<1> QED BY <1>1, <1>3 DEF FeedbackInv, CopiesFaithful

LEMMA FaithfulStep == ASSUME RecommendationAssumption, FeedbackInv, [RecoNext]_recoVars
                      PROVE  CopiesFaithful'
<1>1. ASSUME UNCHANGED <<reply, feedback, overlapped>> PROVE CopiesFaithful'
  BY <1>1 DEF FeedbackInv, CopiesFaithful
<1>2. ASSUME NEW q \in Replies, NEW mail \in mails, Click(q, mail) PROVE CopiesFaithful'
  <2>1. mail.reco \in Recos /\ feedback[mail.reco] \cup {"clickedAt"} \in SUBSET Keys
    BY KeysOfRow DEF FeedbackInv, RecoTypes, RecoTypeOK
  <2> QED BY <1>2, <2>1, LoadFaithful DEF Click
<1>3. ASSUME NEW q \in Replies, NEW r \in recos, NEW given \in SUBSET {"liked", "reason"},
             Feedback(q, r.id, given)
      PROVE  CopiesFaithful'
  <2>1. r.id \in Recos
    BY DEF FeedbackInv, RecoTypes, RecoTypeOK
  <2>2. (feedback[r.id] \ {"liked", "reason"}) \cup given \in SUBSET Keys
    BY <2>1, KeysOfRow DEF FeedbackInv
  <2> QED BY <1>3, <2>1, <2>2, LoadFaithful DEF Feedback
<1>4. ASSUME NEW q \in Replies, ReplyFails(q) PROVE CopiesFaithful'
  <2>1. /\ feedback' = feedback /\ overlapped' = overlapped
        /\ reply'[q].pc # "save" /\ \A p \in Replies : p # q => reply'[p] = reply[p]
    BY <1>4 DEF ReplyFails, ReplyIdle, FeedbackInv, RecoTypes, RecoTypeOK
  <2> QED BY <2>1 DEF FeedbackInv, CopiesFaithful
<1> QED BY <1>1, <1>2, <1>3, <1>4, SavedAlone
        DEF RecoNext, recoVars, NextDay, Subscribes, Build, AddReco, StartMailing, NextReader,
            BuildReco, SendMail, MailFails, MailingStops

LEMMA ClicksKept ==
    ASSUME RecommendationAssumption, FeedbackInv, [RecoNext]_recoVars
    PROVE  [\A r \in Recos : "clickedAt" \in feedback[r] =>
               "clickedAt" \in feedback'[r] \/ r \in overlapped]_recoVars
<1>1. feedback' = feedback \/ \E q \in Replies : SaveFeedback(q)
  BY DEF RecoNext, recoVars, NextDay, Subscribes, Build, AddReco, StartMailing, NextReader,
         BuildReco, SendMail, MailFails, MailingStops, Click, Feedback, Load, ReplyFails
<1> QED BY <1>1, SavedAlone

\* That a recommendation was clicked is forgotten only when two requests for
\* its row overlapped, for any number of requests and rows.
THEOREM ClicksSurvive == ASSUME RecommendationAssumption PROVE RecoSpec => ClickLostOnlyByOverlap
<1>1. RecoInit => FeedbackInv
  BY TypesInit DEF FeedbackInv, CopiesFaithful, RecoInit, ReplyIdle
<1>2. FeedbackInv /\ [RecoNext]_recoVars => FeedbackInv'
  BY TypesStep, FaithfulStep DEF FeedbackInv
<1>3. FeedbackInv /\ [RecoNext]_recoVars
      => [\A r \in Recos : "clickedAt" \in feedback[r] =>
             "clickedAt" \in feedback'[r] \/ r \in overlapped]_recoVars
  BY ClicksKept
<1> QED BY <1>1, <1>2, <1>3, PTL DEF RecoSpec, ClickLostOnlyByOverlap

\* The variables of the recommendations keep their types.
THEOREM RecoTypeCorrect == ASSUME RecommendationAssumption PROVE RecoSpec => []RecoTypeOK
<1>1. RecoInit => RecoTypes
  BY TypesInit
<1>2. RecoTypes /\ [RecoNext]_recoVars => RecoTypes'
  BY TypesStep
<1>3. RecoTypes => RecoTypeOK
  BY DEF RecoTypes
<1> QED BY <1>1, <1>2, <1>3, PTL DEF RecoSpec

-----------------------------------------------------------------------------
\* The readers a run may still mail.
Ahead(state) == IF state.pc = "next" THEN state.left ELSE state.left \cup {state.user}

\* The mails of a run went to readers it has left behind, and its day is the
\* latest of its instance: no two mails of an instance are for one reader and
\* one day.
RunsOnce ==
    \A m \in Mailers : mailing[m] # MailingIdle =>
        /\ mailing[m].day + 1 = mailedDay[m]
        /\ mailing[m].pc # "next" => mailing[m].user \notin mailing[m].left
        /\ \A mail \in mails : mail.by = m /\ mail.run = mailing[m].day
                                   => mail.user \notin Ahead(mailing[m])
MailsOnce ==
    /\ \A mail \in mails : mail.run < mailedDay[mail.by]
    /\ \A a, b \in mails : a.user = b.user /\ a.run = b.run /\ a.by = b.by => a = b

MailingInv == RecoTypes /\ RunsOnce /\ MailsOnce

LEMMA QuietStep ==
    ASSUME MailingInv, NEW m \in Mailers, NEW state, SetMailing(m, state), mailing[m] # MailingIdle,
           mails' = mails, mailedDay' = mailedDay,
           \/ state = MailingIdle
           \/ /\ state.day = mailing[m].day /\ Ahead(state) \subseteq Ahead(mailing[m])
              /\ state.pc # "next" => state.user \notin state.left
    PROVE  RunsOnce' /\ MailsOnce'
<1>1. mailing'[m] = state /\ \A k \in Mailers : k # m => mailing'[k] = mailing[k]
  BY DEF SetMailing, MailingInv, RecoTypes
<1>2. MailsOnce'
  BY DEF MailingInv, MailsOnce
<1>3. ASSUME NEW k \in Mailers, mailing'[k] # MailingIdle
      PROVE  /\ mailing'[k].day + 1 = mailedDay'[k]
             /\ mailing'[k].pc # "next" => mailing'[k].user \notin mailing'[k].left
             /\ \A mail \in mails' : mail.by = k /\ mail.run = mailing'[k].day
                                        => mail.user \notin Ahead(mailing'[k])
  <2>1. CASE k = m
    BY <1>1, <1>3, <2>1 DEF MailingInv, RunsOnce
  <2>2. CASE k # m
    BY <1>1, <1>3, <2>2 DEF MailingInv, RunsOnce
  <2> QED BY <2>1, <2>2
<1>4. RunsOnce'
  BY <1>3 DEF RunsOnce
<1> QED BY <1>2, <1>4

LEMMA StartsLater ==
    ASSUME RecommendationAssumption, MailingInv, NEW m \in Mailers, StartMailing(m)
    PROVE  RunsOnce' /\ MailsOnce'
<1> DEFINE state == [pc |-> "next", left |-> paying, day |-> today]
<1>1. /\ mailing'[m] = state /\ \A k \in Mailers : k # m => mailing'[k] = mailing[k]
      /\ mailedDay'[m] = today + 1 /\ \A k \in Mailers : k # m => mailedDay'[k] = mailedDay[k]
      /\ mails' = mails /\ mailedDay[m] \in Int /\ mailedDay[m] < today + 1 /\ today \in Int
  BY DEF StartMailing, SetMailing, MailingInv, RecoTypes, RecoTypeOK, Days
<1>2. \A mail \in mails : mail.run \in Int /\ mail.by \in Mailers /\ mail.run < mailedDay[mail.by]
  BY DEF MailingInv, RecoTypes, RecoTypeOK, MailsOnce, Days
<1>3. \A k \in Mailers : mailedDay[k] \in Int /\ mailedDay'[k] \in Int /\ mailedDay[k] <= mailedDay'[k]
  BY <1>1 DEF MailingInv, RecoTypes, RecoTypeOK, Days
<1>4. \A mail \in mails : mail.run < mailedDay'[mail.by]
  BY <1>2, <1>3
<1>5. MailsOnce'
  BY <1>1, <1>4 DEF MailingInv, MailsOnce
<1>6. \A mail \in mails : mail.by = m => mail.run # today
  BY <1>1, <1>2
<1>7. ASSUME NEW k \in Mailers, mailing'[k] # MailingIdle
      PROVE  /\ mailing'[k].day + 1 = mailedDay'[k]
             /\ mailing'[k].pc # "next" => mailing'[k].user \notin mailing'[k].left
             /\ \A mail \in mails' : mail.by = k /\ mail.run = mailing'[k].day
                                        => mail.user \notin Ahead(mailing'[k])
  <2>1. CASE k = m
    BY <1>1, <1>6, <2>1
  <2>2. CASE k # m
    BY <1>1, <1>7, <2>2 DEF MailingInv, RunsOnce
  <2> QED BY <2>1, <2>2
<1>8. RunsOnce'
  BY <1>7 DEF RunsOnce
<1> QED BY <1>5, <1>8

LEMMA LeavesBehind ==
    ASSUME MailingInv, NEW m \in Mailers, mailing[m].pc \in {"build", "send"}, TakeNext(m),
           mailedDay' = mailedDay, mails' = mails
    PROVE  RunsOnce' /\ MailsOnce'
<1> DEFINE state == [pc |-> "next", left |-> mailing[m].left, day |-> mailing[m].day]
<1>1. SetMailing(m, state) /\ mailing[m] # MailingIdle /\ state.day = mailing[m].day
      /\ state.pc = "next" /\ Ahead(state) \subseteq Ahead(mailing[m])
  BY DEF TakeNext, MailingIdle, Ahead
<1> HIDE DEF state
<1> QED BY <1>1, QuietStep

LEMMA MailsOneMore ==
    ASSUME MailingInv, NEW m \in Mailers, mailing[m].pc = "send", TakeNext(m),
           mailedDay' = mailedDay, mails' = Mailed(m)
    PROVE  RunsOnce' /\ MailsOnce'
<1> DEFINE state == [pc |-> "next", left |-> mailing[m].left, day |-> mailing[m].day]
           sent == [user |-> mailing[m].user, reco |-> mailing[m].reco, day |-> today,
                    by |-> m, run |-> mailing[m].day]
<1>1. /\ mailing'[m] = state /\ \A k \in Mailers : k # m => mailing'[k] = mailing[k]
      /\ mails' = mails \cup {sent}
  BY DEF TakeNext, SetMailing, MailingInv, RecoTypes, Mailed
<1>2. /\ sent.user = mailing[m].user /\ sent.by = m /\ sent.run = mailing[m].day
      /\ state.pc = "next" /\ state.left = mailing[m].left /\ state.day = mailing[m].day
      /\ state # MailingIdle /\ mailing[m] # MailingIdle
  BY DEF MailingIdle
<1>3. Ahead(state) = mailing[m].left /\ Ahead(mailing[m]) = mailing[m].left \cup {mailing[m].user}
  BY DEF Ahead
<1>4. /\ mailing[m].day + 1 = mailedDay[m] /\ mailing[m].user \notin mailing[m].left
      /\ \A mail \in mails : mail.by = m /\ mail.run = mailing[m].day
                                 => mail.user \notin Ahead(mailing[m])
  BY <1>2 DEF MailingInv, RunsOnce
<1>5. mailing[m].day \in Int
  BY <1>2, MailingOk DEF MailingInv, RecoTypes, Days
<1> HIDE DEF state, sent
<1>6. MailsOnce'
  <2>1. \A mail \in mails : ~(mail.user = sent.user /\ mail.run = sent.run /\ mail.by = sent.by)
    BY <1>2, <1>3, <1>4
  <2>2. \A mail \in mails' : mail.run < mailedDay'[mail.by]
    BY <1>1, <1>2, <1>4, <1>5 DEF MailingInv, MailsOnce
  <2>3. \A a, b \in mails' : a.user = b.user /\ a.run = b.run /\ a.by = b.by => a = b
    BY <1>1, <2>1 DEF MailingInv, MailsOnce
  <2> QED BY <2>2, <2>3 DEF MailsOnce
<1>7. ASSUME NEW k \in Mailers, mailing'[k] # MailingIdle
      PROVE  /\ mailing'[k].day + 1 = mailedDay'[k]
             /\ mailing'[k].pc # "next" => mailing'[k].user \notin mailing'[k].left
             /\ \A mail \in mails' : mail.by = k /\ mail.run = mailing'[k].day
                                        => mail.user \notin Ahead(mailing'[k])
  <2>1. CASE k = m
    BY <1>1, <1>2, <1>3, <1>4, <2>1
  <2>2. CASE k # m
    BY <1>1, <1>2, <1>7, <2>2 DEF MailingInv, RunsOnce
  <2> QED BY <2>1, <2>2
<1>8. RunsOnce'
  BY <1>7 DEF RunsOnce
<1> QED BY <1>6, <1>8

LEMMA OnceStep == ASSUME RecommendationAssumption, MailingInv, [RecoNext]_recoVars
                  PROVE  RunsOnce' /\ MailsOnce'
<1>1. ASSUME UNCHANGED <<mailing, mailedDay, mails>> PROVE RunsOnce' /\ MailsOnce'
  BY <1>1 DEF MailingInv, RunsOnce, MailsOnce
<1>2. ASSUME NEW m \in Mailers, NextReader(m) PROVE RunsOnce' /\ MailsOnce'
  <2>1. mailing[m] # MailingIdle /\ mailing[m].pc = "next" /\ Ahead(mailing[m]) = mailing[m].left
    BY <1>2 DEF NextReader, MailingIdle, Ahead
  <2>2. mails' = mails /\ mailedDay' = mailedDay
    BY <1>2 DEF NextReader
  <2>3. CASE SetMailing(m, MailingIdle)
    BY <2>1, <2>2, <2>3, QuietStep
  <2>4. ASSUME NEW u \in mailing[m].left,
               LET rest == [mailing[m] EXCEPT !.left = @ \ {u}]
               IN \/ SetMailing(m, rest)
                  \/ SetMailing(m, [pc |-> "build", left |-> rest.left, day |-> rest.day, user |-> u])
        PROVE  RunsOnce' /\ MailsOnce'
    <3> DEFINE rest == [pc |-> "next", left |-> mailing[m].left \ {u}, day |-> mailing[m].day]
               built == [pc |-> "build", left |-> rest.left, day |-> rest.day, user |-> u]
    <3>1. SetMailing(m, rest) \/ SetMailing(m, built)
      BY <2>1, <2>4, AtNext DEF MailingInv
    <3>2. /\ rest.day = mailing[m].day /\ rest.pc = "next" /\ Ahead(rest) \subseteq Ahead(mailing[m])
          /\ built.day = mailing[m].day /\ Ahead(built) \subseteq Ahead(mailing[m])
          /\ built.user \notin built.left
      BY <2>1 DEF Ahead
    <3> HIDE DEF rest, built
    <3> QED BY <2>1, <2>2, <3>1, <3>2, QuietStep
  <2> QED BY <1>2, <2>3, <2>4 DEF NextReader
<1>3. ASSUME NEW m \in Mailers, BuildReco(m) PROVE RunsOnce' /\ MailsOnce'
  <2> DEFINE built == [pc |-> "send", left |-> mailing[m].left, day |-> mailing[m].day,
                       user |-> mailing[m].user, reco |-> NextReco]
  <2>1. mailing[m].pc = "build" /\ mailing[m] # MailingIdle /\ mails' = mails /\ mailedDay' = mailedDay
    BY <1>3 DEF BuildReco, MailingIdle
  <2>2. CASE TakeNext(m)
    BY <2>1, <2>2, LeavesBehind
  <2>3. CASE SetMailing(m, built)
    <3>1. mailing[m].user \notin mailing[m].left
      BY <2>1 DEF MailingInv, RunsOnce
    <3>2. built.day = mailing[m].day /\ Ahead(built) \subseteq Ahead(mailing[m])
          /\ built.user \notin built.left
      BY <2>1, <3>1 DEF Ahead
    <3> HIDE DEF built
    <3> QED BY <2>1, <2>3, <3>2, QuietStep
  <2> QED BY <1>3, <2>2, <2>3 DEF BuildReco
<1>4. ASSUME NEW m \in Mailers, SendMail(m) \/ MailFails(m) PROVE RunsOnce' /\ MailsOnce'
  <2>1. mailing[m].pc \in {"build", "send"} /\ TakeNext(m) /\ mailedDay' = mailedDay
        /\ (mails' = mails \/ (mailing[m].pc = "send" /\ mails' = Mailed(m)))
    BY <1>4 DEF SendMail, MailFails
  <2> QED BY <2>1, LeavesBehind, MailsOneMore
<1>5. ASSUME NEW m \in Mailers, MailingStops(m) PROVE RunsOnce' /\ MailsOnce'
  BY <1>5, QuietStep DEF MailingStops
<1> QED BY <1>1, <1>2, <1>3, <1>4, <1>5, StartsLater
        DEF RecoNext, recoVars, NextDay, Subscribes, Build, AddReco, Click, Feedback, Load,
            SaveFeedback, ReplyFails

\* The instances number the mails of a reader and a day.
LEMMA OnePerMailer ==
    ASSUME RecommendationAssumption, MailingInv PROVE MailsBounded
<1> SUFFICES ASSUME NEW u \in Readers, NEW d \in Days
             PROVE  Cardinality({mail \in mails : mail.user = u /\ mail.run = d})
                       <= Cardinality(Mailers)
  BY DEF MailsBounded
<1> DEFINE M == {mail \in mails : mail.user = u /\ mail.run = d}
           f == [mail \in M |-> mail.by]
<1>1. f \in Injection(M, Mailers)
  <2>1. f \in [M -> Mailers]
    BY DEF MailingInv, RecoTypes, RecoTypeOK
  <2>2. \A a, b \in M : f[a] = f[b] => a = b
    BY DEF MailingInv, MailsOnce
  <2> QED BY <2>1, <2>2 DEF Injection, IsInjective
<1> HIDE DEF M, f
<1>2. Cardinality(M) <= Cardinality(Mailers)
  BY <1>1, FS_Injection DEF RecommendationAssumption
<1> QED BY <1>2 DEF M

\* No reader gets more mails for a day than there are backend instances,
\* whatever fails and however long a run goes on.
THEOREM MailsAreBounded == ASSUME RecommendationAssumption PROVE RecoSpec => []MailsBounded
<1>1. RecoInit => MailingInv
  BY TypesInit DEF MailingInv, RunsOnce, MailsOnce, RecoInit
<1>2. MailingInv /\ [RecoNext]_recoVars => MailingInv'
  BY TypesStep, OnceStep DEF MailingInv
<1>3. MailingInv => MailsBounded
  BY OnePerMailer
<1> QED BY <1>1, <1>2, <1>3, PTL DEF RecoSpec

-----------------------------------------------------------------------------
(* The circuit breaker                                                      *)
\* The count of a closed circuit is of failures no success came between. An
\* open circuit keeps its count when a late success breaks the streak; it is
\* forgotten when the circuit is closed again.
Counted ==
    /\ failureCount \in Nat /\ streak \in Nat
    /\ circuit = "CLOSED" => failureCount <= streak

LEMMA CountedStep == ASSUME BreakerAssumption, Counted, [BreakerNext]_breakerVars
                     PROVE  Counted'
<1> USE DEF BreakerAssumption, Counted
<1>1. CASE BreakerTick
  BY <1>1 DEF BreakerTick
<1>2. CASE ForceReset
  BY <1>2 DEF ForceReset
<1>3. ASSUME NEW c \in Callers, AllowRequest(c) PROVE Counted'
  BY <1>3 DEF AllowRequest
<1>4. ASSUME NEW c \in Callers, RecordSuccess(c) PROVE Counted'
  BY <1>4 DEF RecordSuccess
<1>5. ASSUME NEW c \in Callers, RecordFailure(c) PROVE Counted'
  BY <1>5 DEF RecordFailure
<1>6. CASE UNCHANGED breakerVars
  BY <1>6 DEF breakerVars
<1> QED BY <1>1, <1>2, <1>3, <1>4, <1>5, <1>6 DEF BreakerNext

LEMMA OpensStep ==
    ASSUME BreakerAssumption, Counted, [BreakerNext]_breakerVars
    PROVE  [circuit = "CLOSED" /\ circuit' = "OPEN" => streak' >= Threshold]_breakerVars
<1> SUFFICES ASSUME BreakerNext, circuit = "CLOSED", circuit' = "OPEN"
             PROVE  streak' >= Threshold
  OBVIOUS
<1> USE DEF BreakerAssumption, Counted
<1>1. PICK c \in Callers : RecordFailure(c)
  BY DEF BreakerNext, BreakerTick, ForceReset, AllowRequest, RecordSuccess
<1>2. failureCount + 1 >= Threshold /\ streak' = streak + 1
  BY <1>1 DEF RecordFailure
<1> QED BY <1>2

\* A closed circuit opens only on as many failures as the threshold says with
\* no success among them, however late the answers are reported.
THEOREM OpensOnlyOnStreak == ASSUME BreakerAssumption PROVE BreakerSpec => OpensOnStreak
<1>1. BreakerInit => Counted
  BY DEF BreakerInit, Counted
<1>2. Counted /\ [BreakerNext]_breakerVars => Counted'
  BY CountedStep
<1>3. Counted /\ [BreakerNext]_breakerVars
      => [circuit = "CLOSED" /\ circuit' = "OPEN" => streak' >= Threshold]_breakerVars
  BY OpensStep
<1> QED BY <1>1, <1>2, <1>3, PTL DEF BreakerSpec, OpensOnStreak

\* No count is ahead of the failures there were, and no instant of the clock.
BreakerInv == BreakerTypeOK /\ failureCount <= failures /\ streak <= failures
                            /\ lastFailureTime <= clock /\ openTime <= clock

\* The breaker's counters stay within the failures reported to it, and its
\* instants behind the clock.
THEOREM BreakerTypeCorrect == ASSUME BreakerAssumption PROVE BreakerSpec => []BreakerTypeOK
<1> USE DEF BreakerAssumption
<1>1. BreakerInit => BreakerInv
  BY DEF BreakerInit, BreakerInv, BreakerTypeOK
<1>2. BreakerInv /\ [BreakerNext]_breakerVars => BreakerInv'
  <2> SUFFICES ASSUME BreakerInv, [BreakerNext]_breakerVars PROVE BreakerInv'
    OBVIOUS
  <2> USE DEF BreakerInv, BreakerTypeOK
  <2>1. CASE BreakerTick
    BY <2>1 DEF BreakerTick
  <2>2. CASE ForceReset
    BY <2>2 DEF ForceReset
  <2>3. ASSUME NEW c \in Callers, AllowRequest(c) PROVE BreakerInv'
    BY <2>3 DEF AllowRequest
  <2>4. ASSUME NEW c \in Callers, RecordSuccess(c) PROVE BreakerInv'
    BY <2>4 DEF RecordSuccess
  <2>5. ASSUME NEW c \in Callers, RecordFailure(c) PROVE BreakerInv'
    BY <2>5 DEF RecordFailure
  <2>6. CASE UNCHANGED breakerVars
    BY <2>6 DEF breakerVars
  <2> QED BY <2>1, <2>2, <2>3, <2>4, <2>5, <2>6 DEF BreakerNext
<1>3. BreakerInv => BreakerTypeOK
  BY DEF BreakerInv
<1> QED BY <1>1, <1>2, <1>3, PTL DEF BreakerSpec

-----------------------------------------------------------------------------
(* Parsing a resume                                                         *)
\* Parsing a resume, for any number of files and workers.

Runs == [pc : {"ask", "upsert", "save", "create", "done", "fail"},
         upload : Uploads, left : SUBSET Sections]
Running(w) == parse[w].pc # "idle"

\* What a run that has the model's answer has stored of it, and has left.
Covers(u, left) ==
    \E found \in answers[u] : left \subseteq found /\ \A s \in found \ left : sections[u][s] > 0

RunStores(w) ==
    /\ parse[w].pc \in {"upsert", "save", "create", "done"} => Covers(parse[w].upload, parse[w].left)
    /\ parse[w].pc \in {"save", "create", "done"} => profile # NoUpload
    /\ parse[w].pc \in {"create", "done"} => parse[w].left = {}
    /\ parse[w].pc = "done" => bases.default + bases.named > 0

RunsStore == \A w \in Parsers : RunStores(w)

ResumeInvariant == ResumeTypeOK /\ RunsStore /\ DoneIsStored

Chats == [uploading : Uploads \cup {NoUpload}, uploadDone : BOOLEAN, basicInfo : BOOLEAN]

LEMMA ChatOf ==
    ASSUME ResumeTypeOK, NEW u \in Uploads
    PROVE  /\ chat \in Chats
           /\ [chat EXCEPT !.uploading = u] \in Chats
           /\ [chat EXCEPT !.uploading = NoUpload] \in Chats
           /\ [chat EXCEPT !.uploadDone = TRUE] \in Chats
           /\ [chat EXCEPT !.uploading = NoUpload, !.basicInfo = TRUE] \in Chats
  BY DEF ResumeTypeOK, Chats

\* A worker is idle or has a run.
LEMMA RunOf ==
    ASSUME ResumeTypeOK, NEW w \in Parsers
    PROVE  /\ parse[w] = NoParse \/ parse[w] \in Runs
           /\ Running(w) <=> parse[w] \in Runs
  BY DEF ResumeTypeOK, Runs, Running, NoParse

\* Nothing that is stored is taken away, and no answer is forgotten.
Grows ==
    /\ \A u \in Uploads : answers[u] \subseteq answers'[u]
    /\ \A u \in Uploads, s \in Sections : sections[u][s] > 0 => sections'[u][s] > 0
    /\ profile # NoUpload => profile' # NoUpload
    /\ bases.default + bases.named > 0 => bases'.default + bases'.named > 0

LEMMA CoversKept ==
    ASSUME ResumeTypeOK, Grows, NEW u \in Uploads, NEW left, Covers(u, left)
    PROVE  Covers(u, left)'
<1>1. PICK found \in answers[u] : left \subseteq found /\ \A s \in found \ left : sections[u][s] > 0
  BY DEF Covers
<1>2. found \in answers'[u] /\ found \subseteq Sections
  BY DEF Grows, ResumeTypeOK
<1>3. \A s \in found \ left : sections'[u][s] > 0
  BY <1>1, <1>2 DEF Grows
<1> QED BY <1>1, <1>2, <1>3 DEF Covers

\* Runs that do not move keep what is true of them.
LEMMA RunKept ==
    ASSUME ResumeTypeOK, Grows, NEW w \in Parsers, RunStores(w), parse'[w] = parse[w]
    PROVE  RunStores(w)'
<1>1. CASE ~Running(w)
  BY <1>1 DEF RunStores, Running
<1>2. CASE Running(w)
  <2>1. parse[w].upload \in Uploads
    BY <1>2, RunOf DEF Runs
  <2>2. Covers(parse[w].upload, parse[w].left) => Covers(parse[w].upload, parse[w].left)'
    BY <2>1, CoversKept
  <2> QED BY <2>2 DEF RunStores, Grows
<1> QED BY <1>1, <1>2

\* So do the sources that are DONE.
LEMMA DoneKept ==
    ASSUME ResumeTypeOK, Grows, DoneIsStored, NEW u \in Uploads,
           source'[u] = "DONE" => source[u] = "DONE"
    PROVE  source'[u] = "DONE" =>
              /\ profile' # NoUpload
              /\ \E found \in answers'[u] : \A s \in found : sections'[u][s] > 0
              /\ bases'.default + bases'.named > 0
<1> SUFFICES ASSUME source'[u] = "DONE" PROVE
              /\ profile' # NoUpload
              /\ \E found \in answers'[u] : \A s \in found : sections'[u][s] > 0
              /\ bases'.default + bases'.named > 0
  OBVIOUS
<1>1. PICK found \in answers[u] : \A s \in found : sections[u][s] > 0
  BY DEF DoneIsStored
<1>2. found \in answers'[u] /\ found \subseteq Sections
  BY DEF Grows, ResumeTypeOK
<1> QED BY <1>1, <1>2 DEF DoneIsStored, Grows

LEMMA RunsTyped == ResumeTypeOK => parse \in [Parsers -> {NoParse} \cup Runs]
  BY DEF ResumeTypeOK, Runs

LEMMA ResumeInitOK == ResumeAssumption /\ ResumeInit => ResumeInvariant
<1> SUFFICES ASSUME ResumeAssumption, ResumeInit PROVE ResumeInvariant
  OBVIOUS
<1>1. ResumeTypeOK
  BY DEF ResumeInit, ResumeTypeOK, ResumeAssumption, NewChat, NoParse
<1>2. RunsStore
  BY DEF ResumeInit, RunsStore, RunStores, NoParse
<1>3. DoneIsStored
  BY DEF ResumeInit, DoneIsStored
<1> QED BY <1>1, <1>2, <1>3 DEF ResumeInvariant

LEMMA ResumeTypeStep ==
    ASSUME ResumeAssumption, ResumeTypeOK, [ResumeNext]_resumeVars PROVE ResumeTypeOK'
<1> USE DEF ResumeAssumption
<1>1. ASSUME NEW u \in Uploads, Upload(u) \/ Uploaded(u) PROVE ResumeTypeOK'
  <2>1. chat' \in Chats
    BY <1>1, ChatOf DEF Upload, Uploaded, SetChat
  <2>2. polling' \in [Uploads -> {"none", "uploading", "polling"}]
    BY <1>1 DEF Upload, Uploaded, ResumeTypeOK
  <2>3. request' \in [Uploads -> {"none", "storing", "queueing", "answered", "failed"}]
    BY <1>1 DEF Upload, Uploaded, ResumeTypeOK
  <2> QED BY <1>1, <2>1, <2>2, <2>3
          DEF Upload, Uploaded, ResumeTypeOK, Chats, runVars, storedVars
<1>2. ASSUME NEW u \in Uploads, UploadFails(u) \/ Poll(u) \/ PollEnds(u) PROVE ResumeTypeOK'
  <2>1. chat' \in Chats
    BY <1>2, ChatOf DEF UploadFails, Poll, PollEnds, SetChat
  <2>2. polling' \in [Uploads -> {"none", "uploading", "polling"}]
    BY <1>2 DEF UploadFails, Poll, PollEnds, ResumeTypeOK
  <2> QED BY <1>2, <2>1, <2>2
          DEF UploadFails, Poll, PollEnds, ResumeTypeOK, Chats, runVars, storedVars
<1>3. CASE Remount
  <2>1. chat' \in Chats
    BY <1>3 DEF Remount, NewChat, Chats
  <2>2. /\ polling' \in [Uploads -> {"none", "uploading", "polling"}]
        /\ remounts' \in 0..MaxRemounts
    BY <1>3 DEF Remount, ResumeTypeOK
  <2> QED BY <1>3, <2>1, <2>2 DEF Remount, ResumeTypeOK, Chats, runVars, storedVars
<1>4. ASSUME NEW u \in Uploads, SaveSource(u) \/ QueueParse(u) \/ RequestFails(u)
      PROVE  ResumeTypeOK'
  BY <1>4 DEF SaveSource, QueueParse, RequestFails, ResumeTypeOK, panelVars, runVars, storedVars
<1>5. ASSUME NEW u \in Uploads, ParseStalls(u) PROVE ResumeTypeOK'
  BY <1>5 DEF ParseStalls, ResumeTypeOK, panelVars, storedVars
<1>6. CASE CreateBaseResume
  BY <1>6 DEF CreateBaseResume, ResumeTypeOK, panelVars, runVars
<1>7. ASSUME NEW w \in Parsers, TakeParse(w) PROVE ResumeTypeOK'
  BY <1>7 DEF TakeParse, SetParse, ResumeTypeOK, panelVars, storedVars
<1>8. ASSUME NEW w \in Parsers, Parsed(w) PROVE ResumeTypeOK'
  <2>1. parse[w] \in Runs
    BY <1>8, RunOf DEF Parsed, Running
  <2>2. PICK found \in SUBSET Sections :
           /\ SetParse(w, [parse[w] EXCEPT !.pc = "upsert", !.left = found])
           /\ answers' = [answers EXCEPT ![parse[w].upload] = @ \cup {found}]
    BY <1>8 DEF Parsed
  <2>3. parse' \in [Parsers -> {NoParse} \cup Runs]
    BY <2>1, <2>2, RunsTyped DEF SetParse, Runs
  <2>4. answers' \in [Uploads -> SUBSET SUBSET Sections]
    BY <2>1, <2>2 DEF ResumeTypeOK, Runs
  <2> QED BY <1>8, <2>3, <2>4 DEF Parsed, ResumeTypeOK, Runs, panelVars, storedVars
<1>9. ASSUME NEW w \in Parsers, UpsertProfile(w) PROVE ResumeTypeOK'
  <2>1. parse[w] \in Runs
    BY <1>9, RunOf DEF UpsertProfile, Running
  <2>2. parse' \in [Parsers -> {NoParse} \cup Runs]
    BY <1>9, <2>1, RunsTyped DEF UpsertProfile, GoesTo, SetParse, Runs
  <2> QED BY <1>9, <2>1, <2>2 DEF UpsertProfile, ResumeTypeOK, Runs, panelVars
<1>10. ASSUME NEW w \in Parsers, SaveSection(w) PROVE ResumeTypeOK'
  <2>1. parse[w] \in Runs
    BY <1>10, RunOf DEF SaveSection, Running
  <2>2. PICK s \in parse[w].left :
           /\ SetParse(w, [parse[w] EXCEPT !.left = @ \ {s}])
           /\ sections' = [sections EXCEPT ![parse[w].upload][s] = @ + 1]
    BY <1>10 DEF SaveSection
  <2>3. s \in Sections
    BY <2>1 DEF Runs
  <2>4. parse' \in [Parsers -> {NoParse} \cup Runs]
    BY <2>1, <2>2, RunsTyped DEF SetParse, Runs
  <2>5. sections' \in [Uploads -> [Sections -> Nat]]
    BY <2>1, <2>2, <2>3 DEF ResumeTypeOK, Runs
  <2> QED BY <1>10, <2>4, <2>5 DEF SaveSection, ResumeTypeOK, Runs, panelVars
<1>11. ASSUME NEW w \in Parsers, LookForBase(w) \/ ParseFails(w) PROVE ResumeTypeOK'
  <2>1. parse[w] \in Runs
    BY <1>11, RunOf DEF LookForBase, ParseFails, Running
  <2>2. parse' \in [Parsers -> {NoParse} \cup Runs]
    <3>1. PICK pc \in {"create", "done", "fail"} : GoesTo(w, pc)
      BY <1>11 DEF LookForBase, ParseFails
    <3> QED BY <2>1, <3>1, RunsTyped DEF GoesTo, SetParse, Runs
  <2> QED BY <1>11, <2>2
          DEF LookForBase, ParseFails, ResumeTypeOK, Runs, panelVars, storedVars
<1>12. ASSUME NEW w \in Parsers, CreateDefault(w) PROVE ResumeTypeOK'
  <2>1. parse[w] \in Runs
    BY <1>12, RunOf DEF CreateDefault, Running
  <2>2. parse' \in [Parsers -> {NoParse} \cup Runs]
    BY <1>12, <2>1, RunsTyped DEF CreateDefault, GoesTo, SetParse, Runs
  <2>3. bases' \in [default : Nat, named : Nat]
    BY <1>12 DEF CreateDefault, ResumeTypeOK
  <2> QED BY <1>12, <2>2, <2>3 DEF CreateDefault, ResumeTypeOK, Runs, panelVars
<1>13. ASSUME NEW w \in Parsers, MarkDone(w) \/ MarkFailed(w) \/ ParserDies(w) PROVE ResumeTypeOK'
  <2>1. parse[w] \in Runs
    BY <1>13, RunOf DEF MarkDone, MarkFailed, ParserDies, Running
  <2>2. parse' \in [Parsers -> {NoParse} \cup Runs]
    BY <1>13, RunsTyped DEF MarkDone, MarkFailed, ParserDies, SetParse
  <2>3. source' \in [Uploads -> {"none", "PENDING", "DONE", "FAILED"}]
    BY <1>13, <2>1 DEF MarkDone, MarkFailed, ParserDies, ResumeTypeOK, Runs
  <2> QED BY <1>13, <2>2, <2>3
          DEF MarkDone, MarkFailed, ParserDies, ResumeTypeOK, Runs, panelVars, storedVars
<1>14. CASE UNCHANGED resumeVars
  BY <1>14 DEF resumeVars, ResumeTypeOK, panelVars, runVars, storedVars
<1> QED BY <1>1, <1>2, <1>3, <1>4, <1>5, <1>6, <1>7, <1>8, <1>9, <1>10, <1>11, <1>12, <1>13, <1>14
        DEF ResumeNext, ParserSteps

\* A step that stores nothing and lets every run go on, be dropped or fail.
LEMMA StepOfOthers ==
    ASSUME ResumeInvariant, Grows,
           \A w \in Parsers : parse'[w] = parse[w] \/ parse'[w].pc \in {"idle", "ask", "fail"},
           \A u \in Uploads : source'[u] = "DONE" => source[u] = "DONE"
    PROVE  RunsStore' /\ DoneIsStored'
<1>1. ASSUME NEW w \in Parsers PROVE RunStores(w)'
  <2>1. CASE parse'[w] = parse[w]
    BY <2>1, RunKept DEF ResumeInvariant, RunsStore
  <2>2. CASE parse'[w].pc \in {"idle", "ask", "fail"}
    BY <2>2 DEF RunStores
  <2> QED BY <2>1, <2>2
<1>2. DoneIsStored'
  BY DoneKept DEF DoneIsStored, ResumeInvariant
<1> QED BY <1>1, <1>2 DEF RunsStore

\* A step of one run, which keeps what is true of it.
LEMMA StepOfRun ==
    ASSUME ResumeInvariant, Grows, NEW w \in Parsers, RunStores(w)', source' = source,
           \A v \in Parsers \ {w} : parse'[v] = parse[v]
    PROVE  RunsStore' /\ DoneIsStored'
<1>1. ASSUME NEW v \in Parsers \ {w} PROVE RunStores(v)'
  BY RunKept DEF ResumeInvariant, RunsStore
<1>2. DoneIsStored'
  BY DoneKept DEF DoneIsStored, ResumeInvariant
<1> QED BY <1>1, <1>2 DEF RunsStore

LEMMA ResumeStepOK ==
    ASSUME ResumeAssumption, ResumeInvariant, [ResumeNext]_resumeVars
    PROVE  ResumeInvariant'
<1>1. ResumeTypeOK /\ ResumeTypeOK'
  BY ResumeTypeStep DEF ResumeInvariant
<1>2. ASSUME NEW u \in Uploads,
             Upload(u) \/ Uploaded(u) \/ UploadFails(u) \/ Poll(u) \/ PollEnds(u)
                \/ QueueParse(u) \/ RequestFails(u) \/ ParseStalls(u)
      PROVE  RunsStore' /\ DoneIsStored'
  <2>1. parse' = parse /\ answers' = answers /\ source' = source /\ UNCHANGED storedVars
    BY <1>2 DEF Upload, Uploaded, UploadFails, Poll, PollEnds, QueueParse, RequestFails,
                ParseStalls, runVars
  <2>2. Grows
    BY <2>1 DEF Grows, storedVars
  <2> QED BY <2>1, <2>2, StepOfOthers
<1>3. CASE Remount \/ UNCHANGED resumeVars
  <2>1. parse' = parse /\ answers' = answers /\ source' = source /\ UNCHANGED storedVars
    BY <1>3 DEF Remount, resumeVars, runVars
  <2>2. Grows
    BY <2>1 DEF Grows, storedVars
  <2>3. \A v \in Uploads : source'[v] = "DONE" => source[v] = "DONE"
    BY <2>1
  <2> QED BY <1>1, <2>1, <2>2, <2>3, StepOfOthers DEF ResumeInvariant
<1>4. ASSUME NEW u \in Uploads, SaveSource(u) PROVE RunsStore' /\ DoneIsStored'
  <2>1. /\ parse' = parse /\ answers' = answers /\ UNCHANGED storedVars
        /\ source' = [source EXCEPT ![u] = "PENDING"]
    BY <1>4 DEF SaveSource, runVars
  <2>2. Grows
    BY <2>1 DEF Grows, storedVars
  <2>3. \A v \in Uploads : source'[v] = "DONE" => source[v] = "DONE"
    BY <1>1, <2>1 DEF ResumeTypeOK
  <2> QED BY <2>1, <2>2, <2>3, StepOfOthers
<1>5. CASE CreateBaseResume
  <2>1. /\ UNCHANGED <<parse, answers, source, profile, sections>>
        /\ bases' = [bases EXCEPT !.named = 1] /\ bases.named = 0
    BY <1>5 DEF CreateBaseResume, runVars
  <2>2. Grows
    BY <1>1, <2>1 DEF Grows, ResumeTypeOK
  <2>3. \A v \in Uploads : source'[v] = "DONE" => source[v] = "DONE"
    BY <2>1
  <2> QED BY <1>1, <2>1, <2>2, <2>3, StepOfOthers DEF ResumeInvariant
<1>6. ASSUME NEW w \in Parsers, TakeParse(w) \/ ParseFails(w) \/ MarkFailed(w) \/ ParserDies(w)
      PROVE  RunsStore' /\ DoneIsStored'
  <2>1. /\ answers' = answers /\ UNCHANGED storedVars
        /\ source' = source \/ MarkFailed(w)
    BY <1>6 DEF TakeParse, ParseFails, MarkFailed, ParserDies
  <2>2. Grows
    BY <2>1 DEF Grows, storedVars
  <2>3. \A v \in Parsers : parse'[v] = parse[v] \/ parse'[v].pc \in {"idle", "ask", "fail"}
    <3>1. ParseFails(w) => parse[w] \in Runs
      BY <1>1, RunOf DEF ParseFails, Running
    <3> QED BY <1>1, <1>6, <3>1
            DEF TakeParse, ParseFails, MarkFailed, ParserDies, GoesTo, SetParse, NoParse, Runs,
                ResumeTypeOK
  <2>4. \A v \in Uploads : source'[v] = "DONE" => source[v] = "DONE"
    BY <1>1, <2>1 DEF MarkFailed, ResumeTypeOK
  <2> QED BY <2>2, <2>3, <2>4, StepOfOthers
<1>7. ASSUME NEW w \in Parsers, Parsed(w) PROVE RunsStore' /\ DoneIsStored'
  <2>1. parse[w] \in Runs
    BY <1>1, <1>7, RunOf DEF Parsed, Running
  <2>2. PICK found \in SUBSET Sections :
           /\ SetParse(w, [parse[w] EXCEPT !.pc = "upsert", !.left = found])
           /\ answers' = [answers EXCEPT ![parse[w].upload] = @ \cup {found}]
    BY <1>7 DEF Parsed
  <2>3. source' = source /\ UNCHANGED storedVars
    BY <1>7 DEF Parsed
  <2>4. Grows
    BY <1>1, <2>2, <2>3 DEF Grows, storedVars, ResumeTypeOK
  <2>5. /\ parse'[w].pc = "upsert" /\ parse'[w].left = found
        /\ parse'[w].upload = parse[w].upload /\ found \in answers'[parse[w].upload]
        /\ \A v \in Parsers \ {w} : parse'[v] = parse[v]
    BY <1>1, <2>1, <2>2 DEF SetParse, ResumeTypeOK, Runs
  <2>6. RunStores(w)'
    BY <2>5 DEF RunStores, Covers
  <2> QED BY <2>3, <2>4, <2>5, <2>6, StepOfRun
<1>8. ASSUME NEW w \in Parsers, UpsertProfile(w) \/ LookForBase(w) \/ CreateDefault(w)
      PROVE  RunsStore' /\ DoneIsStored'
  <2>1. parse[w] \in Runs
    BY <1>1, <1>8, RunOf DEF UpsertProfile, LookForBase, CreateDefault, Running
  <2>2. /\ source' = source /\ answers' = answers /\ sections' = sections
        /\ \A v \in Parsers \ {w} : parse'[v] = parse[v]
        /\ parse'[w].upload = parse[w].upload /\ parse'[w].left = parse[w].left
    BY <1>1, <1>8, <2>1 DEF UpsertProfile, LookForBase, CreateDefault, GoesTo, SetParse,
                            storedVars, ResumeTypeOK, Runs
  <2>3. Grows
    BY <1>1, <1>8, <2>1, <2>2 DEF UpsertProfile, LookForBase, CreateDefault, Grows, storedVars,
                                  ResumeTypeOK, ResumeAssumption, Runs
  <2>4. Covers(parse[w].upload, parse[w].left)'
    <3>1. Covers(parse[w].upload, parse[w].left)
      BY <1>8 DEF UpsertProfile, LookForBase, CreateDefault, ResumeInvariant, RunsStore, RunStores
    <3>2. parse[w].upload \in Uploads
      BY <2>1 DEF Runs
    <3> QED BY <1>1, <2>2, <2>3, <3>1, <3>2, CoversKept DEF Covers
  <2>5. RunStores(w)'
    <3>1. CASE UpsertProfile(w)
      BY <1>1, <2>1, <2>2, <2>4, <3>1
         DEF UpsertProfile, GoesTo, SetParse, RunStores, ResumeTypeOK, ResumeAssumption, Runs
    <3>2. CASE LookForBase(w)
      <4>1. /\ parse[w].pc = "save" /\ parse[w].left = {} /\ UNCHANGED storedVars
            /\ parse'[w].pc = IF bases.default + bases.named = 0 THEN "create" ELSE "done"
        BY <1>1, <2>1, <3>2 DEF LookForBase, GoesTo, SetParse, ResumeTypeOK, Runs
      <4>2. profile # NoUpload
        BY <4>1 DEF ResumeInvariant, RunsStore, RunStores
      <4>3. bases.default \in Nat /\ bases.named \in Nat
        BY <1>1 DEF ResumeTypeOK
      <4>4. parse'[w].pc = "done" => bases.default + bases.named > 0
        BY <4>1, <4>3
      <4> QED BY <2>2, <2>4, <4>1, <4>2, <4>4 DEF RunStores, storedVars
    <3>3. CASE CreateDefault(w)
      BY <1>1, <2>1, <2>2, <2>4, <3>3
         DEF CreateDefault, GoesTo, SetParse, RunStores, RunsStore, ResumeInvariant, ResumeTypeOK,
             Runs
    <3> QED BY <1>8, <3>1, <3>2, <3>3
  <2> QED BY <2>2, <2>3, <2>5, StepOfRun
<1>9. ASSUME NEW w \in Parsers, SaveSection(w) PROVE RunsStore' /\ DoneIsStored'
  <2>1. parse[w] \in Runs
    BY <1>1, <1>9, RunOf DEF SaveSection, Running
  <2> DEFINE u == parse[w].upload
  <2>2. PICK s \in parse[w].left :
           /\ SetParse(w, [parse[w] EXCEPT !.left = @ \ {s}])
           /\ sections' = [sections EXCEPT ![u][s] = @ + 1]
    BY <1>9 DEF SaveSection
  <2>3. s \in Sections /\ u \in Uploads
    BY <2>1, <2>2 DEF Runs
  <2>4. source' = source /\ answers' = answers /\ profile' = profile /\ bases' = bases
    BY <1>9 DEF SaveSection
  <2>5. Grows
    BY <1>1, <2>2, <2>3, <2>4 DEF Grows, ResumeTypeOK
  <2>6. /\ parse'[w].pc = "save" /\ parse'[w].upload = u /\ parse'[w].left = parse[w].left \ {s}
        /\ \A v \in Parsers \ {w} : parse'[v] = parse[v]
    BY <1>1, <1>9, <2>1, <2>2 DEF SaveSection, SetParse, ResumeTypeOK, Runs
  <2>7. Covers(u, parse[w].left) /\ profile # NoUpload
    BY <1>9 DEF SaveSection, ResumeInvariant, RunsStore, RunStores
  <2>8. PICK found \in answers[u] :
           parse[w].left \subseteq found /\ \A k \in found \ parse[w].left : sections[u][k] > 0
    BY <2>7 DEF Covers
  <2>9. found \subseteq Sections
    BY <1>1, <2>3, <2>8 DEF ResumeTypeOK
  <2>10. \A k \in found \ (parse[w].left \ {s}) : sections'[u][k] > 0
    <3>1. sections'[u][s] > 0
      BY <1>1, <2>2, <2>3 DEF ResumeTypeOK
    <3>2. \A k \in found \ parse[w].left : sections'[u][k] > 0
      BY <2>3, <2>5, <2>8, <2>9 DEF Grows
    <3> QED BY <3>1, <3>2
  <2>11. RunStores(w)'
    BY <2>4, <2>6, <2>7, <2>8, <2>10 DEF RunStores, Covers
  <2> QED BY <2>4, <2>5, <2>6, <2>11, StepOfRun
<1>10. ASSUME NEW w \in Parsers, MarkDone(w) PROVE RunsStore' /\ DoneIsStored'
  <2>1. parse[w] \in Runs
    BY <1>1, <1>10, RunOf DEF MarkDone, Running
  <2> DEFINE u == parse[w].upload
  <2>2. /\ source' = [source EXCEPT ![u] = "DONE"] /\ parse' = [parse EXCEPT ![w] = NoParse]
        /\ answers' = answers /\ UNCHANGED storedVars
    BY <1>10 DEF MarkDone, SetParse
  <2>3. Grows
    BY <2>2 DEF Grows, storedVars
  <2>4. RunsStore'
    <3>1. ASSUME NEW v \in Parsers PROVE RunStores(v)'
      <4>1. CASE v = w
        BY <1>1, <2>2, <4>1 DEF RunStores, NoParse, ResumeTypeOK
      <4>2. CASE v # w
        <5>1. parse'[v] = parse[v]
          BY <1>1, <2>2, <4>2 DEF ResumeTypeOK
        <5> QED BY <1>1, <2>3, <5>1, RunKept DEF ResumeInvariant, RunsStore
      <4> QED BY <4>1, <4>2
    <3> QED BY <3>1 DEF RunsStore
  <2>5. /\ Covers(u, {}) /\ profile # NoUpload /\ bases.default + bases.named > 0
    BY <1>10 DEF MarkDone, ResumeInvariant, RunsStore, RunStores
  <2>6. ASSUME NEW v \in Uploads, source'[v] = "DONE"
        PROVE  /\ profile' # NoUpload
               /\ \E found \in answers'[v] : \A s \in found : sections'[v][s] > 0
               /\ bases'.default + bases'.named > 0
    <3>1. CASE v = u
      BY <2>2, <2>5, <3>1 DEF Covers, storedVars
    <3>2. CASE v # u
      <4>1. source[v] = "DONE"
        BY <1>1, <2>2, <2>6, <3>2 DEF ResumeTypeOK
      <4> QED BY <1>1, <2>3, <2>6, <4>1, DoneKept DEF ResumeInvariant
    <3> QED BY <3>1, <3>2
  <2> QED BY <2>4, <2>6 DEF DoneIsStored
<1> QED BY <1>1, <1>2, <1>3, <1>4, <1>5, <1>6, <1>7, <1>8, <1>9, <1>10
        DEF ResumeNext, ParserSteps, ResumeInvariant

\* A source that is DONE has been stored as a whole, for any number of files
\* and workers, however often jobs are run, fail or die half-way.
THEOREM DoneMeansStored == ASSUME ResumeAssumption PROVE ResumeSpec => []DoneIsStored
<1>1. ResumeInit => ResumeInvariant
  BY ResumeInitOK
<1>2. ResumeInvariant /\ [ResumeNext]_resumeVars => ResumeInvariant'
  BY ResumeStepOK
<1>3. ResumeInvariant => DoneIsStored
  BY DEF ResumeInvariant
<1> QED BY <1>1, <1>2, <1>3, PTL DEF ResumeSpec

\* What a file, a job or the chat is doing, and the rows they write, for any
\* number of files, workers, stalls and reopenings.
THEOREM ResumeTypeCorrect == ASSUME ResumeAssumption PROVE ResumeSpec => []ResumeTypeOK
<1>1. ResumeInit => ResumeInvariant
  BY ResumeInitOK
<1>2. ResumeInvariant /\ [ResumeNext]_resumeVars => ResumeInvariant'
  BY ResumeStepOK
<1>3. ResumeInvariant => ResumeTypeOK
  BY DEF ResumeInvariant
<1> QED BY <1>1, <1>2, <1>3, PTL DEF ResumeSpec
=============================================================================
