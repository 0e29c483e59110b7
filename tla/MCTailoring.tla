---------------------------- MODULE MCTailoring -----------------------------
(* Instances of Tailoring for TLC. *)
EXTENDS Tailoring, TLC

CONSTANTS alice, bob, ra, m1, m2, p1, p2, w1, w2, e1, e2

\* alice tailors one resume; one material is hers, one is another user's.
MCUsers == {alice, bob}
MCResumes == {ra}
MCOwner == [r \in MCResumes |-> alice]
OneMaterial == {m1}
BothMaterials == {m1, m2}
MCMaterialOwner == [m \in Materials |-> IF m = m1 THEN alice ELSE bob]
OneWorker == {w1}
TwoWorkers == {w1, w2}
TwoEditors == {e1, e2}
OneRequest == {p1}
TwoRequests == {p1, p2}
None == {}

\* Workers are alike, and so are editors; used by runs of safety properties.
Alike == Permutations(TwoWorkers) \cup Permutations(TwoEditors)

\* An export writes no bullet and reads no material, so the two do not have to
\* move in one behaviour: either materials change, under two editors and one
\* generation at a time, or exports run, against one editor and generations
\* that overlap.
Busy(proc) == {x \in DOMAIN proc : proc[x].pc # "idle"}
NoExports == rows = {} /\ Busy(export) = {}
OneGeneration == Cardinality(Busy(worker)) <= 1 /\ \A r \in Resumes : Cardinality(Present(r)) <= 1
MaterialsAtRest ==
    /\ patching = {} /\ \A m \in Materials : material[m] = "PROPOSED"
    /\ \A u \in Users : vetted[u] = {}
OneConcern ==
    \/ NoExports /\ OneGeneration
    \/ MaterialsAtRest /\ Cardinality(Busy(editor)) <= 1

=============================================================================
