------------------------------ MODULE MCProfile ------------------------------
(***************************************************************************)
(* Instances for TLC of what a user puts in and takes out: resumes that    *)
(* are uploaded and parsed, materials edited on the archive page, and      *)
(* exports that the quota counts. They share no state: in each behaviour   *)
(* one of them, named by turn, runs, and the others stay as they began.    *)
(***************************************************************************)
EXTENDS Quota, ResumeParsing, Archive

CONSTANTS alice, bob, a1, a2, a3, b1, p1, p2,
          f1, f2, w1, w2, m1, m2, g1, k1, k2

\* One user with more resumes than the limit allows, one bystander.
MCUsers == {alice, bob}
MCResumes == {a1, a2, a3, b1}
MCOwner == [r \in MCResumes |-> IF r = b1 THEN bob ELSE alice]
MCRequests == {p1, p2}
MCResettable == {alice}

TwoFiles == {f1, f2}
TwoWorkers == {w1, w2}
TwoMaterials == {m1, m2}
OneTag == {g1}
TwoClicks == {k1, k2}

VARIABLE turn

profileRunVars == <<turn, vars, resumeVars, archiveVars>>

ProfileInit ==
    /\ turn \in {"quota", "resume", "archive"}
    /\ Init /\ ResumeInit /\ ArchiveInit
    \* The archive begins with one material or with two.
    /\ library[m1] # NoCopy /\ (turn = "archive" \/ library[m2] # NoCopy)

ProfileNext ==
    /\ UNCHANGED turn
    /\ \/ turn = "quota" /\ Next /\ UNCHANGED <<resumeVars, archiveVars>>
       \/ turn = "resume" /\ ResumeNext /\ UNCHANGED <<vars, archiveVars>>
       \/ turn = "archive" /\ ArchiveNext /\ UNCHANGED <<vars, resumeVars>>

ProfileSpec == ProfileInit /\ [][ProfileNext]_profileRunVars

ProfileTypeOK ==
    /\ turn = "quota" => TypeOK
    /\ turn = "resume" => ResumeTypeOK
    /\ turn = "archive" => ArchiveTypeOK

-----------------------------------------------------------------------------
(* Constraints *)

\* A second file, a job that is run twice, or a chat that is opened again; the
\* model finds all sections, or only one.
FirstFileFirst == request[f2] # "none" => request[f1] # "none"
OneMore ==
    /\ stalls > 0 => request[f2] = "none"
    /\ remounts > 0 => request[f2] = "none" /\ stalls = 0
TwoAnswers == \A u \in Uploads : answers[u] \subseteq {Sections, {"skills"}}

\* Two clicks on one page, or one and then the page loaded again.
FirstClickFirst == click[k2] # NoClick => click[k1] # NoClick /\ reloads = 0
=============================================================================
