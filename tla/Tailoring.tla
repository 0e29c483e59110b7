----------------------------- MODULE Tailoring ------------------------------
(***************************************************************************)
(* The tailored resume (contexts/tailoring): the queued job that generates *)
(* its bullets, the user's edits and material bindings, and the export,    *)
(* which runs consumeOnExport of Quota. Jobs, edits, exports and changes   *)
(* of the user's materials all interleave at their awaits.                 *)
(***************************************************************************)
EXTENDS Quota, EntitySave

CONSTANTS
    Materials,
    MaterialOwner,  \* the user each shining-point material belongs to
    Workers,        \* queue workers, of one or several backend instances
    Editors,        \* edit and bind requests that may be in flight at once
    Positions,      \* bullets one generation writes at most
    MaxStalls       \* times the queue hands a stalled job out again

NoMaterial == "no material"
Confirmable == {"CONFIRMED", "USER_EDITED"}
MaterialStatus == {"PROPOSED", "CONFIRMED", "USER_EDITED"}
BulletStatus == {"PENDING", "CONFIRMED", "USER_EDITED"}
Gone == "GONE"      \* a removed row

ASSUME TailoringAssumption ==
    /\ NoMaterial \notin Materials
    /\ MaterialOwner \in [Materials -> Users]
    /\ MaxStalls \in Nat

Row == [src : Materials \cup {NoMaterial}, status : BulletStatus]
NoRow == [src |-> NoMaterial, status |-> Gone]
BulletIds == [resume : Resumes, batch : 1..(MaxStalls + 1), pos : Positions]

VARIABLES
    material,   \* status of each profile material, or Gone
    patching,   \* materials that an updateMaterial call has loaded
    started,    \* resumes whose tailoring was started
    waiting,    \* jobs waiting in the TAILORING queue, per resume
    stalls,     \* how often the job of a resume was handed out again
    worker,     \* what each worker is doing
    bullet,     \* the tailoring_bullets table
    editor,     \* what each edit or bind request is doing
    export,     \* what each export request holds before and during the charge
    \* observations, of no effect on the rest:
    vetted,     \* materials a user has at some time confirmed or edited
    batches,    \* generations saved for each resume
    shipped     \* bullets that left in an export

genVars == <<started, waiting, stalls, worker, batches>>
editVars == <<bullet, editor>>
matVars == <<material, patching, vetted>>
exportVars == <<quotaVars, delivered, export, shipped>>
tailoringVars == <<genVars, editVars, matVars, exportVars>>

IdleWorker == [pc |-> "idle"]
IdleEditor == [pc |-> "idle"]
IdleExport == [pc |-> "idle"]

Present(r) == {b \in BulletIds : b.resume = r /\ bullet[b] # NoRow}
Pending(r) == {b \in Present(r) : bullet[b].status = "PENDING"}

TailoringTypeOK ==
    /\ TypeOK
    /\ material \in [Materials -> MaterialStatus \cup {Gone}]
    /\ bullet \in [BulletIds -> Row \cup {NoRow}]
    /\ worker \in [Workers -> {IdleWorker}
          \cup [pc : {"count", "materials"}, resume : Resumes]
          \cup [pc : {"llm"}, resume : Resumes, mats : SUBSET Materials]]
    /\ editor \in [Editors -> {IdleEditor}
          \cup [pc : {"load"}, id : BulletIds, mat : Materials]
          \cup [pc : {"save"}, id : BulletIds, row : Row]
          \cup [pc : {"update"}, id : BulletIds, row : Row,
                columns : SUBSET {"src", "status"}]]
    /\ export \in [Requests -> {IdleExport}
          \cup [pc : {"assert"}, resume : Resumes]
          \cup [pc : {"read", "consume"}, resume : Resumes, raced : BOOLEAN, rows : SUBSET Row]]

TailoringInit ==
    /\ Init
    /\ material = [m \in Materials |-> "PROPOSED"]
    /\ patching = {}
    /\ started = {}
    /\ waiting = [r \in Resumes |-> 0]
    /\ stalls = [r \in Resumes |-> 0]
    /\ worker = [w \in Workers |-> IdleWorker]
    /\ bullet = [b \in BulletIds |-> NoRow]
    /\ editor = [e \in Editors |-> IdleEditor]
    /\ export = [p \in Requests |-> IdleExport]
    /\ vetted = [u \in Users |-> {}]
    /\ batches = [r \in Resumes |-> 0]
    /\ shipped = {}

-----------------------------------------------------------------------------
(* The user's materials (profile.service.ts). A material is created         *)
(* PROPOSED. An update loads the row and saves it, which inserts it again   *)
(* when it was removed in between.                                          *)

LoadMaterial(m) ==
    /\ material[m] # Gone
    /\ patching' = patching \cup {m}
    /\ UNCHANGED <<material, vetted, genVars, editVars, exportVars>>

SaveMaterial(m, s) ==
    /\ m \in patching
    /\ material' = [material EXCEPT ![m] = s]
    /\ patching' = patching \ {m}
    /\ vetted' = [vetted EXCEPT ![MaterialOwner[m]] =
                     IF s \in Confirmable THEN @ \cup {m} ELSE @]
    /\ UNCHANGED <<genVars, editVars, exportVars>>

DeleteMaterial(m) ==
    /\ material[m] # Gone
    /\ material' = [material EXCEPT ![m] = Gone]
    /\ UNCHANGED <<patching, vetted, genVars, editVars, exportVars>>

-----------------------------------------------------------------------------
(* TailoringService.start and TailoringProcessor.process *)

Start(r) ==
    /\ r \notin started
    /\ started' = started \cup {r}
    /\ waiting' = [waiting EXCEPT ![r] = @ + 1]
    /\ UNCHANGED <<stalls, worker, batches, editVars, matVars, exportVars>>

SetWorker(w, state) ==
    /\ worker' = [worker EXCEPT ![w] = state]
    /\ UNCHANGED <<started, editVars, matVars, exportVars>>

TakeJob(w, r) ==
    /\ worker[w].pc = "idle"
    /\ waiting[r] > 0
    /\ waiting' = [waiting EXCEPT ![r] = @ - 1]
    /\ SetWorker(w, [pc |-> "count", resume |-> r])
    /\ UNCHANGED <<stalls, batches>>

\* "Idempotent: skip generation if bullets already exist".
CountBullets(w) ==
    /\ worker[w].pc = "count"
    /\ SetWorker(w, IF Present(worker[w].resume) = {}
                    THEN [worker[w] EXCEPT !.pc = "materials"] ELSE IdleWorker)
    /\ UNCHANGED <<waiting, stalls, batches>>

\* forTailoring: the owner's CONFIRMED materials, or the selection of them
\* that the base resume names.
ReadMaterials(w) ==
    /\ worker[w].pc = "materials"
    /\ LET r == worker[w].resume
           confirmed == {m \in Materials : /\ MaterialOwner[m] = Owner[r]
                                           /\ material[m] = "CONFIRMED"}
       IN \E mats \in SUBSET confirmed :
              SetWorker(w, [pc |-> "llm", resume |-> r, mats |-> mats])
    /\ UNCHANGED <<waiting, stalls, batches>>

\* mutants: the model's source is taken at its word; so is its status.
ValidatedOnTrust(raw, mats) ==
    [src |-> raw.src, status |-> IF raw.pending THEN "PENDING" ELSE "CONFIRMED"]
ValidatedRawStatus(raw, mats) ==
    [src |-> NoMaterial, status |-> IF raw.pending THEN "PENDING" ELSE "SUGGESTED"]

\* What the processor makes of one bullet of the model's answer.
Validated(raw, mats) ==
    IF raw.src \in mats
    THEN [src |-> raw.src, status |-> IF raw.pending THEN "PENDING" ELSE "CONFIRMED"]
    ELSE [src |-> NoMaterial, status |-> "PENDING"]

\* The answer may name any material, or none, at any number of positions.
SaveBullets(w) ==
    /\ worker[w].pc = "llm"
    /\ LET r == worker[w].resume
           gen == batches[r] + 1
           raws == [src : Materials \cup {NoMaterial}, pending : BOOLEAN]
       IN \E written \in SUBSET Positions : \E answer \in [written -> raws] :
            /\ bullet' = [b \in BulletIds |->
                  IF b.resume = r /\ b.batch = gen /\ b.pos \in written
                  THEN Validated(answer[b.pos], worker[w].mats) ELSE bullet[b]]
            /\ batches' = [batches EXCEPT ![r] = gen]
            /\ export' = [p \in Requests |->
                  IF export[p].pc = "read" /\ export[p].resume = r
                  THEN [export[p] EXCEPT !.raced = TRUE] ELSE export[p]]
    /\ worker' = [worker EXCEPT ![w] = IdleWorker]
    /\ UNCHANGED <<started, waiting, stalls, editor, matVars, quotaVars, delivered, shipped>>

\* The job description or base resume is missing, the model or the database
\* fails, or the process dies: the queue makes one attempt only.
JobEnds(w) ==
    /\ worker[w].pc # "idle"
    /\ SetWorker(w, IdleWorker)
    /\ UNCHANGED <<waiting, stalls, batches>>

\* The worker does not renew its lock in time and the queue hands the job
\* out again, while the first run may still be going on.
Stall(w) ==
    /\ worker[w].pc # "idle"
    /\ LET r == worker[w].resume
       IN /\ stalls[r] < MaxStalls
          /\ stalls' = [stalls EXCEPT ![r] = @ + 1]
          /\ waiting' = [waiting EXCEPT ![r] = @ + 1]
    /\ UNCHANGED <<started, worker, batches, editVars, matVars, exportVars>>

-----------------------------------------------------------------------------
(* editBullet and reApplyMaterial load a row and save it (EntitySave). The   *)
(* user edits bullets and binds materials of resumes of its own.            *)

SetEditor(e, state) ==
    /\ editor' = [editor EXCEPT ![e] = state]
    /\ UNCHANGED <<bullet, genVars, matVars, exportVars>>

LoadForEdit(e, b) ==
    /\ editor[e].pc = "idle"
    /\ bullet[b] # NoRow
    /\ SetEditor(e, [pc |-> "save", id |-> b,
                     row |-> [bullet[b] EXCEPT !.status = "USER_EDITED"]])

\* Only the owner's own material, confirmed or edited by the user.
CheckMaterial(e, b, m) ==
    /\ editor[e].pc = "idle"
    /\ bullet[b] # NoRow
    /\ MaterialOwner[m] = Owner[b.resume]
    /\ material[m] \in Confirmable
    /\ SetEditor(e, [pc |-> "load", id |-> b, mat |-> m])

\* mutant: binding leaves the status alone.
LoadForBindKeepsStatus(e) ==
    /\ editor[e].pc = "load"
    /\ SetEditor(e, [pc |-> "save", id |-> editor[e].id,
                     row |-> [bullet[editor[e].id] EXCEPT !.src = editor[e].mat]])

LoadForBind(e) ==
    /\ editor[e].pc = "load"
    /\ SetEditor(e, [pc |-> "save", id |-> editor[e].id,
                     row |-> [bullet[editor[e].id] EXCEPT
                                 !.src = editor[e].mat, !.status = "CONFIRMED"]])

SelectBullet(e) ==
    /\ editor[e].pc = "save"
    /\ LET b == editor[e].id
       IN SetEditor(e, [pc |-> "update", id |-> b, row |-> editor[e].row,
                        columns |-> Changed(bullet[b], editor[e].row)])

UpdateBullet(e) ==
    /\ editor[e].pc = "update"
    /\ bullet' = [bullet EXCEPT ![editor[e].id] =
                     Updated(@, editor[e].row, editor[e].columns)]
    /\ editor' = [editor EXCEPT ![e] = IdleEditor]
    /\ UNCHANGED <<genVars, matVars, exportVars>>

EditFails(e) ==
    /\ editor[e].pc # "idle"
    /\ SetEditor(e, IdleEditor)

-----------------------------------------------------------------------------
(* exportPlainText and exportResume: count the pending bullets, read the    *)
(* bullets, charge, answer with the bullets that were read.                 *)

SetExport(p, state) ==
    /\ export' = [export EXCEPT ![p] = state]
    /\ UNCHANGED <<genVars, editVars, matVars, shipped>>

BeginExport(p, r) ==
    /\ export[p].pc = "idle"
    /\ r \in started
    /\ SetExport(p, [pc |-> "assert", resume |-> r])
    /\ UNCHANGED <<quotaVars, delivered>>

\* mutant: the guard is gone.
AssertNothing(p) ==
    /\ export[p].pc = "assert"
    /\ SetExport(p, [pc |-> "read", resume |-> export[p].resume,
                     raced |-> FALSE, rows |-> {}])
    /\ UNCHANGED <<quotaVars, delivered>>

\* assertNoPendingBullets: a pending bullet is answered with 422.
AssertNoPending(p) ==
    /\ export[p].pc = "assert"
    /\ SetExport(p, IF Pending(export[p].resume) = {}
                    THEN [pc |-> "read", resume |-> export[p].resume,
                          raced |-> FALSE, rows |-> {}]
                    ELSE IdleExport)
    /\ UNCHANGED <<quotaVars, delivered>>

ReadBullets(p) ==
    /\ export[p].pc = "read"
    /\ LET r == export[p].resume
       IN /\ SetExport(p, [export[p] EXCEPT !.pc = "consume",
                              !.rows = {bullet[b] : b \in Present(r)}])
          /\ Consume(p, r)
    /\ UNCHANGED delivered

\* consumeOnExport goes on; when it throws, the export is over.
ConsumeStep(p) ==
    /\ export[p].pc = "consume"
    /\ QuotaStep(p)
    /\ SetExport(p, IF pc'[p] = "idle" THEN IdleExport ELSE export[p])
    /\ UNCHANGED delivered

ReturnExport(p) ==
    /\ export[p].pc = "consume"
    /\ Deliver(p)
    /\ shipped' = shipped \cup
          {[resume |-> export[p].resume, row |-> row, raced |-> export[p].raced]
              : row \in export[p].rows}
    /\ export' = [export EXCEPT ![p] = IdleExport]
    /\ UNCHANGED <<genVars, editVars, matVars>>

ExportFails(p) ==
    /\ export[p].pc \in {"assert", "read"}
    /\ SetExport(p, IdleExport)
    /\ UNCHANGED <<quotaVars, delivered>>

-----------------------------------------------------------------------------
TailoringNext ==
    \/ \E m \in Materials : LoadMaterial(m) \/ DeleteMaterial(m)
    \/ \E m \in Materials, s \in MaterialStatus : SaveMaterial(m, s)
    \/ \E r \in Resumes : Start(r)
    \/ \E w \in Workers, r \in Resumes : TakeJob(w, r)
    \/ \E w \in Workers : \/ CountBullets(w) \/ ReadMaterials(w) \/ SaveBullets(w)
                          \/ JobEnds(w) \/ Stall(w)
    \/ \E e \in Editors, b \in BulletIds : LoadForEdit(e, b)
    \/ \E e \in Editors, b \in BulletIds, m \in Materials : CheckMaterial(e, b, m)
    \/ \E e \in Editors : LoadForBind(e) \/ SelectBullet(e) \/ UpdateBullet(e) \/ EditFails(e)
    \/ \E p \in Requests, r \in Resumes : BeginExport(p, r)
    \/ \E p \in Requests : \/ AssertNoPending(p) \/ ReadBullets(p) \/ ConsumeStep(p)
                           \/ ReturnExport(p) \/ ExportFails(p)

TailoringSpec == TailoringInit /\ [][TailoringNext]_tailoringVars

-----------------------------------------------------------------------------
(* Properties *)

\* "Every claim traces back to something you actually said": the source of a
\* bullet is a material that its own user confirmed or edited at some time,
\* however materials are demoted, deleted or inserted again, and whatever the
\* model answers and stale requests write.
SourceIsVetted ==
    \A b \in BulletIds :
        bullet[b].src # NoMaterial => bullet[b].src \in vetted[Owner[b.resume]]

\* The 422 guard lets a PENDING bullet out only when a generation was saved
\* between its count and the read of the bullets.
PendingShippedOnlyByRace ==
    \A x \in shipped : x.row.status = "PENDING" => x.raced

\* A bullet the user has resolved never becomes PENDING again: the stale row
\* of a concurrent edit or bind cannot undo the decision.
ResolvedStaysResolved ==
    [][\A b \in BulletIds :
          bullet[b] # NoRow /\ bullet[b].status # "PENDING"
             => bullet'[b].status \in {"CONFIRMED", "USER_EDITED"}]_tailoringVars

\* The whole of that promise: a CONFIRMED bullet has a source.
ConfirmedIsTraced ==
    \A b \in BulletIds : bullet[b].status = "CONFIRMED" => bullet[b].src # NoMaterial
=============================================================================
