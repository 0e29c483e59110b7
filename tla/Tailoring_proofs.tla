--------------------------- MODULE Tailoring_proofs --------------------------
(***************************************************************************)
(* The tailored resume, for any number of users, resumes, materials,       *)
(* workers, edits and exports: bullets trace to materials their own user   *)
(* has vetted, a decision stays, a pending bullet leaves only by the race  *)
(* of a generation with an export, a confirmed one loses its source only   *)
(* by a torn save, and the exports keep the promise of the ledger, because *)
(* each of their steps is one of Quota or leaves its tables alone.         *)
(***************************************************************************)
EXTENDS Tailoring, Quota_proofs

WorkerStates ==
    {IdleWorker}
    \cup [pc : {"count", "materials"}, resume : Resumes]
    \cup [pc : {"llm"}, resume : Resumes, mats : SUBSET Materials]
EditorStates ==
    {IdleEditor}
    \cup [pc : {"load"}, id : BulletIds, mat : Materials]
    \cup [pc : {"save"}, id : BulletIds, row : Row]
    \cup [pc : {"update"}, id : BulletIds, row : Row, columns : SUBSET {"src", "status"}]
ExportStates ==
    {IdleExport}
    \cup [pc : {"assert"}, resume : Resumes]
    \cup [pc : {"read", "consume"}, resume : Resumes, raced : BOOLEAN, rows : SUBSET Row]

\* An edit or a bind goes on with a row that is there, and ends with a
\* decision.
EditorsDecide ==
    \A e \in Editors :
        /\ editor[e].pc # "idle" => bullet[editor[e].id] # NoRow
        /\ editor[e].pc \in {"save", "update"} => editor[e].row.status \in Confirmable

\* A generation is saved under a number no bullet has yet.
BatchesNumbered ==
    /\ batches \in [Resumes -> Nat]
    /\ \A b \in BulletIds : bullet[b] # NoRow => b.batch <= batches[b.resume]

Typed ==
    /\ material \in [Materials -> MaterialStatus \cup {Gone}]
    /\ bullet \in [BulletIds -> Row \cup {NoRow}]
    /\ worker \in [Workers -> WorkerStates]
    /\ editor \in [Editors -> EditorStates]
    /\ export \in [Requests -> ExportStates]

TypeInv == TypeOK /\ Typed /\ EditorsDecide /\ BatchesNumbered

\* Whatever names a source, or is about to, names one that was vetted.
VettedFor(r, src) == src # NoMaterial => src \in vetted[Owner[r]]

MaterialsVetted ==
    /\ vetted \in [Users -> SUBSET Materials]
    /\ \A m \in Materials : material[m] \in Confirmable => m \in vetted[MaterialOwner[m]]

WorkersVetted ==
    \A w \in Workers :
        worker[w].pc = "llm" => worker[w].mats \subseteq vetted[Owner[worker[w].resume]]

EditorsVetted ==
    \A e \in Editors :
        /\ editor[e].pc = "load" => editor[e].mat \in vetted[Owner[editor[e].id.resume]]
        /\ editor[e].pc \in {"save", "update"}
              => VettedFor(editor[e].id.resume, editor[e].row.src)

VettedInv == MaterialsVetted /\ WorkersVetted /\ EditorsVetted /\ SourceIsVetted

\* An export that has passed the guard, and beside which no generation was
\* saved, has no pending bullet to read, and none among those it has read.
RacedInv ==
    /\ \A p \in Requests :
          /\ export[p].pc = "read" /\ ~export[p].raced => Pending(export[p].resume) = {}
          /\ export[p].pc = "consume" =>
                \A row \in export[p].rows : row.status = "PENDING" => export[p].raced
    /\ PendingShippedOnlyByRace

-----------------------------------------------------------------------------
(* What the three kinds of process hold *)

LEMMA WorkerOf ==
    ASSUME NEW w \in Workers, worker[w] \in WorkerStates
    PROVE  /\ worker[w].pc \in {"idle", "count", "materials", "llm"}
           /\ worker[w].pc # "idle" => worker[w].resume \in Resumes
           /\ worker[w].pc = "llm" => worker[w].mats \in SUBSET Materials
           /\ worker[w].pc = "count" =>
                 [worker[w] EXCEPT !.pc = "materials"] = [pc |-> "materials", resume |-> worker[w].resume]
  BY DEF WorkerStates, IdleWorker

LEMMA EditorOf ==
    ASSUME NEW e \in Editors, editor[e] \in EditorStates
    PROVE  /\ editor[e].pc \in {"idle", "load", "save", "update"}
           /\ editor[e].pc # "idle" => editor[e].id \in BulletIds
           /\ editor[e].pc = "load" => editor[e].mat \in Materials
           /\ editor[e].pc \in {"save", "update"} => editor[e].row \in Row
           /\ editor[e].pc = "update" => editor[e].columns \in SUBSET {"src", "status"}
  BY DEF EditorStates, IdleEditor

LEMMA ExportOf ==
    ASSUME NEW p \in Requests, export[p] \in ExportStates
    PROVE  /\ export[p].pc \in {"idle", "assert", "read", "consume"}
           /\ export[p].pc # "idle" => export[p].resume \in Resumes
           /\ export[p].pc \in {"read", "consume"} =>
                 export[p].raced \in BOOLEAN /\ export[p].rows \in SUBSET Row
  BY DEF ExportStates, IdleExport

\* What a generation, and the read of the bullets, make of an export that is
\* past its guard.
LEMMA ReadingIs ==
    ASSUME NEW p \in Requests, export[p] \in ExportStates, export[p].pc = "read",
           NEW read \in SUBSET Row
    PROVE  LET raced == [export[p] EXCEPT !.raced = TRUE]
               full == [export[p] EXCEPT !.pc = "consume", !.rows = read]
           IN /\ raced \in ExportStates /\ full \in ExportStates
              /\ raced.pc = "read" /\ raced.resume = export[p].resume /\ raced.raced = TRUE
              /\ full.pc = "consume" /\ full.resume = export[p].resume
              /\ full.raced = export[p].raced /\ full.rows = read
<1> DEFINE Reads == [pc : {"read", "consume"}, resume : Resumes, raced : BOOLEAN, rows : SUBSET Row]
<1>1. export[p] \in Reads
  BY DEF ExportStates, IdleExport
<1>2. Reads \subseteq ExportStates
  BY DEF ExportStates
<1>3. [export[p] EXCEPT !.raced = TRUE] \in Reads
  BY <1>1
<1>4. [export[p] EXCEPT !.pc = "consume", !.rows = read] \in Reads
  BY <1>1
<1>5. QED
  BY <1>1, <1>2, <1>3, <1>4

LEMMA IdIs == ASSUME NEW b \in BulletIds
              PROVE  b.resume \in Resumes /\ b.batch \in Nat /\ b.pos \in Positions
<1>1. b.batch \in 1..(MaxStalls + 1)
  BY DEF BulletIds
<1> QED BY <1>1 DEF BulletIds

\* Rows and what requests make of them.
LEMMA RowIs == ASSUME NEW row \in Row
               PROVE  /\ row # NoRow /\ row.src \in Materials \cup {NoMaterial}
                      /\ row.status \in BulletStatus /\ DOMAIN row = {"src", "status"}
  BY DEF Row, NoRow, BulletStatus, Gone

LEMMA UpdatedIs ==
    ASSUME NEW row \in Row, NEW entity \in Row, NEW columns
    PROVE  /\ Updated(row, entity, columns) \in Row
           /\ Updated(row, entity, columns).status \in {row.status, entity.status}
           /\ Updated(row, entity, columns).src \in {row.src, entity.src}
  BY DEF Row, Updated

LEMMA ChangedIs == ASSUME NEW row \in Row, NEW entity
                   PROVE  Changed(row, entity) \in SUBSET {"src", "status"}
  BY DEF Row, Changed

LEMMA ValidatedIs ==
    ASSUME NEW raw \in [src : Materials \cup {NoMaterial}, pending : BOOLEAN], NEW mats \in SUBSET Materials
    PROVE  /\ Validated(raw, mats) \in Row
           /\ Validated(raw, mats).src \in mats \cup {NoMaterial}
  BY DEF Row, Validated, BulletStatus

LEMMA TypedIs == TailoringTypeOK <=> TypeOK /\ Typed
  BY DEF TailoringTypeOK, Typed, WorkerStates, EditorStates, ExportStates

-----------------------------------------------------------------------------
(* Each step is a step of Quota, or leaves the tables of Quota alone.       *)

LEMMA QuotaMoves ==
    ASSUME TypeInv, [TailoringNext]_tailoringVars
    PROVE  [Next]_vars
<1> USE DEF vars, quotaVars
<1>1. ASSUME NEW p \in Requests, ReadBullets(p) PROVE Next
  <2>1. Consume(p, export[p].resume) /\ UNCHANGED delivered
    BY <1>1 DEF ReadBullets
  <2>2. export[p].resume \in Resumes
    BY <1>1, ExportOf DEF ReadBullets, TypeInv, Typed
  <2>3. QED
    BY <2>1, <2>2 DEF Next
<1>2. ASSUME NEW p \in Requests, ConsumeStep(p) PROVE Next
  BY <1>2 DEF ConsumeStep, Next
<1>3. ASSUME NEW p \in Requests, ReturnExport(p) PROVE Next
  BY <1>3 DEF ReturnExport, Next
<1>4. ASSUME \/ \E m \in Materials : LoadMaterial(m) \/ DeleteMaterial(m)
             \/ \E m \in Materials, s \in MaterialStatus : SaveMaterial(m, s)
      PROVE  UNCHANGED vars
  BY <1>4 DEF LoadMaterial, DeleteMaterial, SaveMaterial, exportVars
<1>5. ASSUME \/ \E r \in Resumes : Start(r)
             \/ \E w \in Workers, r \in Resumes : TakeJob(w, r)
             \/ \E w \in Workers : \/ CountBullets(w) \/ ReadMaterials(w) \/ SaveBullets(w)
                                   \/ JobEnds(w) \/ Stall(w)
      PROVE  UNCHANGED vars
  BY <1>5 DEF Start, TakeJob, CountBullets, ReadMaterials, SaveBullets, JobEnds, Stall,
              SetWorker, exportVars
<1>6. ASSUME \/ \E e \in Editors, b \in BulletIds : LoadForEdit(e, b)
             \/ \E e \in Editors, b \in BulletIds, m \in Materials : CheckMaterial(e, b, m)
             \/ \E e \in Editors : LoadForBind(e) \/ SelectBullet(e) \/ UpdateBullet(e) \/ EditFails(e)
      PROVE  UNCHANGED vars
  BY <1>6 DEF LoadForEdit, CheckMaterial, LoadForBind, SelectBullet, UpdateBullet, EditFails,
              SetEditor, exportVars
<1>7. ASSUME \/ \E p \in Requests, r \in Resumes : BeginExport(p, r)
             \/ \E p \in Requests : AssertNoPending(p) \/ ExportFails(p)
      PROVE  UNCHANGED vars
  BY <1>7 DEF BeginExport, AssertNoPending, ExportFails
<1>8. CASE UNCHANGED tailoringVars
  BY <1>8 DEF tailoringVars, exportVars
<1>9. QED
  BY <1>1, <1>2, <1>3, <1>4, <1>5, <1>6, <1>7, <1>8 DEF TailoringNext

-----------------------------------------------------------------------------
(* Type correctness *)

LEMMA InitTypeInv == ASSUME QuotaAssumption, TailoringInit PROVE TypeInv
<1>1. TypeOK
  BY InitType DEF TailoringInit
<1>2. Typed
  BY DEF TailoringInit, Typed, MaterialStatus, WorkerStates, EditorStates, ExportStates
<1>3. EditorsDecide /\ BatchesNumbered
  BY DEF TailoringInit, EditorsDecide, BatchesNumbered, IdleEditor
<1>4. QED
  BY <1>1, <1>2, <1>3 DEF TypeInv

LEMMA MaterialType ==
    ASSUME TypeInv, NEW m \in Materials,
           LoadMaterial(m) \/ DeleteMaterial(m) \/ \E s \in MaterialStatus : SaveMaterial(m, s)
    PROVE  Typed' /\ EditorsDecide' /\ BatchesNumbered'
<1>1. UNCHANGED <<bullet, editor, worker, batches, export>>
  BY DEF LoadMaterial, DeleteMaterial, SaveMaterial, genVars, editVars, exportVars
<1>2. material' \in [Materials -> MaterialStatus \cup {Gone}]
  BY DEF LoadMaterial, DeleteMaterial, SaveMaterial, TypeInv, Typed
<1>3. QED
  BY <1>1, <1>2 DEF TypeInv, Typed, EditorsDecide, BatchesNumbered

\* A worker that goes on with one of its states disturbs nothing else.
LEMMA SetWorkerType ==
    ASSUME TypeInv, NEW w \in Workers, NEW state \in WorkerStates, SetWorker(w, state),
           UNCHANGED batches
    PROVE  Typed' /\ EditorsDecide' /\ BatchesNumbered'
<1>1. UNCHANGED <<bullet, editor, material, batches, export>>
  BY DEF SetWorker, matVars, editVars, exportVars
<1>2. worker' \in [Workers -> WorkerStates]
  BY DEF SetWorker, TypeInv, Typed
<1>3. QED
  BY <1>1, <1>2 DEF TypeInv, Typed, EditorsDecide, BatchesNumbered

LEMMA SaveBulletsType ==
    ASSUME TypeInv, NEW w \in Workers, SaveBullets(w)
    PROVE  Typed' /\ EditorsDecide' /\ BatchesNumbered'
<1> DEFINE r == worker[w].resume
           gen == batches[r] + 1
           raws == [src : Materials \cup {NoMaterial}, pending : BOOLEAN]
<1>1. r \in Resumes /\ worker[w].mats \in SUBSET Materials
  BY WorkerOf DEF SaveBullets, TypeInv, Typed
<1>a. PICK written \in SUBSET Positions : \E answer \in [written -> raws] :
         bullet' = [b \in BulletIds |->
                  IF b.resume = r /\ b.batch = gen /\ b.pos \in written
                  THEN Validated(answer[b.pos], worker[w].mats) ELSE bullet[b]]
  BY DEF SaveBullets
<1>2. PICK answer \in [written -> raws] :
         bullet' = [b \in BulletIds |->
                  IF b.resume = r /\ b.batch = gen /\ b.pos \in written
                  THEN Validated(answer[b.pos], worker[w].mats) ELSE bullet[b]]
  BY <1>a
<1>3. /\ UNCHANGED <<editor, material>>
      /\ worker' = [worker EXCEPT ![w] = IdleWorker]
      /\ batches' = [batches EXCEPT ![r] = gen]
      /\ export' = [p \in Requests |->
                  IF export[p].pc = "read" /\ export[p].resume = r
                  THEN [export[p] EXCEPT !.raced = TRUE] ELSE export[p]]
  BY DEF SaveBullets, matVars
<1>4. ASSUME NEW b \in BulletIds
      PROVE  /\ bullet'[b] = bullet[b] \/ (bullet'[b] \in Row /\ b.resume = r /\ b.batch = gen)
             /\ bullet'[b] \in Row \cup {NoRow}
    <2>1. CASE b.resume = r /\ b.batch = gen /\ b.pos \in written
      <3>1. answer[b.pos] \in raws /\ bullet'[b] = Validated(answer[b.pos], worker[w].mats)
        BY <1>2, <2>1
      <3>2. QED
        BY <1>1, <2>1, <3>1, ValidatedIs
    <2>2. CASE ~(b.resume = r /\ b.batch = gen /\ b.pos \in written)
      BY <1>2, <2>2 DEF TypeInv, Typed
    <2>3. QED
      BY <2>1, <2>2
<1>5. ASSUME NEW p \in Requests PROVE export'[p] \in ExportStates
  <2>1. export[p] \in ExportStates
    BY DEF TypeInv, Typed
  <2>2. CASE export[p].pc = "read" /\ export[p].resume = r
    <3>1. export'[p] = [export[p] EXCEPT !.raced = TRUE]
      BY <1>3, <2>2
    <3>2. {} \in SUBSET Row
      OBVIOUS
    <3>3. QED
      BY <2>1, <2>2, <3>1, <3>2, ReadingIs
  <2>3. QED
    BY <1>3, <2>1, <2>2
<1>6. Typed'
  <2>1. bullet' \in [BulletIds -> Row \cup {NoRow}]
    BY <1>2, <1>4
  <2>2. export' \in [Requests -> ExportStates]
    BY <1>3, <1>5
  <2>3. worker' \in [Workers -> WorkerStates]
    BY <1>3 DEF WorkerStates, TypeInv, Typed
  <2>4. QED
    BY <1>3, <2>1, <2>2, <2>3 DEF TypeInv, Typed
<1>7. EditorsDecide'
  <2> SUFFICES ASSUME NEW e \in Editors
               PROVE  /\ editor[e].pc # "idle" => bullet'[editor[e].id] # NoRow
                      /\ editor[e].pc \in {"save", "update"} => editor[e].row.status \in Confirmable
    BY <1>3 DEF EditorsDecide
  <2>1. editor[e].pc # "idle" => editor[e].id \in BulletIds
    BY EditorOf DEF TypeInv, Typed
  <2>2. QED
    BY <1>4, <2>1, RowIs DEF TypeInv, EditorsDecide
<1>8. BatchesNumbered'
  <2>1. batches[r] \in Nat /\ batches' \in [Resumes -> Nat]
    BY <1>1, <1>3 DEF TypeInv, BatchesNumbered
  <2> SUFFICES ASSUME NEW b \in BulletIds, bullet'[b] # NoRow
               PROVE  b.batch <= batches'[b.resume]
    BY <2>1 DEF BatchesNumbered
  <2>2. b.resume \in Resumes /\ b.batch \in Nat
    BY IdIs
  <2>3. batches[b.resume] \in Nat
    BY <2>2 DEF TypeInv, BatchesNumbered
  <2>4. batches'[b.resume] = IF b.resume = r THEN gen ELSE batches[b.resume]
    BY <1>1, <1>3, <2>2 DEF TypeInv, BatchesNumbered
  <2>5. (b.resume = r /\ b.batch = gen) \/ b.batch <= batches[b.resume]
    BY <1>4 DEF TypeInv, BatchesNumbered
  <2>6. QED
    BY <2>1, <2>2, <2>3, <2>4, <2>5
<1>9. QED
  BY <1>6, <1>7, <1>8

\* A request that goes on with one of its states disturbs nothing else.
LEMMA SetEditorType ==
    ASSUME TypeInv, NEW e \in Editors, NEW state \in EditorStates, SetEditor(e, state),
           state.pc # "idle" => bullet[state.id] # NoRow,
           state.pc \in {"save", "update"} => state.row.status \in Confirmable
    PROVE  Typed' /\ EditorsDecide' /\ BatchesNumbered'
<1>1. UNCHANGED <<bullet, worker, material, batches, export>>
  BY DEF SetEditor, genVars, matVars, exportVars
<1>2. editor' = [editor EXCEPT ![e] = state] /\ editor \in [Editors -> EditorStates]
  BY DEF SetEditor, TypeInv, Typed
<1>3. editor' \in [Editors -> EditorStates]
  BY <1>2
<1>4. EditorsDecide'
  BY <1>1, <1>2 DEF EditorsDecide, TypeInv
<1>5. QED
  BY <1>1, <1>3, <1>4 DEF TypeInv, Typed, BatchesNumbered

LEMMA EditorType ==
    ASSUME TypeInv, NEW e \in Editors,
           \/ \E b \in BulletIds : LoadForEdit(e, b)
           \/ \E b \in BulletIds, m \in Materials : CheckMaterial(e, b, m)
           \/ LoadForBind(e) \/ SelectBullet(e) \/ UpdateBullet(e) \/ EditFails(e)
    PROVE  Typed' /\ EditorsDecide' /\ BatchesNumbered'
<1> DEFINE id == editor[e].id
<1>0. /\ editor[e] \in EditorStates
      /\ bullet \in [BulletIds -> Row \cup {NoRow}]
      /\ editor \in [Editors -> EditorStates]
  BY DEF TypeInv, Typed
<1>1. ASSUME NEW b \in BulletIds, LoadForEdit(e, b)
      PROVE  Typed' /\ EditorsDecide' /\ BatchesNumbered'
  <2> DEFINE row == [bullet[b] EXCEPT !.status = "USER_EDITED"]
             state == [pc |-> "save", id |-> b, row |-> row]
  <2>1. bullet[b] \in Row /\ bullet[b] # NoRow /\ SetEditor(e, state)
    BY <1>0, <1>1 DEF LoadForEdit
  <2>2. row \in Row /\ row.status = "USER_EDITED"
    BY <2>1 DEF Row, BulletStatus
  <2>3. state \in EditorStates
    BY <2>2 DEF EditorStates
  <2>4. QED
    BY <2>1, <2>2, <2>3, SetEditorType DEF Confirmable
<1>2. ASSUME NEW b \in BulletIds, NEW m \in Materials, CheckMaterial(e, b, m)
      PROVE  Typed' /\ EditorsDecide' /\ BatchesNumbered'
  <2> DEFINE state == [pc |-> "load", id |-> b, mat |-> m]
  <2>1. bullet[b] # NoRow /\ SetEditor(e, state)
    BY <1>2 DEF CheckMaterial
  <2>2. state \in EditorStates
    BY DEF EditorStates
  <2>3. QED
    BY <2>1, <2>2, SetEditorType
<1>3. CASE LoadForBind(e)
  <2> DEFINE row == [bullet[id] EXCEPT !.src = editor[e].mat, !.status = "CONFIRMED"]
             state == [pc |-> "save", id |-> id, row |-> row]
  <2>1. id \in BulletIds /\ editor[e].mat \in Materials /\ SetEditor(e, state)
    BY <1>0, <1>3, EditorOf DEF LoadForBind
  <2>2. bullet[id] \in Row /\ bullet[id] # NoRow
    BY <1>0, <1>3, <2>1 DEF LoadForBind, TypeInv, EditorsDecide
  <2>3. row \in Row /\ row.status = "CONFIRMED"
    BY <2>1, <2>2 DEF Row, BulletStatus
  <2>4. state \in EditorStates
    BY <2>1, <2>3 DEF EditorStates
  <2>5. QED
    BY <2>1, <2>2, <2>3, <2>4, SetEditorType DEF Confirmable
<1>4. CASE SelectBullet(e)
  <2> DEFINE state == [pc |-> "update", id |-> id, row |-> editor[e].row,
                       columns |-> Changed(bullet[id], editor[e].row)]
  <2>1. id \in BulletIds /\ editor[e].row \in Row /\ SetEditor(e, state)
    BY <1>0, <1>4, EditorOf DEF SelectBullet
  <2>2. /\ bullet[id] \in Row /\ bullet[id] # NoRow
        /\ editor[e].row.status \in Confirmable
    BY <1>0, <1>4, <2>1 DEF SelectBullet, TypeInv, EditorsDecide
  <2>3. Changed(bullet[id], editor[e].row) \in SUBSET {"src", "status"}
    BY <2>2, ChangedIs
  <2>4. state \in EditorStates
    BY <2>1, <2>3 DEF EditorStates
  <2>5. QED
    BY <2>1, <2>2, <2>4, SetEditorType
<1>5. CASE UpdateBullet(e)
  <2> DEFINE new == Updated(bullet[id], editor[e].row, editor[e].columns)
  <2>1. id \in BulletIds /\ editor[e].row \in Row /\ bullet[id] \in Row
    BY <1>0, <1>5, EditorOf DEF UpdateBullet, TypeInv, EditorsDecide
  <2>2. new \in Row /\ new # NoRow
    BY <2>1, UpdatedIs, RowIs
  <2>3. /\ UNCHANGED <<worker, material, batches, export>>
        /\ bullet' = [bullet EXCEPT ![id] = new]
        /\ editor' = [editor EXCEPT ![e] = IdleEditor]
    BY <1>0, <1>5, <2>1 DEF UpdateBullet, genVars, matVars, exportVars
  <2>4. bullet' \in [BulletIds -> Row \cup {NoRow}]
    BY <1>0, <2>2, <2>3
  <2>5. editor' \in [Editors -> EditorStates]
    BY <1>0, <2>3 DEF EditorStates
  <2>6. \A c \in BulletIds : bullet'[c] # NoRow <=> bullet[c] # NoRow
    BY <1>0, <2>1, <2>2, <2>3, RowIs
  <2>7. EditorsDecide'
    <3> SUFFICES ASSUME NEW f \in Editors
                 PROVE  /\ editor'[f].pc # "idle" => bullet'[editor'[f].id] # NoRow
                        /\ editor'[f].pc \in {"save", "update"} => editor'[f].row.status \in Confirmable
      BY DEF EditorsDecide
    <3>1. CASE f = e
      BY <1>0, <2>3, <3>1 DEF IdleEditor
    <3>2. CASE f # e
      <4>1. editor'[f] = editor[f] /\ (editor[f].pc # "idle" => editor[f].id \in BulletIds)
        BY <1>0, <2>3, <3>2, EditorOf
      <4>2. QED
        BY <2>6, <4>1 DEF TypeInv, EditorsDecide
    <3>3. QED
      BY <3>1, <3>2
  <2>8. BatchesNumbered'
    BY <2>3, <2>6 DEF TypeInv, BatchesNumbered
  <2>9. QED
    BY <2>3, <2>4, <2>5, <2>7, <2>8 DEF TypeInv, Typed
<1>6. CASE EditFails(e)
  <2>1. IdleEditor \in EditorStates /\ IdleEditor.pc = "idle"
    BY DEF EditorStates, IdleEditor
  <2>2. QED
    BY <1>6, <2>1, SetEditorType DEF EditFails
<1>7. QED
  BY <1>1, <1>2, <1>3, <1>4, <1>5, <1>6

LEMMA WorkerType ==
    ASSUME TypeInv, NEW w \in Workers,
           \/ \E r \in Resumes : TakeJob(w, r)
           \/ CountBullets(w) \/ ReadMaterials(w) \/ SaveBullets(w) \/ JobEnds(w) \/ Stall(w)
    PROVE  Typed' /\ EditorsDecide' /\ BatchesNumbered'
<1>0. worker[w] \in WorkerStates /\ IdleWorker \in WorkerStates
  BY DEF TypeInv, Typed, WorkerStates
<1>1. CASE Stall(w)
  <2>1. UNCHANGED <<material, bullet, worker, editor, export, batches>>
    BY <1>1 DEF Stall, editVars, matVars, exportVars
  <2>2. QED
    BY <2>1 DEF TypeInv, Typed, EditorsDecide, BatchesNumbered
<1>2. ASSUME NEW r \in Resumes, TakeJob(w, r)
      PROVE  Typed' /\ EditorsDecide' /\ BatchesNumbered'
  <2>1. [pc |-> "count", resume |-> r] \in WorkerStates
    BY DEF WorkerStates
  <2>2. QED
    BY <1>2, <2>1, SetWorkerType DEF TakeJob
<1>3. CASE CountBullets(w)
  <2>1. [worker[w] EXCEPT !.pc = "materials"] \in WorkerStates
    BY <1>0, <1>3, WorkerOf DEF CountBullets, WorkerStates
  <2>2. QED
    BY <1>0, <1>3, <2>1, SetWorkerType DEF CountBullets
<1>4. CASE ReadMaterials(w)
  <2>1. worker[w].resume \in Resumes
    BY <1>0, <1>4, WorkerOf DEF ReadMaterials
  <2>2. PICK mats \in SUBSET Materials :
           SetWorker(w, [pc |-> "llm", resume |-> worker[w].resume, mats |-> mats])
    BY <1>4 DEF ReadMaterials
  <2>3. [pc |-> "llm", resume |-> worker[w].resume, mats |-> mats] \in WorkerStates
    BY <2>1 DEF WorkerStates
  <2>4. QED
    BY <1>4, <2>2, <2>3, SetWorkerType DEF ReadMaterials
<1>5. CASE SaveBullets(w)
  BY <1>5, SaveBulletsType
<1>6. CASE JobEnds(w)
  BY <1>0, <1>6, SetWorkerType DEF JobEnds
<1>7. QED
  BY <1>1, <1>2, <1>3, <1>4, <1>5, <1>6

LEMMA ExportType ==
    ASSUME TypeInv, NEW p \in Requests,
           \/ \E r \in Resumes : BeginExport(p, r)
           \/ AssertNoPending(p) \/ ReadBullets(p) \/ ConsumeStep(p)
           \/ ReturnExport(p) \/ ExportFails(p)
    PROVE  Typed' /\ EditorsDecide' /\ BatchesNumbered'
<1>0. /\ export[p] \in ExportStates /\ export \in [Requests -> ExportStates]
      /\ IdleExport \in ExportStates
  BY DEF TypeInv, Typed, ExportStates
<1>1. UNCHANGED <<material, bullet, worker, editor, batches>>
  BY DEF BeginExport, AssertNoPending, ReadBullets, ConsumeStep, ReturnExport, ExportFails,
         SetExport, genVars, editVars, matVars
<1>2. \E state \in ExportStates : export' = [export EXCEPT ![p] = state]
  <2>1. ASSUME NEW r \in Resumes, BeginExport(p, r)
        PROVE  \E state \in ExportStates : export' = [export EXCEPT ![p] = state]
    <3>1. [pc |-> "assert", resume |-> r] \in ExportStates
      BY DEF ExportStates
    <3>2. QED
      BY <2>1, <3>1 DEF BeginExport, SetExport
  <2>2. CASE AssertNoPending(p)
    <3>1. export[p].resume \in Resumes
      BY <1>0, <2>2, ExportOf DEF AssertNoPending
    <3>2. [pc |-> "read", resume |-> export[p].resume, raced |-> FALSE, rows |-> {}] \in ExportStates
      BY <3>1 DEF ExportStates
    <3>3. QED
      BY <1>0, <2>2, <3>2 DEF AssertNoPending, SetExport
  <2>3. CASE ReadBullets(p)
    <3> DEFINE read == {bullet[b] : b \in Present(export[p].resume)}
    <3>1. read \in SUBSET Row
      BY DEF Present, TypeInv, Typed
    <3>2. [export[p] EXCEPT !.pc = "consume", !.rows = read] \in ExportStates
      BY <1>0, <2>3, <3>1, ReadingIs DEF ReadBullets
    <3>3. QED
      BY <2>3, <3>2 DEF ReadBullets, SetExport
  <2>4. CASE ConsumeStep(p)
    BY <1>0, <2>4 DEF ConsumeStep, SetExport
  <2>5. CASE ReturnExport(p)
    BY <1>0, <2>5 DEF ReturnExport
  <2>6. CASE ExportFails(p)
    BY <1>0, <2>6 DEF ExportFails, SetExport
  <2>7. QED
    BY <2>1, <2>2, <2>3, <2>4, <2>5, <2>6
<1>3. export' \in [Requests -> ExportStates]
  BY <1>0, <1>2
<1>4. QED
  BY <1>1, <1>3 DEF TypeInv, Typed, EditorsDecide, BatchesNumbered

LEMMA NextTypeInv ==
    ASSUME QuotaAssumption, TypeInv, [TailoringNext]_tailoringVars
    PROVE  TypeInv'
<1>1. TypeOK'
  BY QuotaMoves, NextType DEF TypeInv
<1>2. Typed' /\ EditorsDecide' /\ BatchesNumbered'
  <2>1. CASE \E r \in Resumes : Start(r)
    <3>1. UNCHANGED <<material, bullet, worker, editor, export, batches>>
      BY <2>1 DEF Start, editVars, matVars, exportVars
    <3>2. QED
      BY <3>1 DEF TypeInv, Typed, EditorsDecide, BatchesNumbered
  <2>2. CASE UNCHANGED tailoringVars
    BY <2>2 DEF tailoringVars, genVars, editVars, matVars, exportVars, TypeInv, Typed,
                EditorsDecide, BatchesNumbered
  <2>3. QED
    BY <2>1, <2>2, MaterialType, WorkerType, EditorType, ExportType DEF TailoringNext
<1>3. QED
  BY <1>1, <1>2 DEF TypeInv

LEMMA TypeInvCorrect == ASSUME QuotaAssumption PROVE TailoringSpec => []TypeInv
<1>1. TailoringInit => TypeInv
  BY InitTypeInv
<1>2. TypeInv /\ [TailoringNext]_tailoringVars => TypeInv'
  BY NextTypeInv
<1>3. QED
  BY <1>1, <1>2, PTL DEF TailoringSpec

\* Type correctness of the tailored resume and of the exports.
THEOREM TailoringTypeCorrect == ASSUME QuotaAssumption PROVE TailoringSpec => []TailoringTypeOK
<1>1. TypeInv => TailoringTypeOK
  BY TypedIs DEF TypeInv
<1>2. QED
  BY <1>1, TypeInvCorrect, PTL

-----------------------------------------------------------------------------
(* The exports of a tailored resume are the requests of Quota: what Quota   *)
(* promises of any requests holds of them.                                  *)

LEMMA TailoringImplementsQuota == ASSUME QuotaAssumption PROVE TailoringSpec => Spec
<1>1. TailoringInit => Init
  BY DEF TailoringInit
<1>2. TypeInv /\ [TailoringNext]_tailoringVars => [Next]_vars
  BY QuotaMoves
<1>3. QED
  BY <1>1, <1>2, TypeInvCorrect, PTL DEF TailoringSpec, Spec

\* With guards, edits, generations and material changes around it, an export
\* is still charged once, counted once, and paid for before it is handed out.
THEOREM ExportsImplementLedger == ASSUME QuotaAssumption PROVE TailoringSpec => ImplementsLedger
  BY TailoringImplementsQuota, LedgerRefinement, PTL

\* No interleaving of exports with generations, edits and material changes
\* makes a counter show more than its user has paid for.
THEOREM ExportsNeverOvercharged == ASSUME QuotaAssumption PROVE TailoringSpec => []NeverOvercharged
  BY TailoringImplementsQuota, NoDoubleCharge, PTL

\* What an export hands out is in the consume log, so a retry of it is free.
THEOREM ExportsArePaid == ASSUME QuotaAssumption PROVE TailoringSpec => []DeliveredWasCharged
  BY TailoringImplementsQuota, NothingUnpaid, PTL

\* Exports in flight together pass the limit by less than their number.
THEOREM ExportsOvershoot == ASSUME QuotaAssumption PROVE TailoringSpec => []OvershootBounded
  BY TailoringImplementsQuota, Overshoot, PTL

-----------------------------------------------------------------------------
(* A decision stays. A bullet row is written by a generation, at a number   *)
(* no row has, and by edits and binds, which end with a decision.           *)

LEMMA UpdateWritesDecision ==
    ASSUME TypeInv, NEW e \in Editors, UpdateBullet(e)
    PROVE  LET id == editor[e].id
           IN /\ id \in BulletIds /\ bullet[id] \in Row /\ bullet[id] # NoRow
              /\ editor[e].row \in Row /\ editor[e].row.status \in Confirmable
              /\ bullet' = [bullet EXCEPT ![id] =
                               Updated(bullet[id], editor[e].row, editor[e].columns)]
              /\ bullet'[id] = Updated(bullet[id], editor[e].row, editor[e].columns)
              /\ bullet'[id].status \in {bullet[id].status, editor[e].row.status}
              /\ bullet'[id].src \in {bullet[id].src, editor[e].row.src}
<1> DEFINE id == editor[e].id
<1>1. /\ id \in BulletIds /\ editor[e].row \in Row
      /\ editor[e].row.status \in Confirmable /\ bullet[id] # NoRow
      /\ bullet \in [BulletIds -> Row \cup {NoRow}]
  BY EditorOf DEF UpdateBullet, TypeInv, Typed, EditorsDecide
<1>2. bullet[id] \in Row
  BY <1>1
<1>3. bullet' = [bullet EXCEPT ![id] = Updated(bullet[id], editor[e].row, editor[e].columns)]
  BY <1>1 DEF UpdateBullet
<1>4. bullet'[id] = Updated(bullet[id], editor[e].row, editor[e].columns)
  BY <1>1, <1>3
<1>5. QED
  BY <1>1, <1>2, <1>3, <1>4, UpdatedIs

\* Bullets are written by SaveBullets and UpdateBullet alone.
LEMMA BulletStep ==
    ASSUME [TailoringNext]_tailoringVars
    PROVE  \/ bullet' = bullet
           \/ \E w \in Workers : SaveBullets(w)
           \/ \E e \in Editors : UpdateBullet(e)
<1>1. CASE \/ \E m \in Materials : LoadMaterial(m) \/ DeleteMaterial(m)
           \/ \E m \in Materials, s \in MaterialStatus : SaveMaterial(m, s)
  BY <1>1 DEF LoadMaterial, DeleteMaterial, SaveMaterial, editVars
<1>2. CASE \/ \E r \in Resumes : Start(r)
           \/ \E w \in Workers, r \in Resumes : TakeJob(w, r)
           \/ \E w \in Workers : CountBullets(w) \/ ReadMaterials(w) \/ JobEnds(w) \/ Stall(w)
  BY <1>2 DEF Start, TakeJob, CountBullets, ReadMaterials, JobEnds, Stall, SetWorker, editVars
<1>3. CASE \/ \E e \in Editors, b \in BulletIds : LoadForEdit(e, b)
           \/ \E e \in Editors, b \in BulletIds, m \in Materials : CheckMaterial(e, b, m)
           \/ \E e \in Editors : LoadForBind(e) \/ SelectBullet(e) \/ EditFails(e)
  BY <1>3 DEF LoadForEdit, CheckMaterial, LoadForBind, SelectBullet, EditFails, SetEditor
<1>4. CASE \/ \E p \in Requests, r \in Resumes : BeginExport(p, r)
           \/ \E p \in Requests : \/ AssertNoPending(p) \/ ReadBullets(p) \/ ConsumeStep(p)
                                  \/ ReturnExport(p) \/ ExportFails(p)
  BY <1>4 DEF BeginExport, AssertNoPending, ReadBullets, ConsumeStep, ReturnExport,
              ExportFails, SetExport, editVars
<1>5. CASE UNCHANGED tailoringVars
  BY <1>5 DEF tailoringVars, editVars
<1>6. QED
  BY <1>1, <1>2, <1>3, <1>4, <1>5 DEF TailoringNext

\* A generation writes rows that were not there, and only those of its resume.
LEMMA SaveBulletsWrites ==
    ASSUME TypeInv, NEW w \in Workers, SaveBullets(w), NEW b \in BulletIds
    PROVE  \/ bullet'[b] = bullet[b]
           \/ /\ bullet[b] = NoRow /\ b.resume = worker[w].resume
              /\ bullet'[b] \in Row /\ bullet'[b].src \in worker[w].mats \cup {NoMaterial}
<1> DEFINE r == worker[w].resume
           gen == batches[r] + 1
           raws == [src : Materials \cup {NoMaterial}, pending : BOOLEAN]
<1>1. r \in Resumes /\ worker[w].mats \in SUBSET Materials /\ batches[r] \in Nat
  BY WorkerOf DEF SaveBullets, TypeInv, Typed, BatchesNumbered
<1>2. PICK written \in SUBSET Positions : \E answer \in [written -> raws] :
         bullet' = [c \in BulletIds |->
                  IF c.resume = r /\ c.batch = gen /\ c.pos \in written
                  THEN Validated(answer[c.pos], worker[w].mats) ELSE bullet[c]]
  BY DEF SaveBullets
<1>3. PICK answer \in [written -> raws] :
         bullet' = [c \in BulletIds |->
                  IF c.resume = r /\ c.batch = gen /\ c.pos \in written
                  THEN Validated(answer[c.pos], worker[w].mats) ELSE bullet[c]]
  BY <1>2
<1>4. CASE b.resume = r /\ b.batch = gen /\ b.pos \in written
  <2>1. answer[b.pos] \in raws /\ bullet'[b] = Validated(answer[b.pos], worker[w].mats)
    BY <1>3, <1>4
  <2>2. bullet[b] = NoRow
    BY <1>1, <1>4 DEF TypeInv, BatchesNumbered
  <2>3. QED
    BY <1>1, <1>4, <2>1, <2>2, ValidatedIs
<1>5. QED
  BY <1>3, <1>4

\* Whatever requests and jobs are in flight, and however stale the row they
\* hold, a bullet the user has resolved is never PENDING again.
THEOREM DecisionsStay == ASSUME QuotaAssumption PROVE TailoringSpec => ResolvedStaysResolved
<1> DEFINE Stays == \A b \in BulletIds :
                       bullet[b] # NoRow /\ bullet[b].status # "PENDING"
                          => bullet'[b].status \in {"CONFIRMED", "USER_EDITED"}
<1>1. ASSUME TypeInv, [TailoringNext]_tailoringVars PROVE Stays
  <2> SUFFICES ASSUME NEW b \in BulletIds, bullet[b] # NoRow, bullet[b].status # "PENDING"
               PROVE  bullet'[b].status \in {"CONFIRMED", "USER_EDITED"}
    OBVIOUS
  <2>1. bullet \in [BulletIds -> Row \cup {NoRow}] /\ bullet[b] \in Row
    BY <1>1 DEF TypeInv, Typed
  <2>2. bullet[b].status \in {"CONFIRMED", "USER_EDITED"}
    BY <2>1, RowIs DEF BulletStatus
  <2>3. CASE \E w \in Workers : SaveBullets(w)
    BY <1>1, <2>2, <2>3, SaveBulletsWrites
  <2>4. CASE \E e \in Editors : UpdateBullet(e)
    <3>1. PICK e \in Editors : UpdateBullet(e)
      BY <2>4
    <3>2. CASE b = editor[e].id
      BY <1>1, <2>2, <3>1, <3>2, UpdateWritesDecision DEF Confirmable
    <3>3. CASE b # editor[e].id
      BY <1>1, <2>1, <2>2, <3>1, <3>3, UpdateWritesDecision
    <3>4. QED
      BY <3>2, <3>3
  <2>5. QED
    BY <1>1, <2>2, <2>3, <2>4, BulletStep
<1>2. TypeInv /\ [TailoringNext]_tailoringVars => [Stays]_tailoringVars
  BY <1>1
<1>3. QED
  BY <1>2, TypeInvCorrect, PTL DEF TailoringSpec, ResolvedStaysResolved

-----------------------------------------------------------------------------
(* Every source was vetted. What was vetted stays in "vetted", so it is     *)
(* enough to see where a name enters: from a confirmed material into a      *)
(* worker or a bind, from there into a bullet, from a bullet into an edit.  *)

LEMMA OwnerIs == ASSUME QuotaAssumption, NEW r \in Resumes PROVE Owner[r] \in Users
  BY DEF QuotaAssumption

\* What a process holds belongs to a user.
LEMMA HeldFor ==
    ASSUME QuotaAssumption, TypeInv
    PROVE  /\ \A w \in Workers : worker[w].pc # "idle" => Owner[worker[w].resume] \in Users
           /\ \A e \in Editors : editor[e].pc # "idle" => Owner[editor[e].id.resume] \in Users
           /\ \A b \in BulletIds : Owner[b.resume] \in Users
<1>1. \A w \in Workers : worker[w].pc # "idle" => Owner[worker[w].resume] \in Users
  BY WorkerOf, OwnerIs DEF TypeInv, Typed
<1>2. \A e \in Editors : editor[e].pc # "idle" => editor[e].id \in BulletIds
  BY EditorOf DEF TypeInv, Typed
<1>3. \A b \in BulletIds : Owner[b.resume] \in Users
  BY IdIs, OwnerIs
<1>4. QED
  BY <1>1, <1>2, <1>3

\* A change of the user's materials only adds to what was vetted.
LEMMA MaterialVets ==
    ASSUME QuotaAssumption, TailoringAssumption, TypeInv, VettedInv, NEW m \in Materials,
           LoadMaterial(m) \/ DeleteMaterial(m) \/ \E s \in MaterialStatus : SaveMaterial(m, s)
    PROVE  VettedInv'
<1>1. /\ vetted \in [Users -> SUBSET Materials] /\ MaterialOwner[m] \in Users
      /\ material \in [Materials -> MaterialStatus \cup {Gone}]
  BY DEF VettedInv, MaterialsVetted, TailoringAssumption, TypeInv, Typed
<1>2. UNCHANGED <<worker, editor, bullet>>
  BY DEF LoadMaterial, DeleteMaterial, SaveMaterial, genVars, editVars
<1>3. \A u \in Users : vetted[u] \subseteq vetted'[u]
  BY <1>1 DEF LoadMaterial, DeleteMaterial, SaveMaterial
<1>4. MaterialsVetted'
  <2>1. CASE LoadMaterial(m)
    BY <2>1 DEF LoadMaterial, VettedInv, MaterialsVetted
  <2>2. CASE DeleteMaterial(m)
    <3>1. vetted' = vetted /\ \A n \in Materials : material'[n] \in {material[n], Gone}
      BY <1>1, <2>2 DEF DeleteMaterial
    <3>2. QED
      BY <3>1 DEF VettedInv, MaterialsVetted, Confirmable, Gone
  <2>3. ASSUME NEW s \in MaterialStatus, SaveMaterial(m, s) PROVE MaterialsVetted'
    <3>1. /\ material' = [material EXCEPT ![m] = s]
          /\ vetted' = [vetted EXCEPT ![MaterialOwner[m]] =
                           IF s \in Confirmable THEN @ \cup {m} ELSE @]
      BY <2>3 DEF SaveMaterial
    <3>2. vetted' \in [Users -> SUBSET Materials]
      BY <1>1, <3>1
    <3>3. ASSUME NEW n \in Materials, material'[n] \in Confirmable
          PROVE  n \in vetted'[MaterialOwner[n]]
      <4>1. CASE n = m
        BY <1>1, <3>1, <3>3, <4>1
      <4>2. CASE n # m
        <5>1. n \in vetted[MaterialOwner[n]] /\ MaterialOwner[n] \in Users
          BY <1>1, <3>1, <3>3, <4>2 DEF VettedInv, MaterialsVetted, TailoringAssumption
        <5>2. QED
          BY <1>3, <5>1
      <4>3. QED
        BY <4>1, <4>2
    <3>4. QED
      BY <3>2, <3>3 DEF MaterialsVetted
  <2>4. QED
    BY <2>1, <2>2, <2>3
<1>5. WorkersVetted'
  <2> SUFFICES ASSUME NEW w \in Workers, worker[w].pc = "llm"
               PROVE  worker[w].mats \subseteq vetted'[Owner[worker[w].resume]]
    BY <1>2 DEF WorkersVetted
  <2>1. Owner[worker[w].resume] \in Users
    BY HeldFor
  <2>2. QED
    BY <1>3, <2>1 DEF VettedInv, WorkersVetted
<1>6. EditorsVetted'
  <2> SUFFICES ASSUME NEW e \in Editors
               PROVE  /\ editor[e].pc = "load" => editor[e].mat \in vetted'[Owner[editor[e].id.resume]]
                      /\ editor[e].pc \in {"save", "update"} =>
                            VettedFor(editor[e].id.resume, editor[e].row.src)'
    BY <1>2 DEF EditorsVetted, VettedFor
  <2>1. editor[e].pc # "idle" => Owner[editor[e].id.resume] \in Users
    BY HeldFor
  <2>2. QED
    BY <1>2, <1>3, <2>1 DEF VettedInv, EditorsVetted, VettedFor
<1>7. SourceIsVetted'
  BY <1>2, <1>3, HeldFor DEF VettedInv, SourceIsVetted
<1>8. QED
  BY <1>4, <1>5, <1>6, <1>7 DEF VettedInv

\* A worker reads confirmed materials, and writes no other source.
LEMMA WorkerVets ==
    ASSUME QuotaAssumption, TailoringAssumption, TypeInv, VettedInv, NEW w \in Workers,
           \/ \E r \in Resumes : TakeJob(w, r)
           \/ CountBullets(w) \/ ReadMaterials(w) \/ SaveBullets(w) \/ JobEnds(w) \/ Stall(w)
    PROVE  VettedInv'
<1>0. worker \in [Workers -> WorkerStates] /\ worker[w] \in WorkerStates
  BY DEF TypeInv, Typed
<1>1. UNCHANGED <<material, vetted, editor>>
  BY DEF TakeJob, CountBullets, ReadMaterials, SaveBullets, JobEnds, Stall, SetWorker,
         matVars, editVars
<1>2. MaterialsVetted' /\ EditorsVetted'
  BY <1>1 DEF VettedInv, MaterialsVetted, EditorsVetted, VettedFor
<1>3. WorkersVetted'
  <2>1. ASSUME NEW state, worker' = [worker EXCEPT ![w] = state],
               state.pc = "llm" => state.mats \subseteq vetted[Owner[state.resume]]
        PROVE  WorkersVetted'
    BY <1>0, <1>1, <2>1 DEF VettedInv, WorkersVetted
  <2>2. CASE ReadMaterials(w)
    <3>1. worker[w].resume \in Resumes
      BY <1>0, <2>2, WorkerOf DEF ReadMaterials
    <3>2. PICK mats : /\ \A m \in mats : /\ m \in Materials /\ material[m] = "CONFIRMED"
                                         /\ MaterialOwner[m] = Owner[worker[w].resume]
                      /\ worker' = [worker EXCEPT ![w] =
                             [pc |-> "llm", resume |-> worker[w].resume, mats |-> mats]]
      BY <2>2 DEF ReadMaterials, SetWorker
    <3>3. mats \subseteq vetted[Owner[worker[w].resume]]
      BY <3>2 DEF VettedInv, MaterialsVetted, Confirmable
    <3>4. QED
      BY <2>1, <3>2, <3>3
  <2>3. CASE \E r \in Resumes : TakeJob(w, r)
    <3>1. PICK r \in Resumes : worker' = [worker EXCEPT ![w] = [pc |-> "count", resume |-> r]]
      BY <2>3 DEF TakeJob, SetWorker
    <3>2. QED
      BY <2>1, <3>1
  <2>4. CASE CountBullets(w)
    <3> DEFINE next == [worker[w] EXCEPT !.pc = "materials"]
    <3>1. next.pc = "materials" /\ IdleWorker.pc = "idle"
      BY <1>0, <2>4, WorkerOf DEF CountBullets, IdleWorker
    <3>2. worker' = [worker EXCEPT ![w] = next] \/ worker' = [worker EXCEPT ![w] = IdleWorker]
      BY <2>4 DEF CountBullets, SetWorker
    <3> HIDE DEF next
    <3>3. QED
      BY <2>1, <3>1, <3>2
  <2>5. CASE SaveBullets(w) \/ JobEnds(w)
    <3>1. worker' = [worker EXCEPT ![w] = IdleWorker]
      BY <2>5 DEF SaveBullets, JobEnds, SetWorker
    <3>2. QED
      BY <2>1, <3>1 DEF IdleWorker
  <2>6. CASE Stall(w)
    BY <1>1, <2>6 DEF Stall, VettedInv, WorkersVetted
  <2>7. QED
    BY <2>2, <2>3, <2>4, <2>5, <2>6
<1>4. SourceIsVetted'
  <2>1. CASE SaveBullets(w)
    <3> SUFFICES ASSUME NEW b \in BulletIds, bullet'[b].src # NoMaterial
                 PROVE  bullet'[b].src \in vetted[Owner[b.resume]]
      BY <1>1 DEF SourceIsVetted
    <3>1. worker[w].mats \subseteq vetted[Owner[worker[w].resume]]
      BY <2>1 DEF SaveBullets, VettedInv, WorkersVetted
    <3>2. QED
      BY <2>1, <3>1, SaveBulletsWrites DEF VettedInv, SourceIsVetted
  <2>2. CASE bullet' = bullet
    BY <1>1, <2>2 DEF VettedInv, SourceIsVetted
  <2>3. bullet' = bullet \/ SaveBullets(w)
    BY DEF TakeJob, CountBullets, ReadMaterials, JobEnds, Stall, SetWorker, editVars
  <2>4. QED
    BY <2>1, <2>2, <2>3
<1>5. QED
  BY <1>2, <1>3, <1>4 DEF VettedInv

\* A bind takes a confirmed material of the owner; an edit keeps the source
\* of the row it loaded.
LEMMA EditorVets ==
    ASSUME QuotaAssumption, TailoringAssumption, TypeInv, VettedInv, NEW e \in Editors,
           \/ \E b \in BulletIds : LoadForEdit(e, b)
           \/ \E b \in BulletIds, m \in Materials : CheckMaterial(e, b, m)
           \/ LoadForBind(e) \/ SelectBullet(e) \/ UpdateBullet(e) \/ EditFails(e)
    PROVE  VettedInv'
<1>0. /\ editor \in [Editors -> EditorStates] /\ editor[e] \in EditorStates
      /\ bullet \in [BulletIds -> Row \cup {NoRow}]
  BY DEF TypeInv, Typed
<1>1. UNCHANGED <<material, vetted, worker>>
  BY DEF LoadForEdit, CheckMaterial, LoadForBind, SelectBullet, UpdateBullet, EditFails,
         SetEditor, matVars, genVars
<1>2. MaterialsVetted' /\ WorkersVetted'
  BY <1>1 DEF VettedInv, MaterialsVetted, WorkersVetted
<1>3. EditorsVetted'
  <2>1. ASSUME NEW state, editor' = [editor EXCEPT ![e] = state],
               state.pc = "load" => state.mat \in vetted[Owner[state.id.resume]],
               state.pc \in {"save", "update"} => VettedFor(state.id.resume, state.row.src)
        PROVE  EditorsVetted'
    BY <1>0, <1>1, <2>1 DEF VettedInv, EditorsVetted, VettedFor
  <2>2. ASSUME NEW b \in BulletIds, LoadForEdit(e, b) PROVE EditorsVetted'
    <3> DEFINE row == [bullet[b] EXCEPT !.status = "USER_EDITED"]
    <3>1. editor' = [editor EXCEPT ![e] = [pc |-> "save", id |-> b, row |-> row]]
      BY <2>2 DEF LoadForEdit, SetEditor
    <3>2. row.src = bullet[b].src
      BY <1>0, <2>2 DEF LoadForEdit, Row
    <3>3. VettedFor(b.resume, row.src)
      BY <3>2 DEF VettedInv, SourceIsVetted, VettedFor
    <3> HIDE DEF row
    <3>4. QED
      BY <2>1, <3>1, <3>3
  <2>3. ASSUME NEW b \in BulletIds, NEW m \in Materials, CheckMaterial(e, b, m)
        PROVE  EditorsVetted'
    <3>1. editor' = [editor EXCEPT ![e] = [pc |-> "load", id |-> b, mat |-> m]]
      BY <2>3 DEF CheckMaterial, SetEditor
    <3>2. m \in vetted[Owner[b.resume]]
      BY <2>3 DEF CheckMaterial, VettedInv, MaterialsVetted
    <3>3. QED
      BY <2>1, <3>1, <3>2
  <2>4. CASE LoadForBind(e)
    <3> DEFINE id == editor[e].id
               row == [bullet[id] EXCEPT !.src = editor[e].mat, !.status = "CONFIRMED"]
    <3>1. editor' = [editor EXCEPT ![e] = [pc |-> "save", id |-> id, row |-> row]]
      BY <2>4 DEF LoadForBind, SetEditor
    <3>2. id \in BulletIds /\ bullet[id] \in Row
      BY <1>0, <2>4, EditorOf DEF LoadForBind, TypeInv, EditorsDecide
    <3>3. row.src = editor[e].mat
      BY <3>2 DEF Row
    <3>4. VettedFor(id.resume, row.src)
      BY <2>4, <3>3 DEF LoadForBind, VettedInv, EditorsVetted, VettedFor
    <3> HIDE DEF row
    <3>5. QED
      BY <2>1, <3>1, <3>4
  <2>5. CASE SelectBullet(e)
    <3> DEFINE columns == Changed(bullet[editor[e].id], editor[e].row)
    <3>1. editor' = [editor EXCEPT ![e] = [pc |-> "update", id |-> editor[e].id,
                                           row |-> editor[e].row, columns |-> columns]]
      BY <2>5 DEF SelectBullet, SetEditor
    <3>2. VettedFor(editor[e].id.resume, editor[e].row.src)
      BY <2>5 DEF SelectBullet, VettedInv, EditorsVetted
    <3> HIDE DEF columns
    <3>3. QED
      BY <2>1, <3>1, <3>2
  <2>6. CASE UpdateBullet(e) \/ EditFails(e)
    <3>1. editor' = [editor EXCEPT ![e] = IdleEditor]
      BY <2>6 DEF UpdateBullet, EditFails, SetEditor
    <3>2. QED
      BY <2>1, <3>1 DEF IdleEditor
  <2>7. QED
    BY <2>2, <2>3, <2>4, <2>5, <2>6
<1>4. SourceIsVetted'
  <2>1. CASE UpdateBullet(e)
    <3> DEFINE id == editor[e].id
    <3>1. VettedFor(id.resume, editor[e].row.src) /\ VettedFor(id.resume, bullet[id].src)
      BY <2>1, UpdateWritesDecision
         DEF UpdateBullet, VettedInv, EditorsVetted, SourceIsVetted, VettedFor
    <3>2. VettedFor(id.resume, bullet'[id].src)
      BY <2>1, <3>1, UpdateWritesDecision
    <3>3. \A b \in BulletIds : b # id => bullet'[b] = bullet[b]
      BY <1>0, <2>1, UpdateWritesDecision
    <3>4. QED
      BY <1>1, <3>2, <3>3 DEF VettedInv, SourceIsVetted, VettedFor
  <2>2. CASE bullet' = bullet
    BY <1>1, <2>2 DEF VettedInv, SourceIsVetted
  <2>3. bullet' = bullet \/ UpdateBullet(e)
    BY DEF LoadForEdit, CheckMaterial, LoadForBind, SelectBullet, EditFails, SetEditor
  <2>4. QED
    BY <2>1, <2>2, <2>3
<1>5. QED
  BY <1>2, <1>3, <1>4 DEF VettedInv

LEMMA NextVetted ==
    ASSUME QuotaAssumption, TailoringAssumption, TypeInv, VettedInv, [TailoringNext]_tailoringVars
    PROVE  VettedInv'
<1>1. ASSUME UNCHANGED <<material, vetted, worker, editor, bullet>> PROVE VettedInv'
  BY <1>1 DEF VettedInv, MaterialsVetted, WorkersVetted, EditorsVetted, SourceIsVetted, VettedFor
<1>2. CASE \E r \in Resumes : Start(r)
  BY <1>1, <1>2 DEF Start, matVars, editVars
<1>3. CASE \/ \E p \in Requests, r \in Resumes : BeginExport(p, r)
           \/ \E p \in Requests : \/ AssertNoPending(p) \/ ReadBullets(p) \/ ConsumeStep(p)
                                  \/ ReturnExport(p) \/ ExportFails(p)
  BY <1>1, <1>3 DEF BeginExport, AssertNoPending, ReadBullets, ConsumeStep, ReturnExport,
                    ExportFails, SetExport, genVars, editVars, matVars
<1>4. CASE UNCHANGED tailoringVars
  BY <1>1, <1>4 DEF tailoringVars, genVars, editVars, matVars
<1>5. QED
  BY <1>2, <1>3, <1>4, MaterialVets, WorkerVets, EditorVets DEF TailoringNext

\* "Every claim traces back to something you actually said": at every moment
\* the source of a bullet is a material its own user has vetted.
THEOREM SourcesAreVetted ==
    ASSUME QuotaAssumption, TailoringAssumption
    PROVE  TailoringSpec => []SourceIsVetted
<1>1. TailoringInit => VettedInv
  BY DEF TailoringInit, VettedInv, MaterialsVetted, WorkersVetted, EditorsVetted, SourceIsVetted,
         IdleWorker, IdleEditor, NoRow, Confirmable
<1>2. TypeInv /\ VettedInv /\ [TailoringNext]_tailoringVars => VettedInv'
  BY NextVetted
<1>3. VettedInv => SourceIsVetted
  BY DEF VettedInv
<1>4. QED
  BY <1>1, <1>2, <1>3, TypeInvCorrect, PTL DEF TailoringSpec

-----------------------------------------------------------------------------
(* A pending bullet leaves only by the race of a generation with an export. *)
(* Between the count and the read only a generation can add one, and it     *)
(* marks the export; edits and binds never make a bullet pending.           *)

\* An update of a bullet makes no resume's bullets pending that were not.
LEMMA UpdateKeepsResolved ==
    ASSUME TypeInv, NEW e \in Editors, UpdateBullet(e), NEW r, Pending(r) = {}
    PROVE  Pending(r)' = {}
<1> DEFINE id == editor[e].id
<1>1. bullet \in [BulletIds -> Row \cup {NoRow}]
  BY DEF TypeInv, Typed
<1>2. SUFFICES ASSUME NEW b \in BulletIds, b.resume = r, bullet'[b] # NoRow, bullet'[b].status = "PENDING"
               PROVE  FALSE
  BY DEF Pending, Present
<1>3. CASE b = id
  <2>1. bullet[b] # NoRow /\ bullet[b].status = "PENDING"
    BY <1>2, <1>3, UpdateWritesDecision DEF Confirmable
  <2>2. QED
    BY <1>2, <2>1 DEF Pending, Present
<1>4. CASE b # id
  BY <1>1, <1>2, <1>4, UpdateWritesDecision DEF Pending, Present
<1>5. QED
  BY <1>3, <1>4

\* What is neither read nor shipped, and whose bullets are not made pending,
\* keeps the invariant.
LEMMA RacedFrame ==
    ASSUME RacedInv, UNCHANGED <<export, shipped>>,
           \A r \in Resumes : Pending(r) = {} => Pending(r)' = {},
           TypeInv
    PROVE  RacedInv'
<1>1. \A p \in Requests : export[p].pc = "read" => export[p].resume \in Resumes
  BY ExportOf DEF TypeInv, Typed
<1>2. QED
  BY <1>1 DEF RacedInv, PendingShippedOnlyByRace

LEMMA SaveBulletsRaced ==
    ASSUME TypeInv, RacedInv, NEW w \in Workers, SaveBullets(w)
    PROVE  RacedInv'
<1> DEFINE r == worker[w].resume
<1>1. /\ shipped' = shipped
      /\ export' = [p \in Requests |->
                  IF export[p].pc = "read" /\ export[p].resume = r
                  THEN [export[p] EXCEPT !.raced = TRUE] ELSE export[p]]
  BY DEF SaveBullets
<1>2. \A q : q # r => Pending(q)' \subseteq Pending(q)
  <2>1. \A b \in BulletIds : b.resume # r => bullet'[b] = bullet[b]
    BY SaveBulletsWrites
  <2>2. QED
    BY <2>1 DEF Pending, Present
<1>3. ASSUME NEW p \in Requests
      PROVE  /\ export'[p].pc = "read" /\ ~export'[p].raced => Pending(export[p].resume)' = {}
                                                            /\ export'[p] = export[p]
             /\ export'[p].pc = "consume" => export'[p] = export[p]
  <2>1. export[p] \in ExportStates
    BY DEF TypeInv, Typed
  <2>2. CASE export[p].pc = "read" /\ export[p].resume = r
    <3>1. export'[p] = [export[p] EXCEPT !.raced = TRUE] /\ {} \in SUBSET Row
      BY <1>1, <2>2
    <3> DEFINE next == [export[p] EXCEPT !.raced = TRUE]
    <3>2. next.pc = "read" /\ next.raced = TRUE
      BY <2>1, <2>2, <3>1, ReadingIs
    <3>3. export'[p].pc = "read" /\ export'[p].raced = TRUE
      BY <3>1, <3>2, Zenon
    <3>4. QED
      BY <3>3
  <2>3. CASE ~(export[p].pc = "read" /\ export[p].resume = r)
    <3>1. export'[p] = export[p]
      BY <1>1, <2>3
    <3>2. QED
      BY <1>2, <2>3, <3>1 DEF RacedInv
  <2>4. QED
    BY <2>2, <2>3
<1>4. QED
  BY <1>1, <1>3 DEF RacedInv, PendingShippedOnlyByRace

LEMMA ExportRaced ==
    ASSUME TypeInv, RacedInv, NEW p \in Requests,
           \/ \E r \in Resumes : BeginExport(p, r)
           \/ AssertNoPending(p) \/ ReadBullets(p) \/ ConsumeStep(p)
           \/ ReturnExport(p) \/ ExportFails(p)
    PROVE  RacedInv'
<1>0. export[p] \in ExportStates /\ export \in [Requests -> ExportStates]
  BY DEF TypeInv, Typed
<1>1. bullet' = bullet
  BY DEF BeginExport, AssertNoPending, ReadBullets, ConsumeStep, ReturnExport, ExportFails,
         SetExport, editVars
<1>2. \A r : Pending(r)' = Pending(r)
  BY <1>1 DEF Pending, Present
<1>3. ASSUME NEW state, export' = [export EXCEPT ![p] = state],
             state.pc = "read" /\ ~state.raced => Pending(state.resume) = {},
             state.pc = "consume" => \A row \in state.rows : row.status = "PENDING" => state.raced,
             \A x \in shipped' : x \in shipped \/ (x.row.status = "PENDING" => x.raced)
      PROVE  RacedInv'
  <2>1. export'[p] = state /\ \A q \in Requests : q # p => export'[q] = export[q]
    BY <1>0, <1>3
  <2>2. QED
    BY <1>2, <1>3, <2>1 DEF RacedInv, PendingShippedOnlyByRace
<1>4. ASSUME NEW r \in Resumes, BeginExport(p, r) PROVE RacedInv'
  <2>1. export' = [export EXCEPT ![p] = [pc |-> "assert", resume |-> r]] /\ shipped' = shipped
    BY <1>4 DEF BeginExport, SetExport
  <2>2. QED
    BY <1>3, <2>1
<1>5. CASE AssertNoPending(p)
  <2> DEFINE next == [pc |-> "read", resume |-> export[p].resume, raced |-> FALSE, rows |-> {}]
  <2>1. shipped' = shipped
    BY <1>5 DEF AssertNoPending, SetExport
  <2>2. CASE Pending(export[p].resume) = {}
    <3>1. export' = [export EXCEPT ![p] = next]
      BY <1>5, <2>2 DEF AssertNoPending, SetExport
    <3>2. QED
      BY <1>3, <2>1, <2>2, <3>1
  <2>3. CASE Pending(export[p].resume) # {}
    <3>1. export' = [export EXCEPT ![p] = IdleExport]
      BY <1>5, <2>3 DEF AssertNoPending, SetExport
    <3>2. QED
      BY <1>3, <2>1, <3>1 DEF IdleExport
  <2>4. QED
    BY <2>2, <2>3
<1>6. CASE ReadBullets(p)
  <2> DEFINE read == {bullet[b] : b \in Present(export[p].resume)}
             next == [export[p] EXCEPT !.pc = "consume", !.rows = read]
  <2>1. export[p].pc = "read" /\ export' = [export EXCEPT ![p] = next] /\ shipped' = shipped
    BY <1>6 DEF ReadBullets, SetExport
  <2>2. read \in SUBSET Row
    BY DEF Present, TypeInv, Typed
  <2>3. next.pc = "consume" /\ next.raced = export[p].raced /\ next.rows = read
    BY <1>0, <2>1, <2>2, ReadingIs
  <2>4. \A row \in read : row.status = "PENDING" => export[p].raced
    <3>1. ASSUME NEW b \in Present(export[p].resume), bullet[b].status = "PENDING"
          PROVE  export[p].raced
      <4>1. b \in Pending(export[p].resume)
        BY <3>1 DEF Pending
      <4>2. export[p].raced \in BOOLEAN
        BY <1>0, <2>1, ExportOf
      <4>3. QED
        BY <2>1, <4>1, <4>2 DEF RacedInv
    <3>2. QED
      BY <3>1
  <2> HIDE DEF next, read
  <2>5. QED
    BY <1>3, <2>1, <2>3, <2>4
<1>7. CASE ConsumeStep(p)
  <2>1. shipped' = shipped
    BY <1>7 DEF ConsumeStep, SetExport
  <2>2. CASE export' = [export EXCEPT ![p] = IdleExport]
    BY <1>3, <2>1, <2>2 DEF IdleExport
  <2>3. CASE export' = [export EXCEPT ![p] = export[p]]
    BY <1>3, <2>1, <2>3 DEF RacedInv
  <2>4. QED
    BY <1>7, <2>2, <2>3 DEF ConsumeStep, SetExport
<1>8. CASE ReturnExport(p)
  <2>1. /\ export[p].pc = "consume" /\ export' = [export EXCEPT ![p] = IdleExport]
        /\ shipped' = shipped \cup
              {[resume |-> export[p].resume, row |-> row, raced |-> export[p].raced]
                  : row \in export[p].rows}
    BY <1>8 DEF ReturnExport
  <2>2. \A x \in shipped' : x \in shipped \/ (x.row.status = "PENDING" => x.raced)
    BY <2>1 DEF RacedInv
  <2>3. QED
    BY <1>3, <2>1, <2>2 DEF IdleExport
<1>9. CASE ExportFails(p)
  <2>1. export' = [export EXCEPT ![p] = IdleExport] /\ shipped' = shipped
    BY <1>9 DEF ExportFails, SetExport
  <2>2. QED
    BY <1>3, <2>1 DEF IdleExport
<1>10. QED
  BY <1>4, <1>5, <1>6, <1>7, <1>8, <1>9

LEMMA NextRaced ==
    ASSUME TypeInv, RacedInv, [TailoringNext]_tailoringVars
    PROVE  RacedInv'
<1>1. ASSUME UNCHANGED <<bullet, export, shipped>> PROVE RacedInv'
  <2>1. \A r : Pending(r)' = Pending(r)
    BY <1>1 DEF Pending, Present
  <2>2. QED
    BY <1>1, <2>1, RacedFrame
<1>2. CASE \/ \E m \in Materials : LoadMaterial(m) \/ DeleteMaterial(m)
           \/ \E m \in Materials, s \in MaterialStatus : SaveMaterial(m, s)
  BY <1>1, <1>2 DEF LoadMaterial, DeleteMaterial, SaveMaterial, editVars, exportVars
<1>3. CASE \/ \E r \in Resumes : Start(r)
           \/ \E w \in Workers, r \in Resumes : TakeJob(w, r)
           \/ \E w \in Workers : CountBullets(w) \/ ReadMaterials(w) \/ JobEnds(w) \/ Stall(w)
  BY <1>1, <1>3 DEF Start, TakeJob, CountBullets, ReadMaterials, JobEnds, Stall, SetWorker,
                    editVars, exportVars
<1>4. CASE \/ \E e \in Editors, b \in BulletIds : LoadForEdit(e, b)
           \/ \E e \in Editors, b \in BulletIds, m \in Materials : CheckMaterial(e, b, m)
           \/ \E e \in Editors : LoadForBind(e) \/ SelectBullet(e) \/ EditFails(e)
  BY <1>1, <1>4 DEF LoadForEdit, CheckMaterial, LoadForBind, SelectBullet, EditFails,
                    SetEditor, exportVars
<1>5. ASSUME NEW e \in Editors, UpdateBullet(e) PROVE RacedInv'
  <2>1. UNCHANGED <<export, shipped>>
    BY <1>5 DEF UpdateBullet, exportVars
  <2>2. QED
    BY <1>5, <2>1, UpdateKeepsResolved, RacedFrame
<1>6. CASE UNCHANGED tailoringVars
  BY <1>1, <1>6 DEF tailoringVars, editVars, exportVars
<1>7. QED
  BY <1>2, <1>3, <1>4, <1>5, <1>6, SaveBulletsRaced, ExportRaced DEF TailoringNext

\* The guard of the exports lets a pending bullet out only when a generation
\* was saved between its count and the read of the bullets.
THEOREM PendingNeedsARace ==
    ASSUME QuotaAssumption
    PROVE  TailoringSpec => []PendingShippedOnlyByRace
<1>1. TailoringInit => RacedInv
  BY DEF TailoringInit, RacedInv, PendingShippedOnlyByRace, IdleExport
<1>2. TypeInv /\ RacedInv /\ [TailoringNext]_tailoringVars => RacedInv'
  BY NextRaced
<1>3. RacedInv => PendingShippedOnlyByRace
  BY DEF RacedInv
<1>4. QED
  BY <1>1, <1>2, <1>3, TypeInvCorrect, PTL DEF TailoringSpec

-----------------------------------------------------------------------------
(* How far ConfirmedIsTraced is from true *)

Traced(b) == bullet[b].status = "CONFIRMED" => bullet[b].src # NoMaterial

\* The row has changed between the select and the update of the save.
Torn(e) ==
    /\ editor[e].pc = "update"
    /\ editor[e].columns # Changed(bullet[editor[e].id], editor[e].row)

\* A bullet loses its source while it is confirmed only by a save that another
\* one has overtaken between its two statements: no answer of the model, no
\* change of a material and no stale row, written as a whole, takes it away.
UntracedByTornSave ==
    \A b \in BulletIds : Traced(b) /\ ~Traced(b)' =>
        \E e \in Editors : Torn(e) /\ editor[e].id = b /\ editor'[e] = IdleEditor
UntracedOnlyByTornSave == [][UntracedByTornSave]_tailoringVars

\* What would do: no two saves of one bullet between select and update.
OneSaveAtATime ==
    \A e, f \in Editors :
        editor[e].pc = "update" /\ editor[f].pc = "update" /\ editor[e].id = editor[f].id => e = f

\* An edit ends as USER_EDITED and a bind brings a material: whatever they hold
\* is traced.
EditorsTraced ==
    \A e \in Editors :
        editor[e].pc \in {"save", "update"} /\ editor[e].row.status = "CONFIRMED"
            => editor[e].row.src # NoMaterial

EditorSteps(e) ==
    \/ \E b \in BulletIds : LoadForEdit(e, b)
    \/ \E b \in BulletIds, m \in Materials : CheckMaterial(e, b, m)
    \/ LoadForBind(e) \/ SelectBullet(e) \/ UpdateBullet(e) \/ EditFails(e)

LEMMA EditorStep ==
    ASSUME [TailoringNext]_tailoringVars
    PROVE  editor' = editor \/ \E e \in Editors : EditorSteps(e)
<1>1. CASE \/ \E m \in Materials : LoadMaterial(m) \/ DeleteMaterial(m)
           \/ \E m \in Materials, s \in MaterialStatus : SaveMaterial(m, s)
  BY <1>1 DEF LoadMaterial, DeleteMaterial, SaveMaterial, editVars
<1>2. CASE \/ \E r \in Resumes : Start(r)
           \/ \E w \in Workers, r \in Resumes : TakeJob(w, r)
           \/ \E w \in Workers : \/ CountBullets(w) \/ ReadMaterials(w) \/ SaveBullets(w)
                                 \/ JobEnds(w) \/ Stall(w)
  BY <1>2 DEF Start, TakeJob, CountBullets, ReadMaterials, SaveBullets, JobEnds, Stall, SetWorker,
              editVars
<1>3. CASE \/ \E p \in Requests, r \in Resumes : BeginExport(p, r)
           \/ \E p \in Requests : \/ AssertNoPending(p) \/ ReadBullets(p) \/ ConsumeStep(p)
                                  \/ ReturnExport(p) \/ ExportFails(p)
  BY <1>3 DEF BeginExport, AssertNoPending, ReadBullets, ConsumeStep, ReturnExport,
              ExportFails, SetExport, editVars
<1>4. CASE UNCHANGED tailoringVars
  BY <1>4 DEF tailoringVars, editVars
<1> QED BY <1>1, <1>2, <1>3, <1>4 DEF TailoringNext, EditorSteps

\* A step of an editor, by what it holds afterwards: a row it has made of the
\* one it loaded, the columns it found to differ, or nothing to save.
LEMMA EditorHolds ==
    ASSUME TailoringAssumption, TypeInv, NEW e \in Editors, EditorSteps(e)
    PROVE  /\ \A f \in Editors \ {e} : editor'[f] = editor[f]
           /\ \/ editor'[e].pc \in {"idle", "load"}
              \/ /\ editor'[e].pc = "save"
                 /\ editor'[e].row.status = "CONFIRMED" => editor'[e].row.src # NoMaterial
              \/ /\ editor[e].pc = "save" /\ editor'[e].pc = "update" /\ bullet' = bullet
                 /\ editor'[e].id = editor[e].id /\ editor'[e].row = editor[e].row
                 /\ editor'[e].columns = Changed(bullet[editor[e].id], editor[e].row)
<1> DEFINE id == editor[e].id
<1>0. /\ editor[e] \in EditorStates
      /\ bullet \in [BulletIds -> Row \cup {NoRow}]
      /\ editor \in [Editors -> EditorStates]
  BY DEF TypeInv, Typed
<1>1. \A f \in Editors \ {e} : editor'[f] = editor[f]
  BY <1>0 DEF EditorSteps, LoadForEdit, CheckMaterial, LoadForBind, SelectBullet, UpdateBullet,
              EditFails, SetEditor
<1>2. ASSUME NEW b \in BulletIds, LoadForEdit(e, b)
      PROVE  editor'[e].pc = "save" /\ editor'[e].row.status = "USER_EDITED"
  <2> DEFINE row == [bullet[b] EXCEPT !.status = "USER_EDITED"]
  <2>1. bullet[b] \in Row
    BY <1>0, <1>2 DEF LoadForEdit
  <2>2. row.status = "USER_EDITED"
    BY <2>1 DEF Row
  <2>3. editor' = [editor EXCEPT ![e] = [pc |-> "save", id |-> b, row |-> row]]
    BY <1>2 DEF LoadForEdit, SetEditor
  <2> HIDE DEF row
  <2> QED BY <1>0, <2>2, <2>3
<1>3. ASSUME NEW b \in BulletIds, NEW m \in Materials, CheckMaterial(e, b, m)
      PROVE  editor'[e].pc = "load"
  BY <1>0, <1>3 DEF CheckMaterial, SetEditor
<1>4. CASE LoadForBind(e)
  <2> DEFINE row == [bullet[id] EXCEPT !.src = editor[e].mat, !.status = "CONFIRMED"]
  <2>1. bullet[id] \in Row /\ editor[e].mat \in Materials
    BY <1>0, <1>4, EditorOf DEF LoadForBind, TypeInv, EditorsDecide
  <2>2. row.src # NoMaterial
    BY <2>1 DEF Row, TailoringAssumption
  <2>3. editor' = [editor EXCEPT ![e] = [pc |-> "save", id |-> id, row |-> row]]
    BY <1>4 DEF LoadForBind, SetEditor
  <2>4. editor'[e] = [pc |-> "save", id |-> id, row |-> row]
    BY <1>0, <2>3
  <2> HIDE DEF row, id
  <2>5. editor'[e].pc = "save" /\ editor'[e].row = row
    BY <2>4
  <2> QED BY <1>1, <2>2, <2>5
<1>5. CASE SelectBullet(e)
  <2> DEFINE state == [pc |-> "update", id |-> id, row |-> editor[e].row,
                       columns |-> Changed(bullet[id], editor[e].row)]
  <2>1. editor' = [editor EXCEPT ![e] = state] /\ editor[e].pc = "save" /\ bullet' = bullet
    BY <1>5 DEF SelectBullet, SetEditor
  <2>2. editor'[e] = state
    BY <1>0, <2>1
  <2> QED BY <1>1, <2>1, <2>2
<1>6. CASE UpdateBullet(e) \/ EditFails(e)
  BY <1>0, <1>1, <1>6 DEF UpdateBullet, EditFails, SetEditor, IdleEditor
<1> QED BY <1>1, <1>2, <1>3, <1>4, <1>5, <1>6 DEF EditorSteps

LEMMA NextTraced ==
    ASSUME TailoringAssumption, TypeInv, EditorsTraced, [TailoringNext]_tailoringVars
    PROVE  EditorsTraced'
<1>1. CASE editor' = editor
  BY <1>1 DEF EditorsTraced
<1>2. ASSUME NEW e \in Editors, EditorSteps(e) PROVE EditorsTraced'
  BY <1>2, EditorHolds DEF EditorsTraced
<1> QED BY <1>1, <1>2, EditorStep

\* A save that was not overtaken writes the row it holds.
LEMMA WholeSave ==
    ASSUME TypeInv, NEW e \in Editors, UpdateBullet(e), ~Torn(e)
    PROVE  bullet'[editor[e].id] = editor[e].row
<1> DEFINE id == editor[e].id
<1>1. /\ bullet[id] \in Row /\ editor[e].row \in Row
      /\ bullet'[id] = Updated(bullet[id], editor[e].row, editor[e].columns)
  BY UpdateWritesDecision
<1>2. editor[e].columns = Changed(bullet[id], editor[e].row)
  BY DEF Torn, UpdateBullet
<1>3. ASSUME NEW old \in Row, NEW new \in Row PROVE Updated(old, new, Changed(old, new)) = new
  BY DEF Updated, Changed, Row
<1> QED BY <1>1, <1>2, <1>3

\* A generation writes no CONFIRMED row without a source.
LEMMA SaveBulletsTraced ==
    ASSUME TypeInv, TailoringAssumption, NEW w \in Workers, SaveBullets(w),
           NEW b \in BulletIds, Traced(b)
    PROVE  Traced(b)'
<1> DEFINE r == worker[w].resume
           gen == batches[r] + 1
           raws == [src : Materials \cup {NoMaterial}, pending : BOOLEAN]
<1>1. worker[w].mats \in SUBSET Materials
  BY WorkerOf DEF SaveBullets, TypeInv, Typed
<1>2. PICK written \in SUBSET Positions : \E answer \in [written -> raws] :
         bullet' = [c \in BulletIds |->
                  IF c.resume = r /\ c.batch = gen /\ c.pos \in written
                  THEN Validated(answer[c.pos], worker[w].mats) ELSE bullet[c]]
  BY DEF SaveBullets
<1>3. PICK answer \in [written -> raws] :
         bullet' = [c \in BulletIds |->
                  IF c.resume = r /\ c.batch = gen /\ c.pos \in written
                  THEN Validated(answer[c.pos], worker[w].mats) ELSE bullet[c]]
  BY <1>2
<1>4. \/ bullet'[b] = bullet[b]
      \/ \E raw \in raws : bullet'[b] = Validated(raw, worker[w].mats)
  BY <1>3
<1>5. \A raw \in raws : LET row == Validated(raw, worker[w].mats)
                        IN row.status = "CONFIRMED" => row.src # NoMaterial
  BY <1>1 DEF Validated, TailoringAssumption
<1> QED BY <1>4, <1>5 DEF Traced

LEMMA NextUntraced ==
    ASSUME TailoringAssumption, TypeInv, EditorsTraced, [TailoringNext]_tailoringVars
    PROVE  UntracedByTornSave
<1> SUFFICES ASSUME NEW b \in BulletIds, Traced(b), ~Traced(b)'
             PROVE  \E e \in Editors : Torn(e) /\ editor[e].id = b /\ editor'[e] = IdleEditor
  BY DEF UntracedByTornSave
<1>1. PICK e \in Editors : UpdateBullet(e)
  BY BulletStep, SaveBulletsTraced DEF Traced
<1>2. editor[e].id = b
  BY <1>1, UpdateWritesDecision DEF Traced, TypeInv, Typed
<1>3. Torn(e)
  <2>1. bullet'[b] = editor[e].row => Traced(b)'
    BY <1>1 DEF EditorsTraced, Traced, UpdateBullet
  <2> QED BY <1>1, <1>2, <2>1, WholeSave
<1>4. editor'[e] = IdleEditor
  BY <1>1 DEF UpdateBullet, TypeInv, Typed
<1> QED BY <1>2, <1>3, <1>4

TraceInv == TypeInv /\ EditorsTraced

LEMMA TraceInvariant ==
    ASSUME QuotaAssumption, TailoringAssumption PROVE TailoringSpec => []TraceInv
<1>1. TailoringInit => TraceInv
  BY InitTypeInv DEF TraceInv, TailoringInit, EditorsTraced, IdleEditor
<1>2. TraceInv /\ [TailoringNext]_tailoringVars => TraceInv'
  BY NextTypeInv, NextTraced DEF TraceInv
<1> QED BY <1>1, <1>2, PTL DEF TailoringSpec

\* A confirmed bullet loses its source by a torn save and by nothing else, for
\* any number of editors, workers, materials and bullets: the only way in which
\* ConfirmedIsTraced fails.
THEOREM TornSaveUntraces ==
    ASSUME QuotaAssumption, TailoringAssumption PROVE TailoringSpec => UntracedOnlyByTornSave
<1>1. TraceInv /\ [TailoringNext]_tailoringVars => [UntracedByTornSave]_tailoringVars
  BY NextUntraced DEF TraceInv
<1> QED BY <1>1, TraceInvariant, PTL DEF TailoringSpec, UntracedOnlyByTornSave

\* As long as saves of one bullet do not overlap, what a save has found to
\* differ differs until it is written.
NoneTorn == \A e \in Editors : ~Torn(e)

LEMMA NextNoneTorn ==
    ASSUME TailoringAssumption, TypeInv, OneSaveAtATime, NoneTorn, [TailoringNext]_tailoringVars
    PROVE  NoneTorn'
<1> SUFFICES ASSUME NEW f \in Editors, editor'[f].pc = "update"
             PROVE  editor'[f].columns = Changed(bullet'[editor'[f].id], editor'[f].row)
  BY DEF NoneTorn, Torn
<1>1. CASE editor'[f] = editor[f]
  <2> DEFINE id == editor[f].id
  <2>1. /\ editor[f].pc = "update" /\ id \in BulletIds /\ bullet[id] # NoRow
        /\ editor[f].columns = Changed(bullet[id], editor[f].row)
    BY <1>1, EditorOf DEF TypeInv, Typed, EditorsDecide, NoneTorn, Torn
  <2>2. bullet'[id] = bullet[id]
    <3>1. CASE \E w \in Workers : SaveBullets(w)
      BY <2>1, <3>1, SaveBulletsWrites
    <3>2. ASSUME NEW e \in Editors, UpdateBullet(e) PROVE bullet'[id] = bullet[id]
      <4>1. editor'[e] = IdleEditor /\ editor[e].pc = "update"
        BY <3>2 DEF UpdateBullet, TypeInv, Typed
      <4>2. e # f
        BY <1>1, <2>1, <4>1 DEF IdleEditor
      <4>3. editor[e].id # id
        BY <2>1, <4>1, <4>2 DEF OneSaveAtATime
      <4> QED BY <2>1, <3>2, <4>3, UpdateWritesDecision DEF TypeInv, Typed
    <3> QED BY <3>1, <3>2, BulletStep
  <2> QED BY <1>1, <2>1, <2>2
<1>2. ASSUME NEW e \in Editors, EditorSteps(e), editor'[f] # editor[f]
      PROVE  editor'[f].columns = Changed(bullet'[editor'[f].id], editor'[f].row)
  BY <1>2, EditorHolds
<1> QED BY <1>1, <1>2, EditorStep

\* The promise is kept wherever saves of one bullet do not overlap between
\* their select and their update (a row lock would do): then every confirmed
\* bullet has a source, however stale the rows that edits and binds hold.
THEOREM SerialSavesTrace ==
    ASSUME QuotaAssumption, TailoringAssumption
    PROVE  TailoringSpec /\ []OneSaveAtATime => []ConfirmedIsTraced
<1>1. TailoringInit => NoneTorn /\ ConfirmedIsTraced
  BY DEF TailoringInit, NoneTorn, Torn, ConfirmedIsTraced, IdleEditor, NoRow, Gone
<1>2. TraceInv /\ OneSaveAtATime /\ NoneTorn /\ [TailoringNext]_tailoringVars => NoneTorn'
  BY NextNoneTorn DEF TraceInv
<1>3. TraceInv /\ NoneTorn /\ ConfirmedIsTraced /\ [TailoringNext]_tailoringVars
      => ConfirmedIsTraced'
  BY NextUntraced DEF TraceInv, ConfirmedIsTraced, UntracedByTornSave, Traced, NoneTorn
<1> QED BY <1>1, <1>2, <1>3, TraceInvariant, PTL DEF TailoringSpec
=============================================================================
