----------------------------- MODULE Panel_proofs ----------------------------
(***************************************************************************)
(* Three parts of the extension, proved about for every size: the assisted *)
(* application, for any number of jobs and tabs, the archive page, for any *)
(* number of materials and clicks, and the chat, for any number of prompts *)
(* and conversations. They share nothing but this file.                    *)
(***************************************************************************)
EXTENDS EasyApply, Archive, ChatView, SequenceTheorems, TLAPS

-----------------------------------------------------------------------------
(* Assisted applications: what the panel records was applied for.          *)

\* A view that believes in a submission believes it of an item that was
\* applied for, or that another job's confirmation was taken for.
Believed == view.submitted => view.item \in appliedFor \cup crossed

\* A view with a plan or a port shows an item.
Mounted == view.port \/ view.plan # "none" => view.item \in Jobs

EasyInvariant == EasyTypeOK /\ Mounted /\ RecordedWasApplied /\ Believed

LEMMA EasyInitOK == EasyInit => EasyInvariant
<1> SUFFICES ASSUME EasyInit PROVE EasyInvariant
  OBVIOUS
<1>1. page \in [Tabs -> [job : Jobs, form : BOOLEAN]]
  <2>1. [job : Jobs, form : {FALSE}] \subseteq [job : Jobs, form : BOOLEAN]
    OBVIOUS
  <2> QED BY <2>1 DEF EasyInit
<1>2. view \in [item : Jobs \cup {NoJob}, plan : {"none", "loading", "ready", "error"},
                asked : BOOLEAN, approved : BOOLEAN, submitted : BOOLEAN, port : BOOLEAN]
  BY DEF EasyInit, NoView
<1> QED BY <1>1, <1>2 DEF EasyInit, EasyInvariant, EasyTypeOK, Mounted, RecordedWasApplied,
                          Believed, NoView

LEMMA EasyStepOK == EasyInvariant /\ [EasyNext]_easyVars => EasyInvariant'
<1> SUFFICES ASSUME EasyInvariant, [EasyNext]_easyVars
             PROVE  EasyInvariant'
  OBVIOUS
<1> USE DEF EasyInvariant, EasyTypeOK, Mounted, RecordedWasApplied, Believed
<1>1. ASSUME NEW t \in Tabs, Browse(t) PROVE EasyInvariant'
  BY <1>1 DEF Browse
<1>2. ASSUME NEW t \in Tabs, OpenForm(t) PROVE EasyInvariant'
  <2>1. page' \in [Tabs -> [job : Jobs, form : BOOLEAN]]
    BY <1>2 DEF OpenForm
  <2> QED BY <1>2, <2>1 DEF OpenForm
<1>3. ASSUME NEW t \in Tabs, Submit(t) PROVE EasyInvariant'
  BY <1>3 DEF Submit
<1>4. ASSUME NEW t \in Tabs, Confirm(t) PROVE EasyInvariant'
  <2>1. CASE view.port
    <3>1. view' = [view EXCEPT !.submitted = TRUE]
      BY <1>4, <2>1 DEF Confirm
    <3> QED BY <1>4, <2>1, <3>1 DEF Confirm
  <2>2. CASE ~view.port
    <3>1. view' = view /\ crossed' = crossed
      BY <1>4, <2>2 DEF Confirm
    <3> QED BY <1>4, <3>1 DEF Confirm
  <2> QED BY <2>1, <2>2
<1>5. CASE WorkerStops
  BY <1>5 DEF WorkerStops
<1>6. ASSUME NEW i \in Jobs, OpenView(i) PROVE EasyInvariant'
  BY <1>6 DEF OpenView, NoView
<1>7. CASE LeaveView
  BY <1>7 DEF LeaveView, NoView
<1>8. CASE PlanArrives
  BY <1>8 DEF PlanArrives
<1>9. CASE Approve
  BY <1>9 DEF Approve
<1>10. ASSUME NEW i \in Jobs, ApproveFails(i) PROVE EasyInvariant'
  BY <1>10 DEF ApproveFails, Asking
<1>11. ASSUME NEW i \in Jobs, Approved(i) PROVE EasyInvariant'
  BY <1>11 DEF Approved, Asking, Delivered
<1>12. CASE Record
  BY <1>12 DEF Record
<1>13. CASE UNCHANGED easyVars
  BY <1>13 DEF easyVars
<1> QED BY <1>1, <1>2, <1>3, <1>4, <1>5, <1>6, <1>7, <1>8, <1>9, <1>10, <1>11, <1>12, <1>13
        DEF EasyNext

\* An application is recorded only for a job the user has applied for, unless
\* another job's form was confirmed while the view showed the item.
THEOREM RecordedApplications == EasySpec => []RecordedWasApplied
<1>1. EasyInvariant => RecordedWasApplied
  BY DEF EasyInvariant
<1> QED BY EasyInitOK, EasyStepOK, <1>1, PTL DEF EasySpec

\* What the view, the tabs and the worker hold, for any number of jobs.
THEOREM EasyTypeCorrect == EasySpec => []EasyTypeOK
<1>1. EasyInvariant => EasyTypeOK
  BY DEF EasyInvariant
<1> QED BY EasyInitOK, EasyStepOK, <1>1, PTL DEF EasySpec

-----------------------------------------------------------------------------
(* The archive page: whose text is where, for any number of materials, tags *)
(* and clicks.                                                             *)

Requests == [pc : {"sent", "save", "update", "answered"}, kind : {"patch", "remove", "create"},
             of : Materials, row : Part, columns : SUBSET Columns,
             patch : Part, patched : SUBSET Columns, page : 0..MaxReloads]
Drawers == [of : Materials \cup {NoMaterial}, editing : BOOLEAN,
            editText : Materials \cup {NoMaterial}]

\* A text that may stand with m.
Own(m, text) == text \in {m, NoMaterial} \/ m \in switched

\* Rows whose texts do.
Kept(rows) == rows \in [Materials -> Part] /\ \A m \in Materials : Own(m, rows[m].text)

\* What a request has to write and has loaded.
KeptRequest(c) == c \in Requests => Own(c.of, c.patch.text) /\ Own(c.of, c.row.text)

\* The draft of the drawer that is mounted.
KeptDrawer ==
    /\ drawer \in Drawers
    /\ IF drawer.of = NoMaterial THEN drawer = NoDrawer ELSE Own(drawer.of, drawer.editText)

KeptClicks ==
    /\ click \in [Clicks -> {NoClick, Over} \cup Requests]
    /\ \A k \in Clicks : KeptRequest(click[k])

ArchiveInvariant ==
    /\ reloads \in 0..MaxReloads
    /\ Kept(shelf) /\ Kept(library) /\ (load.pc = "read" => Kept(load.rows))
    /\ KeptDrawer /\ KeptClicks

LEMMA UpdatedPart ==
    ASSUME NEW old \in Part, NEW new \in Part, NEW columns
    PROVE  /\ Updated(old, new, columns) \in Part
           /\ Updated(old, new, columns).text =
                IF "text" \in columns THEN new.text ELSE old.text
  BY DEF Updated, Part

LEMMA NoCopyPart == NoCopy \in Part /\ NoCopy.text = NoMaterial
  BY DEF NoCopy, Part

LEMMA FreshPart ==
    \A m \in Materials, tags \in SUBSET Tags : Fresh(m, tags) \in Part /\ Fresh(m, tags).text = m
  BY DEF Fresh, Part

LEMMA ColumnsAre == Columns = {"status", "tags", "text"}
  BY DEF Columns, NoCopy

LEMMA NoDrawerKept == NoDrawer \in Drawers /\ NoDrawer.of = NoMaterial
  BY DEF NoDrawer, Drawers

LEMMA RequestOf ==
    ASSUME KeptClicks, NEW k \in Clicks
    PROVE  /\ click[k].pc \in {"sent", "save", "update", "answered"} => click[k] \in Requests
           /\ click[k] \in Requests => click[k].pc \notin {"unsent", "over"}
  BY DEF KeptClicks, Requests, NoClick, Over

\* switched only grows, so that what may stand with a material still may.
LEMMA RowsStay ==
    ASSUME switched \subseteq switched', NEW rows, Kept(rows)
    PROVE  rows \in [Materials -> Part] /\ \A m \in Materials : Own(m, rows[m].text)'
  BY DEF Kept, Own

LEMMA ClicksStay ==
    ASSUME switched \subseteq switched', KeptClicks, click' = click
    PROVE  KeptClicks'
  BY DEF KeptClicks, KeptRequest, Own

LEMMA ClickMoves ==
    ASSUME switched' = switched, KeptClicks, NEW k \in Clicks,
           NEW c \in {NoClick, Over} \cup Requests, KeptRequest(c),
           click' = [click EXCEPT ![k] = c]
    PROVE  KeptClicks'
<1>1. click' \in [Clicks -> {NoClick, Over} \cup Requests]
  BY DEF KeptClicks
<1>2. \A j \in Clicks : KeptRequest(click'[j])
  BY DEF KeptClicks
<1> QED BY <1>1, <1>2 DEF KeptClicks, KeptRequest, Own

\* The request of a click of the page.
LEMMA Asked ==
    ASSUME ArchiveInvariant, NEW k \in Clicks, NEW m \in Materials,
           NEW kind \in {"patch", "remove", "create"}, NEW patched \in SUBSET Columns,
           NEW patch \in Part, Own(m, patch.text), Ask(k, m, kind, patched, patch)
    PROVE  KeptClicks'
<1> DEFINE c == [pc |-> "sent", kind |-> kind, of |-> m, row |-> NoCopy, columns |-> {},
                 patch |-> patch, patched |-> patched, page |-> reloads]
<1>1. c \in Requests
  BY NoCopyPart DEF ArchiveInvariant, Requests
<1>2. KeptRequest(c)
  BY NoCopyPart DEF KeptRequest, Own
<1>3. click' = [click EXCEPT ![k] = c] /\ switched' = switched
  BY DEF Ask
<1> QED BY <1>1, <1>2, <1>3, ClickMoves DEF ArchiveInvariant

LEMMA ArchiveInitOK == ArchiveAssumption /\ ArchiveInit => ArchiveInvariant
<1> SUFFICES ASSUME ArchiveAssumption, ArchiveInit PROVE ArchiveInvariant
  OBVIOUS
<1>1. Kept(shelf)
  BY NoCopyPart DEF ArchiveInit, Kept, Own
<1>2. Kept(library)
  BY NoCopyPart, FreshPart DEF ArchiveInit, Kept, Own
<1>3. KeptDrawer
  BY NoDrawerKept DEF ArchiveInit, KeptDrawer
<1>4. KeptClicks
  BY DEF ArchiveInit, KeptClicks, KeptRequest, NoClick, Requests
<1> QED BY <1>1, <1>2, <1>3, <1>4
        DEF ArchiveInit, ArchiveInvariant, ArchiveAssumption, NoLoad

\* What is unmounted with its material is kept like the rest.
LEMMA ShelfDrawerKept ==
    ASSUME KeptDrawer, switched' = switched, NEW copies, drawer' = ShelfDrawer(copies)
    PROVE  KeptDrawer'
  BY NoDrawerKept DEF KeptDrawer, ShelfDrawer, Own

LEMMA ArchiveStepOK ==
    ASSUME ArchiveAssumption, ArchiveInvariant, [ArchiveNext]_archiveVars
    PROVE  ArchiveInvariant'
<1> USE DEF ArchiveInvariant
<1>1. ASSUME UNCHANGED <<shelf, drawer, reloads, click, library, switched>>,
             load'.pc = "read" => Kept(load'.rows)
      PROVE  ArchiveInvariant'
  BY <1>1 DEF Kept, KeptDrawer, KeptClicks, KeptRequest, Own
<1>2. CASE Fetch \/ FetchFails
  BY <1>1, <1>2 DEF Fetch, FetchFails
<1>3. CASE FetchReads
  BY <1>1, <1>3 DEF FetchReads
<1>4. CASE FetchReturns
  <2>1. shelf' = load.rows /\ Kept(load.rows) /\ load'.pc = "shown"
    BY <1>4 DEF FetchReturns
  <2>2. UNCHANGED <<reloads, click, library, switched>> /\ drawer' = ShelfDrawer(shelf')
    BY <1>4 DEF FetchReturns
  <2>3. KeptDrawer' /\ KeptClicks'
    BY <2>2, ShelfDrawerKept, ClicksStay
  <2> QED BY <2>1, <2>2, <2>3 DEF Kept, Own
<1>5. CASE Reload
  <2>1. Kept(shelf)'
    BY <1>5, NoCopyPart DEF Reload, Kept, Own
  <2>2. KeptDrawer'
    BY <1>5, NoDrawerKept DEF Reload, KeptDrawer
  <2>3. KeptClicks' /\ Kept(library)'
    BY <1>5, ClicksStay DEF Reload, Kept, Own
  <2>4. reloads' \in 0..MaxReloads
    BY <1>5 DEF Reload, ArchiveAssumption
  <2> QED BY <1>5, <2>1, <2>2, <2>3, <2>4 DEF Reload, NoLoad
<1>6. ASSUME NEW m \in Materials, SelectRow(m) PROVE ArchiveInvariant'
  <2>1. switched \subseteq switched' /\ UNCHANGED <<shelf, load, reloads, click, library>>
    BY <1>6 DEF SelectRow
  <2>2. Kept(shelf)' /\ Kept(library)' /\ (load'.pc = "read" => Kept(load.rows)')
    BY <2>1, RowsStay DEF Kept
  <2>3. KeptClicks'
    BY <2>1, ClicksStay
  <2>4. CASE drawer = NoDrawer
    <3>1. drawer' = [of |-> m, editing |-> FALSE, editText |-> shelf[m].text]
      BY <1>6, <2>4 DEF SelectRow
    <3>2. shelf[m] \in Part /\ Own(m, shelf[m].text)'
      BY <2>1, RowsStay DEF Kept
    <3>3. KeptDrawer'
      BY <2>1, <3>1, <3>2 DEF KeptDrawer, Drawers, Part, Own, ArchiveAssumption
    <3> QED BY <2>1, <2>2, <2>3, <3>3
  <2>5. CASE drawer # NoDrawer
    <3>1. drawer' = [drawer EXCEPT !.of = m]
      BY <1>6, <2>5 DEF SelectRow
    <3>2. drawer' \in Drawers /\ drawer'.of = m /\ drawer'.editText = drawer.editText
      BY <3>1 DEF KeptDrawer, Drawers
    <3>3. drawer.of # NoMaterial
      BY <2>5 DEF KeptDrawer
    <3>4. m \in switched'
      BY <1>6, <3>3 DEF SelectRow
    <3>5. KeptDrawer'
      BY <3>2, <3>4 DEF KeptDrawer, Own, ArchiveAssumption
    <3> QED BY <2>1, <2>2, <2>3, <3>5
  <2> QED BY <2>4, <2>5
<1>7. CASE CloseDrawer \/ BeginEdit
  <2>1. UNCHANGED <<shelf, load, reloads, click, library, switched>>
    BY <1>7 DEF CloseDrawer, BeginEdit
  <2>2. KeptDrawer'
    <3>1. CASE CloseDrawer
      BY <3>1, NoDrawerKept DEF CloseDrawer, KeptDrawer
    <3>2. CASE BeginEdit
      BY <3>2 DEF BeginEdit, KeptDrawer, Drawers, Own
    <3> QED BY <1>7, <3>1, <3>2
  <2> QED BY <2>1, <2>2, ClicksStay DEF Kept, Own
\* What the page asks for changes the drawer and its click alone.
<1>8. ASSUME UNCHANGED <<shelf, load, reloads, library, switched>>, KeptDrawer', KeptClicks'
      PROVE  ArchiveInvariant'
  BY <1>8 DEF Kept, Own
<1>9. ASSUME NEW k \in Clicks, SaveEdit(k) PROVE ArchiveInvariant'
  <2> DEFINE patch == [NoCopy EXCEPT !.text = drawer.editText, !.status = "USER_EDITED"]
  <2>1. /\ drawer.of # NoMaterial /\ drawer' = [drawer EXCEPT !.editing = FALSE]
        /\ Ask(k, drawer.of, "patch", {"text", "status"}, patch)
    BY <1>9 DEF SaveEdit
  <2>2. UNCHANGED <<shelf, load, reloads, library, switched>>
    BY <2>1 DEF Ask
  <2>3. drawer.of \in Materials /\ drawer.editText \in Materials \cup {NoMaterial}
    BY <2>1 DEF KeptDrawer, Drawers
  <2>4. patch \in Part /\ patch.text = drawer.editText
    BY <2>3 DEF NoCopy, Part
  <2>5. {"text", "status"} \in SUBSET Columns
    BY ColumnsAre
  <2>6. Own(drawer.of, patch.text)
    BY <2>1, <2>4 DEF KeptDrawer
  <2>7. KeptClicks'
    BY <2>1, <2>3, <2>4, <2>5, <2>6, Asked
  <2>8. KeptDrawer'
    BY <2>1, <2>2 DEF KeptDrawer, Drawers, Own
  <2> QED BY <1>8, <2>2, <2>7, <2>8
\* Patches without a text, and what asks for no patch.
<1>10. ASSUME NEW k \in Clicks, NEW m \in Materials, NEW kind \in {"patch", "remove", "create"},
              NEW patched \in SUBSET Columns, NEW patch \in Part, patch.text \in {m, NoMaterial},
              Ask(k, m, kind, patched, patch), drawer' = drawer \/ drawer' = NoDrawer
       PROVE  ArchiveInvariant'
  <2>1. UNCHANGED <<shelf, load, reloads, library, switched>>
    BY <1>10 DEF Ask
  <2>2. KeptClicks'
    BY <1>10, Asked DEF Own
  <2>3. KeptDrawer'
    BY <1>10, <2>1, NoDrawerKept DEF KeptDrawer, Own
  <2> QED BY <1>8, <2>1, <2>2, <2>3
<1>11. ASSUME NEW k \in Clicks, NEW t \in Tags, AddTag(k, t) PROVE ArchiveInvariant'
  <2> DEFINE patch == [NoCopy EXCEPT !.tags = shelf[drawer.of].tags \cup {t}]
  <2>1. drawer.of \in Materials
    BY <1>11 DEF AddTag, KeptDrawer, Drawers
  <2>2. shelf[drawer.of] \in Part
    BY <2>1 DEF Kept
  <2>3. patch \in Part /\ patch.text = NoMaterial
    BY <2>2 DEF NoCopy, Part
  <2>4. Ask(k, drawer.of, "patch", {"tags"}, patch) /\ drawer' = drawer
    BY <1>11 DEF AddTag
  <2> QED BY <1>10, <2>1, <2>3, <2>4, ColumnsAre
<1>12. ASSUME NEW k \in Clicks, ToggleStatus(k) PROVE ArchiveInvariant'
  <2> DEFINE patch == [NoCopy EXCEPT !.status = IF shelf[drawer.of].status = "PROPOSED"
                                                THEN "CONFIRMED" ELSE "PROPOSED"]
  <2>1. drawer.of \in Materials
    BY <1>12 DEF ToggleStatus, KeptDrawer, Drawers
  <2>2. patch \in Part /\ patch.text = NoMaterial
    BY DEF NoCopy, Part
  <2>3. Ask(k, drawer.of, "patch", {"status"}, patch) /\ drawer' = drawer
    BY <1>12 DEF ToggleStatus
  <2> QED BY <1>10, <2>1, <2>2, <2>3, ColumnsAre
<1>13. ASSUME NEW k \in Clicks, Delete(k) PROVE ArchiveInvariant'
  <2>1. drawer.of \in Materials
    BY <1>13 DEF Delete, KeptDrawer, Drawers
  <2>2. Ask(k, drawer.of, "remove", {}, NoCopy) /\ drawer' = NoDrawer
    BY <1>13 DEF Delete
  <2> QED BY <1>10, <2>1, <2>2, NoCopyPart
<1>14. ASSUME NEW k \in Clicks, NEW m \in Materials, Create(k, m) PROVE ArchiveInvariant'
  <2>1. PICK tags \in SUBSET Tags : Ask(k, m, "create", Columns, Fresh(m, tags)) /\ drawer' = drawer
    BY <1>14 DEF Create
  <2> QED BY <1>10, <2>1, FreshPart
\* A request moves on; a row of the table may be written.
<1>15. ASSUME NEW k \in Clicks, UNCHANGED <<shelf, load, drawer, reloads, switched>>,
              NEW c \in {NoClick, Over} \cup Requests, KeptRequest(c),
              click' = [click EXCEPT ![k] = c],
              NEW m \in Materials, NEW row \in Part, Own(m, row.text),
              library' = library \/ library' = [library EXCEPT ![m] = row]
       PROVE  ArchiveInvariant'
  <2>1. KeptClicks'
    BY <1>15, ClickMoves
  <2>2. Kept(library)'
    BY <1>15 DEF Kept, Own
  <2> QED BY <1>15, <2>1, <2>2 DEF Kept, KeptDrawer, Own
<1>16. ASSUME NEW k \in Clicks, CreateMaterial(k) PROVE ArchiveInvariant'
  <2> DEFINE c == [click[k] EXCEPT !.pc = "answered"]
  <2>1. click[k] \in Requests /\ KeptRequest(click[k])
    BY <1>16, RequestOf DEF CreateMaterial, KeptClicks
  <2>2. /\ c \in Requests /\ KeptRequest(c) /\ click[k].of \in Materials
        /\ click[k].patch \in Part /\ Own(click[k].of, click[k].patch.text)
    BY <2>1 DEF Requests, KeptRequest
  <2>3. /\ UNCHANGED <<shelf, load, drawer, reloads, switched>> /\ click' = [click EXCEPT ![k] = c]
        /\ library' = [library EXCEPT ![click[k].of] = click[k].patch]
    BY <1>16 DEF CreateMaterial, SetClick, pageVars
  <2> QED BY <1>15, <2>2, <2>3
<1>17. ASSUME NEW k \in Clicks, FindMaterial(k) PROVE ArchiveInvariant'
  <2>1. click[k] \in Requests /\ KeptRequest(click[k])
    BY <1>17, RequestOf DEF FindMaterial, KeptClicks
  <2> DEFINE m == click[k].of
             row == Updated(library[m], click[k].patch, click[k].patched)
             c == [click[k] EXCEPT !.pc = "save", !.row = row]
  <2>2. m \in Materials /\ library[m] \in Part /\ click[k].patch \in Part
    BY <2>1 DEF Requests, Kept
  <2>3. row \in Part /\ row.text \in {click[k].patch.text, library[m].text}
    BY <2>2, UpdatedPart
  <2>4. Own(m, row.text)
    BY <2>1, <2>2, <2>3 DEF KeptRequest, Kept
  <2> HIDE DEF row
  <2>5. c \in Requests /\ KeptRequest(c)
    BY <2>1, <2>3, <2>4 DEF Requests, KeptRequest
  <2>6. /\ UNCHANGED <<shelf, load, drawer, reloads, switched, library>>
        /\ click' = [click EXCEPT ![k] = c]
    BY <1>17 DEF FindMaterial, SetClick, pageVars, row
  <2> QED BY <1>15, <2>2, <2>3, <2>4, <2>5, <2>6
<1>18. ASSUME NEW k \in Clicks, CompareMaterial(k) PROVE ArchiveInvariant'
  <2>1. click[k] \in Requests /\ KeptRequest(click[k])
    BY <1>18, RequestOf DEF CompareMaterial, KeptClicks
  <2> DEFINE columns == IF library[click[k].of] = NoCopy THEN Columns
                        ELSE Changed(library[click[k].of], click[k].row)
             c == [click[k] EXCEPT !.pc = "update", !.columns = columns]
  <2>2. columns \in SUBSET Columns
    <3>1. library[click[k].of] \in Part
      BY <2>1 DEF Requests, Kept
    <3>2. Changed(library[click[k].of], click[k].row) \subseteq {"status", "tags", "text"}
      BY <3>1 DEF Changed, Part
    <3> QED BY <3>2, ColumnsAre
  <2>3. /\ UNCHANGED <<shelf, load, drawer, reloads, switched, library>>
        /\ click' = [click EXCEPT ![k] = c]
    BY <1>18 DEF CompareMaterial, SetClick, pageVars
  <2> HIDE DEF columns
  <2>4. c \in Requests /\ KeptRequest(c)
    BY <2>1, <2>2 DEF Requests, KeptRequest
  <2>5. click[k].of \in Materials /\ click[k].patch \in Part /\ Own(click[k].of, click[k].patch.text)
    BY <2>1 DEF Requests, KeptRequest
  <2> QED BY <1>15, <2>3, <2>4, <2>5
<1>19. ASSUME NEW k \in Clicks, WriteMaterial(k) PROVE ArchiveInvariant'
  <2>1. click[k] \in Requests /\ KeptRequest(click[k])
    BY <1>19, RequestOf DEF WriteMaterial, KeptClicks
  <2> DEFINE m == click[k].of
             new == Updated(library[m], click[k].row, click[k].columns)
             c == [click[k] EXCEPT !.pc = "answered"]
  <2>2. m \in Materials /\ library[m] \in Part /\ click[k].row \in Part
    BY <2>1 DEF Requests, Kept
  <2>3. new \in Part /\ new.text \in {click[k].row.text, library[m].text}
    BY <2>2, UpdatedPart
  <2>4. Own(m, new.text)
    BY <2>1, <2>2, <2>3 DEF KeptRequest, Kept
  <2>5. c \in Requests /\ KeptRequest(c)
    BY <2>1 DEF Requests, KeptRequest
  <2>6. /\ UNCHANGED <<shelf, load, drawer, reloads, switched>> /\ click' = [click EXCEPT ![k] = c]
        /\ \/ library' = [library EXCEPT ![m] = library[m]]
           \/ library' = [library EXCEPT ![m] = new]
    BY <1>19 DEF WriteMaterial, SetClick, pageVars
  <2>7. library' = library \/ library' = [library EXCEPT ![m] = new]
    BY <2>2, <2>6 DEF Kept
  <2> HIDE DEF new
  <2> QED BY <1>15, <2>2, <2>3, <2>4, <2>5, <2>6, <2>7
<1>20. ASSUME NEW k \in Clicks, RemoveMaterial(k) PROVE ArchiveInvariant'
  <2> DEFINE c == [click[k] EXCEPT !.pc = "answered"]
  <2>1. click[k] \in Requests /\ KeptRequest(click[k])
    BY <1>20, RequestOf DEF RemoveMaterial, KeptClicks
  <2>2. c \in Requests /\ KeptRequest(c) /\ click[k].of \in Materials
    BY <2>1 DEF Requests, KeptRequest
  <2>3. /\ UNCHANGED <<shelf, load, drawer, reloads, switched>> /\ click' = [click EXCEPT ![k] = c]
        /\ library' = [library EXCEPT ![click[k].of] = NoCopy]
    BY <1>20 DEF RemoveMaterial, SetClick, pageVars
  <2>4. NoCopy \in Part /\ Own(click[k].of, NoCopy.text)
    BY NoCopyPart DEF Own
  <2> QED BY <1>15, <2>2, <2>3, <2>4
<1>21. ASSUME NEW k \in Clicks, ClickFails(k) \/ AnswerUnheard(k) PROVE ArchiveInvariant'
  <2>1. click[k] \in Requests /\ KeptRequest(click[k])
    BY <1>21, RequestOf DEF ClickFails, AnswerUnheard, UnderWay, KeptClicks
  <2> DEFINE c == [click[k] EXCEPT !.pc = "answered"]
  <2>2. c \in Requests /\ KeptRequest(c) /\ KeptRequest(Over)
    BY <2>1 DEF Requests, KeptRequest, Over
  <2>3. /\ UNCHANGED <<shelf, load, drawer, reloads, switched, library>>
        /\ click' = [click EXCEPT ![k] = c] \/ click' = [click EXCEPT ![k] = Over]
    BY <1>21 DEF ClickFails, AnswerUnheard, SetClick, pageVars
  <2>4. click[k].of \in Materials /\ click[k].patch \in Part /\ Own(click[k].of, click[k].patch.text)
    BY <2>1 DEF Requests, KeptRequest
  <2> QED BY <1>15, <2>2, <2>3, <2>4
<1>22. ASSUME NEW k \in Clicks, ShowChange(k) PROVE ArchiveInvariant'
  <2>1. click[k] \in Requests /\ KeptRequest(click[k])
    BY <1>22, RequestOf DEF ShowChange, KeptClicks
  <2> DEFINE m == click[k].of
             patched == Updated(shelf[m], click[k].patch, click[k].patched \ {"text"})
  <2>2. /\ m \in Materials /\ shelf[m] \in Part /\ click[k].patch \in Part
        /\ Own(m, shelf[m].text) /\ Own(m, click[k].patch.text)
    BY <2>1 DEF Requests, Kept, KeptRequest
  <2>3. patched \in Part /\ patched.text = shelf[m].text
    BY <2>2, UpdatedPart
  <2>4. \E row \in {click[k].patch, NoCopy, shelf[m], patched} :
           shelf' = [shelf EXCEPT ![m] = row]
    BY <1>22 DEF ShowChange
  <2>5. /\ UNCHANGED <<load, reloads, library, switched>>
        /\ drawer' = ShelfDrawer(shelf') /\ click' = [click EXCEPT ![k] = Over]
    BY <1>22 DEF ShowChange
  <2> HIDE DEF patched
  <2>6. PICK row \in Part : Own(m, row.text) /\ shelf' = [shelf EXCEPT ![m] = row]
    BY <2>2, <2>3, <2>4, NoCopyPart DEF Own
  <2>7. Kept(shelf)'
    BY <2>2, <2>5, <2>6 DEF Kept, Own
  <2>8. KeptDrawer'
    BY <2>5, ShelfDrawerKept
  <2>9. KeptClicks'
    BY <2>5, ClickMoves DEF KeptRequest, Over, Requests
  <2> QED BY <2>5, <2>7, <2>8, <2>9 DEF Kept, Own
<1>23. CASE UNCHANGED archiveVars
  BY <1>23 DEF archiveVars, pageVars, Kept, KeptDrawer, KeptClicks, KeptRequest, Own
<1> QED BY <1>2, <1>3, <1>4, <1>5, <1>6, <1>7, <1>9, <1>11, <1>12, <1>13, <1>14, <1>16, <1>17, <1>18,
           <1>19, <1>20, <1>21, <1>22, <1>23 DEF ArchiveNext

\* A text written for one material is stored in another only after the drawer
\* was taken over, for any number of materials, clicks and reloads.
THEOREM TextsStay == ASSUME ArchiveAssumption PROVE ArchiveSpec => []TextStraysOnlyBySwitch
<1>1. ArchiveInit => ArchiveInvariant
  BY ArchiveInitOK
<1>2. ArchiveInvariant /\ [ArchiveNext]_archiveVars => ArchiveInvariant'
  BY ArchiveStepOK
<1>3. ArchiveInvariant => TextStraysOnlyBySwitch
  BY DEF ArchiveInvariant, Kept, Own, TextStraysOnlyBySwitch
<1> QED BY <1>1, <1>2, <1>3, PTL DEF ArchiveSpec

-----------------------------------------------------------------------------
(* The archive page at rest shows what is stored. A request of the page that *)
(* is open is live until the store has looked at its answer; a material with *)
(* nothing unlike about it has at most one.                                  *)

Live(k) == Waiting(k) /\ click[k].page = reloads
About(m) == {k \in Clicks : Live(k) /\ click[k].of = m}

\* A row is there when it has a status.
Sound(row) == row = NoCopy <=> row.status = "none"
SoundRequest(c) ==
    /\ c.kind = "create" => c.patch.status # "none"
    /\ c.kind = "patch" /\ "status" \in c.patched => c.patch.status # "none"
    /\ c.kind = "patch" /\ c.pc \in {"save", "update"} => c.row.status # "none"
    /\ c.pc = "update" => c.kind = "patch"
    /\ c.pc = "save" => c.kind # "create"

Soundness ==
    /\ \A m \in Materials : Sound(shelf[m]) /\ Sound(library[m])
    /\ load.pc = "read" => \A m \in Materials : Sound(load.rows[m])
    /\ \A k \in Clicks : Waiting(k) => SoundRequest(click[k]) /\ click[k].page <= reloads
    /\ load.pc = "none" <=> load = NoLoad

\* Before the loading begins the page is empty, and nothing is asked for.
EmptyPage ==
    load.pc = "none" => /\ drawer = NoDrawer
                        /\ \A m \in Materials : shelf[m] = NoCopy /\ About(m) = {}

\* A request on its way is of the page that is open, and alone.
OneLive ==
    \A m \in Materials \ unlike :
        /\ \A k \in Clicks : UnderWay(k) /\ click[k].of = m => k \in About(m)
        /\ \A j, k \in About(m) : j = k

\* Nothing is asked for while the page loads.
LoadedAlone ==
    load.pc \in {"asked", "read"} =>
        \A m \in Materials \ unlike :
            /\ About(m) = {}
            /\ load.pc = "read" => load.rows[m] = library[m]

Alike(a, b) == a.status = b.status /\ a.tags = b.tags

\* What the request c has made of the row, as it is seen and as it is stored.
Halfway(c, seen, stored) ==
    /\ c.pc \in {"sent", "save", "update"} => Alike(seen, stored)
    /\ c.pc \in {"save", "update"} => stored # NoCopy
    /\ c.pc \in {"save", "update"} /\ c.kind = "patch" => c.row = Updated(stored, c.patch, c.patched)
    /\ c.pc = "update" => c.columns = Changed(stored, c.row)
    /\ c.pc = "answered" =>
          /\ c.kind = "create" => Alike(c.patch, stored)
          /\ c.kind = "remove" => stored = NoCopy
          /\ c.kind = "patch" => seen # NoCopy /\ Alike(Updated(seen, c.patch, c.patched), stored)

ShownAlike ==
    load.pc = "shown" =>
        \A m \in Materials \ unlike :
            /\ About(m) = {} => Alike(shelf[m], library[m])
            /\ \A k \in About(m) : Halfway(click[k], shelf[m], library[m])

ShownInv == Soundness /\ EmptyPage /\ OneLive /\ LoadedAlone /\ ShownAlike

LEMMA Typed ==
    ASSUME ArchiveInvariant
    PROVE  /\ \A m \in Materials : shelf[m] \in Part /\ library[m] \in Part
           /\ \A k \in Clicks : Waiting(k) => click[k] \in Requests
           /\ \A k \in Clicks : UnderWay(k) => Waiting(k)
           /\ reloads \in Nat
           /\ \A k \in Clicks : click[k] \in Requests => click[k].page \in Nat /\ click[k].of \in Materials
           /\ DOMAIN click = Clicks
<1>1. \A m \in Materials : shelf[m] \in Part /\ library[m] \in Part
  BY DEF ArchiveInvariant, Kept
<1>2. \A k \in Clicks : Waiting(k) => click[k] \in Requests
  BY RequestOf DEF Waiting, UnderWay, ArchiveInvariant
<1>3. reloads \in Nat /\ DOMAIN click = Clicks
  BY DEF ArchiveInvariant, KeptClicks
<1> QED BY <1>1, <1>2, <1>3 DEF Waiting, Requests

LEMMA UpdatedStatus ==
    ASSUME NEW a \in Part, NEW new \in Part, NEW columns
    PROVE  Updated(a, new, columns).status = IF "status" \in columns THEN new.status ELSE a.status
  BY DEF Part, Updated

LEMMA PartAlike ==
    ASSUME NEW a \in Part, NEW b \in Part, NEW new \in Part, NEW columns
    PROVE  /\ Alike(a, b) => Alike(Updated(a, new, columns), Updated(b, new, columns))
           /\ Alike(Updated(a, new, columns \ {"text"}), Updated(a, new, columns))
<1>1. \A x \in Part : DOMAIN x = {"status", "tags", "text"}
  BY DEF Part
<1>2. \A cs : \A x \in Part :
         /\ Updated(x, new, cs).status = IF "status" \in cs THEN new.status ELSE x.status
         /\ Updated(x, new, cs).tags = IF "tags" \in cs THEN new.tags ELSE x.tags
  BY <1>1 DEF Updated
<1> QED BY <1>2 DEF Alike

\* What is written of a row that stood still since it was loaded is the row.
LEMMA WrittenWhole ==
    ASSUME NEW old \in Part, NEW row \in Part PROVE Updated(old, row, Changed(old, row)) = row
<1>1. /\ DOMAIN old = {"status", "tags", "text"}
      /\ row = [c \in {"status", "tags", "text"} |-> row[c]]
  BY DEF Part
<1>2. \A c \in DOMAIN old : (IF c \in Changed(old, row) THEN row[c] ELSE old[c]) = row[c]
  BY DEF Changed
<1> QED BY <1>1, <1>2 DEF Updated

\* A row with a status is a row.
LEMMA HasStatus == \A row : row.status # "none" => Sound(row)
  BY DEF Sound, NoCopy

\* A step of the page that neither asks nor shows.
LEMMA DrawerShown ==
    ASSUME ShownInv, UNCHANGED <<shelf, load, reloads, click, library, unlike>>,
           load.pc = "none" => drawer' = NoDrawer
    PROVE  ShownInv'
<1>1. Soundness'
  BY DEF ShownInv, Soundness, Sound, SoundRequest, Waiting, UnderWay
<1>2. \A m : About(m)' = About(m)
  BY DEF About, Live, Waiting, UnderWay
<1>3. EmptyPage' /\ LoadedAlone' /\ ShownAlike'
  BY <1>2 DEF ShownInv, EmptyPage, LoadedAlone, ShownAlike
<1>4. OneLive'
  BY <1>2 DEF ShownInv, OneLive, UnderWay
<1> QED BY <1>1, <1>3, <1>4 DEF ShownInv

LEMMA LoadShown ==
    ASSUME ArchiveInvariant, ShownInv, Fetch \/ FetchReads \/ FetchReturns \/ FetchFails
    PROVE  ShownInv'
<1>1. UNCHANGED <<reloads, click, library, unlike>>
  BY DEF Fetch, FetchReads, FetchReturns, FetchFails
<1>2. \A m : About(m)' = About(m)
  BY <1>1 DEF About, Live, Waiting, UnderWay
<1>3. OneLive'
  BY <1>1, <1>2 DEF ShownInv, OneLive, UnderWay
<1>4. load'.pc \in {"asked", "read", "shown", "failed"} /\ load'.pc # "none" /\ load' # NoLoad
  BY DEF Fetch, FetchReads, FetchReturns, FetchFails, NoLoad
<1>5. EmptyPage'
  BY <1>4 DEF EmptyPage
<1>6. /\ \A m \in Materials : Sound(library[m]) /\ Sound(shelf[m])
      /\ load.pc = "read" => \A m \in Materials : Sound(load.rows[m])
      /\ \A k \in Clicks : Waiting(k) => SoundRequest(click[k]) /\ click[k].page <= reloads
  BY DEF ShownInv, Soundness
<1>7. Soundness'
  <2>1. \A m \in Materials : Sound(library'[m]) /\ Sound(shelf'[m])
    BY <1>1, <1>6 DEF Fetch, FetchReads, FetchReturns, FetchFails
  <2>2. load'.pc = "read" => \A m \in Materials : Sound(load'.rows[m])
    BY <1>6 DEF Fetch, FetchReads, FetchReturns, FetchFails
  <2>3. \A k \in Clicks : Waiting(k)' => SoundRequest(click'[k]) /\ click'[k].page <= reloads'
    BY <1>1, <1>6 DEF Waiting, UnderWay, SoundRequest
  <2> QED BY <1>4, <2>1, <2>2, <2>3 DEF Soundness, Sound
<1>8. LoadedAlone'
  <2>1. CASE Fetch
    <3>1. \A m \in Materials : About(m) = {}
      BY <2>1 DEF Fetch, NoLoad, ShownInv, EmptyPage
    <3> QED BY <1>1, <1>2, <2>1, <3>1 DEF Fetch, LoadedAlone
  <2>2. CASE FetchReads
    BY <1>1, <1>2, <2>2 DEF FetchReads, ShownInv, LoadedAlone
  <2>3. CASE FetchReturns \/ FetchFails
    BY <2>3 DEF FetchReturns, FetchFails, LoadedAlone
  <2> QED BY <2>1, <2>2, <2>3
<1>9. ShownAlike'
  <2>1. CASE FetchReturns
    BY <1>1, <1>2, <2>1 DEF FetchReturns, ShownInv, LoadedAlone, ShownAlike, Alike
  <2>2. CASE Fetch \/ FetchReads \/ FetchFails
    BY <2>2 DEF Fetch, FetchReads, FetchFails, ShownAlike
  <2> QED BY <2>1, <2>2
<1> QED BY <1>3, <1>5, <1>7, <1>8, <1>9 DEF ShownInv

\* What was on its way when the page is loaded again is of no page.
LEMMA ReloadShown == ASSUME ArchiveInvariant, ShownInv, Reload PROVE ShownInv'
<1>1. /\ reloads' = reloads + 1 /\ load' = NoLoad /\ drawer' = NoDrawer /\ click' = click
      /\ library' = library /\ \A m \in Materials : shelf'[m] = NoCopy
      /\ unlike' = {click[k].of : k \in {j \in Clicks : UnderWay(j)}}
  BY DEF Reload
<1>2. \A k \in Clicks : Waiting(k) => click[k].page <= reloads /\ click[k].page \in Nat
  BY Typed DEF ShownInv, Soundness
<1>3. \A m \in Materials : About(m)' = {}
  BY <1>1, <1>2, Typed DEF About, Live, Waiting, UnderWay
<1>4. load'.pc = "none"
  BY <1>1 DEF NoLoad
<1>5. Soundness'
  <2>1. Sound(NoCopy)
    BY DEF Sound, NoCopy
  <2>2. \A k \in Clicks : Waiting(k)' => SoundRequest(click'[k]) /\ click'[k].page <= reloads'
    BY <1>1, <1>2, Typed DEF ShownInv, Soundness, SoundRequest, Waiting, UnderWay
  <2> QED BY <1>1, <1>4, <2>1, <2>2 DEF ShownInv, Soundness, Sound
<1>6. EmptyPage' /\ LoadedAlone' /\ ShownAlike'
  BY <1>1, <1>3, <1>4 DEF EmptyPage, LoadedAlone, ShownAlike
<1>7. OneLive'
  BY <1>1, <1>3 DEF OneLive, UnderWay
<1> QED BY <1>5, <1>6, <1>7 DEF ShownInv

\* A request is the only one about its material, or the material is unlike.
LEMMA AskShown ==
    ASSUME ArchiveInvariant, ShownInv, load.pc # "none",
           NEW k \in Clicks, NEW m \in Materials, NEW kind, NEW patched, NEW patch,
           Ask(k, m, kind, patched, patch),
           kind = "create" => patch.status # "none",
           kind = "patch" /\ "status" \in patched => patch.status # "none"
    PROVE  ShownInv'
<1> DEFINE c == [pc |-> "sent", kind |-> kind, of |-> m, row |-> NoCopy, columns |-> {},
                 patch |-> patch, patched |-> patched, page |-> reloads]
<1>1. /\ click[k] = NoClick /\ click' = [click EXCEPT ![k] = c]
      /\ UNCHANGED <<shelf, load, reloads, library>>
      /\ unlike' = IF \/ load.pc \in {"asked", "read"}
                      \/ \E j \in Clicks : Waiting(j) /\ click[j].of = m
                   THEN unlike \cup {m} ELSE unlike
  BY DEF Ask
<1>2. /\ c.pc = "sent" /\ c.kind = kind /\ c.of = m /\ c.patch = patch /\ c.patched = patched
      /\ c.page = reloads
  OBVIOUS
<1> HIDE DEF c
<1>3. click'[k] = c /\ \A j \in Clicks \ {k} : click'[j] = click[j]
  BY <1>1, Typed
<1>4. ~Waiting(k) /\ Waiting(k)' /\ \A j \in Clicks \ {k} : Waiting(j)' = Waiting(j)
  BY <1>1, <1>2, <1>3 DEF Waiting, UnderWay, NoClick
<1>5. \A n : n # m => About(n)' = About(n)
  BY <1>1, <1>2, <1>3, <1>4 DEF About, Live
<1>6. unlike \subseteq unlike'
  BY <1>1
<1>7. m \notin unlike' => /\ load.pc \notin {"asked", "read"}
                          /\ \A j \in Clicks : Waiting(j) => click[j].of # m
                          /\ About(m) = {} /\ About(m)' = {k}
  <2> SUFFICES ASSUME m \notin unlike'
               PROVE  /\ load.pc \notin {"asked", "read"}
                      /\ \A j \in Clicks : Waiting(j) => click[j].of # m
                      /\ About(m) = {} /\ About(m)' = {k}
    OBVIOUS
  <2>1. /\ load.pc \notin {"asked", "read"}
        /\ \A j \in Clicks : Waiting(j) => click[j].of # m
    BY <1>1
  <2>2. About(m) = {}
    BY <2>1 DEF About, Live
  <2>3. \A j \in Clicks : j \in About(m)' <=> j = k
    BY <1>1, <1>2, <1>3, <1>4, <2>1 DEF About, Live
  <2>4. About(m)' \subseteq Clicks
    BY DEF About
  <2> QED BY <2>1, <2>2, <2>3, <2>4
<1>8. Soundness'
  <2>1. reloads \in Nat
    BY Typed
  <2>2. SoundRequest(c)
    BY <1>1, <1>2, <2>1 DEF SoundRequest
  <2>3. \A j \in Clicks : Waiting(j)' => SoundRequest(click'[j]) /\ click'[j].page <= reloads'
    BY <1>1, <1>2, <1>3, <1>4, <2>1, <2>2 DEF ShownInv, Soundness
  <2> QED BY <1>1, <2>3 DEF ShownInv, Soundness, Sound
<1>9. EmptyPage'
  BY <1>1 DEF EmptyPage
<1>10. OneLive'
  <2> SUFFICES ASSUME NEW n \in Materials \ unlike'
               PROVE  /\ \A j \in Clicks : UnderWay(j)' /\ click'[j].of = n => j \in About(n)'
                      /\ \A i, j \in About(n)' : i = j
    BY DEF OneLive
  <2>1. CASE n = m
    <3>1. \A j \in Clicks \ {k} : UnderWay(j)' => Waiting(j) /\ click'[j] = click[j]
      BY <1>3 DEF UnderWay, Waiting
    <3> QED BY <1>7, <2>1, <3>1
  <2>2. CASE n # m
    <3>1. \A j \in Clicks : UnderWay(j)' /\ click'[j].of = n => UnderWay(j) /\ click[j].of = n
      BY <1>2, <1>3, <2>2 DEF UnderWay
    <3> QED BY <1>5, <1>6, <2>2, <3>1 DEF ShownInv, OneLive
  <2> QED BY <2>1, <2>2
<1>11. LoadedAlone'
  BY <1>1, <1>5, <1>6, <1>7 DEF ShownInv, LoadedAlone
<1>12. ShownAlike'
  <2> SUFFICES ASSUME load.pc = "shown", NEW n \in Materials \ unlike'
               PROVE  /\ About(n)' = {} => Alike(shelf[n], library[n])
                      /\ \A j \in About(n)' : Halfway(click'[j], shelf[n], library[n])
    BY <1>1 DEF ShownAlike
  <2>1. CASE n = m
    <3>1. Alike(shelf[m], library[m])
      BY <1>6, <1>7, <2>1 DEF ShownInv, ShownAlike
    <3>2. Halfway(c, shelf[m], library[m])
      BY <1>2, <3>1 DEF Halfway
    <3> QED BY <1>3, <1>7, <2>1, <3>1, <3>2
  <2>2. CASE n # m
    <3>1. \A j \in About(n) : click'[j] = click[j]
      BY <1>3, <1>4 DEF About, Live
    <3> QED BY <1>5, <1>6, <2>2, <3>1 DEF ShownInv, ShownAlike
  <2> QED BY <2>1, <2>2
<1> QED BY <1>8, <1>9, <1>10, <1>11, <1>12 DEF ShownInv

\* A request that is on its way moves on, and may write its row: what it has
\* made of the row so far is still what it says.
LEMMA ServiceShown ==
    ASSUME ArchiveInvariant, ShownInv, NEW k \in Clicks, UnderWay(k), UNCHANGED pageVars,
           NEW c, click' = [click EXCEPT ![k] = c], c.of = click[k].of, c.page = click[k].page,
           c.pc \in {"sent", "save", "update", "answered"}, SoundRequest(c),
           \A m \in Materials \ {click[k].of} : library'[m] = library[m],
           Sound(library'[click[k].of]), unlike \subseteq unlike',
           \/ click[k].of \in unlike'
           \/ Halfway(click[k], shelf[click[k].of], library[click[k].of])
              => Halfway(c, shelf[click[k].of], library'[click[k].of])
    PROVE  ShownInv'
<1> DEFINE n == click[k].of
<1>1. /\ UNCHANGED <<shelf, load, drawer, reloads>>
      /\ click'[k] = c /\ \A j \in Clicks \ {k} : click'[j] = click[j]
      /\ n \in Materials /\ Waiting(k)
  BY Typed DEF pageVars
<1>2. /\ Waiting(k)'
      /\ \A j \in Clicks \ {k} : Waiting(j)' = Waiting(j) /\ UnderWay(j)' = UnderWay(j)
  BY <1>1 DEF Waiting, UnderWay
<1>3. \A m : About(m)' = About(m)
  BY <1>1, <1>2 DEF About, Live
<1>4. Soundness'
  <2>1. \A j \in Clicks : Waiting(j)' => SoundRequest(click'[j]) /\ click'[j].page <= reloads'
    BY <1>1, <1>2 DEF ShownInv, Soundness
  <2>2. \A m \in Materials : Sound(shelf'[m]) /\ Sound(library'[m])
    BY <1>1 DEF ShownInv, Soundness
  <2> QED BY <1>1, <2>1, <2>2 DEF ShownInv, Soundness, Sound
<1>5. EmptyPage'
  BY <1>1, <1>3 DEF ShownInv, EmptyPage
\* The request, of a material with nothing unlike, is its only one.
<1>6. n \notin unlike' => /\ n \notin unlike /\ About(n) = {k}
                          /\ load.pc \notin {"none", "asked", "read"}
  <2> SUFFICES ASSUME n \notin unlike'
               PROVE  /\ n \notin unlike /\ About(n) = {k}
                      /\ load.pc \notin {"none", "asked", "read"}
    OBVIOUS
  <2>1. n \notin unlike /\ k \in About(n)
    BY <1>1 DEF ShownInv, OneLive
  <2>2. About(n) = {k}
    BY <1>1, <2>1 DEF ShownInv, OneLive
  <2>3. load.pc \notin {"none", "asked", "read"}
    BY <1>1, <2>1 DEF ShownInv, EmptyPage, LoadedAlone
  <2> QED BY <1>3, <2>1, <2>2, <2>3
<1> HIDE DEF n
<1>7. OneLive'
  <2> SUFFICES ASSUME NEW m \in Materials \ unlike'
               PROVE  /\ \A j \in Clicks : UnderWay(j)' /\ click'[j].of = m => j \in About(m)'
                      /\ \A i, j \in About(m)' : i = j
    BY DEF OneLive
  <2>1. CASE m = n
    <3>1. \A j \in Clicks \ {k} : UnderWay(j)' /\ click'[j].of = m => j \in About(m)
      BY <1>1, <1>2, <1>6, <2>1 DEF ShownInv, OneLive
    <3> QED BY <1>3, <1>6, <2>1, <3>1
  <2>2. CASE m # n
    <3>1. \A j \in Clicks : UnderWay(j)' /\ click'[j].of = m => UnderWay(j) /\ click[j].of = m
      BY <1>1, <1>2, <2>2 DEF n
    <3> QED BY <1>3, <2>2, <3>1 DEF ShownInv, OneLive
  <2> QED BY <2>1, <2>2
<1>8. LoadedAlone'
  <2>1. \A m \in Materials \ unlike' : load.pc \in {"asked", "read"} => m # n
    BY <1>6
  <2>2. \A m \in Materials : m # n => library'[m] = library[m]
    BY DEF n
  <2> QED BY <1>1, <1>3, <2>1, <2>2 DEF ShownInv, LoadedAlone
<1>9. ShownAlike'
  <2> SUFFICES ASSUME load.pc = "shown", NEW m \in Materials \ unlike'
               PROVE  /\ About(m)' = {} => Alike(shelf[m], library'[m])
                      /\ \A j \in About(m)' : Halfway(click'[j], shelf[m], library'[m])
    BY <1>1 DEF ShownAlike
  <2>1. CASE m = n
    <3>1. Halfway(click[k], shelf[n], library[n])
      BY <1>1, <1>6, <2>1 DEF ShownInv, ShownAlike
    <3>2. Halfway(c, shelf[n], library'[n])
      BY <1>6, <2>1, <3>1 DEF n
    <3> QED BY <1>1, <1>3, <1>6, <2>1, <3>2
  <2>2. CASE m # n
    <3>1. \A j \in About(m) : j # k /\ j \in Clicks
      BY <2>2 DEF About, n
    <3>2. library'[m] = library[m]
      BY <2>2 DEF n
    <3> QED BY <1>1, <1>3, <2>2, <3>1, <3>2 DEF ShownInv, ShownAlike
  <2> QED BY <2>1, <2>2
<1> QED BY <1>4, <1>5, <1>7, <1>8, <1>9 DEF ShownInv

\* A request is over, and what is there is unlike what it asked for, or the
\* page that asked is gone.
LEMMA OverShown ==
    ASSUME ArchiveInvariant, ShownInv, NEW k \in Clicks, click' = [click EXCEPT ![k] = Over],
           UNCHANGED <<shelf, load, drawer, reloads, library>>, unlike \subseteq unlike',
           click[k].of \in unlike' \/ ~Live(k)
    PROVE  ShownInv'
<1>1. click'[k] = Over /\ \A j \in Clicks \ {k} : click'[j] = click[j]
  BY Typed
<1>2. /\ ~Waiting(k)' /\ ~UnderWay(k)'
      /\ \A j \in Clicks \ {k} : Waiting(j)' = Waiting(j) /\ UnderWay(j)' = UnderWay(j)
  BY <1>1 DEF Waiting, UnderWay, Over
<1>3. \A m : About(m)' = About(m) \ {k}
  BY <1>1, <1>2 DEF About, Live
<1>4. \A m \in Materials \ unlike' : m \in Materials \ unlike /\ About(m)' = About(m)
  BY <1>3 DEF About
<1>5. Soundness'
  BY <1>1, <1>2 DEF ShownInv, Soundness, Sound
<1>6. EmptyPage'
  BY <1>3 DEF ShownInv, EmptyPage
<1>7. OneLive'
  <2> SUFFICES ASSUME NEW m \in Materials \ unlike'
               PROVE  /\ \A j \in Clicks : UnderWay(j)' /\ click'[j].of = m => j \in About(m)'
                      /\ \A i, j \in About(m)' : i = j
    BY DEF OneLive
  <2>1. \A j \in Clicks : UnderWay(j)' /\ click'[j].of = m => UnderWay(j) /\ click[j].of = m
    BY <1>1, <1>2
  <2> QED BY <1>4, <2>1 DEF ShownInv, OneLive
<1>8. LoadedAlone'
  BY <1>4 DEF ShownInv, LoadedAlone
<1>9. ShownAlike'
  <2>1. \A m \in Materials \ unlike' : \A j \in About(m)' : j # k /\ j \in Clicks
    BY <1>3 DEF About
  <2> QED BY <1>1, <1>4, <2>1 DEF ShownInv, ShownAlike
<1> QED BY <1>5, <1>6, <1>7, <1>8, <1>9 DEF ShownInv

LEMMA CreateShown ==
    ASSUME ArchiveInvariant, ShownInv, NEW k \in Clicks, CreateMaterial(k) PROVE ShownInv'
<1>1. UnderWay(k) /\ click[k] \in Requests /\ click[k].kind = "create" /\ click[k].pc = "sent"
  BY Typed DEF CreateMaterial, UnderWay
<1>2. PICK c : c = [click[k] EXCEPT !.pc = "answered"]
  OBVIOUS
<1>3. /\ c.of = click[k].of /\ c.page = click[k].page /\ c.pc = "answered" /\ c.kind = "create"
      /\ c.patch = click[k].patch
  BY <1>1, <1>2 DEF Requests
<1>4. click[k].patch.status # "none"
  BY <1>1, Typed DEF ShownInv, Soundness, SoundRequest
<1>5. /\ click' = [click EXCEPT ![k] = c] /\ UNCHANGED pageVars /\ unlike' = unlike
      /\ library' = [library EXCEPT ![click[k].of] = click[k].patch]
  BY <1>2 DEF CreateMaterial, SetClick
<1>6. /\ library'[click[k].of] = click[k].patch
      /\ \A m \in Materials \ {click[k].of} : library'[m] = library[m]
  BY <1>1, <1>5 DEF ArchiveInvariant, Kept, Requests
<1>7. Sound(library'[click[k].of]) /\ SoundRequest(c)
  BY <1>3, <1>4, <1>6, HasStatus DEF SoundRequest
<1>8. Halfway(c, shelf[click[k].of], library'[click[k].of])
  BY <1>3, <1>6 DEF Halfway, Alike
<1> QED BY <1>1, <1>3, <1>5, <1>6, <1>7, <1>8, ServiceShown

LEMMA FindShown ==
    ASSUME ArchiveInvariant, ShownInv, NEW k \in Clicks, FindMaterial(k) PROVE ShownInv'
<1>1. UnderWay(k) /\ click[k] \in Requests /\ click[k].kind # "create" /\ click[k].pc = "sent"
  BY Typed DEF FindMaterial, UnderWay
<1>2. PICK row : row = Updated(library[click[k].of], click[k].patch, click[k].patched)
  OBVIOUS
<1>3. PICK c : c = [click[k] EXCEPT !.pc = "save", !.row = row]
  OBVIOUS
<1>4. /\ c.of = click[k].of /\ c.page = click[k].page /\ c.pc = "save" /\ c.kind = click[k].kind
      /\ c.patch = click[k].patch /\ c.patched = click[k].patched /\ c.row = row
  BY <1>1, <1>3 DEF Requests
<1>5. /\ click' = [click EXCEPT ![k] = c] /\ UNCHANGED pageVars /\ unlike' = unlike
      /\ library' = library /\ library[click[k].of] # NoCopy
  BY <1>2, <1>3 DEF FindMaterial, SetClick
<1>6. /\ click[k].of \in Materials /\ library[click[k].of] \in Part /\ click[k].patch \in Part
      /\ Sound(library[click[k].of])
  BY <1>1, Typed DEF Requests, ShownInv, Soundness
<1>7. click[k].kind = "patch" => row.status # "none"
  <2>1. library[click[k].of].status # "none"
    BY <1>5, <1>6 DEF Sound
  <2>2. click[k].kind = "patch" /\ "status" \in click[k].patched => click[k].patch.status # "none"
    BY <1>1, Typed DEF ShownInv, Soundness, SoundRequest
  <2> QED BY <1>2, <1>6, <2>1, <2>2, UpdatedStatus
<1>8. SoundRequest(c)
  BY <1>1, <1>4, <1>7, Typed DEF ShownInv, Soundness, SoundRequest
<1>9. Halfway(click[k], shelf[click[k].of], library[click[k].of])
      => Halfway(c, shelf[click[k].of], library'[click[k].of])
  BY <1>1, <1>2, <1>4, <1>5 DEF Halfway
<1> QED BY <1>1, <1>4, <1>5, <1>6, <1>8, <1>9, ServiceShown

LEMMA CompareShown ==
    ASSUME ArchiveInvariant, ShownInv, NEW k \in Clicks, CompareMaterial(k) PROVE ShownInv'
<1>1. UnderWay(k) /\ click[k] \in Requests /\ click[k].kind = "patch" /\ click[k].pc = "save"
  BY Typed DEF CompareMaterial, UnderWay
<1>2. PICK columns : columns = IF library[click[k].of] = NoCopy THEN Columns
                               ELSE Changed(library[click[k].of], click[k].row)
  OBVIOUS
<1>3. PICK c : c = [click[k] EXCEPT !.pc = "update", !.columns = columns]
  OBVIOUS
<1>4. /\ c.of = click[k].of /\ c.page = click[k].page /\ c.pc = "update" /\ c.kind = "patch"
      /\ c.patch = click[k].patch /\ c.patched = click[k].patched /\ c.row = click[k].row
      /\ c.columns = columns
  BY <1>1, <1>3 DEF Requests
<1>5. /\ click' = [click EXCEPT ![k] = c] /\ UNCHANGED pageVars /\ unlike' = unlike
      /\ library' = library
  BY <1>2, <1>3 DEF CompareMaterial, SetClick
<1>6. Sound(library[click[k].of])
  BY <1>1, Typed DEF ShownInv, Soundness
<1>7. SoundRequest(c)
  BY <1>1, <1>4, Typed DEF ShownInv, Soundness, SoundRequest
<1>8. Halfway(click[k], shelf[click[k].of], library[click[k].of])
      => Halfway(c, shelf[click[k].of], library'[click[k].of])
  BY <1>1, <1>2, <1>4, <1>5 DEF Halfway
<1> QED BY <1>1, <1>4, <1>5, <1>6, <1>7, <1>8, ServiceShown

LEMMA WriteShown ==
    ASSUME ArchiveInvariant, ShownInv, NEW k \in Clicks, WriteMaterial(k) PROVE ShownInv'
<1>1. UnderWay(k) /\ click[k] \in Requests /\ click[k].pc = "update"
  BY Typed DEF WriteMaterial, UnderWay
<1>2. SoundRequest(click[k]) /\ click[k].kind = "patch" /\ click[k].row.status # "none"
  BY <1>1, Typed DEF ShownInv, Soundness, SoundRequest
<1>3. PICK c : c = [click[k] EXCEPT !.pc = "answered"]
  OBVIOUS
<1>4. /\ c.of = click[k].of /\ c.page = click[k].page /\ c.pc = "answered" /\ c.kind = "patch"
      /\ c.patch = click[k].patch /\ c.patched = click[k].patched
  BY <1>1, <1>2, <1>3 DEF Requests
<1>5. PICK m : m = click[k].of
  OBVIOUS
<1>6. PICK columns : columns = click[k].columns
  OBVIOUS
<1>7. PICK row : row = click[k].row
  OBVIOUS
<1>8. /\ m \in Materials /\ library[m] \in Part /\ shelf[m] \in Part /\ row \in Part
      /\ click[k].patch \in Part /\ Sound(library[m]) /\ Sound(shelf[m]) /\ row.status # "none"
  BY <1>1, <1>2, <1>5, <1>7, Typed DEF Requests, ShownInv, Soundness
<1>9. /\ click' = [click EXCEPT ![k] = c] /\ UNCHANGED pageVars /\ unlike' = unlike
      /\ library' = [library EXCEPT ![m] = IF library[m] = NoCopy /\ columns # Columns THEN library[m]
                                           ELSE Updated(library[m], row, columns)]
  BY <1>3, <1>5, <1>6, <1>7 DEF WriteMaterial, SetClick
<1>10. /\ library'[m] = IF library[m] = NoCopy /\ columns # Columns THEN library[m]
                        ELSE Updated(library[m], row, columns)
       /\ \A o \in Materials \ {m} : library'[o] = library[o]
  BY <1>8, <1>9 DEF ArchiveInvariant, Kept
<1>11. Sound(library'[m])
  <2>1. CASE library[m] = NoCopy /\ columns # Columns
    BY <1>8, <1>10, <2>1
  <2>2. CASE library[m] = NoCopy /\ columns = Columns
    BY <1>8, <1>10, <2>2, UpdatedStatus, ColumnsAre, HasStatus
  <2>3. CASE library[m] # NoCopy
    <3>1. library[m].status # "none"
      BY <1>8, <2>3 DEF Sound
    <3> QED BY <1>8, <1>10, <2>3, <3>1, UpdatedStatus, HasStatus
  <2> QED BY <2>1, <2>2, <2>3
<1>12. SoundRequest(c)
  BY <1>2, <1>4 DEF SoundRequest
<1>13. Halfway(click[k], shelf[m], library[m]) => Halfway(c, shelf[m], library'[m])
  <2> SUFFICES ASSUME Halfway(click[k], shelf[m], library[m])
               PROVE  Halfway(c, shelf[m], library'[m])
    OBVIOUS
  <2>1. /\ Alike(shelf[m], library[m]) /\ library[m] # NoCopy
        /\ row = Updated(library[m], click[k].patch, click[k].patched)
        /\ columns = Changed(library[m], row)
    BY <1>1, <1>2, <1>6, <1>7 DEF Halfway
  <2>2. library'[m] = row
    BY <1>8, <1>10, <2>1, WrittenWhole
  <2>3. shelf[m] # NoCopy
    BY <1>8, <2>1 DEF Sound, Alike
  <2>4. Alike(Updated(shelf[m], click[k].patch, click[k].patched), row)
    BY <1>8, <2>1, PartAlike
  <2> QED BY <1>4, <2>2, <2>3, <2>4 DEF Halfway
<1> QED BY <1>1, <1>4, <1>5, <1>9, <1>10, <1>11, <1>12, <1>13, ServiceShown

LEMMA RemoveShown ==
    ASSUME ArchiveInvariant, ShownInv, NEW k \in Clicks, RemoveMaterial(k) PROVE ShownInv'
<1>1. UnderWay(k) /\ click[k] \in Requests /\ click[k].kind = "remove" /\ click[k].pc = "save"
  BY Typed DEF RemoveMaterial, UnderWay
<1>2. PICK c : c = [click[k] EXCEPT !.pc = "answered"]
  OBVIOUS
<1>3. /\ c.of = click[k].of /\ c.page = click[k].page /\ c.pc = "answered" /\ c.kind = "remove"
  BY <1>1, <1>2 DEF Requests
<1>4. /\ click' = [click EXCEPT ![k] = c] /\ UNCHANGED pageVars /\ unlike' = unlike
      /\ library' = [library EXCEPT ![click[k].of] = NoCopy]
  BY <1>2 DEF RemoveMaterial, SetClick
<1>5. /\ library'[click[k].of] = NoCopy
      /\ \A m \in Materials \ {click[k].of} : library'[m] = library[m]
  BY <1>1, <1>4 DEF ArchiveInvariant, Kept, Requests
<1>6. Sound(library'[click[k].of]) /\ SoundRequest(c)
  BY <1>3, <1>5 DEF SoundRequest, Sound, NoCopy
<1>7. Halfway(c, shelf[click[k].of], library'[click[k].of])
  BY <1>3, <1>5 DEF Halfway
<1> QED BY <1>1, <1>3, <1>4, <1>5, <1>6, <1>7, ServiceShown

LEMMA FailShown ==
    ASSUME ArchiveInvariant, ShownInv, NEW k \in Clicks, ClickFails(k) PROVE ShownInv'
<1>1. UnderWay(k) /\ click[k] \in Requests /\ SoundRequest(click[k]) /\ Sound(library[click[k].of])
  BY Typed DEF ClickFails, ShownInv, Soundness
<1>2. /\ UNCHANGED pageVars /\ library' = library /\ unlike' = unlike \cup {click[k].of}
      /\ click' = [click EXCEPT ![k] = IF click[k].kind = "create" THEN Over
                                       ELSE [click[k] EXCEPT !.pc = "answered"]]
  BY DEF ClickFails, SetClick
<1>3. CASE click[k].kind # "create"
  <2>1. PICK c : c = [click[k] EXCEPT !.pc = "answered"]
    OBVIOUS
  <2>2. /\ c.of = click[k].of /\ c.page = click[k].page /\ c.pc = "answered" /\ c.kind = click[k].kind
        /\ c.patch = click[k].patch /\ c.patched = click[k].patched
    BY <1>1, <2>1 DEF Requests
  <2>3. SoundRequest(c)
    BY <1>1, <2>2 DEF SoundRequest
  <2> QED BY <1>1, <1>2, <1>3, <2>1, <2>2, <2>3, ServiceShown
<1>4. CASE click[k].kind = "create"
  <2>1. /\ UNCHANGED <<shelf, load, drawer, reloads, library>>
        /\ click' = [click EXCEPT ![k] = Over]
        /\ unlike \subseteq unlike' /\ click[k].of \in unlike'
    BY <1>2, <1>4 DEF pageVars
  <2> QED BY <2>1, OverShown
<1> QED BY <1>3, <1>4

LEMMA UnheardShown ==
    ASSUME ArchiveInvariant, ShownInv, NEW k \in Clicks, AnswerUnheard(k) PROVE ShownInv'
<1>1. /\ click' = [click EXCEPT ![k] = Over] /\ UNCHANGED <<shelf, load, drawer, reloads, library>>
      /\ unlike' = IF click[k].page = reloads THEN unlike \cup {click[k].of} ELSE unlike
  BY DEF AnswerUnheard, SetClick, pageVars
<1>2. CASE click[k].page = reloads
  BY <1>1, <1>2, OverShown
<1>3. CASE click[k].page # reloads
  BY <1>1, <1>3, OverShown DEF Live
<1> QED BY <1>2, <1>3

\* The store shows what the request has made of the row.
LEMMA ChangeShown ==
    ASSUME ArchiveInvariant, ShownInv, NEW k \in Clicks, ShowChange(k) PROVE ShownInv'
<1>1. PICK n : n = click[k].of
  OBVIOUS
<1>2. PICK c : c = click[k]
  OBVIOUS
<1>3. PICK row : row = CASE c.kind = "create" -> c.patch
                         [] c.kind = "remove" -> NoCopy
                         [] OTHER -> IF shelf[n] = NoCopy THEN shelf[n]
                                     ELSE Updated(shelf[n], c.patch, c.patched \ {"text"})
  OBVIOUS
<1>4. /\ c.pc = "answered" /\ c.page = reloads /\ shelf' = [shelf EXCEPT ![n] = row]
      /\ UNCHANGED <<load, reloads, library, unlike>> /\ click' = [click EXCEPT ![k] = Over]
  BY <1>1, <1>2, <1>3 DEF ShowChange
<1>5. /\ c \in Requests /\ n \in Materials /\ SoundRequest(c) /\ Waiting(k)
      /\ c.kind \in {"patch", "remove", "create"} /\ c.patch \in Part
      /\ shelf[n] \in Part /\ library[n] \in Part /\ Sound(shelf[n]) /\ Sound(library[n])
  BY <1>1, <1>2, <1>4, Typed DEF Requests, ShownInv, Soundness, Waiting
<1>6. /\ click'[k] = Over /\ \A j \in Clicks \ {k} : click'[j] = click[j]
      /\ shelf'[n] = row /\ \A m \in Materials \ {n} : shelf'[m] = shelf[m]
  BY <1>4, <1>5, Typed DEF ArchiveInvariant, Kept
<1>7. /\ ~Waiting(k)' /\ ~UnderWay(k)'
      /\ \A j \in Clicks \ {k} : Waiting(j)' = Waiting(j) /\ UnderWay(j)' = UnderWay(j)
  BY <1>6 DEF Waiting, UnderWay, Over
<1>8. \A m : About(m)' = About(m) \ {k}
  BY <1>4, <1>6, <1>7 DEF About, Live
<1>9. k \in About(n)
  BY <1>1, <1>2, <1>4, <1>5 DEF About, Live
<1>10. Sound(row)
  <2>1. CASE c.kind = "create"
    BY <1>3, <1>5, <2>1, HasStatus DEF SoundRequest
  <2>2. CASE c.kind = "remove"
    BY <1>3, <2>2 DEF Sound, NoCopy
  <2>3. CASE c.kind = "patch" /\ shelf[n] = NoCopy
    BY <1>3, <1>5, <2>3
  <2>4. CASE c.kind = "patch" /\ shelf[n] # NoCopy
    <3>1. shelf[n].status # "none"
      BY <1>5, <2>4 DEF Sound
    <3>2. row = Updated(shelf[n], c.patch, c.patched \ {"text"})
      BY <1>3, <2>4
    <3> QED BY <1>5, <2>4, <3>1, <3>2, UpdatedStatus, HasStatus DEF SoundRequest
  <2> QED BY <1>5, <2>1, <2>2, <2>3, <2>4
<1>11. Soundness'
  BY <1>4, <1>6, <1>7, <1>10 DEF ShownInv, Soundness, Sound
<1>12. EmptyPage'
  BY <1>4, <1>5, <1>9 DEF ShownInv, EmptyPage
<1>13. OneLive'
  <2> SUFFICES ASSUME NEW m \in Materials \ unlike
               PROVE  /\ \A j \in Clicks : UnderWay(j)' /\ click'[j].of = m => j \in About(m)'
                      /\ \A i, j \in About(m)' : i = j
    BY <1>4 DEF OneLive
  <2>1. \A j \in Clicks : UnderWay(j)' /\ click'[j].of = m => j # k /\ UnderWay(j) /\ click[j].of = m
    BY <1>6, <1>7
  <2> QED BY <1>8, <2>1 DEF ShownInv, OneLive
<1>14. LoadedAlone'
  BY <1>4, <1>8 DEF ShownInv, LoadedAlone
<1>15. ShownAlike'
  <2> SUFFICES ASSUME load.pc = "shown", NEW m \in Materials \ unlike
               PROVE  /\ About(m)' = {} => Alike(shelf'[m], library[m])
                      /\ \A j \in About(m)' : Halfway(click'[j], shelf'[m], library[m])
    BY <1>4 DEF ShownAlike
  <2>1. CASE m = n
    <3>1. Halfway(c, shelf[n], library[n])
      BY <1>2, <1>9, <2>1 DEF ShownInv, ShownAlike
    <3>2. About(m)' = {}
      BY <1>8, <1>9, <2>1 DEF ShownInv, OneLive
    <3>3. Alike(row, library[n])
      <4>1. CASE c.kind = "create"
        BY <1>3, <1>4, <3>1, <4>1 DEF Halfway
      <4>2. CASE c.kind = "remove"
        BY <1>3, <1>4, <3>1, <4>2 DEF Halfway, Alike
      <4>3. CASE c.kind = "patch"
        <5>1. shelf[n] # NoCopy /\ Alike(Updated(shelf[n], c.patch, c.patched), library[n])
          BY <1>4, <3>1, <4>3 DEF Halfway
        <5>2. row = Updated(shelf[n], c.patch, c.patched \ {"text"})
          BY <1>3, <4>3, <5>1
        <5>3. Alike(row, Updated(shelf[n], c.patch, c.patched))
          BY <1>5, <5>2, PartAlike
        <5> QED BY <5>1, <5>3 DEF Alike
      <4> QED BY <1>5, <4>1, <4>2, <4>3
    <3> QED BY <1>6, <2>1, <3>2, <3>3
  <2>2. CASE m # n
    <3>1. \A j \in About(m)' : j \in About(m) /\ click'[j] = click[j]
      BY <1>6, <1>8 DEF About
    <3>2. About(m)' = About(m)
      BY <1>1, <1>8, <2>2 DEF About
    <3> QED BY <1>6, <2>2, <3>1, <3>2 DEF ShownInv, ShownAlike
  <2> QED BY <2>1, <2>2
<1> QED BY <1>11, <1>12, <1>13, <1>14, <1>15 DEF ShownInv

\* The page asks only once it loads, or has something on it.
LEMMA PageShown ==
    ASSUME ArchiveAssumption, ArchiveInvariant, ShownInv, NEW k \in Clicks,
           \/ SaveEdit(k) \/ ToggleStatus(k) \/ Delete(k)
           \/ \E t \in Tags : AddTag(k, t)
           \/ \E m \in Materials : Create(k, m)
    PROVE  ShownInv'
<1>1. CASE drawer.of # NoMaterial
  <2>1. load.pc # "none" /\ drawer.of \in Materials
    BY <1>1 DEF ShownInv, EmptyPage, NoDrawer, ArchiveInvariant, KeptDrawer, Drawers
  <2>2. CASE SaveEdit(k)
    <3>1. PICK patch : /\ patch = [NoCopy EXCEPT !.text = drawer.editText, !.status = "USER_EDITED"]
                       /\ Ask(k, drawer.of, "patch", {"text", "status"}, patch)
      BY <2>2 DEF SaveEdit
    <3>2. patch.status = "USER_EDITED"
      BY <3>1 DEF NoCopy
    <3> QED BY <2>1, <3>1, <3>2, AskShown
  <2>3. CASE ToggleStatus(k)
    <3>1. PICK patch : /\ patch = [NoCopy EXCEPT !.status = IF shelf[drawer.of].status = "PROPOSED"
                                                            THEN "CONFIRMED" ELSE "PROPOSED"]
                       /\ Ask(k, drawer.of, "patch", {"status"}, patch)
      BY <2>3 DEF ToggleStatus
    <3>2. patch.status # "none"
      BY <3>1 DEF NoCopy
    <3> QED BY <2>1, <3>1, <3>2, AskShown
  <2>4. CASE Delete(k)
    <3>1. Ask(k, drawer.of, "remove", {}, NoCopy)
      BY <2>4 DEF Delete
    <3> QED BY <2>1, <3>1, AskShown
  <2>5. ASSUME NEW t \in Tags, AddTag(k, t) PROVE ShownInv'
    <3>1. PICK patch : Ask(k, drawer.of, "patch", {"tags"}, patch)
      BY <2>5 DEF AddTag
    <3> QED BY <2>1, <3>1, AskShown
  <2>6. ASSUME NEW m \in Materials, Create(k, m) PROVE ShownInv'
    <3>1. PICK tags \in SUBSET Tags : Ask(k, m, "create", Columns, Fresh(m, tags))
      BY <2>6 DEF Create
    <3>2. Fresh(m, tags).status # "none"
      BY DEF Fresh
    <3> QED BY <2>1, <3>1, <3>2, AskShown
  <2> QED BY <2>2, <2>3, <2>4, <2>5, <2>6
<1>2. CASE drawer.of = NoMaterial
  <2>1. PICK m \in Materials : Create(k, m)
    BY <1>2 DEF SaveEdit, ToggleStatus, Delete, AddTag
  <2>2. PICK tags \in SUBSET Tags : Ask(k, m, "create", Columns, Fresh(m, tags))
    BY <2>1 DEF Create
  <2>3. load.pc # "none" /\ Fresh(m, tags).status # "none"
    BY <2>1 DEF Create, ShownInv, Soundness, Fresh
  <2> QED BY <2>2, <2>3, AskShown
<1> QED BY <1>1, <1>2

LEMMA ShownStep ==
    ASSUME ArchiveAssumption, ArchiveInvariant, ShownInv, [ArchiveNext]_archiveVars PROVE ShownInv'
<1>1. ASSUME NEW m \in Materials, SelectRow(m) PROVE ShownInv'
  <2>1. load.pc # "none"
    BY <1>1 DEF SelectRow, ShownInv, EmptyPage
  <2> QED BY <1>1, <2>1, DrawerShown DEF SelectRow
<1>2. CASE CloseDrawer
  BY <1>2, DrawerShown DEF CloseDrawer
<1>3. CASE BeginEdit
  <2>1. load.pc # "none"
    BY <1>3 DEF BeginEdit, ShownInv, EmptyPage, NoDrawer
  <2> QED BY <1>3, <2>1, DrawerShown DEF BeginEdit
<1>4. CASE UNCHANGED archiveVars
  <2>1. load.pc = "none" => drawer = NoDrawer
    BY DEF ShownInv, EmptyPage
  <2> QED BY <1>4, <2>1, DrawerShown DEF archiveVars, pageVars
<1> QED BY <1>1, <1>2, <1>3, <1>4, LoadShown, ReloadShown, PageShown, CreateShown, FindShown,
           CompareShown, WriteShown, RemoveShown, FailShown, UnheardShown, ChangeShown DEF ArchiveNext

LEMMA ShownBegins == ASSUME ArchiveInit PROVE ShownInv
<1>1. \A k \in Clicks : ~Waiting(k) /\ ~UnderWay(k)
  BY DEF ArchiveInit, Waiting, UnderWay, NoClick
<1>2. \A m : About(m) = {}
  BY <1>1 DEF About, Live
<1>3. load.pc = "none" /\ load = NoLoad
  BY DEF ArchiveInit, NoLoad
<1>4. Soundness
  <2>1. Sound(NoCopy) /\ \A m \in Materials, tags \in SUBSET Tags : Sound(Fresh(m, tags))
    BY DEF Sound, NoCopy, Fresh
  <2> QED BY <1>1, <1>3, <2>1 DEF ArchiveInit, Soundness
<1>5. EmptyPage
  BY <1>2 DEF ArchiveInit, EmptyPage
<1> QED BY <1>1, <1>2, <1>3, <1>4, <1>5 DEF ShownInv, OneLive, LoadedAlone, ShownAlike

\* At rest the page shows what is stored, for any number of materials, tags,
\* clicks and reloads, whatever fails, of every material that was asked about
\* alone and answered.
THEOREM ShelfIsLibrary == ASSUME ArchiveAssumption PROVE ArchiveSpec => []ShownIsStored
<1>1. ArchiveInit => ArchiveInvariant /\ ShownInv
  BY ArchiveInitOK, ShownBegins
<1>2. ArchiveInvariant /\ ShownInv /\ [ArchiveNext]_archiveVars => ArchiveInvariant' /\ ShownInv'
  BY ArchiveStepOK, ShownStep
<1>3. ShownInv => ShownIsStored
  BY DEF ShownInv, ShownAlike, ShownIsStored, About, Live, Alike
<1> QED BY <1>1, <1>2, <1>3, PTL DEF ArchiveSpec

\* No row is half there: one with a status has a text, in the store, in the
\* table, in what a load has read and in what a save would put back.
Whole(row) == row.status # "none" => row.text # NoMaterial
WholeRequest(c) ==
    /\ c.kind = "create" => c.patch.text # NoMaterial
    /\ c.kind = "patch" /\ "text" \in c.patched => c.patch.text # NoMaterial
    /\ c.kind = "patch" /\ c.pc \in {"save", "update"} => c.row.text # NoMaterial

Loads == [pc : {"none", "asked", "shown", "failed"}]
             \cup [pc : {"read"}, rows : [Materials -> Part]]

WholeRows ==
    /\ \A m \in Materials : Whole(shelf[m]) /\ Whole(library[m])
    /\ load \in Loads /\ (load.pc = "read" => \A m \in Materials : Whole(load.rows[m]))
    /\ drawer.of # NoMaterial => drawer.editText # NoMaterial
WholeClicks == \A k \in Clicks : Waiting(k) => WholeRequest(click[k])
WholeMarks == unlike \subseteq Materials /\ switched \subseteq Materials
WholeInv == WholeRows /\ WholeClicks /\ WholeMarks

LEMMA WholeBegins == ASSUME ArchiveAssumption, ArchiveInit PROVE WholeInv
<1>1. Whole(NoCopy) /\ \A m \in Materials, tags \in SUBSET Tags : Whole(Fresh(m, tags))
  BY DEF Whole, NoCopy, Fresh, ArchiveAssumption
<1>2. \A k \in Clicks : ~Waiting(k)
  BY DEF ArchiveInit, Waiting, UnderWay, NoClick
<1> QED BY <1>1, <1>2
        DEF ArchiveInit, WholeInv, WholeRows, WholeClicks, WholeMarks, Loads, NoLoad, NoDrawer

LEMMA UpdatedWhole ==
    ASSUME NEW old \in Part, NEW new \in Part, NEW columns,
           "text" \in columns \/ old.text # NoMaterial,
           "text" \in columns => new.text # NoMaterial
    PROVE  Updated(old, new, columns).text # NoMaterial
  BY UpdatedPart

\* A request the page makes, about a material that has a row to edit.
LEMMA AskWhole ==
    ASSUME ArchiveInvariant, WholeInv, NEW k \in Clicks, NEW m \in Materials, NEW kind,
           NEW patched, NEW patch, Ask(k, m, kind, patched, patch),
           kind = "create" => patch.text # NoMaterial,
           "text" \in patched => patch.text # NoMaterial,
           drawer'.of # NoMaterial => drawer.of # NoMaterial /\ drawer'.editText = drawer.editText
    PROVE  WholeInv'
<1>1. click' = [click EXCEPT ![k] = [pc |-> "sent", kind |-> kind, of |-> m, row |-> NoCopy,
                 columns |-> {}, patch |-> patch, patched |-> patched, page |-> reloads]]
  BY DEF Ask
<1>2. WholeClicks'
  BY <1>1, Typed DEF WholeInv, WholeClicks, WholeRequest, Waiting, UnderWay
<1>3. WholeMarks'
  BY DEF Ask, WholeInv, WholeMarks
<1>4. WholeRows'
  BY DEF Ask, WholeInv, WholeRows
<1> QED BY <1>2, <1>3, <1>4 DEF WholeInv

\* A request that goes on, is answered, or is over, and writes at most its row.
LEMMA ClickWhole ==
    ASSUME ArchiveInvariant, WholeInv, NEW k \in Clicks, NEW c,
           click' = [click EXCEPT ![k] = c],
           c.pc \in {"sent", "save", "update", "answered"} => WholeRequest(c),
           NEW m \in Materials, NEW row, Whole(row),
           library' = library \/ library' = [library EXCEPT ![m] = row],
           UNCHANGED <<shelf, load, drawer, switched>>, unlike' \subseteq Materials
    PROVE  WholeInv'
<1>1. WholeClicks'
  BY Typed DEF WholeInv, WholeClicks, Waiting, UnderWay
<1>2. \A n \in Materials : library'[n] \in {library[n], row}
  BY DEF ArchiveInvariant, Kept
<1>3. WholeRows'
  BY <1>2 DEF WholeInv, WholeRows
<1> QED BY <1>1, <1>3 DEF WholeInv, WholeMarks

LEMMA PageWhole ==
    ASSUME ArchiveAssumption, ArchiveInvariant, Soundness, WholeInv,
           \/ Fetch \/ FetchReads \/ FetchReturns \/ FetchFails \/ Reload
           \/ CloseDrawer \/ BeginEdit \/ \E m \in Materials : SelectRow(m)
    PROVE  WholeInv'
<1> USE DEF WholeInv, WholeRows
<1>1. \A copies : ShelfDrawer(copies) \in {drawer, NoDrawer} /\ NoDrawer.of = NoMaterial
  BY DEF ShelfDrawer, NoDrawer
<1>2. ASSUME click' = click, unlike' \subseteq Materials, switched' = switched
      PROVE  WholeClicks' /\ WholeMarks'
  BY <1>2 DEF WholeClicks, Waiting, UnderWay, WholeMarks
<1>3. CASE Fetch \/ FetchFails
  BY <1>2, <1>3 DEF Fetch, FetchFails, Loads, WholeMarks
<1>4. CASE FetchReads
  <2>1. load' = [pc |-> "read", rows |-> library] /\ library \in [Materials -> Part]
    BY <1>4 DEF FetchReads, ArchiveInvariant, Kept
  <2> QED BY <1>2, <1>4, <2>1 DEF FetchReads, Loads, WholeMarks
<1>5. CASE FetchReturns
  <2>1. load' = [pc |-> "shown"] /\ shelf' = load.rows /\ load.pc = "read"
    BY <1>5 DEF FetchReturns
  <2>2. load' \in Loads
    BY <2>1 DEF Loads
  <2> QED BY <1>1, <1>2, <1>5, <2>1, <2>2 DEF FetchReturns, WholeMarks
<1>6. CASE Reload
  <2>1. Whole(NoCopy) /\ NoLoad \in Loads /\ NoLoad.pc = "none"
    BY DEF Whole, NoCopy, NoLoad, Loads
  <2>2. unlike' \subseteq Materials
    BY <1>6, Typed DEF Reload
  <2> QED BY <1>1, <1>2, <1>6, <2>1, <2>2 DEF Reload
<1>7. CASE CloseDrawer \/ BeginEdit
  <2>1. drawer'.of # NoMaterial => drawer.of # NoMaterial /\ drawer'.editText = drawer.editText
    BY <1>1, <1>7 DEF CloseDrawer, BeginEdit, ArchiveInvariant, KeptDrawer, Drawers
  <2> QED BY <1>2, <1>7, <2>1 DEF CloseDrawer, BeginEdit, WholeMarks
<1>8. ASSUME NEW m \in Materials, SelectRow(m) PROVE WholeInv'
  <2>1. shelf[m].text # NoMaterial
    BY <1>8 DEF SelectRow, Soundness, Sound, Whole
  <2>2. drawer'.editText # NoMaterial
    <3>1. CASE drawer = NoDrawer
      BY <1>8, <2>1, <3>1 DEF SelectRow
    <3>2. CASE drawer # NoDrawer
      <4>1. drawer' = [drawer EXCEPT !.of = m] /\ drawer.of # NoMaterial
        BY <1>8, <3>2 DEF SelectRow, ArchiveInvariant, KeptDrawer
      <4> QED BY <4>1 DEF ArchiveInvariant, KeptDrawer, Drawers
    <3> QED BY <3>1, <3>2
  <2>3. WholeClicks' /\ WholeMarks'
    BY <1>8 DEF SelectRow, WholeClicks, Waiting, UnderWay, WholeMarks
  <2> QED BY <1>8, <2>2, <2>3 DEF SelectRow
<1> QED BY <1>3, <1>4, <1>5, <1>6, <1>7, <1>8

LEMMA AsksWhole ==
    ASSUME ArchiveAssumption, ArchiveInvariant, WholeInv, NEW k \in Clicks,
           \/ SaveEdit(k) \/ ToggleStatus(k) \/ Delete(k)
           \/ \E t \in Tags : AddTag(k, t)
           \/ \E m \in Materials : Create(k, m)
    PROVE  WholeInv'
<1>1. drawer \in Drawers
  BY DEF ArchiveInvariant, KeptDrawer
<1>2. CASE SaveEdit(k)
  <2> DEFINE patch == [NoCopy EXCEPT !.text = drawer.editText, !.status = "USER_EDITED"]
  <2>1. /\ drawer.of \in Materials /\ drawer' = [drawer EXCEPT !.editing = FALSE]
        /\ Ask(k, drawer.of, "patch", {"text", "status"}, patch)
    BY <1>1, <1>2 DEF SaveEdit, Drawers
  <2>2. patch.text # NoMaterial /\ drawer'.editText = drawer.editText /\ drawer.of # NoMaterial
    BY <1>1, <1>2, <2>1 DEF NoCopy, WholeInv, WholeRows, Drawers, SaveEdit
  <2> HIDE DEF patch
  <2> QED BY <2>1, <2>2, AskWhole
<1>3. CASE ToggleStatus(k)
  <2>1. PICK patch : Ask(k, drawer.of, "patch", {"status"}, patch)
    BY <1>3 DEF ToggleStatus
  <2>2. drawer.of \in Materials /\ drawer' = drawer
    BY <1>1, <1>3 DEF ToggleStatus, Drawers
  <2> QED BY <2>1, <2>2, AskWhole
<1>4. CASE Delete(k)
  <2>1. Ask(k, drawer.of, "remove", {}, NoCopy) /\ drawer.of \in Materials /\ drawer' = NoDrawer
    BY <1>1, <1>4 DEF Delete, Drawers
  <2> QED BY <2>1, AskWhole DEF NoDrawer
<1>5. ASSUME NEW t \in Tags, AddTag(k, t) PROVE WholeInv'
  <2>1. PICK patch : Ask(k, drawer.of, "patch", {"tags"}, patch)
    BY <1>5 DEF AddTag
  <2>2. drawer.of \in Materials /\ drawer' = drawer
    BY <1>1, <1>5 DEF AddTag, Drawers
  <2> QED BY <2>1, <2>2, AskWhole
<1>6. ASSUME NEW m \in Materials, Create(k, m) PROVE WholeInv'
  <2>1. PICK tags \in SUBSET Tags : Ask(k, m, "create", Columns, Fresh(m, tags)) /\ drawer' = drawer
    BY <1>6 DEF Create
  <2>2. Fresh(m, tags).text # NoMaterial
    BY FreshPart DEF ArchiveAssumption
  <2> QED BY <2>1, <2>2, AskWhole
<1> QED BY <1>2, <1>3, <1>4, <1>5, <1>6

LEMMA ServiceWhole ==
    ASSUME ArchiveInvariant, Soundness, WholeInv, NEW k \in Clicks,
           \/ CreateMaterial(k) \/ FindMaterial(k) \/ CompareMaterial(k) \/ WriteMaterial(k)
           \/ RemoveMaterial(k) \/ ClickFails(k) \/ ShowChange(k) \/ AnswerUnheard(k)
    PROVE  WholeInv'
<1> DEFINE c == click[k]
           m == c.of
<1>1. Waiting(k) /\ c \in Requests /\ m \in Materials
  <2>1. Waiting(k)
    BY DEF CreateMaterial, FindMaterial, CompareMaterial, WriteMaterial, RemoveMaterial, ClickFails,
           ShowChange, AnswerUnheard, Waiting, UnderWay
  <2> QED BY <2>1, Typed
<1>2. WholeRequest(c) /\ SoundRequest(c) /\ c.patch \in Part /\ c.row \in Part
  BY <1>1 DEF WholeInv, WholeClicks, Soundness, Requests
<1>3. /\ shelf[m] \in Part /\ library[m] \in Part /\ Whole(shelf[m]) /\ Whole(library[m])
      /\ shelf[m] # NoCopy => shelf[m].text # NoMaterial
      /\ library[m] # NoCopy => library[m].text # NoMaterial
  BY <1>1, Typed DEF WholeInv, WholeRows, Soundness, Sound, Whole
<1>4. /\ [c EXCEPT !.pc = "answered"].kind = c.kind /\ [c EXCEPT !.pc = "answered"].patch = c.patch
      /\ [c EXCEPT !.pc = "answered"].patched = c.patched
      /\ [c EXCEPT !.pc = "answered"].pc = "answered"
  BY <1>1 DEF Requests
<1>5. WholeRequest([c EXCEPT !.pc = "answered"])
  BY <1>2, <1>4 DEF WholeRequest
<1>6. unlike \subseteq Materials /\ unlike \cup {m} \subseteq Materials /\ Over.pc = "over"
  BY <1>1 DEF WholeInv, WholeMarks, Over
<1>7. ASSUME NEW row, Whole(row), library' = library \/ library' = [library EXCEPT ![m] = row],
             SetClick(k, [c EXCEPT !.pc = "answered"]), unlike' = unlike
      PROVE  WholeInv'
  <2>1. click' = [click EXCEPT ![k] = [c EXCEPT !.pc = "answered"]]
        /\ UNCHANGED <<shelf, load, drawer, switched>>
    BY <1>7 DEF SetClick, pageVars
  <2> HIDE DEF c
  <2> QED BY <1>1, <1>5, <1>6, <1>7, <2>1, ClickWhole
<1>8. CASE CreateMaterial(k)
  <2>1. Whole(c.patch)
    BY <1>2, <1>8 DEF CreateMaterial, WholeRequest, Whole
  <2> QED BY <1>7, <1>8, <2>1 DEF CreateMaterial
<1>9. CASE FindMaterial(k)
  <2> DEFINE row == Updated(library[m], c.patch, c.patched)
             d == [c EXCEPT !.pc = "save", !.row = row]
  <2>1. c.kind = "patch" => row.text # NoMaterial
    BY <1>2, <1>3, <1>9, UpdatedWhole DEF FindMaterial, WholeRequest
  <2> HIDE DEF row
  <2>2. d.kind = c.kind /\ d.patch = c.patch /\ d.patched = c.patched /\ d.row = row
    BY <1>1 DEF Requests
  <2>3. WholeRequest(d)
    BY <1>2, <1>9, <2>1, <2>2 DEF WholeRequest, FindMaterial
  <2>4. click' = [click EXCEPT ![k] = d] /\ UNCHANGED <<library, shelf, load, drawer, switched, unlike>>
    BY <1>9 DEF FindMaterial, SetClick, pageVars, row
  <2> HIDE DEF d, c, m
  <2> QED BY <1>1, <1>3, <1>6, <2>3, <2>4, ClickWhole
<1>10. CASE CompareMaterial(k)
  <2>1. PICK columns : SetClick(k, [c EXCEPT !.pc = "update", !.columns = columns])
    BY <1>10 DEF CompareMaterial
  <2> DEFINE d == [c EXCEPT !.pc = "update", !.columns = columns]
  <2>2. d.kind = c.kind /\ d.patch = c.patch /\ d.patched = c.patched /\ d.row = c.row
    BY <1>1 DEF Requests
  <2>3. WholeRequest(d)
    BY <1>2, <1>10, <2>2 DEF WholeRequest, CompareMaterial
  <2>4. click' = [click EXCEPT ![k] = d] /\ UNCHANGED <<library, shelf, load, drawer, switched, unlike>>
    BY <1>10, <2>1 DEF CompareMaterial, SetClick, pageVars
  <2> HIDE DEF d, c, m
  <2> QED BY <1>1, <1>3, <1>6, <2>3, <2>4, ClickWhole
<1>11. CASE WriteMaterial(k)
  <2> DEFINE row == IF library[m] = NoCopy /\ c.columns # Columns THEN library[m]
                    ELSE Updated(library[m], c.row, c.columns)
  <2>1. c.kind = "patch" /\ c.row.text # NoMaterial
    BY <1>2, <1>11 DEF WriteMaterial, SoundRequest, WholeRequest
  <2>2. Whole(row)
    <3>1. CASE library[m] = NoCopy /\ c.columns # Columns
      BY <1>3, <3>1
    <3>2. CASE ~(library[m] = NoCopy /\ c.columns # Columns)
      <4>1. Updated(library[m], c.row, c.columns).text # NoMaterial
        BY <1>2, <1>3, <2>1, <3>2, UpdatedWhole, ColumnsAre
      <4> QED BY <3>2, <4>1 DEF Whole
    <3> QED BY <3>1, <3>2
  <2>3. library' = [library EXCEPT ![m] = row] /\ SetClick(k, [c EXCEPT !.pc = "answered"])
        /\ unlike' = unlike
    BY <1>11 DEF WriteMaterial
  <2> HIDE DEF row
  <2> QED BY <1>7, <2>2, <2>3
<1>12. CASE RemoveMaterial(k)
  <2>1. Whole(NoCopy)
    BY DEF Whole, NoCopy
  <2> QED BY <1>7, <1>12, <2>1 DEF RemoveMaterial
<1>13. CASE ClickFails(k) \/ AnswerUnheard(k)
  <2>1. PICK d : SetClick(k, d) /\ d \in {Over, [c EXCEPT !.pc = "answered"]}
    BY <1>13 DEF ClickFails, AnswerUnheard
  <2>2. d.pc \in {"sent", "save", "update", "answered"} => WholeRequest(d)
    BY <1>5, <1>6, <2>1
  <2>3. unlike' \subseteq Materials /\ library' = library
    BY <1>6, <1>13 DEF ClickFails, AnswerUnheard
  <2>4. click' = [click EXCEPT ![k] = d] /\ UNCHANGED <<shelf, load, drawer, switched>>
    BY <2>1 DEF SetClick, pageVars
  <2> HIDE DEF c, m
  <2> QED BY <1>1, <1>3, <2>2, <2>3, <2>4, ClickWhole
<1>14. CASE ShowChange(k)
  <2> DEFINE row == CASE c.kind = "create" -> c.patch
                      [] c.kind = "remove" -> NoCopy
                      [] OTHER -> IF shelf[m] = NoCopy THEN shelf[m]
                                  ELSE Updated(shelf[m], c.patch, c.patched \ {"text"})
  <2>1. /\ shelf' = [shelf EXCEPT ![m] = row] /\ drawer' = ShelfDrawer(shelf')
        /\ click' = [click EXCEPT ![k] = Over]
        /\ UNCHANGED <<load, library, unlike, switched>>
    BY <1>14 DEF ShowChange
  <2>2. Whole(row)
    <3>1. CASE c.kind = "create"
      BY <1>2, <3>1 DEF WholeRequest, Whole
    <3>2. CASE c.kind = "remove"
      BY <3>2 DEF Whole, NoCopy
    <3>3. CASE c.kind = "patch" /\ shelf[m] = NoCopy
      BY <1>3, <3>3
    <3>4. CASE c.kind = "patch" /\ shelf[m] # NoCopy
      <4>1. Updated(shelf[m], c.patch, c.patched \ {"text"}).text # NoMaterial
        BY <1>2, <1>3, <3>4, UpdatedWhole
      <4> QED BY <3>4, <4>1 DEF Whole
    <3> QED BY <1>1, <3>1, <3>2, <3>3, <3>4 DEF Requests
  <2> HIDE DEF row
  <2>3. \A n \in Materials : Whole(shelf'[n])
    BY <2>1, <2>2 DEF ArchiveInvariant, Kept, WholeInv, WholeRows
  <2>4. drawer' \in {drawer, NoDrawer} /\ NoDrawer.of = NoMaterial
    BY <2>1 DEF ShelfDrawer, NoDrawer
  <2>5. WholeRows'
    BY <2>1, <2>3, <2>4 DEF WholeInv, WholeRows
  <2>6. WholeClicks'
    BY <2>1, Typed DEF WholeInv, WholeClicks, Waiting, UnderWay, Over
  <2> QED BY <2>1, <2>5, <2>6 DEF WholeInv, WholeMarks
<1> QED BY <1>8, <1>9, <1>10, <1>11, <1>12, <1>13, <1>14

LEMMA WholeStep ==
    ASSUME ArchiveAssumption, ArchiveInvariant, Soundness, WholeInv, [ArchiveNext]_archiveVars
    PROVE  WholeInv'
<1>1. CASE UNCHANGED archiveVars
  BY <1>1 DEF archiveVars, pageVars, WholeInv, WholeRows, WholeClicks, Waiting, UnderWay, WholeMarks
<1> QED BY <1>1, PageWhole, AsksWhole, ServiceWhole DEF ArchiveNext

LEMMA WholeTypes == ASSUME ArchiveInvariant, Soundness, WholeInv PROVE ArchiveTypeOK
<1>1. \A row \in Part : Sound(row) /\ Whole(row) => row \in Copy \cup {NoCopy}
  BY DEF Part, Sound, Whole, Copy
<1>2. \A rows \in [Materials -> Part] :
         (\A m \in Materials : Sound(rows[m]) /\ Whole(rows[m]))
             => rows \in [Materials -> Copy \cup {NoCopy}]
  BY <1>1
<1>3. shelf \in [Materials -> Copy \cup {NoCopy}] /\ library \in [Materials -> Copy \cup {NoCopy}]
  BY <1>2 DEF ArchiveInvariant, Kept, Soundness, WholeInv, WholeRows
<1>4. load \in [pc : {"none", "asked", "shown", "failed"}]
               \cup [pc : {"read"}, rows : [Materials -> Copy \cup {NoCopy}]]
  <2>1. CASE load.pc = "read"
    <3>1. load.rows \in [Materials -> Copy \cup {NoCopy}]
      BY <1>2, <2>1 DEF ArchiveInvariant, Kept, Soundness, WholeInv, WholeRows
    <3> QED BY <2>1, <3>1 DEF WholeInv, WholeRows, Loads
  <2>2. CASE load.pc # "read"
    BY <2>2 DEF WholeInv, WholeRows, Loads
  <2> QED BY <2>1, <2>2
<1> QED BY <1>3, <1>4
        DEF ArchiveTypeOK, ArchiveInvariant, KeptDrawer, Drawers, KeptClicks, Requests,
            WholeInv, WholeMarks

\* No material is stored or shown half-way, with a status and no text or the
\* other way about, however saves, deletes and reloads cross each other; and
\* the drawer, the loading and the requests hold what they may.
THEOREM ArchiveTypeCorrect == ASSUME ArchiveAssumption PROVE ArchiveSpec => []ArchiveTypeOK
<1>1. ArchiveInit => ArchiveInvariant /\ ShownInv /\ WholeInv
  BY ArchiveInitOK, ShownBegins, WholeBegins
<1>2. ArchiveInvariant /\ ShownInv /\ WholeInv /\ [ArchiveNext]_archiveVars
         => ArchiveInvariant' /\ ShownInv' /\ WholeInv'
  BY ArchiveStepOK, ShownStep, WholeStep DEF ShownInv
<1>3. ArchiveInvariant /\ ShownInv /\ WholeInv => ArchiveTypeOK
  BY WholeTypes DEF ShownInv
<1> QED BY <1>1, <1>2, <1>3, PTL DEF ArchiveSpec

-----------------------------------------------------------------------------
(* The chat: between two things that are under way, the view shows the     *)
(* settled rows of the conversation that the next prompt goes to.          *)

Reads(r) == restore[r].pc = "read"

\* Where a prompt may be when rows of it are stored.
Stored == {"answering", "telling", "done", "over"}

RestoreStates ==
    [pc : {"unsent", "list", "over"}] \cup [pc : {"get"}, conv : Conversations]
    \cup [pc : {"read"}, conv : Conversations, rows : Seq(Row)]

PromptStates ==
    [pc : Underway \cup {"unsent", "done", "over"}, conv : Conversations \cup {NoConversation}]

ChatTyped ==
    /\ shown \in Seq(Shown) /\ streaming \in BOOLEAN /\ current \in Conversations \cup {NoConversation}
    /\ prompt \in [Prompts -> PromptStates] /\ restore \in [Restores -> RestoreStates]
    /\ history \in [Conversations -> Seq(Row)]
    /\ chats \subseteq Conversations /\ serving \subseteq Prompts /\ cut \subseteq Prompts
    /\ notes \in 0..MaxNotes /\ reopens \in 0..MaxReopens /\ crowded \in BOOLEAN

\* A prompt has a conversation from when its stream is asked for.
Addressed ==
    \A p \in Prompts :
        /\ prompt[p].pc \in {"unsent", "creating"} => prompt[p].conv = NoConversation
        /\ prompt[p].pc \in {"opening", "hung", "answering", "telling", "done"} => prompt[p].conv \in Conversations

\* Nobody knows a conversation that is not created yet, and it is empty.
Unborn ==
    \A p \in Prompts :
        prompt[p].pc \in {"unsent", "creating"} =>
            /\ history[p] = <<>> /\ p \notin chats /\ current # p
            /\ \A q \in Prompts : prompt[q].conv # p
            /\ \A r \in Restores : Loading(r) => restore[r].conv # p

\* The rows of a prompt are stored in its conversation, each once, the
\* question before the answer.
Filed ==
    \A c \in Conversations : \A i \in DOMAIN history[c] :
        LET p == history[c][i].of
        IN p \in Prompts => prompt[p].conv = c /\ prompt[p].pc \in Stored
Distinct(rows) == \A i, j \in DOMAIN rows : rows[i] = rows[j] => i = j
Answers(rows) ==
    \A p \in Prompts, k \in DOMAIN rows :
        rows[k] = AnswerRow(p) => \E i \in DOMAIN rows : i < k /\ rows[i] = UserRow(p)
Ordered == \A c \in Conversations : Distinct(history[c]) /\ Answers(history[c])

\* A loop that runs has its question stored and not its answer.
Serves ==
    \A p \in serving :
        /\ prompt[p].conv \in Conversations /\ prompt[p].pc \in {"answering", "telling", "over"}
        /\ \E i \in DOMAIN history[prompt[p].conv] : history[prompt[p].conv][i] = UserRow(p)
        /\ \A i \in DOMAIN history[prompt[p].conv] : history[prompt[p].conv][i] # AnswerRow(p)

\* What is seen was sent.
Unsent == {p \in Prompts : prompt[p].pc = "unsent"}
AllSent ==
    /\ \A i \in DOMAIN shown : shown[i].of \notin Unsent
    /\ \A r \in Restores :
          Reads(r) => \A i \in DOMAIN restore[r].rows : restore[r].rows[i].of \notin Unsent

-----------------------------------------------------------------------------
\* As Agree, of any rows and with any set of prompts for the settled ones.
Places(S, rows) == {i \in DOMAIN rows : rows[i].of \in S}
Match(A, B, a, b) ==
    /\ \A i \in A : \E k \in B : SameRow(a[i], b[k])
    /\ \A k \in B : \E i \in A : SameRow(a[i], b[k])
    /\ \A i, j \in A, k, l \in B : SameRow(a[i], b[k]) /\ SameRow(a[j], b[l]) => (i < j <=> k < l)
Same(S, a, b) == Match(Places(S, a), Places(S, b), a, b)
\* The rows of p are behind those of S.
Before(S, p, rows) == \A i, k \in DOMAIN rows : rows[i].of \in S /\ rows[k].of = p => i < k

\* The rows that are stored where the next prompt goes.
View == IF current = NoConversation THEN <<>> ELSE history[current]

\* One thing at a time, and what was cut off lets nothing begin.
Alone ==
    /\ \A p, q \in Prompts : Running(p) /\ Running(q) => p = q
    /\ \A r, s \in Restores : Loading(r) /\ Loading(s) => r = s
    /\ \A p \in Prompts, r \in Restores : ~(Running(p) /\ Loading(r))
    /\ (\E p \in Prompts : Running(p)) \/ (\E r \in Restores : Loading(r)) => cut = {}
Waits ==
    streaming <=> (\E p \in Prompts : Running(p)) \/ (\E r \in Restores : Loading(r)) \/ cut # {}

\* A prompt that is under way goes to the conversation that is shown, as the
\* last thing of it.
AsksLast(p, rows) ==
    /\ rows # <<>> /\ SameRow(rows[Len(rows)], UserRow(p))
    /\ \A i \in DOMAIN rows : rows[i].of = p => i = Len(rows)
TellsLast(p, rows) ==
    /\ Len(rows) > 1 /\ SameRow(rows[Len(rows)], AnswerRow(p)) /\ rows[Len(rows)].open
    /\ SameRow(rows[Len(rows) - 1], UserRow(p))
    /\ \A i \in DOMAIN rows : rows[i].of = p => i \in {Len(rows) - 1, Len(rows)}
Attended ==
    \A p \in Prompts :
        /\ Running(p) => prompt[p].conv = current
        /\ prompt[p].pc \in {"creating", "opening", "hung", "answering"} => AsksLast(p, shown)
        /\ prompt[p].pc = "telling" => TellsLast(p, shown)
        /\ prompt[p].pc \in {"answering", "telling"} => Before(Settled, p, history[prompt[p].conv])

\* Rows that were read for the view are still those that are stored.
Restored ==
    \A r \in Restores :
        /\ Loading(r) => current = NoConversation
        /\ Reads(r) => Same(Settled, restore[r].rows, history[restore[r].conv])

Matched == Same(Settled, shown, View)

QuietInv == Alone /\ Waits /\ Attended /\ Restored /\ Matched

BackInv == Addressed /\ Unborn /\ Filed /\ Ordered /\ Serves

ChatInv == ChatTyped /\ BackInv /\ AllSent /\ (~crowded => QuietInv)

-----------------------------------------------------------------------------
(* Rows of conversations. *)

LEMMA AppendedRows ==
    ASSUME NEW T, NEW rows \in Seq(T), NEW row \in T
    PROVE  /\ Append(rows, row) \in Seq(T)
           /\ DOMAIN Append(rows, row) = DOMAIN rows \cup {Len(rows) + 1}
           /\ Append(rows, row)[Len(rows) + 1] = row
           /\ \A i \in DOMAIN rows : Append(rows, row)[i] = rows[i] /\ i \in Nat /\ i < Len(rows) + 1
           /\ Len(Append(rows, row)) = Len(rows) + 1 /\ Len(rows) \in Nat
           /\ Append(rows, row) # <<>>
OBVIOUS

LEMMA PlacesStay ==
    ASSUME NEW T, NEW rows \in Seq(T), NEW row \in T, NEW S, row.of \notin S
    PROVE  /\ Places(S, Append(rows, row)) = Places(S, rows)
           /\ \A i \in Places(S, rows) : Append(rows, row)[i] = rows[i]
BY AppendedRows DEF Places

\* Only the settled rows matter, and of these their role and whose they are.
LEMMA SameFrom ==
    ASSUME NEW S, NEW a, NEW b, NEW c, Places(S, a) = Places(S, c),
           \A i \in Places(S, a) : SameRow(c[i], a[i])
    PROVE  /\ Same(S, a, b) => Same(S, c, b)
           /\ Same(S, b, a) => Same(S, b, c)
<1> DEFINE A == Places(S, a)
           B == Places(S, b)
<1>1. \A i \in A : \A row : /\ SameRow(a[i], row) <=> SameRow(c[i], row)
                            /\ SameRow(row, a[i]) <=> SameRow(row, c[i])
  BY DEF SameRow
<1>2. Match(A, B, a, b) => Match(A, B, c, b)
  <2> HIDE DEF A, B
  <2> SUFFICES ASSUME Match(A, B, a, b) PROVE Match(A, B, c, b)
    OBVIOUS
  <2>1. \A i \in A : \E k \in B : SameRow(c[i], b[k])
    BY <1>1 DEF Match
  <2>2. \A k \in B : \E i \in A : SameRow(c[i], b[k])
    BY <1>1 DEF Match
  <2>3. \A i, j \in A, k, l \in B : SameRow(c[i], b[k]) /\ SameRow(c[j], b[l]) => (i < j <=> k < l)
    <3> TAKE i, j \in A, k, l \in B
    <3>1. SameRow(c[i], b[k]) /\ SameRow(c[j], b[l]) => SameRow(a[i], b[k]) /\ SameRow(a[j], b[l])
      BY <1>1
    <3> QED BY <3>1 DEF Match
  <2> QED BY <2>1, <2>2, <2>3 DEF Match
<1>3. Match(B, A, b, a) => Match(B, A, b, c)
  <2> HIDE DEF A, B
  <2> SUFFICES ASSUME Match(B, A, b, a) PROVE Match(B, A, b, c)
    OBVIOUS
  <2>1. \A k \in B : \E i \in A : SameRow(b[k], c[i])
    BY <1>1 DEF Match
  <2>2. \A i \in A : \E k \in B : SameRow(b[k], c[i])
    BY <1>1 DEF Match
  <2>3. \A k, l \in B, i, j \in A : SameRow(b[k], c[i]) /\ SameRow(b[l], c[j]) => (k < l <=> i < j)
    <3> TAKE k, l \in B, i, j \in A
    <3>1. SameRow(b[k], c[i]) /\ SameRow(b[l], c[j]) => SameRow(b[k], a[i]) /\ SameRow(b[l], a[j])
      BY <1>1
    <3> QED BY <3>1 DEF Match
  <2> QED BY <2>1, <2>2, <2>3 DEF Match
<1> QED BY <1>2, <1>3 DEF Same

LEMMA SameAppended ==
    ASSUME NEW T, NEW a \in Seq(T), NEW row \in T, NEW S, row.of \notin S, NEW b
    PROVE  /\ Same(S, a, b) => Same(S, Append(a, row), b)
           /\ Same(S, b, a) => Same(S, b, Append(a, row))
<1>1. Places(S, a) = Places(S, Append(a, row))
  BY PlacesStay
<1>2. \A i \in Places(S, a) : SameRow(Append(a, row)[i], a[i])
  BY PlacesStay DEF SameRow
<1> QED BY <1>1, <1>2, SameFrom

\* A row is what it is by its role and whose it is.
LEMMA RowIs ==
    /\ \A p \in Conversations : UserRow(p) \in Row /\ AnswerRow(p) \in Row
    /\ \A one, other \in Row : SameRow(one, other) => one = other
    /\ \A row \in Row : \/ row = UserRow(row.of)
                        \/ row = AnswerRow(row.of)
    /\ \A p : SameRow(UserRow(p), UserRow(p)) /\ UserRow(p).of = p /\ AnswerRow(p).of = p
              /\ UserRow(p).role = "user" /\ AnswerRow(p).role = "assistant"
              /\ UserRow(p) # AnswerRow(p)
BY DEF Row, SameRow, UserRow, AnswerRow

LEMMA SameSelf ==
    ASSUME NEW rows \in Seq(Row), NEW S, Distinct(rows)
    PROVE  Same(S, rows, rows)
<1>1. \A i \in DOMAIN rows : rows[i] \in Row /\ i \in Int
  OBVIOUS
<1>2. \A i, k \in DOMAIN rows : SameRow(rows[i], rows[k]) => i = k
  BY <1>1, RowIs DEF Distinct
<1>3. \A i \in DOMAIN rows : SameRow(rows[i], rows[i])
  BY DEF SameRow
<1> QED BY <1>1, <1>2, <1>3 DEF Same, Match, Places

LEMMA SameCopied ==
    ASSUME NEW S, NEW a, NEW b, NEW c, DOMAIN a = DOMAIN b,
           \A i \in DOMAIN a : SameRow(b[i], a[i]),
           Same(S, a, c)
    PROVE  Same(S, b, c)
<1>1. Places(S, a) = Places(S, b)
  BY DEF Places, SameRow
<1>2. \A i \in Places(S, a) : SameRow(b[i], a[i])
  BY DEF Places
<1> QED BY <1>1, <1>2, SameFrom

\* The question and the answer of p are the rows u and v, and none of S is
\* behind the question.
Pair(S, p, rows, u, v) ==
    /\ u \in DOMAIN rows /\ v \in DOMAIN rows /\ u < v
    /\ SameRow(rows[u], UserRow(p)) /\ SameRow(rows[v], AnswerRow(p))
    /\ \A i \in DOMAIN rows : rows[i].of = p => i = u \/ i = v
    /\ \A i \in DOMAIN rows : rows[i].of \in S => i < u

LEMMA PlacesMore ==
    ASSUME NEW S, NEW p, NEW rows, NEW u, NEW v, Pair(S, p, rows, u, v)
    PROVE  Places(S \cup {p}, rows) = Places(S, rows) \cup {u, v}
BY RowIs DEF Pair, Places, SameRow

\* A prompt that is settled last is settled in both.
LEMMA SameMore ==
    ASSUME NEW T, NEW a \in Seq(T), NEW U, NEW b \in Seq(U), NEW S, NEW p, p \notin S, Same(S, a, b),
           NEW u, NEW v, Pair(S, p, a, u, v), NEW x, NEW y, Pair(S, p, b, x, y)
    PROVE  Same(S \cup {p}, a, b)
<1> DEFINE A == Places(S, a)
           B == Places(S, b)
<1>1. Places(S \cup {p}, a) = A \cup {u, v} /\ Places(S \cup {p}, b) = B \cup {x, y}
  BY PlacesMore
<1>2. /\ SameRow(a[u], b[x]) /\ SameRow(a[v], b[y])
      /\ ~SameRow(a[u], b[y]) /\ ~SameRow(a[v], b[x])
  BY RowIs DEF Pair, SameRow
<1>3. /\ \A i \in A : ~SameRow(a[i], b[x]) /\ ~SameRow(a[i], b[y])
      /\ \A k \in B : ~SameRow(a[u], b[k]) /\ ~SameRow(a[v], b[k])
  BY RowIs DEF Pair, SameRow, Places
<1>4. /\ A \subseteq Int /\ B \subseteq Int
      /\ u \in Int /\ v \in Int /\ x \in Int /\ y \in Int
  BY DEF Places, Pair
<1>5. /\ \A i \in A : i < u /\ i < v
      /\ \A k \in B : k < x /\ k < y
      /\ u < v /\ x < y
  BY <1>4 DEF Places, Pair
<1>6. \A i \in A \cup {u, v} : \E k \in B \cup {x, y} : SameRow(a[i], b[k])
  BY <1>2 DEF Same, Match
<1>7. \A k \in B \cup {x, y} : \E i \in A \cup {u, v} : SameRow(a[i], b[k])
  BY <1>2 DEF Same, Match
<1>8. ASSUME NEW i \in A \cup {u, v}, NEW j \in A \cup {u, v},
             NEW k \in B \cup {x, y}, NEW l \in B \cup {x, y},
             SameRow(a[i], b[k]), SameRow(a[j], b[l])
      PROVE  i < j <=> k < l
  <2>1. \/ i \in A /\ k \in B
        \/ i = u /\ k = x
        \/ i = v /\ k = y
    BY <1>2, <1>3, <1>8
  <2>2. \/ j \in A /\ l \in B
        \/ j = u /\ l = x
        \/ j = v /\ l = y
    BY <1>2, <1>3, <1>8
  <2>3. CASE i \in A /\ k \in B /\ j \in A /\ l \in B
    BY <1>8, <2>3 DEF Same, Match
  <2>4. CASE i \in A /\ k \in B /\ ~(j \in A /\ l \in B)
    BY <1>5, <2>2, <2>4
  <2>5. CASE ~(i \in A /\ k \in B) /\ j \in A /\ l \in B
    BY <1>4, <1>5, <2>1, <2>5
  <2>6. CASE ~(i \in A /\ k \in B) /\ ~(j \in A /\ l \in B)
    BY <1>4, <1>5, <2>1, <2>2, <2>6
  <2> QED BY <2>3, <2>4, <2>5, <2>6
<1>9. Match(A \cup {u, v}, B \cup {x, y}, a, b)
  BY <1>6, <1>7, <1>8 DEF Match
<1> QED BY <1>1, <1>9 DEF Same

-----------------------------------------------------------------------------
(* Types *)

LEMMA PromptGoes ==
    ASSUME ChatTyped, NEW p \in Prompts, NEW pc \in Underway \cup {"unsent", "done", "over"},
           GoesOn(p, pc)
    PROVE  /\ prompt' \in [Prompts -> PromptStates]
           /\ prompt'[p].pc = pc /\ prompt'[p].conv = prompt[p].conv
           /\ \A q \in Prompts \ {p} : prompt'[q] = prompt[q]
<1>1. prompt \in [Prompts -> PromptStates] /\ prompt[p] \in PromptStates
  BY DEF ChatTyped
<1>2. [prompt[p] EXCEPT !.pc = pc] = [pc |-> pc, conv |-> prompt[p].conv]
  BY <1>1 DEF PromptStates
<1>3. [pc |-> pc, conv |-> prompt[p].conv] \in PromptStates
  BY <1>1 DEF PromptStates
<1> QED BY <1>1, <1>2, <1>3 DEF GoesOn

LEMMA PromptSet ==
    ASSUME ChatTyped, NEW p \in Prompts, NEW state \in PromptStates,
           prompt' = [prompt EXCEPT ![p] = state]
    PROVE  /\ prompt' \in [Prompts -> PromptStates] /\ prompt'[p] = state
           /\ \A q \in Prompts \ {p} : prompt'[q] = prompt[q]
BY DEF ChatTyped

LEMMA RestoreSet ==
    ASSUME ChatTyped, NEW r \in Restores, NEW state \in RestoreStates, SetRestore(r, state)
    PROVE  /\ restore' \in [Restores -> RestoreStates] /\ restore'[r] = state
           /\ \A s \in Restores \ {r} : restore'[s] = restore[s]
BY DEF ChatTyped, SetRestore

LEMMA RestoresTyped ==
    ASSUME NEW state \in RestoreStates
    PROVE  /\ state.pc \in {"unsent", "list", "over", "get", "read"}
           /\ state.pc \in {"get", "read"} => state.conv \in Conversations
           /\ state.pc = "read" => state.rows \in Seq(Row)
BY DEF RestoreStates

LEMMA TypesAreRight == ChatTyped => ChatTypeOK
<1> SUFFICES ASSUME ChatTyped PROVE ChatTypeOK
  OBVIOUS
<1>1. \A r \in Restores : restore[r] \in RestoreStates
  BY DEF ChatTyped
<1>2. \A r \in Restores :
         \/ restore[r].pc \in {"unsent", "list", "over"}
         \/ restore[r].pc = "get" /\ restore[r].conv \in Conversations
         \/ restore[r].pc = "read" /\ restore[r].conv \in Conversations
            /\ restore[r].rows \in Seq(Row)
  BY <1>1, RestoresTyped
<1> QED BY <1>2 DEF ChatTyped, ChatTypeOK, PromptStates

LEMMA LinesTyped ==
    /\ ErrorLine \in Shown /\ ErrorLine.of = NoConversation /\ ErrorLine.role = "assistant"
    /\ \A p \in Conversations : /\ Line("user", p) \in Shown
                                /\ SameRow(Line("user", p), UserRow(p)) /\ Line("user", p).of = p
    /\ \A row \in Row : Line(row.role, row.of) \in Shown /\ SameRow(Line(row.role, row.of), row)
BY DEF ErrorLine, Line, Shown, Row, SameRow, UserRow

\* What an answer of p tells, in place of an open last row or after the rows.
Told(p) == [role |-> "assistant", of |-> p, open |-> TRUE]
OpenLast == shown # <<>> /\ Last(shown).role = "assistant" /\ Last(shown).open

LEMMA FrontRows ==
    ASSUME NEW T, NEW rows \in Seq(T), NEW row \in T, rows # <<>>
    PROVE  /\ Append(Front(rows), row) \in Seq(T) /\ Last(rows) = rows[Len(rows)]
           /\ Len(Append(Front(rows), row)) = Len(rows) /\ Len(rows) \in Nat \ {0}
           /\ DOMAIN Append(Front(rows), row) = DOMAIN rows
           /\ Append(Front(rows), row)[Len(rows)] = row
           /\ \A i \in DOMAIN rows : i # Len(rows) => Append(Front(rows), row)[i] = rows[i]
<1>1. Len(rows) \in Nat \ {0} /\ Last(rows) = rows[Len(rows)]
  BY DEF Last
<1>a. \A i \in 1..(Len(rows) - 1) : rows[i] \in T
  BY <1>1
<1>b. \A n \in Int :
         (\A i \in 1..n : rows[i] \in T) =>
            /\ SubSeq(rows, 1, n) \in Seq(T)
            /\ Len(SubSeq(rows, 1, n)) = IF 1 <= n THEN n - 1 + 1 ELSE 0
            /\ \A i \in 1..(n - 1 + 1) : SubSeq(rows, 1, n)[i] = rows[1 + i - 1]
  BY SubSeqProperties
<1>c. PICK n \in Nat : n = Len(rows) - 1
  BY <1>1
<1>d. /\ SubSeq(rows, 1, n) \in Seq(T) /\ Len(SubSeq(rows, 1, n)) = n
      /\ \A i \in 1..n : SubSeq(rows, 1, n)[i] = rows[i]
  BY <1>a, <1>b, <1>c
<1>e. Front(rows) = SubSeq(rows, 1, n)
  BY <1>c DEF Front
<1>2. /\ Front(rows) \in Seq(T) /\ Len(Front(rows)) = Len(rows) - 1
      /\ \A i \in 1..(Len(rows) - 1) : Front(rows)[i] = rows[i]
  BY <1>1, <1>c, <1>d, <1>e
<1> QED BY <1>1, <1>2

LEMMA TellTyped ==
    ASSUME ChatTyped, NEW p \in Prompts, Tell(p)
    PROVE  shown' \in Seq(Shown)
<1>1. Told(p) \in Shown
  BY DEF Told, Shown, Conversations
<1> QED BY <1>1, FrontRows, AppendedRows DEF Tell, Told, ChatTyped

LEMMA CopyTyped ==
    ASSUME NEW rows \in Seq(Row)
    PROVE  [i \in DOMAIN rows |-> Line(rows[i].role, rows[i].of)] \in Seq(Shown)
<1>1. \A i \in 1..Len(rows) : rows[i] \in Row
  OBVIOUS
<1>2. DOMAIN rows = 1..Len(rows) /\ Len(rows) \in Nat
  OBVIOUS
<1> QED BY <1>1, <1>2, LinesTyped

LEMMA PushTyped ==
    ASSUME ChatTyped, NEW row \in Shown, Push(row)
    PROVE  shown' \in Seq(Shown)
BY AppendedRows DEF Push, ChatTyped

LEMMA HistoryTyped ==
    ASSUME ChatTyped, NEW c, NEW row \in Row, history' = [history EXCEPT ![c] = Append(@, row)]
    PROVE  history' \in [Conversations -> Seq(Row)]
<1>1. \A d \in Conversations : Append(history[d], row) \in Seq(Row)
  BY AppendedRows DEF ChatTyped
<1> QED BY <1>1 DEF ChatTyped

LEMMA ChatTypedStep ==
    ASSUME ChatAssumption, ChatTyped, [ChatNext]_chatVars
    PROVE  ChatTyped'
<1> USE DEF ChatTyped, Underway
<1>a. Prompts \subseteq Conversations
  BY DEF Conversations
<1>1. ASSUME NEW p \in Prompts, Send(p) PROVE ChatTyped'
  <2>1. [pc |-> IF current = NoConversation THEN "creating" ELSE "opening", conv |-> current]
           \in PromptStates
    BY DEF PromptStates
  <2>2. prompt' \in [Prompts -> PromptStates]
    BY <1>1, <2>1 DEF Send, PromptStates
  <2>3. shown' \in Seq(Shown)
    BY <1>1, <1>a, LinesTyped, PushTyped DEF Send
  <2>4. crowded' \in BOOLEAN
    BY <1>1 DEF Send, Begins, Busy
  <2> QED BY <1>1, <2>2, <2>3, <2>4 DEF Send, backVars, boundVars
<1>2. ASSUME NEW p \in Prompts, SendNew(p) PROVE ChatTyped'
  <2>1. [pc |-> "creating", conv |-> NoConversation] \in PromptStates
    BY DEF PromptStates
  <2>2. prompt' \in [Prompts -> PromptStates]
    BY <1>2, <2>1 DEF SendNew, PromptStates
  <2>3. shown' \in Seq(Shown)
    BY <1>2, <1>a, LinesTyped DEF SendNew
  <2>4. crowded' \in BOOLEAN
    BY <1>2 DEF SendNew, Begins, Busy
  <2> QED BY <1>2, <2>2, <2>3, <2>4 DEF SendNew, backVars, boundVars
<1>3. ASSUME NEW p \in Prompts, CreateReturns(p) PROVE ChatTyped'
  <2>1. [pc |-> "opening", conv |-> p] \in PromptStates
    BY <1>a DEF PromptStates
  <2>2. prompt' \in [Prompts -> PromptStates]
    BY <1>3, <2>1 DEF CreateReturns, PromptStates
  <2>3. chats' \subseteq Conversations
    BY <1>3, <1>a DEF CreateReturns
  <2> QED BY <1>3, <1>a, <2>2, <2>3 DEF CreateReturns, boundVars
<1>4. ASSUME NEW p \in Prompts, CreateFails(p) PROVE ChatTyped'
  <2>1. prompt' \in [Prompts -> PromptStates]
    BY <1>4, PromptGoes DEF CreateFails
  <2>2. shown' \in Seq(Shown)
    BY <1>4, LinesTyped, PushTyped DEF CreateFails
  <2> QED BY <1>4, <2>1, <2>2 DEF CreateFails, backVars, boundVars
<1>5. ASSUME NEW p \in Prompts, StreamOpens(p) PROVE ChatTyped'
  <2>1. prompt' \in [Prompts -> PromptStates]
    BY <1>5, PromptGoes DEF StreamOpens
  <2>2. history' \in [Conversations -> Seq(Row)]
    BY <1>5, <1>a, RowIs, HistoryTyped DEF StreamOpens
  <2> QED BY <1>5, <2>1, <2>2 DEF StreamOpens, boundVars
<1>6. ASSUME NEW p \in Prompts, ServerAnswers(p) PROVE ChatTyped'
  <2>1. history' \in [Conversations -> Seq(Row)]
    BY <1>6, <1>a, RowIs, HistoryTyped DEF ServerAnswers
  <2> QED BY <1>6, <2>1 DEF ServerAnswers, boundVars
<1>7. ASSUME NEW p \in Prompts, ServerStops(p) PROVE ChatTyped'
  BY <1>7 DEF ServerStops, boundVars
<1>8. ASSUME NEW p \in Prompts, Delta(p) PROVE ChatTyped'
  <2>1. prompt' \in [Prompts -> PromptStates]
    BY <1>8, PromptGoes DEF Delta
  <2> QED BY <1>8, <2>1, TellTyped DEF Delta, backVars, boundVars
<1>9. ASSUME NEW p \in Prompts, DeltaAgain(p) PROVE ChatTyped'
  BY <1>9, TellTyped DEF DeltaAgain, backVars, boundVars
<1>10. ASSUME NEW p \in Prompts, Done(p) PROVE ChatTyped'
  <2>1. prompt' \in [Prompts -> PromptStates]
    BY <1>10, PromptGoes DEF Done
  <2>2. shown # <<>> => [Last(shown) EXCEPT !.open = FALSE] \in Shown
    <3>1. shown # <<>> => Last(shown) \in Shown
      BY DEF Last
    <3> QED BY <3>1 DEF Shown
  <2>3. shown' \in Seq(Shown)
    BY <1>10, <2>2, FrontRows DEF Done
  <2> QED BY <1>10, <2>1, <2>3 DEF Done, backVars, boundVars
<1>11. ASSUME NEW p \in Prompts, StreamFails(p) PROVE ChatTyped'
  <2>1. prompt' \in [Prompts -> PromptStates]
    BY <1>11, PromptGoes DEF StreamFails
  <2>2. shown' \in Seq(Shown)
    BY <1>11, LinesTyped, PushTyped DEF StreamFails
  <2> QED BY <1>11, <2>1, <2>2 DEF StreamFails, backVars, boundVars
<1>12. ASSUME NEW p \in Prompts, StreamCut(p) PROVE ChatTyped'
  <2>1. prompt' \in [Prompts -> PromptStates]
    BY <1>12, PromptGoes DEF StreamCut
  <2> QED BY <1>12, <2>1 DEF StreamCut, backVars, boundVars
<1>13. ASSUME NEW r \in Restores, RestoreBegins(r) PROVE ChatTyped'
  <2>1. [pc |-> "list"] \in RestoreStates
    BY DEF RestoreStates
  <2>2. restore' \in [Restores -> RestoreStates]
    BY <1>13, <2>1, RestoreSet DEF RestoreBegins
  <2> QED BY <1>13, <2>2 DEF RestoreBegins, backVars, boundVars
<1>b. RestoreOver \in RestoreStates
  BY DEF RestoreOver, RestoreStates
<1>14. ASSUME NEW r \in Restores, ListReturns(r) PROVE ChatTyped'
  <2>1. CASE SetRestore(r, RestoreOver) /\ UNCHANGED <<streaming, crowded>>
    <3>1. restore' \in [Restores -> RestoreStates]
      BY <2>1, <1>b, RestoreSet
    <3> QED BY <1>14, <2>1, <3>1 DEF ListReturns, backVars, boundVars
  <2>2. ASSUME NEW c \in chats, SetRestore(r, [pc |-> "get", conv |-> c]), streaming' = TRUE, Begins
        PROVE  ChatTyped'
    <3>1. [pc |-> "get", conv |-> c] \in RestoreStates
      BY DEF RestoreStates
    <3>2. restore' \in [Restores -> RestoreStates]
      BY <2>2, <3>1, RestoreSet
    <3>3. crowded' \in BOOLEAN
      BY <2>2 DEF Begins, Busy
    <3> QED BY <1>14, <2>2, <3>2, <3>3 DEF ListReturns, backVars, boundVars
  <2> QED BY <1>14, <2>1, <2>2 DEF ListReturns
<1>15. ASSUME NEW r \in Restores, LoadReads(r) PROVE ChatTyped'
  <2>1. restore[r].conv \in Conversations
    BY <1>15, RestoresTyped DEF LoadReads
  <2>2. [pc |-> "read", conv |-> restore[r].conv, rows |-> history[restore[r].conv]] \in RestoreStates
    BY <2>1 DEF RestoreStates
  <2>3. restore' \in [Restores -> RestoreStates]
    BY <1>15, <2>2, RestoreSet DEF LoadReads
  <2> QED BY <1>15, <2>3 DEF LoadReads, backVars, boundVars
<1>16. ASSUME NEW r \in Restores, LoadReturns(r) PROVE ChatTyped'
  <2>1. restore[r].conv \in Conversations /\ restore[r].rows \in Seq(Row)
    BY <1>16, RestoresTyped DEF LoadReturns
  <2>2. shown' \in Seq(Shown)
    BY <1>16, <2>1, CopyTyped DEF LoadReturns
  <2>3. restore' \in [Restores -> RestoreStates]
    BY <1>16, <1>b, RestoreSet DEF LoadReturns
  <2> QED BY <1>16, <2>1, <2>2, <2>3 DEF LoadReturns, backVars, boundVars
<1>17. ASSUME NEW r \in Restores, LoadFails(r) PROVE ChatTyped'
  <2>1. restore' \in [Restores -> RestoreStates]
    BY <1>17, <1>b, RestoreSet DEF LoadFails
  <2> QED BY <1>17, <2>1 DEF LoadFails, backVars, boundVars
<1>18. CASE Note
  <2>1. shown' \in Seq(Shown) /\ notes' \in 0..MaxNotes
    BY <1>18, LinesTyped, PushTyped DEF Note, ErrorLine, ChatAssumption
  <2>2. crowded' \in BOOLEAN
    BY <1>18 DEF Note, Begins, Busy
  <2> QED BY <1>18, <2>1, <2>2 DEF Note, backVars
<1>19. CASE Reopen
  <2>1. \A p \in Prompts : [prompt[p] EXCEPT !.pc = "over"] \in PromptStates
    BY DEF PromptStates
  <2>2. prompt' \in [Prompts -> PromptStates]
    BY <1>19, <2>1 DEF Reopen
  <2>3. RestoreUnsent \in RestoreStates
    BY DEF RestoreUnsent, RestoreStates
  <2>4. restore' \in [Restores -> RestoreStates]
    BY <1>19, <1>b, <2>3 DEF Reopen
  <2>5. reopens' \in 0..MaxReopens /\ shown' \in Seq(Shown)
    BY <1>19 DEF Reopen, ChatAssumption
  <2> QED BY <1>19, <2>2, <2>4, <2>5 DEF Reopen, backVars
<1>20. CASE UNCHANGED chatVars
  BY <1>20 DEF chatVars
<1>21. ASSUME NEW p \in Prompts, Hangs(p) PROVE ChatTyped'
  <2>1. prompt' \in [Prompts -> PromptStates]
    BY <1>21, PromptGoes DEF Hangs
  <2> QED BY <1>21, <2>1 DEF Hangs, backVars, boundVars
<1> QED
  BY <1>1, <1>2, <1>3, <1>4, <1>5, <1>6, <1>7, <1>8, <1>9, <1>10, <1>11, <1>12, <1>13, <1>14,
     <1>15, <1>16, <1>17, <1>18, <1>19, <1>20, <1>21 DEF ChatNext, Proceeds, Restoring

LEMMA ChatTypedBegins == ASSUME ChatAssumption, ChatInit PROVE ChatTyped
<1>1. [pc |-> "unsent", conv |-> NoConversation] \in PromptStates /\ RestoreUnsent \in RestoreStates
  BY DEF PromptStates, RestoreUnsent, RestoreStates
<1>2. history \in [Conversations -> Seq(Row)]
  BY RowIs DEF ChatInit, Conversations
<1>3. prompt \in [Prompts -> PromptStates] /\ restore \in [Restores -> RestoreStates]
  BY <1>1 DEF ChatInit
<1>4. 0 \in 0..MaxNotes /\ 0 \in 0..MaxReopens
  BY DEF ChatAssumption
<1>5. shown \in Seq(Shown)
  BY DEF ChatInit
<1> QED BY <1>2, <1>3, <1>4, <1>5 DEF ChatInit, ChatTyped, Conversations

-----------------------------------------------------------------------------
(* The rows the backend stores, whatever the panel does. *)

LEMMA ChatTypes ==
    ASSUME ChatTyped
    PROVE  /\ \A p \in Prompts : prompt[p] \in PromptStates /\ p \in Conversations
           /\ \A r \in Restores : restore[r] \in RestoreStates
           /\ \A c \in Conversations : /\ history[c] \in Seq(Row)
                                       /\ \A i \in DOMAIN history[c] : history[c][i] \in Row
BY DEF ChatTyped, Conversations

\* Steps that change a prompt's place only.
LEMMA MoveBack ==
    ASSUME ChatTyped, BackInv, NEW p \in Prompts, NEW to \in {"hung", "telling", "done", "over"},
           Running(p), to = "hung" => prompt[p].pc = "opening",
           GoesOn(p, to), UNCHANGED <<current, restore, history, chats, serving>>,
           to \in {"telling", "done"} => prompt[p].pc \in {"answering", "telling"},
           to = "done" => p \notin serving
    PROVE  BackInv'
<1> USE DEF BackInv
<1>1. /\ prompt'[p].pc = to /\ prompt'[p].conv = prompt[p].conv
      /\ \A q \in Prompts \ {p} : prompt'[q] = prompt[q]
  BY PromptGoes DEF Underway
<1>2. prompt[p].pc \in Underway
  BY DEF Running
<1>3. Addressed'
  BY <1>1, <1>2 DEF Addressed, Underway
<1>4. Unborn'
  BY <1>1, <1>2 DEF Unborn, Loading
<1>5. Filed'
  BY <1>1, <1>2 DEF Filed, Stored
<1>6. Ordered'
  BY DEF Ordered
<1>a. \A q \in serving : q \in Prompts
  BY DEF ChatTyped
<1>7. Serves'
  <2>1. \A q \in serving : prompt'[q].conv = prompt[q].conv /\ prompt'[q].pc \in {"answering", "telling", "over"}
    BY <1>1, <1>a DEF Serves
  <2> QED BY <2>1 DEF Serves
<1> QED BY <1>3, <1>4, <1>5, <1>6, <1>7

\* Steps of the view and of restorings.
LEMMA ViewBack ==
    ASSUME ChatTyped, BackInv, UNCHANGED <<prompt, history, chats, serving>>,
           \/ current' = current
           \/ \E r \in Restores : Loading(r) /\ current' = restore[r].conv,
           \A r \in Restores : Loading(r)' =>
               \/ restore'[r].conv \in chats
               \/ Loading(r) /\ restore'[r].conv = restore[r].conv
    PROVE  BackInv'
<1> USE DEF BackInv
<1>1. Addressed' /\ Filed' /\ Ordered' /\ Serves'
  BY DEF Addressed, Filed, Ordered, Serves
<1>2. Unborn'
  BY DEF Unborn
<1> QED BY <1>1, <1>2

LEMMA SentBack ==
    ASSUME ChatAssumption, ChatTyped, BackInv, NEW p \in Prompts, prompt[p].pc = "unsent",
           NEW c \in {current, NoConversation},
           prompt' = [prompt EXCEPT ![p] =
                         [pc |-> IF c = NoConversation THEN "creating" ELSE "opening", conv |-> c]],
           current' \in {current, NoConversation}, UNCHANGED <<restore, history, chats, serving>>
    PROVE  BackInv'
<1> USE DEF BackInv
<1>1. c \in Conversations \cup {NoConversation}
  BY DEF ChatTyped
<1>2. [pc |-> IF c = NoConversation THEN "creating" ELSE "opening", conv |-> c] \in PromptStates
  BY <1>1 DEF PromptStates, Underway
<1>3. /\ prompt'[p] = [pc |-> IF c = NoConversation THEN "creating" ELSE "opening", conv |-> c]
      /\ \A q \in Prompts \ {p} : prompt'[q] = prompt[q]
  BY <1>2, PromptSet
<1>4. Addressed'
  BY <1>1, <1>3 DEF Addressed
<1>5. Unborn'
  <2>1. \A q \in Prompts : q # NoConversation
    BY DEF ChatAssumption
  <2> QED BY <1>3, <2>1 DEF Unborn, Loading
<1>6. Filed'
  BY <1>3 DEF Filed, Stored
<1>7. Ordered'
  BY DEF Ordered
<1>8. Serves'
  BY <1>3 DEF Serves
<1> QED BY <1>4, <1>5, <1>6, <1>7, <1>8

LEMMA CreatedBack ==
    ASSUME ChatAssumption, ChatTyped, BackInv, NEW p \in Prompts, CreateReturns(p)
    PROVE  BackInv'
<1> USE DEF BackInv
<1>1. [pc |-> "opening", conv |-> p] \in PromptStates
  BY DEF PromptStates, Underway, Conversations
<1>2. /\ prompt'[p] = [pc |-> "opening", conv |-> p]
      /\ \A q \in Prompts \ {p} : prompt'[q] = prompt[q]
  BY <1>1, PromptSet DEF CreateReturns
<1>3. /\ prompt[p].pc = "creating" /\ current' = p /\ chats' \subseteq chats \cup {p}
      /\ UNCHANGED <<restore, history, serving>>
  BY DEF CreateReturns
<1>4. Addressed'
  BY <1>2, <1>3 DEF Addressed, Conversations
<1>5. Unborn'
  BY <1>2, <1>3 DEF Unborn, Loading
<1>6. Filed'
  BY <1>2, <1>3 DEF Filed, Stored
<1>a. \A q \in serving : q \in Prompts /\ q # p
  BY <1>3 DEF ChatTyped, Serves
<1>7. Ordered' /\ Serves'
  BY <1>2, <1>3, <1>a DEF Ordered, Serves
<1> QED BY <1>4, <1>5, <1>6, <1>7

\* A row is stored behind the others of its conversation.
LEMMA StoredRow ==
    ASSUME ChatTyped, NEW c \in Conversations, NEW row \in Row,
           history' = [history EXCEPT ![c] = Append(@, row)]
    PROVE  /\ history'[c] = Append(history[c], row)
           /\ \A d \in Conversations \ {c} : history'[d] = history[d]
           /\ DOMAIN history'[c] = DOMAIN history[c] \cup {Len(history[c]) + 1}
           /\ history'[c][Len(history[c]) + 1] = row
           /\ \A i \in DOMAIN history[c] :
                 history'[c][i] = history[c][i] /\ i \in Nat /\ i < Len(history[c]) + 1
BY AppendedRows DEF ChatTyped

LEMMA OpensBack ==
    ASSUME ChatAssumption, ChatTyped, BackInv, NEW p \in Prompts, StreamOpens(p)
    PROVE  BackInv'
<1> USE DEF BackInv
<1> DEFINE c == prompt[p].conv
           n == Len(history[c]) + 1
<1>1. /\ prompt[p].pc = "opening" /\ GoesOn(p, "answering") /\ serving' = serving \cup {p}
      /\ UNCHANGED <<current, restore, chats>>
  BY DEF StreamOpens
<1>2. /\ prompt'[p].pc = "answering" /\ prompt'[p].conv = c
      /\ \A q \in Prompts \ {p} : prompt'[q] = prompt[q]
  BY <1>1, PromptGoes DEF Underway
<1>3. c \in Conversations
  BY <1>1 DEF Addressed
<1>4. UserRow(p) \in Row
  BY RowIs DEF Conversations
<1>5. /\ \A d \in Conversations \ {c} : history'[d] = history[d]
      /\ DOMAIN history'[c] = DOMAIN history[c] \cup {n} /\ history'[c][n] = UserRow(p)
      /\ \A i \in DOMAIN history[c] : history'[c][i] = history[c][i] /\ i \in Nat /\ i < n
  BY <1>3, <1>4, StoredRow DEF StreamOpens
<1>6. \A d \in Conversations : \A i \in DOMAIN history[d] : history[d][i].of # p
  BY <1>1 DEF Filed, Stored
<1> HIDE DEF c, n
<1>7. Addressed'
  BY <1>1, <1>2, <1>3 DEF Addressed
<1>8. Unborn'
  <2>1. ASSUME NEW q \in Prompts, prompt'[q].pc \in {"unsent", "creating"}
        PROVE  history'[q] = <<>> /\ q # p /\ prompt'[q] = prompt[q]
    <3>1. q # p /\ prompt'[q] = prompt[q] /\ q \in Conversations
      BY <1>2, <2>1 DEF Conversations
    <3>2. q # c
      BY <2>1, <3>1 DEF Unborn, c
    <3> QED BY <1>5, <2>1, <3>1, <3>2 DEF Unborn
  <2> QED BY <1>1, <1>2, <2>1 DEF Unborn, Loading, c
<1>9. Filed'
  <2>1. ASSUME NEW d \in Conversations, NEW i \in DOMAIN history'[d], history'[d][i].of \in Prompts
        PROVE  prompt'[history'[d][i].of].conv = d /\ prompt'[history'[d][i].of].pc \in Stored
    <3>1. CASE d = c /\ i = n
      BY <1>2, <1>5, <3>1, RowIs DEF Stored
    <3>2. CASE ~(d = c /\ i = n)
      <4>1. i \in DOMAIN history[d] /\ history'[d][i] = history[d][i]
        BY <1>5, <3>2
      <4> QED BY <1>2, <1>6, <2>1, <4>1 DEF Filed
    <3> QED BY <3>1, <3>2
  <2> QED BY <2>1 DEF Filed
<1>10. Ordered'
  <2>1. \A d \in Conversations \ {c} : (Distinct(history[d]) /\ Answers(history[d]))'
    BY <1>5 DEF Ordered, Distinct, Answers
  <2>3. Distinct(history'[c])
    BY <1>3, <1>5, <1>6, RowIs DEF Ordered, Distinct
  <2>4. Answers(history'[c])
    <3>1. ASSUME NEW q \in Prompts, NEW k \in DOMAIN history'[c], history'[c][k] = AnswerRow(q)
          PROVE  \E i \in DOMAIN history'[c] : i < k /\ history'[c][i] = UserRow(q)
      <4>1. k \in DOMAIN history[c] /\ history[c][k] = AnswerRow(q)
        BY <1>5, <3>1, RowIs
      <4> QED BY <1>3, <1>5, <4>1 DEF Ordered, Answers
    <3> QED BY <3>1 DEF Answers
  <2> QED BY <1>3, <2>1, <2>3, <2>4 DEF Ordered
<1>11. Serves'
  <2>1. ASSUME NEW q \in serving'
        PROVE  /\ prompt'[q].conv \in Conversations /\ prompt'[q].pc \in {"answering", "telling", "over"}
               /\ \E i \in DOMAIN history'[prompt'[q].conv] : history'[prompt'[q].conv][i] = UserRow(q)
               /\ \A i \in DOMAIN history'[prompt'[q].conv] : history'[prompt'[q].conv][i] # AnswerRow(q)
    <3>1. CASE q = p
      BY <1>2, <1>3, <1>5, <1>6, <3>1, RowIs
    <3>2. CASE q # p
      <4>1. q \in serving /\ prompt'[q] = prompt[q] /\ q \in Prompts
        BY <1>1, <1>2, <3>2 DEF ChatTyped
      <4>2. CASE prompt[q].conv = c
        BY <1>3, <1>5, <3>2, <4>1, <4>2, RowIs DEF Serves
      <4>3. CASE prompt[q].conv # c
        BY <1>5, <4>1, <4>3 DEF Serves
      <4> QED BY <4>2, <4>3
    <3> QED BY <3>1, <3>2
  <2> QED BY <2>1 DEF Serves
<1> QED BY <1>7, <1>8, <1>9, <1>10, <1>11

LEMMA AnswersBack ==
    ASSUME ChatAssumption, ChatTyped, BackInv, NEW p \in Prompts, ServerAnswers(p)
    PROVE  BackInv'
<1> USE DEF BackInv
<1> DEFINE c == prompt[p].conv
           n == Len(history[c]) + 1
<1>1. /\ p \in serving /\ serving' = serving \ {p} /\ UNCHANGED <<prompt, current, restore, chats>>
  BY DEF ServerAnswers
<1>2. /\ c \in Conversations /\ prompt[p].pc \in {"answering", "telling", "over"}
      /\ \E i \in DOMAIN history[c] : history[c][i] = UserRow(p)
      /\ \A i \in DOMAIN history[c] : history[c][i] # AnswerRow(p)
  BY <1>1 DEF Serves
<1>3. AnswerRow(p) \in Row
  BY RowIs DEF Conversations
<1>4. /\ \A d \in Conversations \ {c} : history'[d] = history[d]
      /\ DOMAIN history'[c] = DOMAIN history[c] \cup {n} /\ history'[c][n] = AnswerRow(p)
      /\ \A i \in DOMAIN history[c] : history'[c][i] = history[c][i] /\ i \in Nat /\ i < n
  BY <1>2, <1>3, StoredRow DEF ServerAnswers
<1> HIDE DEF n
<1>5. Addressed'
  BY <1>1 DEF Addressed
<1>6. Unborn'
  <2>1. ASSUME NEW q \in Prompts, prompt[q].pc \in {"unsent", "creating"}
        PROVE  history'[q] = <<>>
    <3>1. q # c /\ q \in Conversations
      BY <2>1 DEF Unborn, Conversations
    <3> QED BY <1>4, <2>1, <3>1 DEF Unborn
  <2> QED BY <1>1, <2>1 DEF Unborn, Loading
<1>7. Filed'
  <2>1. ASSUME NEW d \in Conversations, NEW i \in DOMAIN history'[d], history'[d][i].of \in Prompts
        PROVE  prompt[history'[d][i].of].conv = d /\ prompt[history'[d][i].of].pc \in Stored
    <3>1. CASE d = c /\ i = n
      BY <1>2, <1>4, <3>1, RowIs DEF Stored
    <3>2. CASE ~(d = c /\ i = n)
      <4>1. i \in DOMAIN history[d] /\ history'[d][i] = history[d][i]
        BY <1>4, <3>2
      <4> QED BY <2>1, <4>1 DEF Filed
    <3> QED BY <3>1, <3>2
  <2> QED BY <1>1, <2>1 DEF Filed
<1>8. Ordered'
  <2>1. \A d \in Conversations \ {c} : (Distinct(history[d]) /\ Answers(history[d]))'
    BY <1>4 DEF Ordered, Distinct, Answers
  <2>2. Distinct(history'[c])
    BY <1>2, <1>4 DEF Ordered, Distinct
  <2>3. Answers(history'[c])
    <3>1. ASSUME NEW q \in Prompts, NEW k \in DOMAIN history'[c], history'[c][k] = AnswerRow(q)
          PROVE  \E i \in DOMAIN history'[c] : i < k /\ history'[c][i] = UserRow(q)
      <4>1. CASE k = n
        <5>1. q = p
          BY <1>4, <3>1, <4>1, RowIs
        <5> QED BY <1>2, <1>4, <4>1, <5>1
      <4>2. CASE k # n
        BY <1>2, <1>4, <3>1, <4>2 DEF Ordered, Answers
      <4> QED BY <4>1, <4>2
    <3> QED BY <3>1 DEF Answers
  <2> QED BY <1>2, <2>1, <2>2, <2>3 DEF Ordered
<1>9. Serves'
  <2>1. ASSUME NEW q \in serving \ {p}
        PROVE  /\ \E i \in DOMAIN history'[prompt[q].conv] : history'[prompt[q].conv][i] = UserRow(q)
               /\ \A i \in DOMAIN history'[prompt[q].conv] : history'[prompt[q].conv][i] # AnswerRow(q)
    <3>1. CASE prompt[q].conv = c
      <4>1. AnswerRow(p) # AnswerRow(q)
        BY <2>1, RowIs
      <4> QED BY <1>4, <2>1, <3>1, <4>1 DEF Serves
    <3>2. CASE prompt[q].conv # c
      BY <1>4, <2>1, <3>2 DEF Serves
    <3> QED BY <3>1, <3>2
  <2> QED BY <1>1, <2>1 DEF Serves
<1> QED BY <1>5, <1>6, <1>7, <1>8, <1>9

LEMMA ReopenBack == ASSUME ChatAssumption, ChatTyped, BackInv, Reopen PROVE BackInv'
<1> USE DEF BackInv
<1>1. /\ current' = NoConversation /\ UNCHANGED <<history, chats, serving>>
      /\ prompt' = [p \in Prompts |-> IF Running(p) THEN [prompt[p] EXCEPT !.pc = "over"] ELSE prompt[p]]
      /\ restore' = [r \in Restores |-> IF restore[r] = RestoreUnsent THEN RestoreUnsent
                                        ELSE RestoreOver]
  BY DEF Reopen, backVars
<1>2. \A p \in Prompts : /\ prompt'[p].conv = prompt[p].conv
                         /\ prompt'[p].pc = IF Running(p) THEN "over" ELSE prompt[p].pc
  BY <1>1, ChatTypes DEF PromptStates
<1>3. \A r \in Restores : ~Loading(r)'
  BY <1>1 DEF Loading, RestoreUnsent, RestoreOver
<1>4. Addressed'
  BY <1>2 DEF Addressed
<1>5. Unborn'
  BY <1>1, <1>2, <1>3 DEF Unborn, ChatAssumption
<1>6. Filed'
  BY <1>1, <1>2 DEF Filed, Stored
<1>7. Ordered'
  BY <1>1 DEF Ordered
<1>8. Serves'
  <2>1. \A p \in serving : p \in Prompts
    BY DEF ChatTyped
  <2> QED BY <1>1, <1>2, <2>1 DEF Serves
<1> QED BY <1>4, <1>5, <1>6, <1>7, <1>8

LEMMA BackStep == ASSUME ChatAssumption, ChatTyped, BackInv, [ChatNext]_chatVars PROVE BackInv'
<1>1. ASSUME NEW p \in Prompts, Send(p) PROVE BackInv'
  BY <1>1, SentBack DEF Send, backVars
<1>2. ASSUME NEW p \in Prompts, SendNew(p) PROVE BackInv'
  <2>1. prompt' = [prompt EXCEPT ![p] =
                      [pc |-> IF NoConversation = NoConversation THEN "creating" ELSE "opening",
                       conv |-> NoConversation]]
    BY <1>2 DEF SendNew
  <2> QED BY <1>2, <2>1, SentBack DEF SendNew, backVars
<1>3. ASSUME NEW p \in Prompts, CreateReturns(p) PROVE BackInv'
  BY <1>3, CreatedBack
<1>4. ASSUME NEW p \in Prompts, CreateFails(p) PROVE BackInv'
  BY <1>4, MoveBack DEF CreateFails, Running, Underway, backVars
<1>5. ASSUME NEW p \in Prompts, StreamOpens(p) PROVE BackInv'
  BY <1>5, OpensBack
<1>6. ASSUME NEW p \in Prompts, ServerAnswers(p) PROVE BackInv'
  BY <1>6, AnswersBack
<1>7. ASSUME NEW p \in Prompts, ServerStops(p) PROVE BackInv'
  <2>1. Addressed' /\ Unborn' /\ Filed' /\ Ordered' /\ Serves'
    BY <1>7 DEF ServerStops, BackInv, Addressed, Unborn, Filed, Ordered, Serves, Loading
  <2> QED BY <2>1 DEF BackInv
<1>8. ASSUME NEW p \in Prompts, Delta(p) PROVE BackInv'
  BY <1>8, MoveBack DEF Delta, Running, Underway, backVars
<1>9. ASSUME NEW p \in Prompts, Done(p) PROVE BackInv'
  <2>1. p \notin serving
    <3>1. prompt[p].conv \in Conversations
      BY <1>9 DEF Done, BackInv, Addressed
    <3>2. \E i \in DOMAIN history[prompt[p].conv] : history[prompt[p].conv][i] = AnswerRow(p)
      BY <1>9, <3>1, ChatTypes DEF Done, Contains
    <3> QED BY <3>2 DEF BackInv, Serves
  <2> QED BY <1>9, <2>1, MoveBack DEF Done, Running, Underway, backVars
<1>10. ASSUME NEW p \in Prompts, StreamFails(p) PROVE BackInv'
  BY <1>10, MoveBack DEF StreamFails, Running, Underway, backVars
<1>11. ASSUME NEW p \in Prompts, StreamCut(p) PROVE BackInv'
  BY <1>11, MoveBack DEF StreamCut, Running, Underway, backVars
<1>12. ASSUME NEW p \in Prompts, DeltaAgain(p) PROVE BackInv'
  BY <1>12, ViewBack DEF DeltaAgain, Loading, backVars
<1>13. ASSUME NEW r \in Restores, RestoreBegins(r) PROVE BackInv'
  BY <1>13, ViewBack DEF RestoreBegins, SetRestore, ChatTyped, Loading, backVars
<1>14. ASSUME NEW r \in Restores, ListReturns(r) PROVE BackInv'
  <2>1. \E state \in {RestoreOver} \cup {[pc |-> "get", conv |-> c] : c \in chats} :
           restore' = [restore EXCEPT ![r] = state]
    BY <1>14 DEF ListReturns, SetRestore
  <2> QED BY <1>14, <2>1, ViewBack DEF ListReturns, RestoreOver, ChatTyped, Loading, backVars
<1>15. ASSUME NEW r \in Restores, LoadReads(r) PROVE BackInv'
  BY <1>15, ViewBack DEF LoadReads, SetRestore, ChatTyped, Loading, backVars
<1>16. ASSUME NEW r \in Restores, LoadReturns(r) PROVE BackInv'
  BY <1>16, ViewBack DEF LoadReturns, SetRestore, RestoreOver, ChatTyped, Loading, backVars
<1>17. ASSUME NEW r \in Restores, LoadFails(r) PROVE BackInv'
  BY <1>17, ViewBack DEF LoadFails, SetRestore, RestoreOver, ChatTyped, Loading, backVars
<1>18. CASE Note
  BY <1>18, ViewBack DEF Note, Loading, backVars
<1>19. CASE Reopen
  BY <1>19, ReopenBack
<1>20. CASE UNCHANGED chatVars
  BY <1>20, ViewBack DEF chatVars, Loading
<1>21. ASSUME NEW p \in Prompts, Hangs(p) PROVE BackInv'
  BY <1>21, MoveBack DEF Hangs, Running, Underway, backVars
<1> QED
  BY <1>1, <1>2, <1>3, <1>4, <1>5, <1>6, <1>7, <1>8, <1>9, <1>10, <1>11, <1>12, <1>13, <1>14,
     <1>15, <1>16, <1>17, <1>18, <1>19, <1>20, <1>21 DEF ChatNext, Proceeds, Restoring

LEMMA BackBegins == ASSUME ChatAssumption, ChatInit PROVE BackInv
<1> USE DEF ChatInit, ChatAssumption
<1>1. Addressed /\ Serves
  BY DEF Addressed, Serves
<1>2. Unborn
  BY DEF Unborn, Loading, RestoreUnsent, Conversations
<1>3. \A c \in Conversations : \A i \in DOMAIN history[c] :
         /\ c \in Past /\ history[c] = <<UserRow(c), AnswerRow(c)>> /\ history[c][i].of = c
         /\ i \in {1, 2}
  BY RowIs DEF Conversations
<1>4. Filed
  BY <1>3 DEF Filed
<1>5. Ordered
  BY <1>3, RowIs DEF Ordered, Distinct, Answers
<1> QED BY <1>1, <1>2, <1>4, <1>5 DEF BackInv

-----------------------------------------------------------------------------
(* What is seen was sent. *)

LEMMA StaysSent == ASSUME ChatTyped, [ChatNext]_chatVars PROVE Unsent' \subseteq Unsent
<1> SUFFICES ASSUME NEW q \in Prompts, prompt[q].pc # "unsent" PROVE prompt'[q].pc # "unsent"
  BY DEF Unsent
<1>1. ASSUME NEW p \in Prompts, NEW to \in {"over", "hung", "answering", "telling", "done"},
             GoesOn(p, to)
      PROVE  prompt'[q].pc # "unsent"
  BY <1>1, PromptGoes DEF Underway
<1>2. ASSUME NEW p \in Prompts, Send(p) \/ SendNew(p) \/ CreateReturns(p) PROVE prompt'[q].pc # "unsent"
  <2>1. CASE Send(p)
    <3>1. prompt'[p].pc # "unsent" /\ (q # p => prompt'[q] = prompt[q])
      BY <2>1 DEF Send, ChatTyped
    <3> QED BY <3>1
  <2>2. CASE SendNew(p)
    BY <2>2 DEF SendNew, ChatTyped
  <2>3. CASE CreateReturns(p)
    BY <2>3 DEF CreateReturns, ChatTyped
  <2> QED BY <1>2, <2>1, <2>2, <2>3
<1>3. CASE Reopen
  BY <1>3, ChatTypes DEF Reopen, PromptStates
<1>4. CASE UNCHANGED prompt
  BY <1>4
<1> QED
  BY <1>1, <1>2, <1>3, <1>4 DEF ChatNext, Proceeds, Restoring, chatVars, CreateFails, StreamOpens,
     Hangs, ServerAnswers, ServerStops, Delta, DeltaAgain, Done, StreamFails, StreamCut, RestoreBegins,
     ListReturns, LoadReads, LoadReturns, LoadFails, Note

\* Steps that leave the view, or add a row to it that was sent.
LEMMA SentSame ==
    ASSUME ChatTyped, AllSent, [ChatNext]_chatVars,
           \/ shown' = shown
           \/ \E row \in Shown : Push(row) /\ row.of \notin Unsent',
           \A r \in Restores : Reads(r)' =>
               \/ Reads(r) /\ restore'[r].rows = restore[r].rows
               \/ \E c \in Conversations : restore'[r].rows = history[c],
           Filed
    PROVE  AllSent'
<1>1. \A i \in DOMAIN shown' : shown'[i].of \notin Unsent'
  <2>1. CASE shown' = shown
    BY <2>1, StaysSent DEF AllSent
  <2>2. ASSUME NEW row \in Shown, Push(row), row.of \notin Unsent'
        PROVE  \A i \in DOMAIN shown' : shown'[i].of \notin Unsent'
    <3>1. \A i \in DOMAIN shown' : shown'[i] = row \/ (i \in DOMAIN shown /\ shown'[i] = shown[i])
      BY <2>2, AppendedRows DEF Push, ChatTyped
    <3>2. \A i \in DOMAIN shown : shown[i].of \notin Unsent'
      BY StaysSent DEF AllSent
    <3> QED BY <2>2, <3>1, <3>2
  <2> QED BY <2>1, <2>2
<1>2. ASSUME NEW r \in Restores, Reads(r)', NEW i \in DOMAIN restore'[r].rows
      PROVE  restore'[r].rows[i].of \notin Unsent'
  <2>1. CASE Reads(r) /\ restore'[r].rows = restore[r].rows
    BY <1>2, <2>1, StaysSent DEF AllSent
  <2>2. ASSUME NEW c \in Conversations, restore'[r].rows = history[c] PROVE restore'[r].rows[i].of \notin Unsent'
    <3>1. history[c][i].of \notin Unsent
      BY <1>2, <2>2 DEF Filed, Stored, Unsent
    <3> QED BY <2>2, <3>1, StaysSent
  <2> QED BY <1>2, <2>1, <2>2
<1> QED BY <1>1, <1>2 DEF AllSent

LEMMA SentStep ==
    ASSUME ChatAssumption, ChatTyped, BackInv, AllSent, [ChatNext]_chatVars
    PROVE  AllSent'
<1> USE DEF BackInv
<1>a. Prompts \subseteq Conversations
  BY DEF Conversations
<1>b. \A q \in Prompts : q \notin Unsent' <=> prompt'[q].pc # "unsent"
  BY DEF Unsent
<1>c. NoConversation \notin Unsent'
  BY DEF Unsent, ChatAssumption
\* The rows of a view that is one row, or whose last row is another.
<1>d. ASSUME NEW row \in Shown, row.of \notin Unsent', shown # <<>>, shown' = Append(Front(shown), row),
             UNCHANGED restore
      PROVE  AllSent'
  <2>1. \A i \in DOMAIN shown' : shown'[i] = row \/ (i \in DOMAIN shown /\ shown'[i] = shown[i])
    BY <1>d, FrontRows DEF ChatTyped
  <2>2. \A i \in DOMAIN shown' : shown'[i].of \notin Unsent'
    BY <1>d, <2>1, StaysSent DEF AllSent
  <2>3. ASSUME NEW r \in Restores, Reads(r)', NEW i \in DOMAIN restore'[r].rows
        PROVE  restore'[r].rows[i].of \notin Unsent'
    BY <1>d, <2>3, StaysSent DEF AllSent, Reads
  <2> QED BY <2>2, <2>3 DEF AllSent
<1>e. ASSUME NEW p \in Prompts, Tell(p), prompt'[p].pc = "telling", UNCHANGED restore
      PROVE  AllSent'
  <2>1. Told(p) \in Shown /\ Told(p).of = p /\ p \notin Unsent'
    BY <1>e DEF Told, Shown, Conversations, Unsent
  <2>2. CASE shown' = Append(Front(shown), Told(p)) /\ shown # <<>>
    BY <1>d, <1>e, <2>1, <2>2
  <2>3. CASE shown' = Append(shown, Told(p))
    BY <1>e, <2>1, <2>3, SentSame DEF Push, Reads
  <2> QED BY <1>e, <2>2, <2>3 DEF Tell, Told
<1>1. ASSUME NEW p \in Prompts, Send(p) PROVE AllSent'
  <2>1. prompt'[p].pc # "unsent" /\ Line("user", p) \in Shown /\ Line("user", p).of = p
    BY <1>1, <1>a, LinesTyped DEF Send, ChatTyped
  <2> QED BY <1>1, <1>b, <2>1, SentSame DEF Send, Reads
<1>2. ASSUME NEW p \in Prompts, SendNew(p) PROVE AllSent'
  <2>1. prompt'[p].pc # "unsent" /\ Line("user", p).of = p
    BY <1>2, <1>a, LinesTyped DEF SendNew, ChatTyped
  <2>2. \A i \in DOMAIN shown' : shown'[i].of \notin Unsent'
    BY <1>2, <1>b, <2>1 DEF SendNew
  <2>3. ASSUME NEW r \in Restores, Reads(r)', NEW i \in DOMAIN restore'[r].rows
        PROVE  restore'[r].rows[i].of \notin Unsent'
    BY <1>2, <2>3, StaysSent DEF SendNew, AllSent, Reads
  <2> QED BY <2>2, <2>3 DEF AllSent
<1>3. ASSUME NEW p \in Prompts, CreateReturns(p) PROVE AllSent'
  BY <1>3, SentSame DEF CreateReturns, Reads
<1>4. ASSUME NEW p \in Prompts, CreateFails(p) PROVE AllSent'
  BY <1>4, <1>c, SentSame, LinesTyped DEF CreateFails, Reads
<1>5. ASSUME NEW p \in Prompts, StreamOpens(p) PROVE AllSent'
  BY <1>5, SentSame DEF StreamOpens, Reads
<1>6. ASSUME NEW p \in Prompts, ServerAnswers(p) PROVE AllSent'
  BY <1>6, SentSame DEF ServerAnswers, Reads
<1>7. ASSUME NEW p \in Prompts, ServerStops(p) PROVE AllSent'
  BY <1>7, SentSame DEF ServerStops, Reads
<1>8. ASSUME NEW p \in Prompts, Delta(p) PROVE AllSent'
  BY <1>8, <1>e, PromptGoes DEF Delta, Underway
<1>9. ASSUME NEW p \in Prompts, DeltaAgain(p) PROVE AllSent'
  BY <1>9, <1>e DEF DeltaAgain
<1>10. ASSUME NEW p \in Prompts, Done(p) PROVE AllSent'
  <2>1. CASE shown' = shown
    BY <1>10, <2>1, SentSame DEF Done, Reads
  <2>2. CASE shown # <<>> /\ shown' = Append(Front(shown), [Last(shown) EXCEPT !.open = FALSE])
    <3>1. Last(shown) \in Shown /\ Last(shown) = shown[Len(shown)] /\ Len(shown) \in DOMAIN shown
      BY <2>2 DEF Last, ChatTyped
    <3>2. /\ [Last(shown) EXCEPT !.open = FALSE] \in Shown
          /\ [Last(shown) EXCEPT !.open = FALSE].of = Last(shown).of
      BY <3>1 DEF Shown
    <3>3. Last(shown).of \notin Unsent'
      BY <3>1, StaysSent DEF AllSent
    <3> QED BY <1>10, <1>d, <2>2, <3>2, <3>3 DEF Done
  <2> QED BY <1>10, <2>1, <2>2 DEF Done
<1>11. ASSUME NEW p \in Prompts, StreamFails(p) PROVE AllSent'
  BY <1>11, <1>c, SentSame, LinesTyped DEF StreamFails, Reads
<1>12. ASSUME NEW p \in Prompts, StreamCut(p) PROVE AllSent'
  BY <1>12, SentSame DEF StreamCut, Reads
<1>13. ASSUME NEW r \in Restores, RestoreBegins(r) PROVE AllSent'
  BY <1>13, SentSame DEF RestoreBegins, SetRestore, ChatTyped, Reads
<1>14. ASSUME NEW r \in Restores, ListReturns(r) PROVE AllSent'
  <2>1. \E state \in {RestoreOver} \cup {[pc |-> "get", conv |-> c] : c \in chats} :
           restore' = [restore EXCEPT ![r] = state]
    BY <1>14 DEF ListReturns, SetRestore
  <2> QED BY <1>14, <2>1, SentSame DEF ListReturns, RestoreOver, ChatTyped, Reads
<1>15. ASSUME NEW r \in Restores, LoadReads(r) PROVE AllSent'
  <2>1. restore[r].conv \in Conversations
    BY <1>15, RestoresTyped DEF LoadReads, ChatTyped
  <2> QED BY <1>15, <2>1, SentSame DEF LoadReads, SetRestore, ChatTyped, Reads
<1>16. ASSUME NEW r \in Restores, LoadReturns(r) PROVE AllSent'
  <2>1. /\ shown' = [i \in DOMAIN restore[r].rows |-> Line(restore[r].rows[i].role, restore[r].rows[i].of)]
        /\ restore' = [restore EXCEPT ![r] = RestoreOver] /\ Reads(r)
    BY <1>16 DEF LoadReturns, SetRestore, Reads
  <2>2. \A i \in DOMAIN shown' : shown'[i].of \notin Unsent'
    BY <2>1, StaysSent DEF AllSent, Line
  <2>3. \A s \in Restores : Reads(s)' => Reads(s) /\ restore'[s] = restore[s]
    BY <2>1 DEF Reads, RestoreOver, ChatTyped
  <2>4. ASSUME NEW s \in Restores, Reads(s)', NEW i \in DOMAIN restore'[s].rows
        PROVE  restore'[s].rows[i].of \notin Unsent'
    BY <2>3, <2>4, StaysSent DEF AllSent
  <2> QED BY <2>2, <2>4 DEF AllSent
<1>17. ASSUME NEW r \in Restores, LoadFails(r) PROVE AllSent'
  BY <1>17, SentSame DEF LoadFails, SetRestore, RestoreOver, ChatTyped, Reads
<1>18. CASE Note
  BY <1>18, <1>c, SentSame, LinesTyped DEF Note, ErrorLine, Reads
<1>19. CASE Reopen
  BY <1>19 DEF Reopen, AllSent, Reads, RestoreUnsent, RestoreOver
<1>20. CASE UNCHANGED chatVars
  BY <1>20, SentSame DEF chatVars, Reads
<1>21. ASSUME NEW p \in Prompts, Hangs(p) PROVE AllSent'
  BY <1>21, SentSame DEF Hangs, Reads
<1> QED
  BY <1>1, <1>2, <1>3, <1>4, <1>5, <1>6, <1>7, <1>8, <1>9, <1>10, <1>11, <1>12, <1>13, <1>14,
     <1>15, <1>16, <1>17, <1>18, <1>19, <1>20, <1>21 DEF ChatNext, Proceeds, Restoring

-----------------------------------------------------------------------------
(* The view between two things that are under way. *)

\* What a step finds that begins something and crowds nothing.
LEMMA BeginsQuiet ==
    ASSUME ChatTyped, ~crowded => QuietInv, Begins, ~crowded'
    PROVE  /\ QuietInv /\ ~streaming /\ cut = {}
           /\ \A p \in Prompts : ~Running(p)
           /\ \A r \in Restores : ~Loading(r)
BY DEF Begins, Busy, QuietInv, Waits, ChatTyped

LEMMA SettledStays ==
    ASSUME \A p \in Prompts : prompt'[p].pc = "done" <=> prompt[p].pc = "done"
    PROVE  Settled' = Settled
BY DEF Settled

LEMMA ViewTyped == ASSUME ChatTyped PROVE View \in Seq(Row)
BY DEF View, ChatTyped

LEMMA NobodySettled == ASSUME ChatAssumption PROVE NoConversation \notin Settled
BY DEF Settled, ChatAssumption

LEMMA NotSettled ==
    ASSUME ChatAssumption, NEW p \in Prompts, prompt[p].pc # "done"
    PROVE  p \notin Settled
BY DEF Settled, ChatAssumption

LEMMA SendQuiet ==
    ASSUME ChatAssumption, ChatInv, NEW p \in Prompts, Send(p), ~crowded'
    PROVE  QuietInv'
<1> USE DEF ChatInv
<1>1. /\ QuietInv /\ cut = {}
      /\ \A q \in Prompts : ~Running(q)
      /\ \A r \in Restores : ~Loading(r)
  BY BeginsQuiet DEF Send
<1>2. /\ prompt[p].pc = "unsent" /\ Push(Line("user", p)) /\ streaming' = TRUE
      /\ UNCHANGED <<current, restore, history, cut>>
  BY DEF Send, backVars
<1>3. /\ prompt'[p].pc \in {"creating", "opening"} /\ prompt'[p].conv = current
      /\ \A q \in Prompts \ {p} : prompt'[q] = prompt[q]
  BY DEF Send, ChatTyped
<1>4. \A q \in Prompts : Running(q)' <=> q = p
  BY <1>1, <1>3 DEF Running, Underway
<1>5. \A r \in Restores : ~Loading(r)' /\ ~Reads(r)'
  BY <1>1, <1>2 DEF Loading, Reads
<1>6. Alone'
  BY <1>1, <1>2, <1>4, <1>5 DEF Alone
<1>7. Waits'
  BY <1>2, <1>4 DEF Waits
<1>8. /\ Line("user", p) \in Shown /\ SameRow(Line("user", p), UserRow(p)) /\ Line("user", p).of = p
  BY LinesTyped DEF Conversations
<1>9. AsksLast(p, shown')
  <2>1. \A i \in DOMAIN shown : shown[i].of # p
    BY <1>2 DEF AllSent, Unsent
  <2> QED BY <1>2, <1>8, <2>1, AppendedRows DEF AsksLast, Push, ChatTyped
<1>10. Attended'
  <2>1. \A q \in Prompts : prompt'[q].pc \in {"creating", "opening", "hung", "answering", "telling"} => q = p
    BY <1>4 DEF Running, Underway
  <2> QED BY <1>2, <1>3, <1>4, <1>9, <2>1 DEF Attended
<1>11. Restored'
  BY <1>5 DEF Restored
<1>12. Matched'
  <2>1. p \notin Settled
    BY <1>2, NotSettled
  <2>2. Settled' = Settled
    BY <1>2, <1>3, SettledStays
  <2>3. View' = View
    BY <1>2 DEF View
  <2>4. Same(Settled, Append(shown, Line("user", p)), View)
    BY <1>1, <1>8, <2>1, SameAppended DEF QuietInv, Matched, ChatTyped
  <2> QED BY <1>2, <2>2, <2>3, <2>4 DEF Matched, Push
<1> QED BY <1>6, <1>7, <1>10, <1>11, <1>12 DEF QuietInv

LEMMA SendNewQuiet ==
    ASSUME ChatAssumption, ChatInv, NEW p \in Prompts, SendNew(p), ~crowded'
    PROVE  QuietInv'
<1> USE DEF ChatInv
<1>1. /\ QuietInv /\ cut = {}
      /\ \A q \in Prompts : ~Running(q)
      /\ \A r \in Restores : ~Loading(r)
  BY BeginsQuiet DEF SendNew
<1>2. /\ prompt[p].pc = "unsent" /\ shown' = <<Line("user", p)>> /\ streaming' = TRUE
      /\ current' = NoConversation /\ UNCHANGED <<restore, history, cut>>
  BY DEF SendNew, backVars
<1>3. /\ prompt'[p].pc = "creating" /\ prompt'[p].conv = NoConversation
      /\ \A q \in Prompts \ {p} : prompt'[q] = prompt[q]
  BY DEF SendNew, ChatTyped
<1>4. \A q \in Prompts : Running(q)' <=> q = p
  BY <1>1, <1>3 DEF Running, Underway
<1>5. \A r \in Restores : ~Loading(r)' /\ ~Reads(r)'
  BY <1>1, <1>2 DEF Loading, Reads
<1>6. Alone'
  BY <1>1, <1>2, <1>4, <1>5 DEF Alone
<1>7. Waits'
  BY <1>2, <1>4 DEF Waits
<1>8. SameRow(Line("user", p), UserRow(p)) /\ Line("user", p).of = p
  BY LinesTyped DEF Conversations
<1>9. AsksLast(p, shown')
  BY <1>2, <1>8 DEF AsksLast
<1>10. Attended'
  <2>1. \A q \in Prompts : prompt'[q].pc \in {"creating", "opening", "hung", "answering", "telling"} => q = p
    BY <1>4 DEF Running, Underway
  <2> QED BY <1>2, <1>3, <1>4, <1>9, <2>1 DEF Attended
<1>11. Restored'
  BY <1>5 DEF Restored
<1>12. Matched'
  <2>1. p \notin Settled
    BY <1>2, NotSettled
  <2>2. Settled' = Settled
    BY <1>2, <1>3, SettledStays
  <2>3. View' = <<>>
    BY <1>2 DEF View
  <2>4. Places(Settled, shown') = {} /\ Places(Settled, <<>>) = {}
    BY <1>2, <1>8, <2>1 DEF Places
  <2> QED BY <2>2, <2>3, <2>4 DEF Matched, Same, Match
<1> QED BY <1>6, <1>7, <1>10, <1>11, <1>12 DEF QuietInv

LEMMA CreatedQuiet ==
    ASSUME ChatAssumption, ChatInv, NEW p \in Prompts, CreateReturns(p), ~crowded'
    PROVE  QuietInv'
<1> USE DEF ChatInv, BackInv
<1>1. /\ prompt[p].pc = "creating" /\ current' = p
      /\ UNCHANGED <<shown, streaming, restore, history, cut, crowded>>
  BY DEF CreateReturns
<1>2. QuietInv /\ Running(p)
  BY <1>1 DEF Running, Underway
<1>3. /\ prompt'[p].pc = "opening" /\ prompt'[p].conv = p
      /\ \A q \in Prompts \ {p} : prompt'[q] = prompt[q]
  BY DEF CreateReturns, ChatTyped
<1>4. /\ \A q \in Prompts : Running(q)' <=> Running(q)
      /\ \A q \in Prompts : Running(q) => q = p
      /\ \A r \in Restores : ~Loading(r) /\ ~Loading(r)' /\ ~Reads(r)'
  BY <1>1, <1>2, <1>3 DEF QuietInv, Alone, Running, Underway, Loading, Reads
<1>5. Alone'
  BY <1>1, <1>2, <1>4 DEF QuietInv, Alone
<1>6. Waits'
  BY <1>1, <1>2, <1>4 DEF QuietInv, Waits
<1>7. Attended'
  <2>1. \A q \in Prompts : prompt'[q].pc \in {"creating", "opening", "hung", "answering", "telling"} => q = p
    BY <1>4 DEF Running, Underway
  <2> QED BY <1>1, <1>2, <1>3, <1>4, <2>1 DEF QuietInv, Attended
<1>8. Restored'
  BY <1>4 DEF Restored
<1>9. Matched'
  <2>1. View = <<>>
    BY <1>1, <1>2 DEF QuietInv, Attended, Addressed, View
  <2>2. View' = <<>>
    BY <1>1 DEF View, Unborn
  <2>3. Settled' = Settled
    BY <1>1, <1>3, SettledStays
  <2> QED BY <1>1, <1>2, <2>1, <2>2, <2>3 DEF QuietInv, Matched
<1> QED BY <1>5, <1>6, <1>7, <1>8, <1>9 DEF QuietInv

\* The prompt under way is over, with an error or cut off.
LEMMA OverQuiet ==
    ASSUME ChatAssumption, ChatInv, NEW p \in Prompts, Running(p), GoesOn(p, "over"), ~crowded,
           UNCHANGED <<current, restore, history, crowded>>,
           \/ Push(ErrorLine) /\ streaming' = FALSE /\ UNCHANGED cut
           \/ UNCHANGED <<shown, streaming>> /\ cut' = cut \cup {p}
    PROVE  QuietInv'
<1> USE DEF ChatInv
<1>1. /\ prompt'[p].pc = "over" /\ \A q \in Prompts \ {p} : prompt'[q] = prompt[q]
  BY PromptGoes
<1>2. /\ QuietInv /\ cut = {} /\ streaming
      /\ \A q \in Prompts : Running(q) => q = p
      /\ \A r \in Restores : ~Loading(r)
  BY DEF QuietInv, Alone, Waits
<1>3. /\ \A q \in Prompts : ~Running(q)'
      /\ \A r \in Restores : ~Loading(r)' /\ ~Reads(r)'
  BY <1>1, <1>2 DEF Running, Underway, Loading, Reads
<1>4. Alone' /\ Restored'
  BY <1>3 DEF Alone, Restored
<1>5. Waits'
  BY <1>2, <1>3 DEF Waits
<1>6. Attended'
  BY <1>3 DEF Attended, Running, Underway
<1>7. Matched'
  <2>1. Settled' = Settled
    BY <1>1, SettledStays DEF Running, Underway
  <2>2. View' = View
    BY DEF View
  <2>3. Same(Settled, shown', View)
    <3>1. CASE shown' = shown
      BY <1>2, <3>1 DEF QuietInv, Matched
    <3>2. CASE Push(ErrorLine)
      BY <1>2, <3>2, LinesTyped, NobodySettled, SameAppended DEF QuietInv, Matched, Push, ChatTyped
    <3> QED BY <3>1, <3>2
  <2> QED BY <2>1, <2>2, <2>3 DEF Matched
<1> QED BY <1>4, <1>5, <1>6, <1>7 DEF QuietInv

\* The prompt under way waits for a stream that says nothing.
LEMMA HangsQuiet ==
    ASSUME ChatAssumption, ChatInv, NEW p \in Prompts, Hangs(p), ~crowded'
    PROVE  QuietInv'
<1> USE DEF ChatInv
<1>1. /\ prompt[p].pc = "opening" /\ GoesOn(p, "hung")
      /\ UNCHANGED <<shown, streaming, current, restore, history, cut, crowded>>
  BY DEF Hangs, backVars
<1>2. QuietInv /\ Running(p)
  BY <1>1 DEF Running, Underway
<1>3. /\ prompt'[p].pc = "hung" /\ prompt'[p].conv = prompt[p].conv
      /\ \A q \in Prompts \ {p} : prompt'[q] = prompt[q]
  BY <1>1, PromptGoes DEF Underway
<1>4. /\ \A q \in Prompts : Running(q)' <=> Running(q)
      /\ \A q \in Prompts : Running(q) => q = p
      /\ \A r \in Restores : ~Loading(r) /\ ~Loading(r)' /\ ~Reads(r)'
  BY <1>1, <1>2, <1>3 DEF QuietInv, Alone, Running, Underway, Loading, Reads
<1>5. Settled' = Settled /\ View' = View
  BY <1>1, <1>3, SettledStays DEF View
<1>6. Attended'
  <2>1. \A q \in Prompts : prompt'[q].pc \in {"creating", "opening", "hung", "answering", "telling"} => q = p
    BY <1>4 DEF Running, Underway
  <2>2. AsksLast(p, shown) /\ prompt[p].conv = current
    BY <1>1, <1>2 DEF QuietInv, Attended
  <2> QED BY <1>1, <1>3, <1>4, <2>1, <2>2 DEF Attended
<1>7. Alone' /\ Waits'
  BY <1>1, <1>2, <1>4 DEF QuietInv, Alone, Waits
<1>8. Restored' /\ Matched'
  BY <1>1, <1>2, <1>4, <1>5 DEF QuietInv, Restored, Matched
<1> QED BY <1>6, <1>7, <1>8 DEF QuietInv

LEMMA OpensQuiet ==
    ASSUME ChatAssumption, ChatInv, NEW p \in Prompts, StreamOpens(p), ~crowded'
    PROVE  QuietInv'
<1> USE DEF ChatInv, BackInv
<1> DEFINE c == prompt[p].conv
           n == Len(history[c]) + 1
<1>1. /\ prompt[p].pc = "opening" /\ GoesOn(p, "answering")
      /\ UNCHANGED <<shown, streaming, current, restore, cut, crowded>>
  BY DEF StreamOpens
<1>2. QuietInv /\ Running(p)
  BY <1>1 DEF Running, Underway
<1>3. /\ prompt'[p].pc = "answering" /\ prompt'[p].conv = c
      /\ \A q \in Prompts \ {p} : prompt'[q] = prompt[q]
  BY <1>1, PromptGoes DEF Underway
<1>4. /\ \A q \in Prompts : Running(q)' <=> Running(q)
      /\ \A q \in Prompts : Running(q) => q = p
      /\ \A r \in Restores : ~Loading(r) /\ ~Loading(r)' /\ ~Reads(r)'
  BY <1>1, <1>2, <1>3 DEF QuietInv, Alone, Running, Underway, Loading, Reads
<1>5. c \in Conversations /\ c = current
  BY <1>1, <1>2 DEF Addressed, QuietInv, Attended
<1>6. UserRow(p) \in Row /\ UserRow(p).of = p
  BY RowIs DEF Conversations
<1>7. /\ history'[c] = Append(history[c], UserRow(p))
      /\ DOMAIN history'[c] = DOMAIN history[c] \cup {n} /\ history'[c][n] = UserRow(p)
      /\ \A i \in DOMAIN history[c] : history'[c][i] = history[c][i] /\ i \in Nat /\ i < n
  BY <1>5, <1>6, StoredRow DEF StreamOpens
<1>8. \A i \in DOMAIN history[c] : history[c][i].of # p
  BY <1>1, <1>5 DEF Filed, Stored
<1> HIDE DEF c, n
<1>9. Settled' = Settled /\ p \notin Settled
  BY <1>1, <1>3, SettledStays, NotSettled
<1>10. Alone'
  BY <1>1, <1>2, <1>4 DEF QuietInv, Alone
<1>11. Waits'
  BY <1>1, <1>2, <1>4 DEF QuietInv, Waits
<1>12. Attended'
  <2>1. \A q \in Prompts : prompt'[q].pc \in {"creating", "opening", "hung", "answering", "telling"} => q = p
    BY <1>4 DEF Running, Underway
  <2>2. Before(Settled, p, history'[c])
    BY <1>6, <1>7, <1>8, <1>9 DEF Before
  <2>3. AsksLast(p, shown)
    BY <1>1, <1>2 DEF QuietInv, Attended
  <2> QED BY <1>1, <1>3, <1>4, <1>5, <1>9, <2>1, <2>2, <2>3 DEF Attended
<1>13. Restored'
  BY <1>4 DEF Restored
<1>14. Matched'
  <2>1. current # NoConversation
    BY <1>5 DEF Conversations, ChatAssumption
  <2>2. View = history[c] /\ View' = Append(history[c], UserRow(p))
    BY <1>1, <1>5, <1>7, <2>1 DEF View
  <2>3. Same(Settled, shown, Append(history[c], UserRow(p)))
    BY <1>2, <1>5, <1>6, <1>9, <2>2, SameAppended DEF QuietInv, Matched, ChatTyped
  <2> QED BY <1>1, <1>9, <2>2, <2>3 DEF Matched
<1> QED BY <1>10, <1>11, <1>12, <1>13, <1>14 DEF QuietInv

LEMMA AnswersQuiet ==
    ASSUME ChatAssumption, ChatInv, NEW p \in Prompts, ServerAnswers(p), ~crowded'
    PROVE  QuietInv'
<1> USE DEF ChatInv, BackInv
<1> DEFINE c == prompt[p].conv
           n == Len(history[c]) + 1
<1>1. /\ p \in serving
      /\ UNCHANGED <<shown, streaming, current, prompt, restore, cut, crowded>>
  BY DEF ServerAnswers
<1>2. QuietInv /\ c \in Conversations /\ p \notin Settled
  BY <1>1, NotSettled DEF Serves
<1>3. AnswerRow(p) \in Row /\ AnswerRow(p).of = p
  BY RowIs DEF Conversations
<1>4. /\ history'[c] = Append(history[c], AnswerRow(p))
      /\ \A d \in Conversations \ {c} : history'[d] = history[d]
      /\ DOMAIN history'[c] = DOMAIN history[c] \cup {n} /\ history'[c][n] = AnswerRow(p)
      /\ \A i \in DOMAIN history[c] : history'[c][i] = history[c][i] /\ i \in Nat /\ i < n
  BY <1>2, <1>3, StoredRow DEF ServerAnswers
<1>5. ASSUME NEW a, NEW d \in Conversations, Same(Settled, a, history[d])
      PROVE  Same(Settled, a, history'[d])
  <2>1. Same(Settled, a, history[c]) => Same(Settled, a, Append(history[c], AnswerRow(p)))
    BY <1>2, <1>3, SameAppended DEF ChatTyped
  <2> HIDE DEF c, n
  <2>2. CASE d = c
    BY <1>4, <1>5, <2>1, <2>2
  <2>3. CASE d # c
    BY <1>4, <1>5, <2>3
  <2> QED BY <2>2, <2>3
<1> HIDE DEF c, n
<1>6. Settled' = Settled
  BY <1>1 DEF Settled
<1>7. Alone' /\ Waits'
  BY <1>1, <1>2 DEF QuietInv, Alone, Waits, Running, Loading
<1>8. Attended'
  <2>1. ASSUME NEW q \in Prompts, prompt[q].pc \in {"answering", "telling"}
        PROVE  Before(Settled, q, history'[prompt[q].conv])
    <3>1. Before(Settled, q, history[prompt[q].conv]) /\ prompt[q].conv \in Conversations
      BY <1>2, <2>1 DEF QuietInv, Attended, Addressed
    <3>2. CASE prompt[q].conv = c
      <4>1. Before(Settled, q, history[c])
        BY <3>1, <3>2
      <4>2. ASSUME NEW i \in DOMAIN history'[c], NEW k \in DOMAIN history'[c],
                   history'[c][i].of \in Settled, history'[c][k].of = q
            PROVE  i < k
        <5>1. i # n /\ i \in DOMAIN history[c] /\ history[c][i].of \in Settled
          BY <1>2, <1>3, <1>4, <4>2
        <5>2. CASE k = n
          BY <1>4, <5>1, <5>2
        <5>3. CASE k # n
          BY <1>4, <4>1, <4>2, <5>1, <5>3 DEF Before
        <5> QED BY <5>2, <5>3
      <4>3. Before(Settled, q, history'[c])
        BY <4>2 DEF Before
      <4> QED BY <3>2, <4>3
    <3>3. CASE prompt[q].conv # c
      BY <1>4, <3>1, <3>3
    <3> QED BY <3>2, <3>3
  <2> QED BY <1>1, <1>2, <1>6, <2>1 DEF QuietInv, Attended, Running
<1>9. Restored'
  <2>1. \A r \in Restores : Reads(r) => restore[r].conv \in Conversations
    BY RestoresTyped, ChatTypes DEF Reads
  <2> QED BY <1>1, <1>2, <1>5, <1>6, <2>1 DEF QuietInv, Restored, Loading, Reads
<1>10. Matched'
  <2>1. CASE current = NoConversation
    BY <1>1, <1>2, <1>6, <2>1 DEF QuietInv, Matched, View
  <2>2. CASE current # NoConversation
    <3>1. current \in Conversations
      BY <2>2 DEF ChatTyped
    <3> QED BY <1>1, <1>2, <1>5, <1>6, <2>2, <3>1 DEF QuietInv, Matched, View
  <2> QED BY <2>1, <2>2
<1> QED BY <1>7, <1>8, <1>9, <1>10 DEF QuietInv

\* Between an open last row and the rows of an answer.
LEMMA TellsOn ==
    ASSUME ChatTyped, NEW p \in Prompts, Tell(p)
    PROVE  /\ Told(p) \in Shown /\ SameRow(Told(p), AnswerRow(p)) /\ Told(p).open /\ Told(p).of = p
           /\ shown' = IF OpenLast THEN Append(Front(shown), Told(p)) ELSE Append(shown, Told(p))
BY DEF Tell, Told, OpenLast, Shown, Conversations, SameRow, AnswerRow

LEMMA DeltaQuiet ==
    ASSUME ChatAssumption, ChatInv, NEW p \in Prompts, Delta(p), ~crowded'
    PROVE  QuietInv'
<1> USE DEF ChatInv
<1>1. /\ prompt[p].pc = "answering" /\ GoesOn(p, "telling") /\ Tell(p)
      /\ UNCHANGED <<streaming, current, restore, history, cut, crowded>>
  BY DEF Delta, backVars
<1>2. QuietInv /\ Running(p)
  BY <1>1 DEF Running, Underway
<1>3. /\ prompt'[p].pc = "telling" /\ prompt'[p].conv = prompt[p].conv
      /\ \A q \in Prompts \ {p} : prompt'[q] = prompt[q]
  BY <1>1, PromptGoes DEF Underway
<1>4. /\ \A q \in Prompts : Running(q)' <=> Running(q)
      /\ \A q \in Prompts : Running(q) => q = p
      /\ \A r \in Restores : ~Loading(r) /\ ~Loading(r)' /\ ~Reads(r)'
  BY <1>1, <1>2, <1>3 DEF QuietInv, Alone, Running, Underway, Loading, Reads
<1>5. Settled' = Settled /\ p \notin Settled /\ View' = View
  BY <1>1, <1>3, SettledStays, NotSettled DEF View
<1>6. AsksLast(p, shown) /\ Before(Settled, p, history[prompt[p].conv])
  BY <1>1, <1>2 DEF QuietInv, Attended
<1>7. ~OpenLast
  BY <1>6 DEF OpenLast, AsksLast, Last, SameRow, UserRow
<1>8. Told(p) \in Shown /\ SameRow(Told(p), AnswerRow(p)) /\ Told(p).open /\ Told(p).of = p
  BY <1>1, TellsOn
<1>9. shown' = Append(shown, Told(p))
  BY <1>1, <1>7, TellsOn
<1>10. Alone'
  BY <1>1, <1>2, <1>4 DEF QuietInv, Alone
<1>11. Waits'
  BY <1>1, <1>2, <1>4 DEF QuietInv, Waits
<1>12. Attended'
  <2>1. \A q \in Prompts : prompt'[q].pc \in {"creating", "opening", "hung", "answering", "telling"} => q = p
    BY <1>4 DEF Running, Underway
  <2>2. TellsLast(p, shown')
    <3>1. Len(shown) \in DOMAIN shown /\ Len(shown) \in Nat
      BY <1>6 DEF AsksLast, ChatTyped
    <3> QED BY <1>6, <1>8, <1>9, <3>1, AppendedRows DEF AsksLast, TellsLast, ChatTyped
  <2> QED BY <1>1, <1>2, <1>3, <1>4, <1>5, <1>6, <2>1, <2>2 DEF QuietInv, Attended
<1>13. Restored'
  BY <1>4 DEF Restored
<1>14. Matched'
  BY <1>2, <1>5, <1>8, <1>9, SameAppended DEF QuietInv, Matched, ChatTyped
<1> QED BY <1>10, <1>11, <1>12, <1>13, <1>14 DEF QuietInv

\* The last row is written again: whose it is and its role are the same.
LEMMA LastAgain ==
    ASSUME NEW T, NEW rows \in Seq(T), NEW row \in T, rows # <<>>, SameRow(row, rows[Len(rows)])
    PROVE  LET new == Append(Front(rows), row)
           IN  /\ DOMAIN new = DOMAIN rows /\ Len(new) = Len(rows) /\ new[Len(rows)] = row
               /\ \A i \in DOMAIN rows : SameRow(new[i], rows[i])
BY FrontRows DEF SameRow

LEMMA AgainQuiet ==
    ASSUME ChatAssumption, ChatInv, NEW p \in Prompts, DeltaAgain(p), ~crowded'
    PROVE  QuietInv'
<1> USE DEF ChatInv
<1>1. /\ prompt[p].pc = "telling" /\ Tell(p)
      /\ UNCHANGED <<streaming, current, prompt, restore, history, cut, crowded>>
  BY DEF DeltaAgain, backVars
<1>2. QuietInv /\ TellsLast(p, shown)
  BY <1>1 DEF QuietInv, Attended
<1>3. OpenLast /\ shown # <<>> /\ Len(shown) \in Nat /\ Len(shown) \in DOMAIN shown
  BY <1>2 DEF OpenLast, TellsLast, Last, SameRow, AnswerRow, ChatTyped
<1>4. Told(p) \in Shown /\ SameRow(Told(p), AnswerRow(p)) /\ Told(p).open
  BY <1>1, TellsOn
<1>5. shown' = Append(Front(shown), Told(p))
  BY <1>1, <1>3, TellsOn
<1>6. SameRow(Told(p), shown[Len(shown)])
  BY <1>2, <1>4 DEF TellsLast, SameRow
<1>7. /\ DOMAIN shown' = DOMAIN shown /\ Len(shown') = Len(shown) /\ shown'[Len(shown)] = Told(p)
      /\ \A i \in DOMAIN shown : SameRow(shown'[i], shown[i])
  BY <1>3, <1>4, <1>5, <1>6, LastAgain DEF ChatTyped
<1>8. Alone' /\ Waits' /\ Restored'
  BY <1>1, <1>2 DEF QuietInv, Alone, Waits, Restored, Running, Loading, Reads, Settled
<1>9. Settled' = Settled /\ View' = View
  BY <1>1 DEF Settled, View
<1>10. Attended'
  <2>1. \A q \in Prompts : prompt[q].pc \in {"creating", "opening", "hung", "answering", "telling"} => q = p
    BY <1>1, <1>2 DEF QuietInv, Alone, Running, Underway
  <2>2. TellsLast(p, shown')
    <3>1. Len(shown) - 1 \in DOMAIN shown
      BY <1>2, <1>3 DEF TellsLast, ChatTyped
    <3> QED BY <1>2, <1>3, <1>4, <1>7, <3>1 DEF TellsLast, SameRow
  <2> QED BY <1>1, <1>2, <1>9, <2>1, <2>2 DEF QuietInv, Attended, Running
<1>11. Matched'
  BY <1>2, <1>7, <1>9, SameCopied DEF QuietInv, Matched
<1> QED BY <1>8, <1>10, <1>11 DEF QuietInv

LEMMA DoneQuiet ==
    ASSUME ChatAssumption, ChatInv, NEW p \in Prompts, Done(p), ~crowded'
    PROVE  QuietInv'
<1> USE DEF ChatInv, BackInv
<1> DEFINE c == prompt[p].conv
           closed == [Last(shown) EXCEPT !.open = FALSE]
<1>1. /\ prompt[p].pc = "telling" /\ Contains(history[c], AnswerRow(p)) /\ GoesOn(p, "done")
      /\ streaming' = FALSE /\ UNCHANGED <<current, restore, history, cut, crowded>>
  BY DEF Done, backVars
<1>2. QuietInv /\ TellsLast(p, shown) /\ c = current /\ c \in Conversations
  BY <1>1 DEF QuietInv, Attended, Running, Underway, Addressed
<1>3. /\ prompt'[p].pc = "done"
      /\ \A q \in Prompts \ {p} : prompt'[q] = prompt[q]
  BY <1>1, PromptGoes
<1>4. /\ \A q \in Prompts : Running(q) => q = p
      /\ \A q \in Prompts : ~Running(q)'
      /\ \A r \in Restores : ~Loading(r) /\ ~Loading(r)' /\ ~Reads(r)'
      /\ cut = {}
  BY <1>1, <1>2, <1>3 DEF QuietInv, Alone, Running, Underway, Loading, Reads
<1>5. /\ shown # <<>> /\ Len(shown) \in Nat /\ Len(shown) > 1 /\ Len(shown) \in DOMAIN shown
      /\ Len(shown) - 1 \in DOMAIN shown /\ Last(shown) = shown[Len(shown)]
      /\ Last(shown).role = "assistant" /\ Last(shown) \in Shown
  BY <1>2 DEF TellsLast, Last, SameRow, AnswerRow, ChatTyped
<1>6. closed \in Shown /\ SameRow(closed, shown[Len(shown)])
  BY <1>5 DEF Shown, SameRow
<1>7. shown' = Append(Front(shown), closed)
  BY <1>5 DEF Done
<1> HIDE DEF closed
<1>8. DOMAIN shown' = DOMAIN shown /\ \A i \in DOMAIN shown : SameRow(shown'[i], shown[i])
  BY <1>5, <1>6, <1>7, LastAgain DEF ChatTyped
<1>9. Alone' /\ Restored'
  BY <1>4 DEF Alone, Restored
<1>10. Waits'
  BY <1>1, <1>4 DEF Waits
<1>11. Attended'
  BY <1>4 DEF Attended, Running, Underway
<1>12. Matched'
  <2>1. p \notin Settled
    BY <1>1, NotSettled
  <2>2. Settled' = Settled \cup {p}
    BY <1>3 DEF Settled
  <2>3. View = history[c] /\ View' = history[c]
    <3>1. current # NoConversation
      BY <1>2 DEF Conversations, ChatAssumption
    <3> QED BY <1>1, <1>2, <3>1 DEF View
  <2>4. Pair(Settled, p, shown, Len(shown) - 1, Len(shown))
    <3>1. \A i \in DOMAIN shown : shown[i].of \in Settled => i < Len(shown) - 1
      <4>1. \A i \in DOMAIN shown : i \in Nat /\ i <= Len(shown)
        BY DEF ChatTyped
      <4>2. shown[Len(shown)].of = p /\ shown[Len(shown) - 1].of = p
        BY <1>2 DEF TellsLast, SameRow, UserRow, AnswerRow
      <4> QED BY <1>5, <2>1, <4>1, <4>2
    <3> QED BY <1>2, <1>5, <3>1 DEF Pair, TellsLast
  <2>5. PICK v \in DOMAIN history[c] : history[c][v] = AnswerRow(p)
    BY <1>1, <1>2 DEF Contains, ChatTyped
  <2>6. PICK u \in DOMAIN history[c] : u < v /\ history[c][u] = UserRow(p)
    BY <1>2, <2>5 DEF Ordered, Answers
  <2>7. Pair(Settled, p, history[c], u, v)
    <3>1. ASSUME NEW i \in DOMAIN history[c], history[c][i].of = p PROVE i = u \/ i = v
      <4>1. history[c][i] \in Row
        BY <1>2 DEF ChatTyped
      <4>2. history[c][i] = UserRow(p) \/ history[c][i] = AnswerRow(p)
        BY <3>1, <4>1, RowIs
      <4> QED BY <1>2, <2>5, <2>6, <4>2 DEF Ordered, Distinct
    <3>2. ASSUME NEW i \in DOMAIN history[c], history[c][i].of \in Settled PROVE i < u
      <4>1. Before(Settled, p, history[c])
        BY <1>1, <1>2 DEF QuietInv, Attended
      <4> QED BY <2>6, <3>2, <4>1, RowIs DEF Before
    <3> QED BY <2>5, <2>6, <3>1, <3>2 DEF Pair, SameRow
  <2>8. Same(Settled \cup {p}, shown, history[c])
    <3>1. shown \in Seq(Shown) /\ history[c] \in Seq(Row) /\ Same(Settled, shown, history[c])
      BY <1>2, <2>3 DEF ChatTyped, QuietInv, Matched
    <3> QED BY <2>1, <2>4, <2>7, <3>1, SameMore
  <2> QED BY <1>8, <2>2, <2>3, <2>8, SameCopied DEF Matched
<1> QED BY <1>9, <1>10, <1>11, <1>12 DEF QuietInv

LEMMA NoteQuiet == ASSUME ChatAssumption, ChatInv, Note, ~crowded' PROVE QuietInv'
<1> USE DEF ChatInv
<1>1. /\ QuietInv /\ cut = {}
      /\ \A q \in Prompts : ~Running(q)
      /\ \A r \in Restores : ~Loading(r)
  BY BeginsQuiet DEF Note
<1>2. /\ Push(ErrorLine) /\ UNCHANGED <<streaming, current, prompt, restore, history, cut>>
  BY DEF Note, backVars, ErrorLine
<1>3. Alone' /\ Waits' /\ Attended' /\ Restored'
  BY <1>1, <1>2 DEF QuietInv, Alone, Waits, Attended, Restored, Running, Underway, Loading, Reads
<1>4. Settled' = Settled /\ View' = View
  BY <1>2 DEF Settled, View
<1>5. Same(Settled, Append(shown, ErrorLine), View)
  BY <1>1, LinesTyped, NobodySettled, SameAppended DEF QuietInv, Matched, ChatTyped
<1>6. Matched'
  BY <1>2, <1>4, <1>5 DEF Matched, Push
<1> QED BY <1>3, <1>6 DEF QuietInv

LEMMA NothingMatched == ASSUME shown = <<>>, current = NoConversation PROVE Matched
<1>1. View = <<>> /\ Places(Settled, <<>>) = {}
  BY DEF View, Places
<1> QED BY <1>1 DEF Matched, Same, Match

LEMMA ReopenQuiet == ASSUME ChatInv, Reopen PROVE QuietInv'
<1> USE DEF ChatInv
<1>1. /\ shown' = <<>> /\ streaming' = FALSE /\ current' = NoConversation /\ cut' = {}
      /\ prompt' = [p \in Prompts |-> IF Running(p) THEN [prompt[p] EXCEPT !.pc = "over"] ELSE prompt[p]]
      /\ restore' = [r \in Restores |-> IF restore[r] = RestoreUnsent THEN RestoreUnsent
                                        ELSE RestoreOver]
  BY DEF Reopen
<1>2. \A p \in Prompts : prompt'[p].pc = IF Running(p) THEN "over" ELSE prompt[p].pc
  BY <1>1, ChatTypes DEF PromptStates
<1>3. /\ \A p \in Prompts : ~Running(p)'
      /\ \A r \in Restores : ~Loading(r)' /\ ~Reads(r)'
  BY <1>1, <1>2 DEF Running, Underway, Loading, Reads, RestoreUnsent, RestoreOver
<1>4. Alone' /\ Waits' /\ Attended' /\ Restored'
  BY <1>1, <1>3 DEF Alone, Waits, Attended, Restored, Running, Underway
<1>5. View' = <<>> /\ Places(Settled', <<>>) = {}
  BY <1>1 DEF View, Places
<1>6. Matched'
  BY <1>1, <1>5 DEF Matched, Same, Match
<1> QED BY <1>4, <1>6 DEF QuietInv

\* A restoring that begins, finds nothing, or has failed to load.
LEMMA RestoreQuiet ==
    ASSUME ChatInv, NEW r \in Restores, ~crowded',
           RestoreBegins(r) \/ (ListReturns(r) /\ UNCHANGED <<streaming, crowded>> /\ SetRestore(r, RestoreOver))
           \/ LoadFails(r)
    PROVE  QuietInv'
<1> USE DEF ChatInv
<1>1. /\ UNCHANGED <<shown, current, prompt, history, cut, crowded>>
      /\ \A s \in Restores \ {r} : restore'[s] = restore[s]
      /\ restore'[r].pc \in {"list", "over"}
  BY DEF RestoreBegins, ListReturns, LoadFails, backVars, SetRestore, RestoreOver, ChatTyped
<1>2. QuietInv
  BY <1>1
<1>3. /\ \A p \in Prompts : Running(p)' <=> Running(p)
      /\ \A s \in Restores : Loading(s)' => Loading(s) /\ s # r /\ restore'[s] = restore[s]
      /\ \A s \in Restores : Reads(s)' => Reads(s) /\ restore'[s] = restore[s]
  BY <1>1 DEF Running, Loading, Reads
<1>4. Alone'
  BY <1>1, <1>2, <1>3 DEF QuietInv, Alone
<1>5. Waits'
  <2>1. CASE LoadFails(r)
    <3>1. Loading(r) /\ streaming' = FALSE
      BY <2>1 DEF LoadFails
    <3> QED BY <1>1, <1>2, <1>3, <3>1 DEF QuietInv, Alone, Waits
  <2>2. CASE ~LoadFails(r)
    <3>1. ~Loading(r) /\ streaming' = streaming
      BY <2>2 DEF RestoreBegins, ListReturns, Loading, RestoreUnsent
    <3>2. \A s \in Restores : Loading(s)' <=> Loading(s)
      BY <1>1, <1>3, <3>1 DEF Loading
    <3> QED BY <1>1, <1>2, <1>3, <3>1, <3>2 DEF QuietInv, Waits
  <2> QED BY <2>1, <2>2
<1>6. Settled' = Settled /\ View' = View
  BY <1>1 DEF Settled, View
<1>7. Attended' /\ Matched'
  BY <1>1, <1>2, <1>6 DEF QuietInv, Attended, Matched, Running
<1>8. Restored'
  BY <1>1, <1>2, <1>3, <1>6 DEF QuietInv, Restored
<1> QED BY <1>4, <1>5, <1>7, <1>8 DEF QuietInv

LEMMA FoundQuiet ==
    ASSUME ChatInv, NEW r \in Restores, ~crowded', ListReturns(r), streaming' = TRUE, Begins,
           current = NoConversation, NEW c \in chats, SetRestore(r, [pc |-> "get", conv |-> c])
    PROVE  QuietInv'
<1> USE DEF ChatInv
<1>1. /\ QuietInv /\ cut = {}
      /\ \A q \in Prompts : ~Running(q)
      /\ \A s \in Restores : ~Loading(s)
  BY BeginsQuiet
<1>2. UNCHANGED <<shown, current, prompt, history, cut>>
  BY DEF ListReturns, backVars
<1>3. /\ restore'[r].pc = "get"
      /\ \A s \in Restores \ {r} : restore'[s] = restore[s]
  BY DEF SetRestore, ChatTyped
<1>4. /\ \A q \in Prompts : ~Running(q)'
      /\ \A s \in Restores : Loading(s)' <=> s = r
      /\ \A s \in Restores : ~Reads(s)'
  BY <1>1, <1>2, <1>3 DEF Running, Loading, Reads
<1>5. Alone' /\ Waits' /\ Attended' /\ Restored'
  BY <1>1, <1>2, <1>4 DEF Alone, Waits, Attended, Restored, Running, Underway
<1>6. Settled' = Settled /\ View' = View
  BY <1>2 DEF Settled, View
<1>7. Matched'
  BY <1>1, <1>2, <1>6 DEF QuietInv, Matched
<1> QED BY <1>5, <1>7 DEF QuietInv

LEMMA ReadQuiet ==
    ASSUME ChatInv, NEW r \in Restores, ~crowded', LoadReads(r)
    PROVE  QuietInv'
<1> USE DEF ChatInv, BackInv
<1>1. /\ restore[r].pc = "get" /\ UNCHANGED <<shown, streaming, current, prompt, history, cut, crowded>>
  BY DEF LoadReads, backVars
<1>2. QuietInv
  BY <1>1
<1>3. restore[r].conv \in Conversations
  BY <1>1, RestoresTyped, ChatTypes
<1>4. /\ restore'[r].pc = "read" /\ restore'[r].conv = restore[r].conv
      /\ restore'[r].rows = history[restore[r].conv]
      /\ \A s \in Restores \ {r} : restore'[s] = restore[s]
  BY DEF LoadReads, SetRestore, ChatTyped
<1>5. /\ \A q \in Prompts : Running(q)' <=> Running(q)
      /\ \A s \in Restores : Loading(s)' <=> Loading(s)
  BY <1>1, <1>4 DEF Running, Loading
<1>6. Alone' /\ Waits'
  BY <1>1, <1>2, <1>5 DEF QuietInv, Alone, Waits
<1>7. Settled' = Settled /\ View' = View
  BY <1>1 DEF Settled, View
<1>8. Attended' /\ Matched'
  BY <1>1, <1>2, <1>7 DEF QuietInv, Attended, Matched, Running
<1>9. Restored'
  <2>1. Same(Settled, history[restore[r].conv], history[restore[r].conv])
    BY <1>3, SameSelf DEF Ordered, ChatTyped
  <2>2. \A s \in Restores \ {r} : Reads(s)' <=> Reads(s)
    BY <1>4 DEF Reads
  <2> QED BY <1>1, <1>2, <1>4, <1>5, <1>7, <2>1, <2>2 DEF QuietInv, Restored
<1> QED BY <1>6, <1>8, <1>9 DEF QuietInv

LEMMA LoadQuiet ==
    ASSUME ChatAssumption, ChatInv, NEW r \in Restores, ~crowded', LoadReturns(r)
    PROVE  QuietInv'
<1> USE DEF ChatInv
<1>1. /\ restore[r].pc = "read" /\ current' = restore[r].conv /\ streaming' = FALSE
      /\ shown' = [i \in DOMAIN restore[r].rows |-> Line(restore[r].rows[i].role, restore[r].rows[i].of)]
      /\ UNCHANGED <<prompt, history, cut, crowded>>
  BY DEF LoadReturns, backVars
<1>2. QuietInv /\ Loading(r) /\ Reads(r)
  BY <1>1 DEF Loading, Reads
<1>3. restore[r].conv \in Conversations /\ restore[r].rows \in Seq(Row)
  BY <1>1, RestoresTyped, ChatTypes
<1>4. /\ restore'[r].pc = "over"
      /\ \A s \in Restores \ {r} : restore'[s] = restore[s]
  BY DEF LoadReturns, SetRestore, RestoreOver, ChatTyped
<1>5. /\ \A q \in Prompts : ~Running(q)
      /\ \A s \in Restores : Loading(s) => s = r
      /\ cut = {}
  BY <1>2 DEF QuietInv, Alone
<1>6. /\ \A q \in Prompts : ~Running(q)'
      /\ \A s \in Restores : ~Loading(s)' /\ ~Reads(s)'
  BY <1>1, <1>4, <1>5 DEF Running, Loading, Reads
<1>7. Alone' /\ Waits' /\ Attended' /\ Restored'
  BY <1>1, <1>5, <1>6 DEF Alone, Waits, Attended, Restored, Running, Underway
<1>8. Settled' = Settled
  BY <1>1 DEF Settled
<1>9. View' = history[restore[r].conv]
  BY <1>1, <1>3 DEF View, Conversations, ChatAssumption
<1>10. \A i \in DOMAIN restore[r].rows : SameRow(shown'[i], restore[r].rows[i])
  BY <1>1, <1>3, LinesTyped
<1>11. Same(Settled, restore[r].rows, history[restore[r].conv])
  BY <1>2 DEF QuietInv, Restored
<1>12. Matched'
  BY <1>1, <1>8, <1>9, <1>10, <1>11, SameCopied DEF Matched
<1> QED BY <1>7, <1>12 DEF QuietInv

LEMMA QuietStep ==
    ASSUME ChatAssumption, ChatInv, [ChatNext]_chatVars, ~crowded'
    PROVE  QuietInv'
<1>1. ASSUME NEW p \in Prompts, CreateFails(p) \/ StreamFails(p) PROVE QuietInv'
  <2>1. /\ Running(p) /\ GoesOn(p, "over") /\ ~crowded /\ Push(ErrorLine) /\ streaming' = FALSE
        /\ UNCHANGED <<current, restore, history, cut, crowded>>
    BY <1>1 DEF CreateFails, StreamFails, Running, Underway, backVars
  <2> QED BY <2>1, OverQuiet
<1>2. ASSUME NEW p \in Prompts, StreamCut(p) PROVE QuietInv'
  BY <1>2, OverQuiet DEF StreamCut, Running, Underway, backVars
<1>3. ASSUME UNCHANGED <<shown, streaming, current, prompt, restore, history, cut, crowded>>
      PROVE  QuietInv'
  BY <1>3 DEF ChatInv, QuietInv, Alone, Waits, Attended, Restored, Matched, Running, Loading,
     Reads, Settled, View
<1>4. ASSUME NEW p \in Prompts, ServerStops(p) PROVE QuietInv'
  BY <1>3, <1>4 DEF ServerStops
<1>5. CASE UNCHANGED chatVars
  BY <1>3, <1>5 DEF chatVars
<1>6. ASSUME NEW r \in Restores, ListReturns(r) PROVE QuietInv'
  <2>1. CASE SetRestore(r, RestoreOver) /\ UNCHANGED <<streaming, crowded>>
    BY <1>6, <2>1, RestoreQuiet
  <2>2. CASE ~(SetRestore(r, RestoreOver) /\ UNCHANGED <<streaming, crowded>>)
    <3>1. PICK c \in chats : SetRestore(r, [pc |-> "get", conv |-> c])
      BY <1>6, <2>2 DEF ListReturns
    <3>2. streaming' = TRUE /\ Begins /\ current = NoConversation
      BY <1>6, <2>2 DEF ListReturns
    <3> QED BY <1>6, <3>1, <3>2, FoundQuiet
  <2> QED BY <2>1, <2>2
<1> QED
  BY <1>1, <1>2, <1>4, <1>5, <1>6, SendQuiet, SendNewQuiet, CreatedQuiet, HangsQuiet, OpensQuiet,
     AnswersQuiet, DeltaQuiet, AgainQuiet, DoneQuiet, NoteQuiet, ReopenQuiet, RestoreQuiet, ReadQuiet, LoadQuiet
     DEF ChatNext, Proceeds, Restoring

LEMMA ChatStep == ASSUME ChatAssumption, ChatInv, [ChatNext]_chatVars PROVE ChatInv'
BY ChatTypedStep, BackStep, SentStep, QuietStep DEF ChatInv

LEMMA ChatBegins == ASSUME ChatAssumption, ChatInit PROVE ChatInv
<1>1. ChatTyped /\ BackInv
  BY ChatTypedBegins, BackBegins
<1>2. AllSent
  BY DEF ChatInit, AllSent, Reads, RestoreUnsent
<1>3. Alone /\ Waits /\ Attended /\ Restored
  BY DEF ChatInit, Alone, Waits, Attended, Restored, Running, Underway, Loading, Reads, RestoreUnsent
<1>4. Matched
  BY NothingMatched DEF ChatInit
<1> QED BY <1>1, <1>2, <1>3, <1>4 DEF ChatInv, QuietInv

LEMMA QuietMeans == ChatInv => QuietViewIsHistory
<1>1. \A a, b : Same(Settled, a, b) <=> Agree(a, b)
  BY DEF Same, Match, Agree, At, Places
<1> QED BY <1>1 DEF ChatInv, QuietInv, Waits, Matched, View, QuietViewIsHistory

\* Every reachable state of the panel's chat is well-typed, whatever is sent,
\* restored, cut off or opened again.
THEOREM ChatTypeCorrect == ASSUME ChatAssumption PROVE ChatSpec => []ChatTypeOK
<1>1. ChatInit => ChatInv
  BY ChatBegins
<1>2. ChatInv /\ [ChatNext]_chatVars => ChatInv'
  BY ChatStep
<1>3. ChatInv => ChatTypeOK
  BY TypesAreRight DEF ChatInv
<1> QED BY <1>1, <1>2, <1>3, PTL DEF ChatSpec

\* As long as nothing is begun while something else is under way, the panel
\* waits exactly while there is something to wait for, if only a stream that
\* hangs, or a stream was cut off; and in between it shows the settled rows of the conversation that the next
\* prompt goes to: for any number of prompts, conversations and restorings.
THEOREM TheViewIsHistory == ASSUME ChatAssumption PROVE ChatSpec => []QuietViewIsHistory
<1>1. ChatInit => ChatInv
  BY ChatBegins
<1>2. ChatInv /\ [ChatNext]_chatVars => ChatInv'
  BY ChatStep
<1> QED BY <1>1, <1>2, QuietMeans, PTL DEF ChatSpec
-----------------------------------------------------------------------------
(* The safety side of WaitingEnds, crowded or not *)

\* The view that waits has a prompt or a restoring that is still under way (the
\* stream of a prompt may hang), or a stream that was cut off, even when more
\* than one thing runs at once.
NeverWaitsForNothing ==
    streaming => \/ \E p \in Prompts : Running(p)
                 \/ \E r \in Restores : Loading(r)
                 \/ cut # {}

LEMMA WaitsBegin == ASSUME ChatInit PROVE NeverWaitsForNothing
BY DEF ChatInit, NeverWaitsForNothing

\* What is left alone is still waited for.
LEMMA WaitsUnchanged ==
    ASSUME NeverWaitsForNothing, UNCHANGED <<streaming, cut, prompt, restore>>
    PROVE  NeverWaitsForNothing'
BY DEF NeverWaitsForNothing, Running, Loading

LEMMA WaitsGoOn ==
    ASSUME NeverWaitsForNothing, [ChatNext]_chatVars, ChatAssumption, ChatTyped
    PROVE  NeverWaitsForNothing'
<1> USE DEF NeverWaitsForNothing
<1>1. ASSUME NEW p \in Prompts, Running(p)' PROVE NeverWaitsForNothing'
  BY <1>1
<1>2. ASSUME NEW r \in Restores, Loading(r)' PROVE NeverWaitsForNothing'
  BY <1>2
<1>3. ASSUME NEW p \in Prompts, Send(p) \/ SendNew(p) PROVE NeverWaitsForNothing'
  <2>1. PICK state \in PromptStates :
           prompt' = [prompt EXCEPT ![p] = state] /\ state.pc \in {"creating", "opening"}
    <3>1. /\ [pc |-> "creating", conv |-> current] \in PromptStates
          /\ [pc |-> "opening", conv |-> current] \in PromptStates
          /\ [pc |-> "creating", conv |-> NoConversation] \in PromptStates
      BY DEF PromptStates, ChatTyped, Underway
    <3> QED BY <1>3, <3>1 DEF Send, SendNew
  <2>2. Running(p)'
    BY <2>1, PromptSet DEF Running, Underway
  <2> QED BY <1>1, <2>2
<1>4. ASSUME NEW p \in Prompts, CreateReturns(p) PROVE NeverWaitsForNothing'
  <2>1. [pc |-> "opening", conv |-> p] \in PromptStates
    BY DEF PromptStates, Underway, Conversations
  <2>2. Running(p)'
    BY <1>4, <2>1, PromptSet DEF CreateReturns, Running, Underway
  <2> QED BY <1>1, <2>2
<1>5. ASSUME NEW p \in Prompts, StreamOpens(p) \/ Hangs(p) \/ Delta(p) PROVE NeverWaitsForNothing'
  <2>1. PICK pc \in {"hung", "answering", "telling"} : GoesOn(p, pc)
    BY <1>5 DEF StreamOpens, Hangs, Delta
  <2>2. Running(p)'
    BY <2>1, PromptGoes DEF Running, Underway
  <2> QED BY <1>1, <2>2
<1>6. ASSUME NEW p \in Prompts, StreamCut(p) PROVE NeverWaitsForNothing'
  BY <1>6 DEF StreamCut
<1>7. ASSUME NEW r \in Restores, ListReturns(r) PROVE NeverWaitsForNothing'
  <2>1. CASE SetRestore(r, RestoreOver) /\ UNCHANGED <<streaming, crowded>>
    <3>1. restore[r].pc = "list" /\ RestoreOver \in RestoreStates
      BY <1>7 DEF ListReturns, RestoreStates, RestoreOver
    <3>2. \A s \in Restores : Loading(s) => Loading(s)'
      BY <2>1, <3>1, RestoreSet DEF Loading
    <3> QED BY <1>7, <2>1, <3>2 DEF ListReturns, Running
  <2>2. CASE ~(SetRestore(r, RestoreOver) /\ UNCHANGED <<streaming, crowded>>)
    <3>1. PICK c \in chats : SetRestore(r, [pc |-> "get", conv |-> c])
      BY <1>7, <2>2 DEF ListReturns
    <3>2. [pc |-> "get", conv |-> c] \in RestoreStates
      BY DEF RestoreStates, ChatTyped
    <3>3. Loading(r)'
      BY <3>1, <3>2, RestoreSet DEF Loading
    <3> QED BY <1>2, <3>3
  <2> QED BY <2>1, <2>2
<1>8. ASSUME NEW r \in Restores, LoadReads(r) PROVE NeverWaitsForNothing'
  <2>1. restore[r].conv \in Conversations /\ history[restore[r].conv] \in Seq(Row)
    BY <1>8, RestoresTyped DEF LoadReads, ChatTyped
  <2>2. [pc |-> "read", conv |-> restore[r].conv, rows |-> history[restore[r].conv]]
           \in RestoreStates
    BY <2>1 DEF RestoreStates
  <2>3. Loading(r)'
    BY <1>8, <2>2, RestoreSet DEF LoadReads, Loading
  <2> QED BY <1>2, <2>3
<1>9. ASSUME NEW r \in Restores, RestoreBegins(r) PROVE NeverWaitsForNothing'
  BY <1>9 DEF RestoreBegins
<1>10. ASSUME NEW p \in Prompts, CreateFails(p) \/ Done(p) \/ StreamFails(p)
       PROVE NeverWaitsForNothing'
  BY <1>10 DEF CreateFails, Done, StreamFails
<1>11. ASSUME NEW r \in Restores, LoadReturns(r) \/ LoadFails(r) PROVE NeverWaitsForNothing'
  BY <1>11 DEF LoadReturns, LoadFails
<1>12. ASSUME NEW p \in Prompts, ServerAnswers(p) \/ ServerStops(p) \/ DeltaAgain(p)
       PROVE NeverWaitsForNothing'
  BY <1>12, WaitsUnchanged DEF ServerAnswers, ServerStops, DeltaAgain
<1>13. CASE Note \/ UNCHANGED chatVars
  BY <1>13, WaitsUnchanged DEF Note, chatVars
<1>14. CASE Reopen
  BY <1>14 DEF Reopen
<1> QED
  BY <1>3, <1>4, <1>5, <1>6, <1>7, <1>8, <1>9, <1>10, <1>11, <1>12, <1>13, <1>14
     DEF ChatNext, Proceeds, Restoring

\* The panel never waits without a prompt or a loading under way whose end ends
\* the waiting, or a stream that was cut off: even when prompts, restorings and
\* notes run over each other, of any number. It does not say that the end comes:
\* for a stream that hangs it need not.
THEOREM NoIdleWait == ASSUME ChatAssumption PROVE ChatSpec => []NeverWaitsForNothing
<1>1. ChatInit => ChatTyped /\ NeverWaitsForNothing
  BY ChatTypedBegins, WaitsBegin
<1>2. ChatTyped /\ NeverWaitsForNothing /\ [ChatNext]_chatVars
      => (ChatTyped /\ NeverWaitsForNothing)'
  BY ChatTypedStep, WaitsGoOn
<1> QED BY <1>1, <1>2, PTL DEF ChatSpec
=============================================================================
