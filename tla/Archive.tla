------------------------------- MODULE Archive -------------------------------
(***************************************************************************)
(* The archive page of the extension (fullscreen/routes/Archive.tsx): the  *)
(* table of the user's materials and the drawer that edits one, the store  *)
(* behind them (stores/profile.ts), and the requests of the profile        *)
(* service that the store makes. The store shows what it asked for when    *)
(* the request is over, whatever the answer. One page is open at a time;   *)
(* agent and tailoring, which write materials too, are other components.   *)
(*                                                                         *)
(* A text is named by the material it was written for: typing changes the  *)
(* words, not whose they are. Search and filter are left out.              *)
(***************************************************************************)
EXTENDS Naturals, EntitySave

CONSTANTS
    Materials, Tags, NoMaterial,
    Clicks,         \* requests the user's clicks make, each once
    MaxReloads      \* bound

ASSUME ArchiveAssumption == NoMaterial \notin Materials /\ MaxReloads \in Nat

VARIABLES
    \* the page
    shelf,      \* materials, as the store has them
    load,       \* what fetchMaterials is doing, and the rows it has read
    drawer,     \* the material it is mounted for, editing, editText
    reloads,
    \* requests and rows
    click,      \* what each request is doing
    library,    \* profile_materials
    \* observations:
    unlike,     \* materials of which a request was refused, or two things went on at once
    switched    \* materials that took over a drawer opened for another

pageVars == <<shelf, load, drawer, reloads>>
archiveVars == <<pageVars, click, library, unlike, switched>>

NoCopy == [status |-> "none", tags |-> {}, text |-> NoMaterial]
Copy == [status : {"PROPOSED", "CONFIRMED", "USER_EDITED"}, tags : SUBSET Tags, text : Materials]
Part == [status : {"none", "PROPOSED", "CONFIRMED", "USER_EDITED"}, tags : SUBSET Tags,
         text : Materials \cup {NoMaterial}]
Fresh(m, tags) == [status |-> "PROPOSED", tags |-> tags, text |-> m]
Columns == DOMAIN NoCopy
NoDrawer == [of |-> NoMaterial, editing |-> FALSE, editText |-> NoMaterial]
NoClick == [pc |-> "unsent"]
Over == [pc |-> "over"]
NoLoad == [pc |-> "none"]

ArchiveTypeOK ==
    /\ shelf \in [Materials -> Copy \cup {NoCopy}]
    /\ library \in [Materials -> Copy \cup {NoCopy}]
    /\ load \in [pc : {"none", "asked", "shown", "failed"}]
               \cup [pc : {"read"}, rows : [Materials -> Copy \cup {NoCopy}]]
    /\ drawer \in [of : Materials \cup {NoMaterial}, editing : BOOLEAN,
                   editText : Materials \cup {NoMaterial}]
    /\ reloads \in 0..MaxReloads
    /\ click \in [Clicks -> {NoClick, Over} \cup
          [pc : {"sent", "save", "update", "answered"}, kind : {"patch", "remove", "create"},
           of : Materials, row : Part, columns : SUBSET Columns,
           patch : Part, patched : SUBSET Columns, page : 0..MaxReloads]]
    /\ unlike \subseteq Materials /\ switched \subseteq Materials

ArchiveInit ==
    /\ shelf = [m \in Materials |-> NoCopy] /\ load = NoLoad
    /\ drawer = NoDrawer /\ reloads = 0
    /\ click = [k \in Clicks |-> NoClick]
    /\ \E old \in SUBSET Materials :
          library = [m \in Materials |-> IF m \in old THEN Fresh(m, {}) ELSE NoCopy]
    /\ unlike = {} /\ switched = {}

-----------------------------------------------------------------------------
(* The page is opened, or loaded again: fetchMaterials *)

UnderWay(k) == click[k].pc \in {"sent", "save", "update"}
Waiting(k) == UnderWay(k) \/ click[k].pc = "answered"

\* The drawer is unmounted when its material is no longer in the store.
ShelfDrawer(copies) ==
    IF drawer.of # NoMaterial /\ copies[drawer.of] = NoCopy THEN NoDrawer ELSE drawer

Fetch ==
    /\ load = NoLoad
    /\ load' = [pc |-> "asked"]
    /\ UNCHANGED <<shelf, drawer, reloads, click, library, unlike, switched>>

FetchReads ==
    /\ load.pc = "asked"
    /\ load' = [pc |-> "read", rows |-> library]
    /\ UNCHANGED <<shelf, drawer, reloads, click, library, unlike, switched>>

FetchReturns ==
    /\ load.pc = "read"
    /\ shelf' = load.rows
    /\ load' = [pc |-> "shown"]
    /\ drawer' = ShelfDrawer(shelf')
    /\ UNCHANGED <<reloads, click, library, unlike, switched>>

FetchFails ==
    /\ load.pc \in {"asked", "read"}
    /\ load' = [pc |-> "failed"]
    /\ UNCHANGED <<shelf, drawer, reloads, click, library, unlike, switched>>

\* What was asked for goes on; nobody waits for its answer.
Reload ==
    /\ reloads < MaxReloads
    /\ reloads' = reloads + 1
    /\ shelf' = [m \in Materials |-> NoCopy]
    /\ load' = NoLoad /\ drawer' = NoDrawer
    /\ unlike' = {click[k].of : k \in {j \in Clicks : UnderWay(j)}}
    /\ UNCHANGED <<click, library, switched>>

-----------------------------------------------------------------------------
(* The table and the drawer *)

\* React keeps a drawer that is mounted, with its state, for the material
\* that is selected next. The page selects the first one itself.
SelectRow(m) ==
    /\ shelf[m] # NoCopy
    /\ drawer.of # m
    /\ drawer' = IF drawer = NoDrawer
                 THEN [of |-> m, editing |-> FALSE, editText |-> shelf[m].text]
                 ELSE [drawer EXCEPT !.of = m]
    /\ switched' = IF drawer.of = NoMaterial THEN switched ELSE switched \cup {m}
    /\ UNCHANGED <<shelf, load, reloads, click, library, unlike>>

\* mutant: the drawer stays mounted, hidden, when it is closed.
CloseHides ==
    /\ drawer.of # NoMaterial
    /\ drawer' = [drawer EXCEPT !.of = NoMaterial]
    /\ UNCHANGED <<shelf, load, reloads, click, library, unlike, switched>>

CloseDrawer ==
    /\ drawer.of # NoMaterial
    /\ drawer' = NoDrawer
    /\ UNCHANGED <<shelf, load, reloads, click, library, unlike, switched>>

BeginEdit ==
    /\ drawer.of # NoMaterial /\ ~drawer.editing
    /\ drawer' = [drawer EXCEPT !.editing = TRUE]
    /\ UNCHANGED <<shelf, load, reloads, click, library, unlike, switched>>

\* runtimeCall: a request about m, beside whatever else goes on about it.
Ask(k, m, kind, patched, patch) ==
    /\ click[k] = NoClick
    /\ click' = [click EXCEPT ![k] =
          [pc |-> "sent", kind |-> kind, of |-> m, row |-> NoCopy, columns |-> {},
           patch |-> patch, patched |-> patched, page |-> reloads]]
    /\ unlike' = IF \/ load.pc \in {"asked", "read"}
                    \/ \E j \in Clicks : Waiting(j) /\ click[j].of = m
                 THEN unlike \cup {m} ELSE unlike
    /\ UNCHANGED <<shelf, load, reloads, library, switched>>

\* handleSave and handleEdit.
SaveEdit(k) ==
    /\ drawer.of # NoMaterial /\ drawer.editing
    /\ drawer' = [drawer EXCEPT !.editing = FALSE]
    /\ Ask(k, drawer.of, "patch", {"text", "status"},
           [NoCopy EXCEPT !.text = drawer.editText, !.status = "USER_EDITED"])

AddTag(k, t) ==
    /\ drawer.of # NoMaterial /\ t \notin shelf[drawer.of].tags
    /\ Ask(k, drawer.of, "patch", {"tags"}, [NoCopy EXCEPT !.tags = shelf[drawer.of].tags \cup {t}])
    /\ UNCHANGED drawer

ToggleStatus(k) ==
    /\ drawer.of # NoMaterial
    /\ Ask(k, drawer.of, "patch", {"status"},
           [NoCopy EXCEPT !.status = IF shelf[drawer.of].status = "PROPOSED"
                                     THEN "CONFIRMED" ELSE "PROPOSED"])
    /\ UNCHANGED drawer

Delete(k) ==
    /\ drawer.of # NoMaterial
    /\ Ask(k, drawer.of, "remove", {}, NoCopy)
    /\ drawer' = NoDrawer

\* Under a new id, with the tags of the dialog; the page is shown from when the
\* fetch begins.
Create(k, m) ==
    /\ load # NoLoad
    /\ library[m] = NoCopy /\ shelf[m] = NoCopy
    /\ \A j \in Clicks : Waiting(j) => click[j].of # m
    /\ \E tags \in SUBSET Tags : Ask(k, m, "create", Columns, Fresh(m, tags))
    /\ UNCHANGED drawer

-----------------------------------------------------------------------------
(* ProfileService *)

SetClick(k, state) ==
    /\ click' = [click EXCEPT ![k] = state]
    /\ UNCHANGED <<pageVars, switched>>

CreateMaterial(k) ==
    /\ click[k].pc = "sent" /\ click[k].kind = "create"
    /\ library' = [library EXCEPT ![click[k].of] = click[k].patch]
    /\ SetClick(k, [click[k] EXCEPT !.pc = "answered"])
    /\ UNCHANGED unlike

\* mutant: the patch's tags are not taken over.
FindMaterialNoTags(k) ==
    /\ click[k].pc = "sent" /\ click[k].kind # "create" /\ library[click[k].of] # NoCopy
    /\ SetClick(k, [click[k] EXCEPT !.pc = "save",
                       !.row = Updated(library[click[k].of], click[k].patch,
                                       click[k].patched \ {"tags"})])
    /\ UNCHANGED <<library, unlike>>

\* findOne, and for a patch Object.assign.
FindMaterial(k) ==
    /\ click[k].pc = "sent" /\ click[k].kind # "create" /\ library[click[k].of] # NoCopy
    /\ SetClick(k, [click[k] EXCEPT !.pc = "save",
                       !.row = Updated(library[click[k].of], click[k].patch, click[k].patched)])
    /\ UNCHANGED <<library, unlike>>

\* save selects the row: one that is gone is going to be inserted again.
CompareMaterial(k) ==
    /\ click[k].pc = "save" /\ click[k].kind = "patch"
    /\ SetClick(k, [click[k] EXCEPT !.pc = "update",
                       !.columns = IF library[click[k].of] = NoCopy THEN Columns
                                   ELSE Changed(library[click[k].of], click[k].row)])
    /\ UNCHANGED <<library, unlike>>

\* An UPDATE of a row that has gone since changes nothing.
WriteMaterial(k) ==
    LET c == click[k]
    IN /\ c.pc = "update"
       /\ library' = [library EXCEPT ![c.of] =
             IF @ = NoCopy /\ c.columns # Columns THEN @ ELSE Updated(@, c.row, c.columns)]
       /\ SetClick(k, [c EXCEPT !.pc = "answered"])
       /\ UNCHANGED unlike

RemoveMaterial(k) ==
    /\ click[k].pc = "save" /\ click[k].kind = "remove"
    /\ library' = [library EXCEPT ![click[k].of] = NoCopy]
    /\ SetClick(k, [click[k] EXCEPT !.pc = "answered"])
    /\ UNCHANGED unlike

\* Not signed in, not found, or a failure on the way there or in the backend.
ClickFails(k) ==
    /\ UnderWay(k)
    /\ unlike' = unlike \cup {click[k].of}
    /\ SetClick(k, IF click[k].kind = "create" THEN Over ELSE [click[k] EXCEPT !.pc = "answered"])
    /\ UNCHANGED library

-----------------------------------------------------------------------------
(* The store, when the request is over *)

\* An error is a value that updateMaterial and deleteMaterial do not look at.
\* The text goes by another name in the patch than in the table.
ShowChange(k) ==
    LET c == click[k]
    IN /\ c.pc = "answered" /\ c.page = reloads
       /\ shelf' = [shelf EXCEPT ![c.of] =
             CASE c.kind = "create" -> c.patch
               [] c.kind = "remove" -> NoCopy
               [] OTHER -> IF @ = NoCopy THEN @ ELSE Updated(@, c.patch, c.patched \ {"text"})]
       /\ drawer' = ShelfDrawer(shelf')
       /\ click' = [click EXCEPT ![k] = Over]
       /\ UNCHANGED <<load, reloads, library, unlike, switched>>

\* The answer of a creation is lost; that of a page that is gone is for nobody.
AnswerUnheard(k) ==
    /\ click[k].pc = "answered" /\ (click[k].page # reloads \/ click[k].kind = "create")
    /\ unlike' = IF click[k].page = reloads THEN unlike \cup {click[k].of} ELSE unlike
    /\ SetClick(k, Over)
    /\ UNCHANGED library

ArchiveNext ==
    \/ Fetch \/ FetchReads \/ FetchReturns \/ FetchFails \/ Reload
    \/ CloseDrawer \/ BeginEdit
    \/ \E m \in Materials : SelectRow(m)
    \/ \E k \in Clicks :
          \/ SaveEdit(k) \/ ToggleStatus(k) \/ Delete(k)
          \/ \E t \in Tags : AddTag(k, t)
          \/ \E m \in Materials : Create(k, m)
          \/ CreateMaterial(k) \/ FindMaterial(k) \/ CompareMaterial(k) \/ WriteMaterial(k)
          \/ RemoveMaterial(k) \/ ClickFails(k) \/ ShowChange(k) \/ AnswerUnheard(k)

ArchiveSpec == ArchiveInit /\ [][ArchiveNext]_archiveVars

-----------------------------------------------------------------------------
\* At rest, the page shows what is stored: a material is there or not, with
\* its status and its tags, unless a request about it was refused or lost
\* since the page was loaded, or ran beside another or beside the loading.
ShownIsStored ==
    load.pc = "shown" /\ (\A k \in Clicks : ~Waiting(k)) =>
        \A m \in Materials \ unlike :
            /\ shelf[m].status = library[m].status
            /\ shelf[m].tags = library[m].tags

\* A text written for one material is stored in another only after the drawer
\* of the one, left open, was taken over by the other.
TextStraysOnlyBySwitch ==
    \A m \in Materials : library[m].text \in {m, NoMaterial} \/ m \in switched
=============================================================================
