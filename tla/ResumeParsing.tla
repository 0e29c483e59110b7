---------------------------- MODULE ResumeParsing ----------------------------
(***************************************************************************)
(* Uploading a résumé: the chat of the panel, which uploads the file and   *)
(* polls the profile (Chat.tsx), the request that stores the file and      *)
(* queues its parsing (profile.service.ts), and the queue's workers, which *)
(* ask the model and store its answer section by section                   *)
(* (profile.processor.ts). One user; nothing else writes these tables but  *)
(* the request that makes a base resume.                                   *)
(*                                                                         *)
(* What a section says is left out, with the normalisation of its dates;   *)
(* parseStatus stands for the row of a source.                             *)
(***************************************************************************)
EXTENDS Naturals, FiniteSets

CONSTANTS
    Uploads,    \* files, each uploaded at most once
    Parsers,    \* queue workers, of one or several backend instances
    NoUpload,
    MaxStalls, MaxRemounts  \* bounds

ASSUME ResumeAssumption ==
    /\ NoUpload \notin Uploads
    /\ MaxStalls \in Nat /\ MaxRemounts \in Nat

VARIABLES
    \* the panel
    polling,    \* what handleFileChange does about each upload
    chat,       \* the state of the chat that is mounted
    remounts,
    \* the backend
    request,    \* what the request of each upload has done
    source,     \* parseStatus of each profile_resume_sources row
    queued,     \* uploads with a job waiting
    parse,      \* what each worker is doing
    stalls,
    profile,    \* the upload whose basicInfo the profile has
    sections,   \* how often each section of each upload is stored
    bases,      \* profile_base_resumes: how many, of each kind
    \* an observation:
    answers     \* what the model said each upload has

panelVars == <<polling, chat, remounts>>
runVars == <<parse, stalls, answers>>
storedVars == <<profile, sections, bases>>
resumeVars == <<panelVars, request, source, queued, runVars, storedVars>>

\* In the order in which the processor saves them.
SectionOrder == <<"education", "workExperience", "skills">>
Sections == {SectionOrder[n] : n \in 1..3}
NoParse == [pc |-> "idle"]
NewChat == [uploading |-> NoUpload, uploadDone |-> FALSE, basicInfo |-> FALSE]

ResumeTypeOK ==
    /\ polling \in [Uploads -> {"none", "uploading", "polling"}]
    /\ chat \in [uploading : Uploads \cup {NoUpload}, uploadDone : BOOLEAN, basicInfo : BOOLEAN]
    /\ remounts \in 0..MaxRemounts
    /\ request \in [Uploads -> {"none", "storing", "queueing", "answered", "failed"}]
    /\ source \in [Uploads -> {"none", "PENDING", "DONE", "FAILED"}]
    /\ queued \subseteq Uploads /\ stalls \in 0..MaxStalls
    /\ parse \in [Parsers ->
          {NoParse} \cup [pc : {"ask", "upsert", "save", "create", "done", "fail"},
                          upload : Uploads, left : SUBSET Sections]]
    /\ profile \in Uploads \cup {NoUpload}
    /\ sections \in [Uploads -> [Sections -> Nat]]
    /\ bases \in [default : Nat, named : Nat]
    /\ answers \in [Uploads -> SUBSET SUBSET Sections]

ResumeInit ==
    /\ polling = [u \in Uploads |-> "none"] /\ chat = NewChat
    /\ remounts = 0
    /\ request = [u \in Uploads |-> "none"]
    /\ source = [u \in Uploads |-> "none"]
    /\ queued = {} /\ stalls = 0
    /\ parse = [w \in Parsers |-> NoParse]
    /\ profile = NoUpload
    /\ sections = [u \in Uploads |-> [s \in Sections |-> 0]]
    /\ bases = [default |-> 0, named |-> 0]
    /\ answers = [u \in Uploads |-> {}]

-----------------------------------------------------------------------------
(* The panel: handleFileChange, which goes on when its chat is unmounted   *)

\* The chat, if it is still the one that began the upload.
SetChat(u, state) == chat' = IF chat.uploading = u THEN state ELSE chat

\* The button is there unless the upload is done and no profile has come.
Upload(u) ==
    /\ chat.uploading = NoUpload /\ (chat.uploadDone => chat.basicInfo)
    /\ request[u] = "none"
    /\ request' = [request EXCEPT ![u] = "storing"]
    /\ polling' = [polling EXCEPT ![u] = "uploading"]
    /\ chat' = [chat EXCEPT !.uploading = u]
    /\ UNCHANGED <<remounts, source, queued, runVars, storedVars>>

Uploaded(u) ==
    /\ polling[u] = "uploading" /\ request[u] = "answered"
    /\ polling' = [polling EXCEPT ![u] = "polling"]
    /\ SetChat(u, [chat EXCEPT !.uploadDone = TRUE])
    /\ UNCHANGED <<remounts, request, source, queued, runVars, storedVars>>

\* Not signed in, an error, or a connection that is lost while the request goes on.
UploadFails(u) ==
    /\ polling[u] = "uploading"
    /\ polling' = [polling EXCEPT ![u] = "none"]
    /\ SetChat(u, [chat EXCEPT !.uploading = NoUpload])
    /\ UNCHANGED <<remounts, request, source, queued, runVars, storedVars>>

\* The profile has basicInfo, of this upload or of another, whether or not the
\* sections are stored: it is shown as read, and Quinn is told so.
Poll(u) ==
    /\ polling[u] = "polling" /\ profile # NoUpload
    /\ polling' = [polling EXCEPT ![u] = "none"]
    /\ SetChat(u, [chat EXCEPT !.uploading = NoUpload, !.basicInfo = TRUE])
    /\ UNCHANGED <<remounts, request, source, queued, runVars, storedVars>>

\* A minute has passed, or a poll fails.
PollEnds(u) ==
    /\ polling[u] = "polling"
    /\ polling' = [polling EXCEPT ![u] = "none"]
    /\ SetChat(u, [chat EXCEPT !.uploading = NoUpload])
    /\ UNCHANGED <<remounts, request, source, queued, runVars, storedVars>>

\* Another route and back, or, with what goes on ended, the panel closed and
\* opened: the chat asks for the profile.
Remount ==
    /\ remounts < MaxRemounts
    /\ remounts' = remounts + 1
    /\ polling' \in {polling, [u \in Uploads |-> "none"]}
    /\ \E found \in {FALSE, profile # NoUpload} : chat' = [NewChat EXCEPT !.basicInfo = found]
    /\ UNCHANGED <<request, source, queued, runVars, storedVars>>

-----------------------------------------------------------------------------
(* The request: ProfileController.uploadResume *)

SaveSource(u) ==
    /\ request[u] = "storing"
    /\ request' = [request EXCEPT ![u] = "queueing"]
    /\ source' = [source EXCEPT ![u] = "PENDING"]
    /\ UNCHANGED <<panelVars, queued, runVars, storedVars>>

QueueParse(u) ==
    /\ request[u] = "queueing"
    /\ request' = [request EXCEPT ![u] = "answered"]
    /\ queued' = queued \cup {u}
    /\ UNCHANGED <<panelVars, source, runVars, storedVars>>

RequestFails(u) ==
    /\ request[u] \in {"storing", "queueing"}
    /\ request' = [request EXCEPT ![u] = "failed"]
    /\ UNCHANGED <<panelVars, source, queued, runVars, storedVars>>

\* createBaseResume, of which one is enough here.
CreateBaseResume ==
    /\ bases.named = 0
    /\ bases' = [bases EXCEPT !.named = 1]
    /\ UNCHANGED <<panelVars, request, source, queued, runVars, profile, sections>>

-----------------------------------------------------------------------------
(* The worker: ProfileProcessor.process *)

SetParse(w, state) == parse' = [parse EXCEPT ![w] = state]
GoesTo(w, pc) == SetParse(w, [parse[w] EXCEPT !.pc = pc])

TakeParse(w) ==
    /\ parse[w] = NoParse
    /\ \E u \in queued :
          /\ queued' = queued \ {u}
          /\ SetParse(w, [pc |-> "ask", upload |-> u, left |-> {}])
    /\ UNCHANGED <<panelVars, request, source, stalls, answers, storedVars>>

\* The file is read, and the model's answer has the form asked for.
Parsed(w) ==
    /\ parse[w].pc = "ask"
    /\ \E found \in SUBSET Sections :
          /\ SetParse(w, [parse[w] EXCEPT !.pc = "upsert", !.left = found])
          /\ answers' = [answers EXCEPT ![parse[w].upload] = @ \cup {found}]
    /\ UNCHANGED <<panelVars, request, source, queued, stalls, storedVars>>

UpsertProfile(w) ==
    /\ parse[w].pc = "upsert"
    /\ profile' = parse[w].upload
    /\ GoesTo(w, "save")
    /\ UNCHANGED <<panelVars, request, source, queued, stalls, answers, sections, bases>>

\* The next section: always under a new id.
SaveSection(w) ==
    /\ parse[w].pc = "save" /\ parse[w].left # {}
    /\ \E n \in 1..3 :
          LET s == SectionOrder[n]
          IN /\ s \in parse[w].left
             /\ \A k \in 1..(n - 1) : SectionOrder[k] \notin parse[w].left
             /\ SetParse(w, [parse[w] EXCEPT !.left = @ \ {s}])
             /\ sections' = [sections EXCEPT ![parse[w].upload][s] = @ + 1]
    /\ UNCHANGED <<panelVars, request, source, queued, stalls, answers, profile, bases>>

\* mutant: does not wait for the sections to be saved.
LookForBaseEarly(w) ==
    /\ parse[w].pc = "save"
    /\ GoesTo(w, IF bases.default + bases.named = 0 THEN "create" ELSE "done")
    /\ UNCHANGED <<panelVars, request, source, queued, stalls, answers, storedVars>>

\* findOne: a base resume of either kind.
LookForBase(w) ==
    /\ parse[w].pc = "save" /\ parse[w].left = {}
    /\ GoesTo(w, IF bases.default + bases.named = 0 THEN "create" ELSE "done")
    /\ UNCHANGED <<panelVars, request, source, queued, stalls, answers, storedVars>>

CreateDefault(w) ==
    /\ parse[w].pc = "create"
    /\ bases' = [bases EXCEPT !.default = @ + 1]
    /\ GoesTo(w, "done")
    /\ UNCHANGED <<panelVars, request, source, queued, stalls, answers, profile, sections>>

MarkDone(w) ==
    /\ parse[w].pc = "done"
    /\ source' = [source EXCEPT ![parse[w].upload] = "DONE"]
    /\ SetParse(w, NoParse)
    /\ UNCHANGED <<panelVars, request, queued, stalls, answers, storedVars>>

\* Whatever throws, up to the save of DONE, is caught.
ParseFails(w) ==
    /\ parse[w].pc \notin {"idle", "fail"}
    /\ GoesTo(w, "fail")
    /\ UNCHANGED <<panelVars, request, source, queued, stalls, answers, storedVars>>

\* The catch; the job is not tried again.
MarkFailed(w) ==
    /\ parse[w].pc = "fail"
    /\ source' = [source EXCEPT ![parse[w].upload] = "FAILED"]
    /\ SetParse(w, NoParse)
    /\ UNCHANGED <<panelVars, request, queued, stalls, answers, storedVars>>

\* The process dies, or the save in the catch fails.
ParserDies(w) ==
    /\ parse[w].pc # "idle"
    /\ SetParse(w, NoParse)
    /\ UNCHANGED <<panelVars, request, source, queued, stalls, answers, storedVars>>

\* The lock of a job that is under way expires: it waits again.
ParseStalls(u) ==
    /\ stalls < MaxStalls
    /\ \E w \in Parsers : parse[w].pc # "idle" /\ parse[w].upload = u
    /\ stalls' = stalls + 1
    /\ queued' = queued \cup {u}
    /\ UNCHANGED <<panelVars, request, source, parse, answers, storedVars>>

ParserSteps(w) ==
    \/ TakeParse(w) \/ Parsed(w) \/ UpsertProfile(w) \/ SaveSection(w)
    \/ LookForBase(w) \/ CreateDefault(w) \/ MarkDone(w)
    \/ ParseFails(w) \/ MarkFailed(w) \/ ParserDies(w)

ResumeNext ==
    \/ \E u \in Uploads :
          \/ Upload(u) \/ Uploaded(u) \/ UploadFails(u) \/ Poll(u) \/ PollEnds(u)
          \/ SaveSource(u) \/ QueueParse(u) \/ RequestFails(u) \/ ParseStalls(u)
    \/ \E w \in Parsers : ParserSteps(w)
    \/ Remount \/ CreateBaseResume

ResumeSpec == ResumeInit /\ [][ResumeNext]_resumeVars

-----------------------------------------------------------------------------
\* A source that is DONE has been stored as a whole, however often its job
\* was run, failed or died half-way: the profile, every section of some
\* answer of the model to it, and a base resume to tailor.
DoneIsStored ==
    \A u \in Uploads : source[u] = "DONE" =>
        /\ profile # NoUpload
        /\ \E found \in answers[u] : \A s \in found : sections[u][s] > 0
        /\ bases.default + bases.named > 0
=============================================================================
