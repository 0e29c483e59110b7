# FindWith in TLA+

FindWith ("Quinn") is a job-search companion: a Chrome extension talks to a
NestJS backend, which keeps the user's materials, tailored resumes, the radar of
jobs, conversations with an agent, subscriptions and accounts. This directory
models the parts of backend and extension in which several requests, queue
workers, scheduled jobs, event streams and outside services change the same
state, checks them with TLC on small instances, and proves what matters most
with TLAPS.

All paths below are relative to the repository (`src/` is its root).

## 1. The system and its components

The backend runs on one thread per instance, so a handler is atomic from one
`await` to the next; requests, BullMQ workers and cron jobs interleave at every
`await`, and there may be several instances. Rows live in PostgreSQL through
TypeORM, queues in Redis, and jobs are added without `attempts`: a job that
throws has had its one attempt, a job whose lock is not renewed (a stall) is run
once more. The extension's side panel is one thread too, between the background
worker, which Chrome stops at will, and the pages' content scripts.

| Component | State | Operations | Interacts with | What is hard | What makes it correct | Module |
|---|---|---|---|---|---|---|
| **Quota** (`contexts/quota`, `admin/ops/quota.controller.ts`) | export counter per user, consume log with a unique resume id | `consumeOnExport`, `getCounter`, support reset | called by Tailoring before it answers an export | check outside the transaction, creation of the counter, rollback, reset in between | one charge per resume, nothing unpaid handed out, bounded overshoot | `Quota` |
| **Tailoring** (`contexts/tailoring`) | tailored resumes, bullets with status and source | `start`, generation job, `editBullet`, `reApplyMaterial`, both exports | reads Profile's materials, charges Quota | stalled jobs, stale saves, the gap between guard and read | bullets trace to vetted materials, no pending bullet is exported, a decision stays | `Tailoring` |
| **Profile** (`contexts/profile`) | materials with their status | create, update, delete | Tailoring reads and binds materials, the archive page edits them | deletion and re-insertion under a stale save | (with Tailoring) a source was vetted by its owner | `Tailoring`, `Archive` |
| **Resume parsing** (`contexts/profile/profile.processor.ts`, the upload in `profile.service.ts` and `sidepanel/routes/Chat.tsx`) | resume sources with `parseStatus`, profile, sections, base resumes | upload, parse job, poll | LLM, object store, the panel | a job that is run twice or dies half-way, a panel that polls something else than the status | `DONE` means stored as a whole | `ResumeParsing` |
| **Jobs and Apply** (`contexts/jobs`, `contexts/apply`, `agent/tools/farewell.tool.ts`) | captures, parsed JDs, matches, radar items, applications | capture, analysis job, status change, recorded submission, farewell | Followup reads the statuses | concurrent analyses, four writers of one row | references of an item agree, milestones in order, an analysis arrives | `Radar` |
| **Account deletion** (`contexts/iam`, `admin/ops`, `contexts/followup/followup-scheduler.service.ts`) | user row, sagas, purge log | delete, cancel, retry, daily saga job, daily hard delete; logins, support and Clerk write the row too | Clerk | crashes between steps, races with cancellation and with stale saves | nothing before the grace period ends, nothing without a request and a log entry, everything due is done | `AccountPurge` |
| **Billing** (`contexts/iam/billing.service.ts`, `contexts/infra/infra.controller.ts`) | subscription row with the watermark, processed event ids | webhook events, `finalizeCheckout`, `resumeSubscription`, `forceDormant` | Stripe | duplicates, any order, two at a time, failure after deduplication | each event once, the latest event wins | `Billing` |
| **Agent loop and conversations** (`agent`, `contexts/conversation`) | messages, tool calls and results, event streams | `respond`: rounds of model and tools, streamed; `close` | LLM, tools, Memory's queue, the panel | two prompts in one conversation, crashes between a call and its result, the eight ends of a loop, a lookup outside the try | calls and results keep the protocol, every loop past its lookup ends its stream | `Conversation` |
| **Memory** (`contexts/memory`, `agent/context-builder.service.ts`) | summaries, archived flags, goals | compression and extraction jobs | reads and archives the conversation's messages | messages stored during a compression, encrypted messages, two extractions at once or in a row, stalls | nothing archived that no summary covers, turns archived whole, goals kept | `Memory` |
| **Followup** (`contexts/followup`) | FOLLOWUP conversations | hourly nudge job | reads radar items | one-hour windows, every instance runs the job, failures half way | bounded nudges, no checkpoint between two runs is missed | `Nudges` |
| **Recommendation** (`contexts/recommendation`) | recommendation rows with a JSON column of clicks and feedback | daily dispatch, build, click, feedback | mail, subscriptions | every instance runs the job, `sentAt` is not saved, read-modify-write of the column | bounded mails a day, clicks kept | `Recommendation` |
| **Circuit breaker** (`llm/circuit-breaker.ts`) | state, failure count, times | `allowRequest`, `recordSuccess`, `recordFailure` | no caller yet | late answers | opens only on consecutive failures | `CircuitBreaker` |
| **Extension: chat** (`sidepanel/stores/conversation.ts`, `sidepanel/routes/Chat.tsx`, `lib/sse.ts`, `lib/runtime.ts`) | shown messages, `isStreaming`, current conversation | send, new conversation, stream events, restore, notes | Agent loop | a stream that outlives its conversation, loads across sends, cut streams | what is shown is the history, the wait ends | `ChatView` |
| **Extension: applying** (`sidepanel/routes/EasyApply.tsx`, `content-scripts/linkedin/easy-apply.ts`, `background/bus.ts`) | the view, its port, the form tab | plan, approve, fill, confirm, record | Apply, LinkedIn's page | messages that name no job, a worker that is stopped | what is recorded was applied for | `EasyApply` |
| **Extension: archive page** (`fullscreen/routes/Archive.tsx`, `stores/profile.ts`) | the store's materials, the open drawer | load, select, edit, tag, toggle, delete, create | Profile | answers nobody reads, overlapping requests, a drawer that takes over another material | what is shown is stored, a text stays with its material | `Archive` |

`PROJECT.json` lists every component with its status, and under `hazards` what
this code is exposed to, line by line, with the properties that would catch it.

### Not modelled, and why

- *No reachable state.* `OutboxPublisher` (nothing enqueues an event), the
  idempotency interceptor (registered in no module), the nonce store (filled by
  no code), the failover counter of `AgentService` (`shouldFailover` reads a
  counter that is never incremented).
- *Nothing concurrent and no state another component reads.* Rendering
  (`src/web`, `src/admin`, what the panel and the archive page draw, search and
  filter: most of the repository's lines), design prototypes (`src/docs/hi-ui`), bundles
  (`src/extension/dist*`), the scraping of job and mail pages, adapters of
  outside services, crypto, guardrails, tracing, token cost, health and metrics
  queries, configuration and migrations. Most of the repository is of this kind,
  so the definitions here stand for a small share of its lines; they are those
  in which its state changes hands.
- *Data.* What a prompt, a match, a score, a plan or an embedding says; the
  context builder's selection and ranking; what a parsed resume says and how its
  dates are normalised. A model of these would be a transliteration of formatting
  and ranking code.
- *Single reads and writes of one row.* Settings, entitlements, the edits of profile
  sections, conversation titles, the radar store of the extension (its status
  change has no caller).
- Left out of a modelled component: `setProLimit` and `upsertProfile` (no caller but
  tests), the classification of captured mails, quick match and company research,
  embeddings, the signature of mail links. `easyApplyTabId` of the worker is left
  out since no message that reads it reaches the worker.

## 2. Modules

| Module | Models | Is |
|---|---|---|
| `EntitySave` | TypeORM's `repository.save(entity)` | two operators, used by five modules |
| `ExportLedger` | what exports promise: charged once, before the hand-out | abstract specification |
| `Quota` | `quota.service.ts`, the reset of support | component; implements `ExportLedger` |
| `Tailoring` | generation, edits, binds, exports, materials | composes `Quota` (EXTENDS); implements `ExportLedger` |
| `AccountPurge` | the deletion saga, the hard delete, every writer of the user row | component |
| `Billing` | the subscription row, Stripe's events, the other writers | component |
| `Radar` | capture, analysis, status changes, submissions, farewell | component |
| `TurnLog` | what a conversation promises of each prompt | abstract specification |
| `Conversation` | messages, the agent loop, event streams | component; implements `TurnLog` |
| `Memory` | the memory queue's two jobs | composes `Conversation` (EXTENDS) |
| `Nudges`, `Recommendation`, `CircuitBreaker` | the hourly and the daily job, the breaker | components |
| `ChatView`, `EasyApply` | the panel's chat and its Easy Apply view | components |
| `ResumeParsing` | upload, request and job of a resume | component |
| `Archive` | the archive page, its store, its requests | component |
| `Quota_proofs`, `AccountPurge_proofs`, `Billing_proofs`, `Radar_proofs`, `Memory_proofs` | | TLAPS proofs of the components they are named after; `Memory_proofs` is about `Conversation` too |
| `Tailoring_proofs` | | TLAPS proofs; uses those of `Quota_proofs`, as `Tailoring` uses `Quota` |
| `Jobs_proofs` | | TLAPS proofs about `Nudges`, `Recommendation`, `CircuitBreaker` and `ResumeParsing` |
| `Panel_proofs` | | TLAPS proofs about `EasyApply`, `Archive` and `ChatView` |
| `MCTailoring`, `MCAccountPurge`, `MCBilling`, `MCMemory` | | instances for TLC |
| `MCProfile`, `MCComponents` | | instances for components that share no state |

### How code becomes actions

One action is what runs between two `await`s. A process (request, worker, job)
is a record with a `pc` that names the next database call and the values the
handler holds in local variables; a handler that throws, or a process that dies,
goes back to idle and leaves the tables as they are. A process that is never
scheduled again is a behaviour of every safety run, so a crash needs an action
of its own only where the crash frees the process or where liveness is checked.

`save` is not a write of the whole row. TypeORM selects the row by its id,
compares it with the entity, and issues an `UPDATE` with the columns that
differ, or an `INSERT` when the row is gone. `EntitySave` is this: `Changed` at
the select, `Updated` at the update, and a process has a state for each. Most of
the races below need it: two saves of one row can each write half of it.
`repository.update` writes the named columns in one statement. Where a row has
one column that matters (`Recommendation`'s JSON column) or is only inserted, the
save is one step.

**Quota.** `pc[p]` follows `consumeOnExport`: `FindLog`, `FindCounter`,
`WithinLimit` (the 402), `CreateCounter` for a user without a counter (a select
and an insert, or an update back to zero when another request was faster:
`getCounter` uses `save`), then the transaction, `ChargeExport`, which either
increments and logs or rolls back on the unique index (`ChargeRollsBack`).
`Deliver` is the answer of `exportResume`, `ResetCounter` the support console.

**Tailoring.** A generation is `TakeJob`, `CountBullets`, `ReadMaterials`,
`SaveBullets`, `JobEnds`; the model's answer is any bullet with any source and
any status, and `Validated` is what the processor makes of it. `editor` is an
edit or a bind (`CheckMaterial`, `LoadForBind`), each with its save. An export
is `AssertNoPending`, `ReadBullets`, then Quota's steps (`ConsumeStep`), then
`ReturnExport`. Materials are created vetted or not, demoted, deleted, and
inserted again by a stale save. Texts, PDF and layout are left out.

**AccountPurge.** Days are the unit of time. `Initiate` and
`InitiateSoftDelete` are `initiate`; `CancelDeletion`, `SelectSaga`,
`UpdateSaga`, `RestoreUser` are `cancelDeletion`; `RetrySaga` is the console's.
`ListSagas`, `TakeSaga`, `SoftDeleteStep`, `AdvanceSaga`, `StepThrows` are
`processPendingSagas`, which compares the step it holds in memory and writes the
row's; `ListPurgeable` and `PurgeUser` are `runGdprPurge`, which does not look
at a user again before it deletes the row. `Login`, `SetActive` and
`ClerkUserDeleted` are the other writers of the row.

**Billing.** A delivery is `Dedup` (the insert that decides whether the event was
seen), `Find` (load, watermark, decision), `Retrieve` (the checkout asks Stripe
for the price), `SaveSelect`, `SaveUpdate`. Instants are parts of a second because
Stripe's timestamps are whole seconds and the success page's are not. `PRO` and
`PRO_PLUS` are one tier; the success page's is that of any price, as in
`tierFromPriceId`; Stripe's `past_due` of a subscription event maps to
`CANCELLED`, as in the code. A user has the one subscription row that sign-up
makes. `missed` observes the events that came before the link they find the row
by.

**Radar.** A capture and its item (`Capture`, `AddItem`); the analysis job looks
for a parsed JD (`FindJd`, `SaveJd`) and a match (`FindMatch`, `SaveMatch`) and
then updates status and references in one statement (`MarkAnalyzed`); the user's
status change is checked on load and written by a save (`LoadItem`,
`SelectItem`, `UpdateItem`); submissions and the farewell tool write the status
unchecked.

**Conversation.** `loop[p]` follows `respond` and `runAgentLoop`: the lookup of
the conversation's kind (no caller passes it), the user's message, then rounds of
`ModelAnswers`, `InsertAnswer` and, for each tool call, `RunTool` and
`InsertResult`, at most `MaxRounds` of them, then `QueueMemory` and `Done`. A
message draws its id (a ulid) when the entity is made and gets its place in the
history (`createdAt`) when the row is inserted, one `await` later; that gap is why
`Mint` and `Insert` are apart. A loop may also end in the model's error event, in
`validateToolArgs` (which throws past `executeTool`), in the catch, or with the
process (`Crash`). The lookup comes before the `try`, in a promise that `respond`
does not await: when it throws (`LookupThrows`), Sentry's handler, if it is
installed (`main.ts:16`), only warns, the loop is `lost` and its stream stays
open; without Sentry the process dies of it, which is a `Crash`. `stream` is what
the client's event stream was told. `Close` queues an extraction.

**Memory.** `ReadHistory` is `findMessagesToCompress`: at least `CompressAt`
unarchived messages, the ids of the first and the last by `createdAt`. The summary
is made from `messageBrief`s, in which an encrypted user message is a placeholder:
`read` has the messages whose words were there, `masked` the others.
`SaveSummary`, then `Archive` (`id BETWEEN`, which is by ulid, not by
`createdAt`). `LoadTranscript`, `FindGoals`, `UpsertGoals` are
`extractPreferences`, which reads the goals before it asks the model and replaces
the row with the merge after. Goals are of three parts, as `Merged` treats them
differently: the arrays are united; the salary floor is replaced by a number and
kept for a null; the short-term goal is a string in the schema and always
replaced, by an empty one too (`Answers`: unless the model repeats the old one or
leaves the field out, which a schema that is not enforced may let through). A part
is the set of the authors it was learnt from. A message is plain or encrypted,
which is what the extraction sees of it. Jobs stall and are run twice (`Stall`).

**ChatView.** `sendMessage` is `Send` (or `SendNew` from the routes that begin a
conversation), `CreateReturns`, then the stream: `StreamOpens`, `Delta`,
`DeltaAgain`, `Done`, `StreamFails`, `StreamCut`. `Hangs` is a stream whose loop was
lost in its lookup: no event comes, no row is stored, and only the connection's or
the process's end stops it. Deltas replace the open last row
whosever it is, as the store does. The backend is a history per conversation.
Restoring the latest conversation is `ListReturns`, `LoadReads`, `LoadReturns`.
`Note` is an ambient message, `Reopen` the panel closed and opened.

**EasyApply.** The content script, the worker and the view are three processes
without acknowledgement: `Submit` on the page, `Confirm` in the worker for every
connected port, `OpenView`, `Approve`, `Approved`, `Record` in the view.
`Delivered` is `runtimeCall`: the message to fill the form is dropped. `OpenView` is
of a view that is mounted anew: the component does not reset `approved` and
`submitted` when its search parameter changes (`EasyApply.tsx:28`), but no route goes
from one item's view to another's.

**Nudges, Recommendation, CircuitBreaker.** A run of an instance is a process that
takes checkpoint after checkpoint (`ListDue`, `Visit`, `SaveNudge`,
`WriteMessage`), or reader after reader (`NextReader`, `BuildReco`, `SendMail`,
`MailFails`); time is in ticks or days, and a run may last past midnight. A click
or feedback is a load and a save of the row. The breaker's callers are answered
in any order, also after it has changed its state.

**ResumeParsing.** Three processes: what the chat does about a file (`Upload`,
`Uploaded`, `Poll`, `PollEnds`; `Remount` is another route and back), the request
(`SaveSource`, `QueueParse`), and the worker: `TakeParse`, `Parsed` (the model's
answer has any of the sections), `UpsertProfile`, `SaveSection` once for each
section in the code's order, `LookForBase`, `CreateDefault`, `MarkDone`. Up to the
last save, whatever throws is caught (`ParseFails`, `MarkFailed`); a process may
die anywhere, and a stalled job runs a second time. Sections are always inserted
under new ids, so they are counted.

**Archive.** The page and its store (`shelf`, `drawer`), the requests of the clicks
and the rows. The store shows what it asked for when the request is over, whatever
the answer was (`ShowChange`); an answer of an earlier load of the page is for
nobody (`AnswerUnheard`). The service loads the row (`FindMaterial`), compares
and writes it (`CompareMaterial`, `WriteMaterial`). React keeps the drawer, with
the text being edited, for the material selected next (`SelectRow`); a text is
named by the material it was written for. `unlike` observes the materials about
which a request was refused, lost or crossed by another.
## 3. Runs

`CHECK_DEADLOCK FALSE` stands where the bounds (days, clock, jobs, faults) let a
behaviour end; Tailoring has no such bounds and is checked for deadlock.
Symmetry is used in the run of Tailoring only, whose properties are invariants
and `[][A]_v`.

| Run | Bounds | Shows |
|---|---|---|
| `MCProfile` | one component per behaviour, below | `NeverOvercharged`, `DeliveredWasCharged`, `OvershootBounded`, `DoneIsStored`, `ShownIsStored`, `TextStraysOnlyBySwitch` |
| `MCTailoring` | 1 resume, 1 bullet position, 2 workers, 1 stall, 2 editors, 2 materials of 2 users, 2 exports, limit 1 | `SourceIsVetted`, `PendingShippedOnlyByRace`, `ResolvedStaysResolved`, `ImplementsLedger` |
| `MCAccountPurge` | 1 request, 1 instance (its saga job and its hard delete), 4 days, 1 saga, 1 failure, all writers, fairness | `PurgedIsLogged`, `PurgeOnlyRequested`, `NothingBeforeGrace`, `CompletedMeansDeleted`, `DeletedIsPurged`, `DueIsTaken` |
| `MCBilling` | 5 events, 2 and 2 of them of one second, 2 processes, 1 failure, 1 write of another | `AppliedOnce`, `WatermarkMonotone`, `LatestWins` |
| `MCMemory` | 2 prompts of at most 2 rounds of 1 call, 1 older message, 2 workers, window of 4 messages, extraction of 3, 1 failure, 1 close, fairness | `ArchivedWasCovered`, `TurnsArchivedWhole`, `GoalsLostOnlyByOverlap`, `ImplementsTurns`, `StreamsEnd` |
| `MCComponents` | one component per behaviour, below, fairness | all of the rest |

In `MCProfile` and `MCComponents` the variable `turn` says which component runs;
the others stay as they began, so their states are added up and not multiplied,
and what is expected of them (fairness included) holds trivially.

The bounds of `MCProfile`: *Quota*, 2 requests, 3 resumes of one user and 1 of
another, limit 1, resets of one user; *ResumeParsing*, 2 files, 2 workers, 1
stall, 1 remounting; *Archive*, 2 materials, 1 tag, 2 clicks, 1 reloading. The
bounds of `MCComponents`: *Radar*, 1 item,
2 workers, 1 request, 1 analysis asked for and 1 failure or stall; *ChatView*, 2
prompts, 1 conversation from before, 1 restoring, 1 note or 1 reopening;
*EasyApply*, 2 jobs, 1 tab; *Nudges*, 2 instances, 1 application, hours of 2 ticks,
checkpoints at 1 and 3 of 4 ticks; *Recommendation*, 2 instances, 1 reader, 2
requests, 2 days, 3 rows; *CircuitBreaker*, 2 callers, threshold 2, 4 failures, 4
ticks. Each component's type invariant is checked in its run, in these two as
`ProfileTypeOK` and `AllTypeOK`; the breaker has no other property there, its own is
proved. `ImplementsLedger` is checked of Quota where Tailoring calls it, and
proved both there and of Quota itself.

*Constraints.* They cut states in which two concerns are mixed that do not meet,
or of two that are alike:

- `MCTailoring` `OneConcern`: an export writes no bullet and reads no material, so
  either materials change under two editors and one generation at a time, or
  exports run against one editor and overlapping generations.
- `MCMemory` `OneUsesTools`: one of two prompts may call tools, fail and be lost.
  `ExtractionsLast`: an extraction depends neither on answers and results nor on
  what is archived, and writes nothing that a loop or a compression reads.
  `WorkersApart`, `FaultsApart`, `JobsFailLate`, `SecondWorkerSecond`: two workers
  run at once when the prompts are over, one runs beside prompts; a failure leaves
  one prompt running; a job fails when no prompt runs; the first of two idle
  workers takes the job.
- `MCProfile` `FirstFileFirst`, `FirstClickFirst`: the first of two files or clicks
  begins, and a page is loaded again after one click, not two. `OneMore`: a second
  file, a job that is run twice, or a chat that is opened again. `TwoAnswers`: the
  model finds all sections or one.
- `MCComponents` `FirstPromptFirst`, `FirstBackendFirst`, `SecondWorkerSecond`: of
  two that are alike, the first begins. `AnalysesFirst`: two analyses at once
  before there is an interview. `OneExtra`, `TwoAtOnce`, `BackendKeepsUp`,
  `CrowdedOnce`, `OneBesideNote`: a note or a reopening; two prompts at once, or
  one beside the restoring or a note; a prompt's backend loop ends before both
  prompts are over. `EarlyMove`: the status changes while all checkpoints are
  ahead. `RepliesLast`, `OneKey`: replies are to one row, after the mailing, and
  without a reason. `OneRecorded`: one approval or one recorded application.

The constraints bound the model-checked instances only: the theorems of section 4
are about the specifications without them. In the runs with a liveness property
they mostly cut off what may begin and obliges nobody (a prompt, a note, a
reopening, a second analysis); where they cut off a fair step, such as the end of a
stream before its backend's, the process keeps another fair step, or waits for the
fair step of another, so no wait is excused that the property is about.

*Why these bounds are enough to be of interest.* A race needs two processes and
one row; a lost or mixed column needs two saves of one row; the overshoot needs
one slot and two requests; the tie-breaker of the watermark needs two events in
one second, and a stale row needs a third; the grace period needs a day before
and a day after its end; a re-inserted row needs a save that spans the hard
delete; an id that lies between the first and the last of a history it was not
part of needs two prompts and a compression between drawing and inserting; an
answer told to the wrong conversation needs a stream that is open while another
is begun; a checkpoint that slips needs two runs an hour apart; a resume that is
half stored needs a job that stops between two sections, and one stored twice a
job that is run again; a text in the wrong material needs two materials and a
drawer. Every one of
these happens in its run: for every property, a plausible bug in one definition
(`mutants` in `PROJECT.json`; the mutated operators stand next to the definitions
they replace) is found by that run. Where more processes could matter, the proofs
below take over.

*Properties in words.* `NeverOvercharged`: the counter never exceeds the user's
log rows. `OvershootBounded`: it exceeds the limit by less than the number of
requests in flight. `SourceIsVetted`: whatever the model answers, a bullet names
only a material its own user confirmed or edited at some time.
`ResolvedStaysResolved`: no stale save makes a resolved bullet `PENDING`.
`PendingShippedOnlyByRace`: the 422 guard lets a pending bullet out only if a
generation is saved between its count and the read. `CompletedMeansDeleted`: a
completed saga leaves its user deleted although the request that began it never
reached its soft delete, unless another write revived the user.
`WatermarkMonotone`: only a save that was overtaken between load and update moves
the watermark back. `LatestWins`: if none was, and all events were handled, the
row is in the state the latest one tells of, unless that one came before its link
or is a payment. `RefsAgree`: an item's match was computed for the item's parsed
JD. `MilestonesInOrder`: no interview without an application, no offer to refuse
without an interview, although two writers check nothing. `ImplementsTurns`: calls
are asked in rounds, a round begins when the calls of the last one are answered,
each is answered once, and a prompt is reported done with nothing left to answer.
`StreamsEnd`: a loop that is past the lookup of its kind ends its stream, wherever
it fails. `ArchivedWasCovered`: what is archived was in the history a stored
summary was made from, encrypted user messages as placeholders, or on its way into
it. `TurnsArchivedWhole`: no call is archived without its result, unless prompts
ran at once. `QuietViewIsHistory`: as long as nothing is begun while something
else is under way, the chat waits exactly as long as there is something to wait
for, and shows the history of the conversation that the next prompt goes to.
`WaitingEnds`: whatever is begun at once, the wait ends unless a stream is cut or
hangs. `RecordedWasApplied`: an application is recorded for a job applied for,
unless another job's form was confirmed while its item was shown. `NudgesBounded`,
`MailsBounded`: at most one nudge of an application, and one mail of a day, from
each instance. `NoCheckpointSlips`: two runs no more than an hour apart miss no
checkpoint between them. `ClickLostOnlyByOverlap`: what was saved is lost only to
a request that had read before it was written. `GoalsLostOnlyByOverlap`: so are
the lists of the goals, and the salary floor unless another one was heard; the
short-term goal is not safe. `DoneIsStored`: a source that is `DONE` has its
profile, every section of some answer of the model, and a base resume, however
often its job failed, died or was run again. `ShownIsStored`: at rest, the archive
page shows status and tags as they are stored, unless a request about the material
was refused or lost, or ran beside another. `TextStraysOnlyBySwitch`: a text
written for one material reaches another only through a drawer that was left open
for it.

### Disagreements between the code and its documents

Six runs expect a violation; `findings` quotes the sentence each contradicts.

- `MCTailoringTorn` / `ConfirmedIsTraced`: a bind that finds the source set
  already writes the status alone, a stale edit writes the source alone; the
  bullet is `CONFIRMED` with no source.
- `MCAccountPurgeStuck` / `SagaEnds` (with fairness): a process that dies
  between two steps leaves a saga that neither the job nor the console takes up.
- `MCAccountPurgeCancel` / `CancelTakesEffect`: a cancellation accepted within
  the grace period restores the user, and the job, which listed the saga before,
  deletes them again.
- `MCBillingLost` / `NothingLost`: a handler that fails after the event was
  recorded loses it, as the redelivery is skipped.
- `MCMemoryUnread` / `ArchivedWasRead`: user messages are stored encrypted with
  `text` null, and the summary of a history is told `User: [encrypted]`; the comment
  there says that briefs are for counting tokens only, but they are what is
  summarised, and then the messages are archived. `README.md` says that they have
  been summarised. The extraction reads `text` too: what users say since then never
  reaches the goal memory (`GoalsNeverFromPrompts`, below).
- `MCEasyApplyUnfilled` / `FilledAsShown`: the panel's message to fill the form is
  neither passed to the worker nor routed to the backend; the view says that the
  form was filled.

Other deviations met while modelling. The models contain the behaviour, the
properties above are stated around it, and no run is spent on it: two exports
pass the limit together at the last slot; `getCounter` can put a counter that
was just charged back to zero; two runs of a stalled job both save bullets, and
an export can miss the pending ones saved after its count; a deleted material
stays named as a source; a stale edit erases a binding; a cancellation or
invoice event that arrives before the checkout finds no row and is lost; a
payment that finds nothing to change leaves no watermark, and an earlier event
delivered after it is applied; two deliveries that loaded one row can be saved
in the wrong order, or one writes the watermark and the other the state; resume
makes a cancelled row `ACTIVE`; an analysis that ends late sets an item that was
decided or applied to back to `ANALYZED`; two analyses save two parsed JDs; a
stale status change overwrites a submission; a page captured twice has two
items; the hard delete removes the user row only; refused arguments of a tool
leave calls without results in the history; two prompts of one conversation mix
their turns; a message on its way while a history is read can be archived
unsummarised; two extractions overwrite each other's goals; one that finds no
short-term goal puts the empty string in place of the one that was known, although
nothing overlaps (`memory.processor.ts:155`); a lookup that throws
leaves the stream open with no loop behind it, where Sentry keeps the process alive,
and the chat waits; a nudge of day 3
keeps those of days 8 and 15 from being opened; every instance sends its own
nudges and mails; a stream that outlives its conversation writes into the next
one; a stream that is cut leaves the chat waiting; a confirmation that comes
while another item is shown is taken for that item's; the panel's poll ends at
`basicInfo`, which the job writes before the sections and which an earlier
resume may have left, so the panel says that it was read and begins the
onboarding chat before parsing has ended (`docs/runbook/user-flow.md:100` has it
after); a second resume, which the button offers as a replacement
(`sidepanel/routes/Chat.tsx:293`), adds its sections beside the first's; after a
parse that failed, the chat may have no upload button until it is mounted again;
the store of the archive shows changes that were refused, and an edited text
only after a reload (it puts `shiningText`, the page draws `content`); a drawer
left open carries its draft into the material selected next; the half-open
breaker lets every request through, where its comments
(`llm/circuit-breaker.ts:86`, `:117`) speak of one probe.

### Assumptions about the surroundings

- Billing assumes that a webhook reaches its handler, and that the row is filed
  under the id the event's metadata carries. As the code stands the routes are
  not `@Public()` under the global `UserAuthGuard`, and sign-up files rows under
  a ulid while requests and metadata carry the Clerk id. Without the first
  assumption no event is ever handled, without the second no row is ever found.
- A call or job that began on a day ends before the next day is over
  (`AccountPurge`, `Tick`).
- Ids are drawn in order (`Conversation`): one clock, and a ulid generator that
  does not go back within a millisecond. Two backends with apart clocks are not
  modelled.
- A prompt is sent once; nudge conversations are opened by the job only; an
  instance runs a cron job at most once at a time.
- PostgreSQL statements are atomic, transactions are serialised by the unique
  index that matters (read committed); Redis and BullMQ hand a job to one worker
  at a time, except after a stall.

### Fairness

`AccountPurge!FairSpec`: weak fairness of days going by, of each running call,
and of each instance's jobs. The cron decorators run both jobs every day in
every instance, and a started handler goes on unless it dies, which is a `Fault`
and bounded. Nobody is obliged to log in, cancel, retry or delete.
`Radar!Fairness`: weak fairness of each worker (BullMQ hands waiting jobs to idle
workers) and of each running request; nobody is obliged to ask for an analysis.
`Memory!FairSpec`: weak fairness of each prompt's loop, for the model's stream ends
and tools are given up after ninety seconds; nothing is asked of the memory jobs, nor
of a loop that is lost.
`ChatView!ChatFairness`: weak fairness of each prompt's requests and stream and of
each restoring, except of a stream that hangs: a request is answered or fails, and a
backend's loop, once past its lookup, ends its stream (`StreamsEnd`). A stream that
hangs need never end, for neither the backend nor the panel has a timeout for it.
Nothing is strongly fair.

## 4. Proofs

Every theorem holds for any values of the constants that its module's named
assumption admits; none of them uses a constraint or a bound of section 3.

`Quota_proofs`, for any sets of users, resumes and requests, any limit and any
set of users support may reset, from `QuotaAssumption` alone (every resume has an
owner, users, resumes and requests are finite where they are counted):

- `TypeCorrect`: `Spec => []TypeOK`.
- `NoDoubleCharge`: `Spec => []NeverOvercharged`. Inductive by itself: the
  increment and the log row are one step, which the unique index admits only for
  a resume that is not in the log yet, so both sides grow by one.
- `NothingUnpaid`: `Spec => []DeliveredWasCharged`. Strengthened by `PaidInv`: a
  request that is about to be answered holds a resume that is in the log.
- `Overshoot`: `Spec => []OvershootBounded`. Strengthened by `HeldInv`, which
  counts for each user the requests that have passed the limit check and not yet
  charged: counter plus these is at most the limit plus all requests but one,
  because the request that passes is itself counted and passed below the limit.
- `LedgerRefinement`: `Spec => Ledger!Spec`, with `charged` the resumes in the
  log and `spent` the counters: each action is a charge, a hand-out, a reset or a
  stutter.

`AccountPurge_proofs`, for any sets of accounts, requests and instances and any
grace period of at least a day, retention, number of days, sagas and failures,
from `AccountPurgeAssumption` alone. `PurgeInv` is the inductive invariant; the
other theorems follow from its parts:

- `PurgeTypeCorrect`: `Spec => []TypeOK`, jointly with `Indexed` (a saga number a
  call or job remembers is a row of the table, which only grows).
- `GraceRespected`: `Spec => []NothingBeforeGrace`. Not inductive alone, because a
  job, a cancellation and a retry each write a saga they read earlier. `GraceInv`
  adds that what a job has listed is over, and that a row waiting to be saved is
  `INITIATED` and ends when the table says it does, or that both ends are past;
  a cancellation and a retry of one saga can be saved column by column across
  each other and still not shorten a running grace period.
- `OnlyOnRequest`: `Spec => []PurgeOnlyRequested`. The date that makes a user
  purgeable travels from row to call and back, a saga's account from request to
  job; `AskedInv` says that every copy is of an account somebody asked to delete.
- `PurgesAreLogged`: `Spec => []PurgedIsLogged`. No save turns an existing row into
  none, and the hard delete logs in the same step.
- `CompletedDeletes`: `Spec => []CompletedMeansDeleted`. `GoneInv` follows the
  soft delete through the job: once done, the user is deleted, gone or observed as
  revived (`GoneStays`), and the steps after it are reached only by a job that did
  it. It needs the parts above, as an account has to have existed (no sign-up
  brings it back) and a saga to keep its account (`AcctInv`).
- `DueIsKept`: `Spec => DueStaysDue`, the safety side of `DueIsTaken`: a saga that is
  due stays on the list until a step of it is taken or a cancellation is written. A
  save of a stale row moves an end that is past to one that is past too (`EndsKept`).
- `StrandedOnlyByDeath`: `Spec => []StrandedBounded`, the extent of the finding
  `SagaEnds`: the sagas halfway that no job runs are at most as many as the failures.
  A job that fails leaves the one it was running; no other step strands any.

`Billing_proofs`, for any events, kinds, instants, handlers and failures, from
`BillingAssumption`. `BillingInv` has three parts:

- `EventsAppliedOnce`: `Spec => []AppliedOnce`, from `OnceInv`: a delivery that got
  past the conflict is the only one that ever will, the event is recorded, not
  written yet, and nobody else handles it.
- `BillingTypeCorrect` and `MarkMonotone` (`Spec => WatermarkMonotone`), from
  `RowInv`: what a handler is about to write carries its event's mark, which is
  later than the mark of the row it loaded, and none is ahead of the clock, so a
  save that was not overtaken moves the mark on, and so does the success page.
- `TheLatestWins`: `Spec => []LatestWins`, from `LastInv`: an undisturbed row bears
  the mark of the event whose state it shows, and no event that was decided, found
  its row and is no payment is later than that mark. It needs that marks are
  ordered by second and then by id (`LaterTransitive`) and that an undisturbed
  save writes what was meant (`SavedAsMeant`).
- `LostOnlyByFailure`: `Spec => []LostBounded`, the extent of the finding
  `NothingLost`: the events that are recorded, not decided and not being handled are
  at most as many as the failures. A delivery that records its event is its handler
  (`DedupLosesNothing`), and a handler lets go of its event only by deciding it
  (`HandlerLosesNothing`) or by failing. `NothingLostUnlessFailed` follows.

`Tailoring_proofs`, for any users, resumes, materials, workers, editors, exports and
stalls, from `QuotaAssumption` and, where materials have owners, `TailoringAssumption`.
Only `TypeInv` (every place holds a bullet that is there; a save by edit or bind
carries a decision, `EditorsDecide`; a generation's number is new,
`BatchesNumbered`) is shared:

- `TailoringTypeCorrect`: `TailoringSpec => []TailoringTypeOK`.
- `ExportsImplementLedger`: `TailoringSpec => ImplementsLedger`. Each step of
  tailoring is one of Quota's or leaves its variables alone, so that Quota's
  refinement carries over; `ExportsNeverOvercharged`, `ExportsArePaid` and
  `ExportsOvershoot` likewise.
- `DecisionsStay`: `TailoringSpec => ResolvedStaysResolved`. Whatever an edit or a
  bind saves carries a decision, and a generation writes only bullets with a new
  number, so a decided row is never overwritten by a pending one.
- `SourcesAreVetted`: `TailoringSpec => []SourceIsVetted`. A material's name travels
  from the table through the processor or a bind to the bullet; `VettedInv` says
  that each copy on the way is of a material its own user vetted at some time. It
  may have been demoted or deleted since: nothing looks again.
- `PendingNeedsARace`: `TailoringSpec => []PendingShippedOnlyByRace`. `RacedInv`: an
  export that passed the guard, and beside which no generation was saved, has no
  pending bullet to read.
- `TornSaveUntraces`: `TailoringSpec => UntracedOnlyByTornSave`, the cause of the finding
  `ConfirmedIsTraced`: a confirmed bullet loses its source only by a save whose row has
  changed between its select and its update. What an edit or a bind holds is traced
  (`EditorsTraced`), and a save that is not torn writes it whole (`WholeSave`).
- `SerialSavesTrace`: `TailoringSpec /\ []OneSaveAtATime => []ConfirmedIsTraced`. Where
  no two saves of one bullet are between select and update at once, none is torn
  (`NextNoneTorn`): a row lock around the two statements would keep the promise, and
  the staleness of what was loaded before them does no harm. The hypothesis is one
  about the scheduling that the code does not ensure.

`Radar_proofs`, for any items, workers, requests, analyses and failures.
`RadarInv` adds to the two properties what the copies hold:

- `ReferencesAgree`: `Spec => []RefsAgree`. A worker marks with a match of the JD
  it marks with (`MarksAgree`); the copy a status change saves agrees unless the
  item was torn (`CopiesAgree`).
- `MilestonesOrdered`: `Spec => []MilestonesInOrder`. A copy's status was allowed
  from one that the item has had (`CopiesAllowed`), and the item's own is one it
  has had (`Seen`).
- `RadarTypeCorrect`: `Spec => []TypeOK`, from `RadarAssumption`. The bound on rows
  is not inductive: `Budget` counts for each capture the workers that may still write
  a row, and says that with the rows written and the jobs waiting they are no more
  than the jobs asked for and the failures. `Present` says that what is analysed,
  loaded or submitted is there, so that no status is put on a row that is none.
- `AnalysesStay`: `Spec => []NoAnalysisVanishes`, the safety side of
  `AnalysisArrives`. An item is BROWSED again only if a job is left to move it:
  every copy that saves a status has left BROWSED (`CopiesMoveOn`), and an item is
  added once (`AddedOnce`). No run checks it by itself.

`Memory_proofs`, for any prompts, older messages, rounds, calls, workers, windows
and failures, from `ConversationAssumption`; the type invariant also from
`MemoryAssumption`:

- `TurnRefinement`: `Spec => Turns!Spec`. The inductive `TurnInv` says for each
  place in the loop which calls are asked and which are answered, and that the
  stream is open exactly while the loop runs or is lost. Each step asks, answers, opens,
  closes or stutters.
- `NothingArchivedUncovered`: `Spec => []ArchivedWasCovered`. `ReadInv` says of every
  summary being made that it is `Faithful`: what lies in its range is covered (read,
  an encrypted user message and masked, or in flight when the history was read) or is
  archived already, and ids drawn since lie beyond it. Two summaries being made at
  once are each faithful, which is why overlapping and stalled compressions do no
  harm.
- `TurnsLeaveWhole`: `Spec => []TurnsArchivedWhole`. A prompt that ran alone and
  beside no reading of its history has its messages in one piece of the history, in
  the order of their ids (`InOrder`, `DrawnLater`), and every summary being made was
  read before it was sent or after it ended, so its range holds all of them that
  are not archived or none (`SparesTurns`).
- `GoalsSurvive`: `Spec => GoalsLostOnlyByOverlap`. The lists only grow in a merge,
  and the salary floor changes only to one that was heard: what else is lost is not
  what was read.
- `OpenStreamsRun` and `StreamsComeToAnEnd`, the safety side of `StreamsEnd`: an open
  stream has a loop that runs or that its lookup has lost (`TurnInv`); of one that
  runs `StepsLeft` is at most `MaxRounds * (2 * MaxCalls + 2) + 4`, each step of the
  loop lowers it and nothing beside the loop changes it. What is left to fairness is
  that it steps.
- `GoalsNeverFromPrompts`: `Spec => []NoPromptIsHeard`, the other side of the finding
  `ArchivedWasRead`: rows in the clear are older messages, and so is all that a
  job has heard or read and all that was learnt (`UnheardInv`).
- `MemoryTypeCorrect`: `Spec => []TypeOK`. That the ids stay below their bound is a
  count (`DrawInv`): each prompt has one slot for its message and in each round one
  for the answer and one for each result, and every id drawn uses one up.

`Jobs_proofs`, each component from its own assumption:

- Nudges. `NudgesAreBounded`: an instance that has found no conversation counts as
  one it will open (`Shared`). `CheckpointsHold`: `NudgesSpec => []NoCheckpointSlips`.
  A run that is past a checkpoint has opened the conversation of every application
  due at it, or still holds it (`PastAsked`), and so has every run that went through
  (`FinishedAsked`). It needs that no checkpoint is on day zero, as the ones of the
  code are not: with one, an application moved behind the run's read would slip.
- Recommendation. `MailsAreBounded`: the mails of a run went to readers it has left
  behind, and its day is the latest of its instance (`RunsOnce`, `MailsOnce`);
  `ClicksSurvive`: as long as no two requests held a copy of a row, the copy a
  request holds has the click if the row has (`CopiesFaithful`).
- CircuitBreaker. `OpensOnlyOnStreak` (`OpensOnStreak`): late answers never open the
  breaker on fewer failures in a row than its threshold, because a closed circuit's
  count is never above the streak (`Counted`).
- ResumeParsing. `DoneMeansStored`: a worker that looks for a base resume has saved
  every section of an answer, and what is stored is never taken away (`RunsStore`).

`Panel_proofs`, likewise:

- EasyApply. `RecordedApplications`: a view that believes in a submission shows an
  item that was applied for or crossed (`Believed`).
- Archive. `TextsStay`: every copy of a text, in the store, in what a load has read,
  in the drawer and in a request, is of its own material or of one that was switched
  to (`Kept`, `KeptDrawer`, `KeptClicks`). `ShelfIsLibrary`:
  `ArchiveSpec => []ShownIsStored`. A material nothing was unlike about has at most
  one request of the open page (`OneLive`) and none while the page loads
  (`LoadedAlone`); `ShownAlike` says for each place of that request how far the row
  shown and the row stored are apart. `ArchiveTypeCorrect`: no row is half there; a
  save that inserts a deleted row again inserts all of it, since a request that got
  to its save holds a whole row (`WholeRequest`).
- ChatView. `TheViewIsHistory`: `ChatSpec => []QuietViewIsHistory`. The invariant has
  a part that always holds, about the backend: where a prompt's rows are filed
  (`Filed`), each once and the question first (`Ordered`), that nobody reads a
  conversation before it is created (`Unborn`), that a running loop has stored its
  question only (`Serves`), and that what is seen was sent (`AllSent`). The other part
  holds as long as nothing was begun beside something else: only one thing runs
  (`Alone`) and the view waits for it (`Waits`), it is the last of what is shown
  (`Attended`), rows read for the view are still those stored (`Restored`), and
  the settled rows agree (`Matched`). The second part is not inductive without the
  first, as a loop left behind by the panel goes on storing rows. `NoIdleWait`:
  `ChatSpec => []NeverWaitsForNothing`, the safety side of `WaitingEnds`, which needs
  only the types: whatever leaves the flag set leaves something under way whose end
  clears it; that the end comes is not said, and of a stream that hangs not true.

Every component's type invariant is a theorem too (`TypeCorrect`, `PurgeTypeCorrect`,
`BillingTypeCorrect`, `TailoringTypeCorrect`, `MemoryTypeCorrect`, `RadarTypeCorrect`,
`NudgesTypeCorrect`, `RecoTypeCorrect`, `BreakerTypeCorrect`, `ResumeTypeCorrect`,
`EasyTypeCorrect`, `ArchiveTypeCorrect`, `ChatTypeCorrect`).

*Only model-checked.* The liveness properties (`DeletedIsPurged`, `DueIsTaken`,
`AnalysisArrives`, `StreamsEnd`, `WaitingEnds`), which are out of the prover's reach
as fairness and `ENABLED` are; their safety side is proved for
`AnalysisArrives` (`AnalysesStay`), `WaitingEnds` (`NoIdleWait`), `DueIsTaken`
(`DueIsKept`) and `StreamsEnd` (`OpenStreamsRun`, `StreamsComeToAnEnd`). The
counterexamples to what the documents say are TLC's; four of the theorems above say
how far these go (`StrandedOnlyByDeath`, `LostOnlyByFailure`, `TornSaveUntraces`,
`GoalsNeverFromPrompts`), and no run checks the properties they state. `AllTypeOK` and
`ProfileTypeOK` are of the instances that add up components: each of their conjuncts is
a theorem of its component.

## 5. What is left

- The failover counters of `LlmService` with the breaker, once a caller uses both;
  the outbox and the idempotency interceptor, once they are wired in.
- The archive page composed with Tailoring, which reads the materials it edits.
- Entitlements: Billing with Quota, once rows are filed under one id.
