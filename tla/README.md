# acent-backend, specified

acent-backend is a FastAPI service between a help desk (Freshdesk), a document
store for retrieval (Gemini File Search), language models, Redis and Supabase.
It copies tickets and articles of a help desk into the document store, answers
chats from it, proposes replies and field values for tickets, and records what
agents approve. It runs as one asyncio process: everything between two `await`s
is atomic, and everything that can go wrong does so at an `await`, at an error
of a service behind one, or at a restart.

This directory holds TLA+ modules that model its components, configurations
with which TLC checks them on small instances, and proofs that TLAPS checks.

## 1. Inventory

| Component | Source (`src/app/`) | State | Operations | Hard behaviour | What makes it correct |
|---|---|---|---|---|---|
| Sync API | `api/routes/sync.py` | `SyncJobStore._jobs`, `_services` (memory) | trigger, background job, status, result, cancel | ids per second collide; cancel races the task; restart | a status tells what became of its sync |
| Sync pipeline | `services/sync_service.py`, `ticket_metadata_service.py` | `SyncProgress`, pending metadata, watermarks, the client | initialise, ticket and article coroutines, upload, metadata flush | two coroutines on one service; one fails while the other goes on | a completed sync is whole; metadata is not ahead of the uploads; every sync ends |
| Ingestion | `services/ingestion_service.py` | page group, shared cursor, results | page requests, worker pools, yielding | partial failure, order, last page | an ordered stream, each page once, only failed pages missing |
| Freshdesk client | `services/freshdesk_client.py` | rate-limit window, connection pool | request with retry, pagination | concurrent requests move one window | waits are honoured, requests end |
| Sessions and chat | `services/session_repository.py`, `chat_usecase.py`, handlers | session records in Redis, or memory | read, create, append, clarify, stream | read-modify-write across awaits, expiry, disconnects | no turn is lost or undone |
| Proposals | `api/routes/assist.py`, `repositories/proposal_repository.py`, `services/assist_service.py`, `agents/` | proposals in Redis, or memory | analyse (sync, async, stream), approve, refine, status | permanent fallback to memory, orphan tasks | a proposal is found while it lives, and ends as draft or error |
| Analysis runs | `services/orchestrator/`, `api/routes/tickets.py` | `analysis_runs`, `ticket_analyses` | run, stream, persist, gate | disconnects, swallowed write errors, restarts | rows never claim more than what happened |
| Feedback | `services/feedback_repository.py` | training samples, feedback events | submit, approve, export | select-then-write, a mark before the answer | a sample is exported once, and only when approved |
| Model gateway | `services/llm_gateway.py`, `gemini_client.py`, `llm_adapter.py` | none | route, fall back, time out | nested loops of candidates and attempts | no candidate is skipped or given up early |
| Document store client | `services/gemini_file_search*.py` | the store list | list, create, delete, upload, search | a list written after its invalidation, lost answers | own changes are seen, duplicates only by lost answers |
| Common documents | `services/common_documents.py`, `scripts/reupload_with_metadata.py`, `run_sequential_upload.py` | a table in Supabase, a resume point | pages by cursor and by offset, batches with retries | edits between pages, failed batches | what is behind the resume point is in a store |
| Question analysis | `services/query_filter_analyzer.py`, `freshdesk_search_service.py`, `freshdesk_metadata.py`, the chat handlers | open clarification of a session, known labels | extract, ask back, apply the choice, search | the model extracts anew, failure between forgetting and using | the option chosen is the one searched for |
| Onboarding progress | `services/onboarding_repository.py`, `curriculum_repository.py` and their routes | sessions, progress, attempts | open, tidy duplicates, save, grade | many-call merges cut short | nothing a new hire has done is lost |
| Quizzes | `api/routes/curriculum.py` | generated questions | get, generate, grade | two first requests at once | a sheet that is right gets full marks |
| Answer streams | `api/routes/onboarding.py`, `curriculum.py` | conversations in memory | ask, stream, keep the turn | shared and replaced lists, disconnects | a conversation ends with its last turn, in order |
| Knowledge library | `api/routes/onboarding.py` | articles in Supabase | create, update, delete, list | overlapping editors, lost answers | 404 means gone |
| Entity labels | `services/entity_mapper.py` | labels per type, with expiry | load, fetch, expire, evict | a lock that is never taken | a known entity gets its name |
| Ticket fields | `services/tenant_ticket_fields_cache.py`, `tenant_registry.py` | a row per tenant in Supabase | read, refresh, write | concurrent refreshes | |
| Admin | `services/admin_service.py`, `api/routes/admin.py` | tenants, current sync | configure, trigger | check, then act in a later task | refused only while a sync runs |
| Scheduler | `services/scheduler_service.py` | jobs | none that succeeds | | |
| Text processing | `normalizer.py`, `transformer.py`, `denoise.py`, `guardrails.py`, `orchestrator/json_repair.py` | none | normalise, split, mask, repair | | |
| Authentication | `middleware/`, `core/auth.py` | none | check headers | | |

How they interact: the sync API creates one `SyncService` per trigger; that
owns one `FreshdeskClient` and one ingestion service, calls an upload callback
that writes to the document store, and flushes metadata to Supabase at its end.
The cancel endpoint reaches the same service from another coroutine. Chat and
assist read the document store through the search client, and keep sessions and
proposals in Redis. The onboarding application, the admin API, the analysis of
tickets and the upload scripts share no state with any of these, nor with each
other, but the clients of the services they call. Nothing but Supabase, Redis
and the document store survives a restart.

`PROJECT.json` lists every hazard at its line, with the properties that watch it.

## 2. Modules

| Module | Models | Composes with |
|---|---|---|
| `SyncJob` | the sync API, the background task, the two coroutines of a sync, metadata flush, cancel, restart | abstracts the generator of `TicketPages` to "the next page that was not skipped" |
| `TicketStream` | what the sync may assume of the generator (abstract) | |
| `TicketPages` | the page generator and its worker pools | implements `TicketStream` |
| `FreshdeskRequests` | concurrent requests on one client | each request of `TicketPages` is one of these |
| `Conversation` | what a session promises of its turns and questions (abstract) | |
| `SessionChat` | the requests that name one session, and its record in Redis or in memory | implements `Conversation` in memory, not on Redis |
| `Proposals` | the analyses of the assist API, their repository, and the clients that ask for a proposal | |
| `Learning` | sessions, progress and quiz attempts of new hires, and the merging of duplicate sessions | `MCServices` |
| `MentorChat` | the answer streams of onboarding and curriculum and the conversations they share | `MCServices` |
| `QuizQuestions` | the questions a first request has written, and the grading against them | `MCServices` |
| `Knowledge` | the library of articles and its editors | `MCServices` |
| `AnalysisRuns` | runs, rows, gate, approvals and exports | `MCServices` |
| `ChatSearch` | filters, clarifications and the six ways to a chat handler | `MCServices`; has the questions of `SessionChat` one at a time |
| `Caches` | the list of stores and the ticket fields | `MCServices` |
| `Fallbacks` | candidates and attempts of calls to models, stores and catalogues | `MCServices` |
| `EntityLabels` | the labels of the entity mapper | `MCServices` |
| `AdminSync` | tenants and sync jobs of the admin API | `MCServices` |
| `Reupload` | batches, retries and the resume point of the upload scripts | `MCServices`, `MCReupload` |
| `ProductList` | the list of products, read by offset | `MCServices` |
| `MCServices` | the sum of the twelve components above | |
| other `MC...` | small instances for TLC | |
| `OnboardingProofs`, `ServicesProofs` | theorems about the twelve, and about their sum | |
| `Sums` | what a fold that sums over a finite set is worth | used by `OnboardingProofs`, `ServicesProofs` |
| other `...Proofs` | theorems about the module they are named after | |

### SyncJob

A task is one `POST /trigger` with the `SyncService` it builds. `jobs` and
`services` are the two dictionaries of `SyncJobStore`, keyed by tenant and
second, because the job id is `sync_{tenant}_{int(timestamp)}`: two triggers in
one second share a record, and the model lets them. `pc` is where
`run_sync_job` stands; `tpc` and `apc` are where the ticket and the article
coroutine stand, which run on one event loop under `asyncio.gather`. `phase`,
`tickets` and `uploaded` are the progress both write. `pending` is the metadata
collected so far, `meta` what Supabase holds. `client` says whether the
connection pool is open: requests reopen it lazily, also after a cancel or
after the job was closed.

Each action is the code between two suspension points. `CancelSync` writes the
record and closes the client and does nothing to the task, as in the code.
`GatherRaises` leaves the other coroutine running. `SyncReturns` flushes
metadata, sets phase and record in one step, because `_save_metadata` calls a
blocking client. `InitializeFails` stands for the field
mapping of the tenant that raises (errors of loading labels are swallowed).

A page of tickets, and an upload batch of articles, is one document. The upload
callback never raises: it skips documents of a kind that has no store, and logs
a failed upload and goes on. `Upload` has both outcomes, `stored` the documents
that were uploaded and `dropped` those it gave up; both count as uploaded in
the progress, and both are listed in Supabase.
`SaveMetadata` is the flush: tickets first, then articles, each in batches of
which any may be dropped, all of them if the tenant has no UUID.
`stored`, `dropped` and `triggers` are history variables.

### TicketPages and TicketStream

`fetch_tickets_generator` requests `PageConc` pages at a time, skips the failed
ones, attaches conversations with a pool of workers per page that share a
cursor, yields the pages in order and goes on unless a page was short or empty.
`answer` holds the outcome of the requests of a group, `cursor`, `at` and
`results` the pools, `todo` the pages still to be yielded. The lock around the
cursor is never contended (nothing is awaited inside), so claiming a ticket is
one step with finishing the last one. `TicketStream` is what the loop over the
generator in `SyncService` relies on; `StreamSpec` states the refinement, with
`ended` mapped to `pc = "done"`.

### FreshdeskRequests

`window` is what is left of `_rate_limit_reset_at`, `sleep` what is left of
the sleep a request is in, `attempt` the attempts it used up. `Tick` lets a
second pass; a sleep may last longer than asked for. Between the end of a sleep
and the sending nothing is awaited, so `WindowOver` clears the window and sends
in one step, without looking at the window again. `hold` is a history variable:
what is left of the `Retry-After` a request was last given.

### SessionChat and Conversation

One session and the requests that name it. `stored` is its record in Redis and
in the memory of the process, `repo` the one `get_session_repository` chose.
`path` is the way a request takes through `ChatUsecase` or `agent_chat`, `pc`
its next step, `copy` the record it read last. `SessionRepository` has no
update of its own: it reads a record, changes it and saves all of it, so each
operation is a `Read` and the write of `RecordAnalysis`, `AppendQuestion` or
`AppendTurn`, and `Create` and `ClearClarification` save what was read at the
beginning of the request, or a fresh record, whatever is stored by then.

On Redis each read and each write is an await that waits. The methods of the
in-memory repository are coroutines too, but never wait, so one request runs
from one real wait to the next without another between: `MayRun` says so. The
real waits are the handler's answer, the pipeline, and the consumer of a
stream. Expiry, the end of the process and the loss of what it kept in memory
are actions; a Redis error ends the request.

A turn or a question is the name of its request: texts play no part.
`answered`, `turnNo` and `total` are history variables. `Conversation` has one
step per append and one that forgets the session.

### Proposals

A proposal goes by the name of its analysis. `redis` says whether
`ProposalRepository` still uses Redis: the first exception of any operation
turns the whole process to memory (`TurnToMemory`). `stored` is what Redis and
memory hold, down to the status. An operation on Redis is under way
between two steps, an operation on memory is part of the step that calls it:
`SaveProposal` has both cases, and `SaveLands` and `SaveFails` end a save under
way, also when another call has turned the process to memory meanwhile.

`mode` and `pc` tell on which of the four paths a call is and where. In
`run_progressive_stream` the events that are only sent are no steps of their
own: `searching` lasts until the search is in, `compose` from the analysis to
the save. `analysis` is the run of `analyze_ticket`, a task of its own there,
which a client that goes away leaves running unless it is being awaited.
`synthesize_results` raises when there is no analysis (its fallback reads the
same `None`), so a graph either has a proposal or raises.

`asked` is a get under way, for the status, an approval or a refinement, which
change nothing. `told` (what a client last saw in this process), `announced` and
`hidden` (lost from sight by expiry, the turn to memory or a restart) are
history variables.

### MCServices

The twelve components below share no variable, and none calls another, so
letting them take steps between each other's steps would multiply the states
and add no behaviour of any one of them. `MCServices` is therefore their sum:
`part` names the component whose turn it is in a behaviour, and the others stay
at one initial state. Every component begins in all of its own initial states
when it is its turn. No symmetry is used. Fairness is not assumed: nothing is
asked here but safety.

### Learning

The client of Supabase blocks the event loop, so a request is alone in the
process, but every one of its calls may fail and the process may die between
two. `owner` and `live` are the rows of `onboarding_sessions`; what was recorded
under a session that is deleted stays in its own tables. A name is stored as it
was typed and looked up with `ilike` after a strip, so a padded one is never
found again by its owner, and one with `%` or `_` in it finds the rows of other
people: `Ilike` says which name, taken as a pattern, matches which, and
`Person` which names are one person to `GET /progress`, which compares them
normalised. `_consolidate_sessions` merges the rows found into the newest one;
`tidy` says how far it is, and each call is an action (`MergeScenario`,
`MoveModule`, `RaiseModule`, `DropModule`, `DropSession`), with the failure of
each and of the process (`LearningCrash`). An error among the modules is logged
and the session deleted all the same (`ModulesFail`, stage "abandon"); any other
error ends the consolidation (`TidyFails`). `GET /progress` consolidates one
person after the other (`SummariseAll`, `NextGroup`). A quiz writes its attempt
and then the progress, and `SubmitQuiz` has the outcomes of both.

The properties are about `Groups` of people: those whose names match each other
are tidied together and share their sessions from then on. `OpenSessions` are
the rows of a group that exist; `Done` and `Reached` look at no others.

### MentorChat

A conversation is a Python list, and `lists` holds the list objects by address:
a stream keeps a reference (`held`), appends to that object, and puts a copy of
its end into the cache. So two streams may share one list or hold two.
`Prompt` is the start of the generator, which reads the list then and not when
the question was asked; a module chat's turns are dropped by the client that
builds the prompt (`Carried`). A disconnect stops a generator at a yield. `seen`
and `answered` are history variables.

### QuizQuestions

A set of three generated questions goes by the learner whose request had it
written. The model is asked without an await, so the only place where a second
request comes between is the search that supplements thin contents. Grading
takes all saved questions. `unread` and `overlap` name the two ways in which a
second set can arise.

### Knowledge

A field of an article is the name of the request that wrote it. Each editor's
call may be executed or not, and its answer may be lost either way; editors
know only articles that a list has shown them.

### AnalysisRuns

`pipeline` is where `run_ticket_analysis` or its stream stands, `runRow` and
`results` the rows in Supabase. A write may be lost without an error
(`written`), and a result refers to the row of its run, so it is lost with it.
`ComputeGate` has the code's thresholds in hundredths. Approval makes or
updates a training sample, and an export marks what it read in a second call,
after which it may still fail to answer.

### ChatSearch

`open` is the clarification a session has open, `request` the request under
way with its path through one of the handlers, its option and its filters.
`Results` is what `_normalize_with_metadata` makes of what the model extracted:
a label that its field does not know becomes a question. `ApplyChoice` replaces
the filters of the field asked about. The paths differ in what they analyse and
what they make of it. The tenant's handler has the question analysed when it
answers in one piece, not as a stream, tells the analysis of no option and adds
the filters to its own (`Taken`, `TenantAnswers`, `StreamAnswers`). Requests for
the pipeline have the result recorded before the pipeline is called, which is
given no filters (stage "recorded", `PipelineAnswersChat`); the ticket and the
agent handler record it with their answer. `ChatUsecase` forgets the open
question before the ticket handler or the pipeline has used the answer;
`dropped` names a failure after that, or after the pipeline's analysis took the
place of the question.

### Caches

A caller of the store list stamps it with the time at which its request began
and stores it when the last page is there; ticket fields are stamped when they
are written. `source` counts the changes at Google or Freshdesk, so a version
is a number. Creating or deleting a store invalidates the list after the
answer. `dirty` names the changes a listing under way, a lost answer or someone
else's hand can hide.

### Fallbacks

One call goes to candidates in order: providers in the gateway and models in
the Gemini client, models with attempts in the search client, attempts of an
upload, three sources of the product catalogue. `step` is the request a try is
in (an upload is started and sent; modules and bundles are two tables),
`copies` what the store has kept of an upload, whose answer may be lost.

### EntityLabels

Labels are loaded as a whole for agents and groups, which expire, and one by
one for contacts, which do not. Two of the batch types and two of the on-demand
types stand for all of them. `Label` is `get_label` up to its first request;
`CacheEntity` is the entry, with the eviction of one entry before the new one
is counted. The lock of the mapper is never taken, and no action takes one.

### AdminSync

A route checks that no sync of the tenant is current and schedules a task; the
job becomes current when the task begins (`BeginAdminSync`), so several may be
let in. A job at its end clears the entry of its tenant, whichever job it names.

### Reupload

A version of a document is its key `<<updated_at, id>>`, the key of the pages.
`upload` is where `reupload` stands in which attempt of which batch of
`run_batches`, `resume` the resume point handed on and printed, `stored` what
each store has. `named` is the store of `--store-id`. With `--create-if-missing`
(`createIfMissing`) the first batch takes any error of the request for it to
mean that there is none, and fills a new one (`StartBatch` with `found` false);
its name is only logged, so the next batches, and the next attempts if the
request succeeds, fill the named one (`upload.into`). The operator may start
again with any store (`StartAgain`). `EditDocuments` writes any documents with
one statement, so that keys share a time. `ToSend` cuts a page at the limit of
the batch, while `FetchPage` has already moved `last` to the end of the page.

### ProductList

Rows are ordered by product, so what a page by offset shows follows from the
number of rows before it. Rows are added and deleted between pages; `steady`
names the products whose rows a listing can not miss.

## 3. What is checked

| Run | Instance | Question | Result |
|---|---|---|---|
| `sync_jobs` | 1 tenant, 2 tasks, 2 seconds, one page, one batch, tickets or articles with metadata | do concurrent, cancelled, failing and restarted syncs keep metadata behind the uploads that were tried, and statuses honest? | holds |
| `sync_pages` | 1 task, 3 pages, 3 batches, all options | is a completed sync whole and quiet, and does every sync end? | holds |
| `sync_cancel` | 1 task | is "cancelled" final, as the endpoint says? | violated |
| `ticket_pages` | 3 pages of 3, the last of 2, groups of 2, 2 workers | does the generator implement the stream, and lose only what failed? | holds |
| `requests` | 3 requests, 3 attempts, waits of 2 to 4 s | does a request wait out its own Retry-After, and end? | holds |
| `rate_window` | the same | is nothing sent inside a window any request was given? | violated |
| `sessions` | 3 requests, history of 2 turns, Redis and memory | is a history in order without repeats, a clarification answered once, and a session in memory a `Conversation`? | holds |
| `session_redis` | the same | is a session in Redis a `Conversation`? | violated |
| `proposals` | 2 analyses, 1 client, Redis until it fails | is a proposal found, a status honest and final, and does every analysis end? | holds |
| `agent_stream` | 1 analysis | can what the default stream completes with be found? | violated |
| `services` | the twelve components, each alone (bounds below) | do overlapping requests, lost answers and writes, restarts, expiry and edits between pages leave the promises of each true? | holds |
| `reupload` | 3 documents, pages and batches of 1, 2 batches | does the next batch go on where the last one ended? | violated |

Bounds. Two tasks in two seconds give a shared id, two ids, and two
services of one tenant; a third task adds no new pair. Three pages and three
batches give a first, a middle and a last one, and skipped pages before and
between. Groups of two over three pages give a full group, a group with the
short page and one past the end, and with failures whole failed groups. Three
requests let one wake, one extend the window and one begin. Waits are scaled
from 5..3600 s to 2..4 s; the headers cover none, too small, fitting and too
large. A session has three requests, taken as symmetric: two that overlap and a
third that reads what they left; the history keeps two turns instead of five, so
that the oldest one is dropped. Two analyses and a client give one call that
turns the process to memory while another is anywhere on its path. In these
modules requests and tasks begin any number of times where the code can; no
guard bounds a counter except the number of pages and batches.

The run `services` has, per component: three sessions of two names, one
scenario, one module and one attempt, so that two duplicates are merged one
after the other and a session may be made again meanwhile; one name is padded
and hidden from its owner, the other is a pattern that matches both; three
streams and a history of two turns, so that two overlap, a third asks later and
the oldest turn goes; three learners, two of which may search while the third
begins; two runs and exports of one sample, so that a limit leaves one behind;
one confidence, as nothing here depends on the gate; two callers of the caches,
a time to live of 2 and a clock to 3, so that an entry expires while a listing
lasts; one call of every kind with three attempts, so that there is a first, a
middle and a last one; two tenants and three jobs, so that two of one tenant
overlap and a third follows; two askers of one identifier and a cache of one
item, so that every load may evict; two documents in pages and batches of one,
of which the last may be blank, two batches of two attempts, two writes and one
new store, so that both documents may share a time or not and lie in two stores,
and wiping and creating stores are not asked for together; three products of up
to three rows in pages of two, so that a product fills a page, spans two or
shares one; three editors of one article, so that one updates what another has
deleted. `MaxSessions`, `MaxTries`, `MaxEdits`, `MaxClock`, `MaxChanges`,
`MaxWrites`, `MaxStores` and `MaxRows` are bounds of the instance, and guards
name them; the others are the code's own limits, made small. `reupload` needs
three documents: one sent, one passed over, and one that the next batch begins
with.

Properties worth a second look. `HistoryInOrder` holds on Redis as well, where
turns are lost: what is overwritten disappears but is not reordered.
`AnsweredOnce` is about `ChatUsecase` in memory; `agent_chat` opens
clarifications and never clears one. `OutcomeIsFinal` forgets at a restart what
clients were told: a process that had turned to memory goes back to Redis when
it starts anew, where a finished analysis may still say processing.
`StatusTellsOutcome` is limited to ids issued once: TLC shows that with a shared
second the record of one job reports the other. `MetadataNotAheadOfUpload`
depends on the flush happening only after both coroutines returned; what it does
not say is that a listed document is in the store, because the callback drops
documents and the sync lists them. `CompletedIsQuiet` says nothing of a failed
sync, whose surviving coroutine does go on. `MissingPagesFailed` names the case
in which the generator stops early: a group of which every request failed.

In `services`, most properties name what the code does not promise.
`ProgressSurvives` lets a forced update take back a completed module. It is
about scenarios always, about other levels only while duplicates are merged: a
new hire may be set from learning to not started. It looks at the sessions that
exist, so it would fail at the deletion of a session after an error among its
modules, which does lose them from sight: that one step is excepted, and then
the row must be stored still. People whose names match each other as patterns
count as one. `FullMarks` holds unless requests overlapped in the search or one
could not read the questions; a perfect sheet may have 50 points otherwise.
`NotFoundIsGone` leaves out an edit without a field, which answers 404 to a read
error. `ChosenOptionIsUsed` is about the ticket and the agent handler: the
tenant's ignores the option, and what the pipeline searches for is its own
affair. It leaves out an option given again after a failure, when the session
has forgotten or replaced what it asked. `KeptListHasOwnChanges` leaves out a
change that fell into somebody's listing (`dirty`). `SteadyAreListed` leaves out
listings during which documents were deleted. `StoredBehindCursor` leaves out
what a batch with a limit passed over, which is the disagreement of `reupload`;
without a limit nothing is missing. It says that all is in the named store only
until `--create-if-missing` has created another: from then on the documents
behind the resume point may lie in several. `DuplicatesAreLostAnswers` is about
one call: a later sync uploads the document again in any case.

Fairness. `EverySyncEnds` assumes weak fairness of the steps of the tasks as a
whole: the event loop resumes a coroutine that can run, and every request they
wait for has a timeout (`timeout=30` in the client). Triggers, cancels and
restarts are not fair. `EveryRequestEnds` assumes that time passes, that a sleep
that is over is resumed, and that a request is answered or times out; beginning
a request is not fair. `EveryAnalysisEnds` assumes that Redis and the models
answer or time out (the clients have time limits) and that what awaits them is
resumed; calls, clients, expiry and restarts are not fair. `StreamSpec` includes
that the stream ends or goes on, from the fairness of the generator and of its
consumer.

Deadlock is checked in every run but `services` and `reupload`: the states in
which nothing is left to do have an explicit stuttering action (`Quiescent`,
`Exhausted`). In those two, requests are made once and come to an end, and the
bounds of the instance are reached: a component that has stopped is no fault.

### Disagreements with the code's own words

* `sync_cancel`: cancelling writes a status and closes a client; the task goes
  on, reopens the client and overwrites the status (`sync.py:235`, `312-327`).
* `rate_window`: a request that wakes sets the window to `None` even if another
  request has extended it meanwhile (`freshdesk_client.py:590`).
* `session_redis`: two requests that both read before either saves leave only
  one of the two turns (`session_repository.py:180`), and a request that clears
  a clarification can undo a turn appended since it began.
* `agent_stream`: `run_agent_stream` saves the proposal of a node "resolve"
  (`assist.py:360`); the graph has no such node, so the stream completes with a
  proposal that was not saved.
* `reupload`: with `--limit`, the resume point moves to the end of a page before
  the page is sent (`reupload_with_metadata.py:308`), and the limit ends the
  batch at the first document of the second page (`321`): the next batch begins
  behind documents that were never sent.

Met while modelling, and without a run of their own:

* The upload callback logs failed uploads and skips documents without a store;
  the sync counts them as uploaded and lists them in Supabase
  (`sync.py:254`, `290`, as `Upload` has it).
* An error while the modules of a duplicate session are merged is logged, and
  the session deleted: its progress stays under an id nobody is given
  (`onboarding_repository.py:218`, as `ModulesFail` has it). A name with `%` or
  `_` merges the sessions of other people (`104`, as `Matching` has it).
* After any error answer about the named store, `--create-if-missing` fills a
  new one in the first batch and the named one in the others
  (`reupload_with_metadata.py:104`, `run_sequential_upload.py:42`, `47`).
* The turns of a module chat never reach its prompt
  (`gemini_file_search_client.py:241` looks for keys they do not have), although
  the route says it keeps the history (`curriculum.py:362`).
* `--wipe-first` is not repeated when the first attempt fails, so a store wiped
  in part keeps the rest (`run_sequential_upload.py`, as `Wipes` has it).
* Two first requests for a quiz leave six questions, and learners who were
  handed three are graded on six (`curriculum.py:686`, as `FullMarks` names).
* `close()` of the Freshdesk client forgets a connection pool that another
  request opened while the old one was being shut down (`freshdesk_client.py:92`).
* A refinement is not saved, so the next one starts from the first version
  (`assist.py:792`).

## 4. What is proved

For every value of the constants that meets the named assumptions:

* `SyncJobProofs`: `TypeCorrect`, `MetadataSafe`, `CompletedWhole`,
  `StatusCorrect`, `CompletedQuiet`. The inductive invariant `Inv` says of each
  task where its two coroutines can stand given where the job stands
  (`TaskInv`), that the shared counter is the sum of what the callback has
  returned for (`CountInv`), that what is pending is stored or was dropped by
  the callback, except the page or batches still being uploaded
  (`PendingInv`), that a result names a completed task
  (`ResultInv`) and that a record whose id was issued once has the status of
  its task (`TriggerInv`, `StatusInv`). None of the properties is inductive
  alone: that metadata is safe at the flush needs `PendingInv`, which needs the
  positions of the coroutines. `SyncsGetCloser` and `NoSyncStuck` are the safety
  half of `EverySyncEnds`: see below.
* `TicketPagesProofs`: `TypeCorrect`, `OnlyFailedPagesMissing`, `PoolClaimsOnce`
  and `ImplementsStream`. The invariant ties the worker pools to the cursor, so
  that a page whose pools have returned has a record for each ticket; the
  yielded batches to the pages of the current and earlier groups, in order; and
  every earlier page to the batches or to the failed requests.
  `ImplementsStream` is the safety part of `StreamSpec`, and `StreamGetsOn` with
  `NoneStuck` the safety half of its fairness.
* `FreshdeskRequestsProofs`: `TypeCorrect` and `RetryAfterHonoured`, from the
  invariant that the sleep of a waiting request covers what it was told to
  wait, while no other step shortens that sleep; and `RequestsGetCloser`.
* `SessionChatProofs`: `TypeCorrect`, `HistoriesInOrder`, `MemoryKeepsTurns`,
  `ClarificationsAnsweredOnce`. A history is in order because every copy a
  request holds is (`OrderInv`): numbers grow, so an append to any old copy is
  still in order. In memory, a request that runs holds the record as it is
  stored (`MemoryInv`), which is why its save undoes nothing; `MemoryKeepsTurns`
  is the refinement of `Conversation`. An open clarification has not been
  answered unless its reader is just taking it away (`AnswerInv`).
* `ProposalsProofs`: `TypeCorrect`, `ProcessingMeansRunning`, `AnnouncedFound`,
  `OutcomesFinal`. `StoreInv` ties the record of a call in each store to where
  the call stands: nothing is in memory while Redis is in use or a save is on
  its way to Redis, an outcome is saved once, and a record that still says
  processing after the call is done lies in the store that was given up.
  `ToldInv` adds that a client that knows an outcome can not read anything else.
  `AnalysesGetNearer` and `NoAnalysisStuck` are about the end of an analysis.
* `OnboardingProofs`: `LearningProgressSurvives`, from the invariant
  `TidyIsSound`: the session that is kept and its duplicates exist and are of
  one group of users (`OneGroup`; a group is closed under what the pattern of a
  request matches, by the lemma `GroupsClosed`), scenarios are moved before
  modules, and the modules of a duplicate, unless moving them failed, before it
  is deleted. So what a deletion takes out of reach has reached the kept session
  (that there is a newest one is well-foundedness). `QuizFullMarks`, from the
  invariant that without an overlap there is one set at most, and a lemma about
  percentages; `KnowledgeNotFoundIsGone`, from the invariant that an article an
  editor has been shown is there or deleted; and the four type invariants. That
  of `MentorChat` needs that a stream under way holds a list that exists.
  `MentorLatestTurns` and `MentorKeepsContext` rest on `TurnsInv`: the two
  conversations share no list (`ListsApart`), and every list that is cached or
  held by a stream under way has its turns in the order of completion
  (`ListsInOrder`), so that whichever of them a slow stream puts back is in
  order too. A statement about the cached list alone is not inductive.
* `ServicesProofs`: `CachesListIsRecent`, from the invariant that every stamp is
  at least as early as the reading it stands for (`StampsAreEarly`);
  `CachesListHasOwnChanges` (`ReadIsCurrent`); `FallbacksDuplicatesLost`, from
  the invariants that a candidate is tried no more often than it may be
  (`WithinTries`) and that every copy stored before the current try is one whose
  answer was lost (`CopiesWereLost`); `FallbacksFailoverEarned`, where the
  attempt of a call is counted against the tries its candidate has had
  (`TriesFollow`); `LabelsKnownIsLabelled`; `ReuploadStoredBehindCursor`, where
  all that is up to the cursor of a batch is in some store, passed over, blank,
  or in the page that is being sent, an edit gives a document a key after every
  cursor (`CursorsArePast`, `CursorIsCovered`), and the store that was named is
  the only one unless stores may be created (`StoresShape`);
  `AdminRefusesRightly`, from the invariant that a current job is running;
  `AnalysisRowsTellTheOutcome`, as a row follows the stage of its run
  (`RowFollowsStage`); `AnalysisExportedOnce`; `SearchUsesChosenOption`, where
  the question asked last is open in the session or in the request under way,
  but for a pipeline's request that has recorded its own analysis first
  (`QuestionIsOpen`, `Replacing`), and from the analysis on the filters on that
  field are the option (`OptionIsFilter`); and `ListSteadyAreListed`. That a
  product is listed at the end is not inductive; `SteadyAreAhead` is: while
  pages are read, a product that had rows from the beginning was seen already,
  or its last row lies behind the offset. Documents that are added only move
  rows on, so the sum of the rows before a product never shrinks below an offset
  it has passed. Each with its type invariant.
* The composition, also in `ServicesProofs`: `ServicesCompose` says that a
  behaviour of `MCServices` is one of each of the twelve components, in its turn
  or waiting (`PartsStep`: a step of one leaves the variables of the others
  alone); `ServicesTypeCorrect` and `ServicesSafe` conclude from the theorems
  about the components all that the run `services` checks.
* `Sums`: `SumCounts`. A fold that sums numbers over a finite set is the number
  of pairs it counts, by a smallest set for which it would not be; from this,
  that sums grow with their terms and split over disjoint sets.
  `LearningTriesBacked` of `OnboardingProofs` needs it: merging two sessions
  moves tries from one row to the other before the duplicate goes, and the sum
  over the sessions of a group stays below the attempts recorded.

Assumptions: the options are records of Booleans; pages, batches, page size,
pool sizes and attempts are natural numbers (positive where the code needs it);
the last page is not larger than a page; the fallback wait lies between the
bounds of the client; there is a tenant, and an identifier; the documents and
the products are finitely many; fields with labels have other names than the
other filters; patterns match names, and what marks an id not given out is no
name; the remaining limits are natural numbers, positive where the code needs
it. TLC evaluates them in the runs.

Liveness under fairness cannot be proved here, so `EverySyncEnds`,
`EveryRequestEnds`, `EveryAnalysisEnds` and the fairness of `StreamSpec` are
only model-checked. What they rest on besides fairness is proved, for every
value of the constants: a rank that no step of anybody raises and that each step
of the actor itself lowers, and that until the end one of the actor's own guards
holds (of a request by its type: it is in flight, or its sleep shrinks to 0).

| Liveness | Rank | Theorems |
|---|---|---|
| `EverySyncEnds` | `Work`: steps before the job and its two coroutines, a number bounded by pages and batches | `SyncsGetCloser`; `NoSyncStuck`, from the invariant that while the job gathers both coroutines exist (`Gathers`) |
| `EveryRequestEnds` | attempts left, then the seconds and steps of the pause (`Pause`): a window that others extend does not lengthen a sleep under way | `RequestsGetCloser` |
| `EveryAnalysisEnds` | `StepsLeft`: steps before a call, and one for an analysis that runs | `AnalysesGetNearer`; `NoAnalysisStuck`, from the invariant that the graph passes its first node only with an outcome (`HasOutcome`) |
| `StreamSpec` | the group, then the phase, then the pages asked for, the tickets the workers are at, or the pages to yield | `StreamGetsOn`, from the invariant that only pages with tickets have workers (`PoolsHaveTickets`); `NoneStuck` |

That a rank that cannot rise reaches its end under weak fairness, and that the
guards named are those of the actions (`ENABLED`), is the step left to TLC.

## 5. What is not modelled

* Text processing (normaliser, transformer, denoiser, guardrails, the repair of
  JSON, the post-processing of field proposals in `llm_adapter.py`) and
  authentication have no state or concurrency of their own. Where their failure
  matters it is an outcome of the action that calls them.
* The scheduler: its only caller passes `add_job` a keyword it does not take, so
  the program never adds a job.
* `assist_service.py` is used by tests only, and `upsert_training_sample` is
  called by nothing. Sync and ingestion return lists of documents only without
  an upload callback, and the API always gives one. The entity resolver is
  reached only with search terms that no analysis ever sets.
* Feedback events and quality logs are written and never read here.
* The cache of Freshdesk metadata in memory and Redis: `ChatSearch` takes the
  labels that are known as given while a question is open. The tables of field
  choices of the entity mapper are loaded once and then only read.
* The repository of onboarding data in memory, for a program without Supabase.
* Events of streams that change nothing, wording, prompts, rankings, statistics
  and read-only queries. The cross-tenant checks of the status endpoints are
  guards without state. The sync of the admin API is a placeholder that sleeps,
  and so modelled; clearing its caches is a stub.
* The document store, the models, Freshdesk, Redis and Supabase are external:
  they answer, fail, or have their answer lost.
* `supabase/migrations` holds table definitions and seed data, the tests and
  `schema_validation.py` no behaviour of the service.

## 6. Plan

Done: the core (sync, ingestion, client, sessions, proposals), then the
analysis of tickets, learning, caches and stores, chat search, admin and the
scripts, with their invariants proved. What is left, the most useful first:

1. The cache of Freshdesk metadata beside `ChatSearch`: labels reloaded between
   a question and its answer may no longer know the option.
2. Progress of the components of `MCServices` under the fairness of the event
   loop: that a consolidation, a batch run and a call of `Fallbacks` end.
