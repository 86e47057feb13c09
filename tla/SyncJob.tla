------------------------------- MODULE SyncJob -------------------------------
(***************************************************************************)
(* The synchronisation API of app/api/routes/sync.py and the pipeline it   *)
(* runs in the background, app/services/sync_service.py.                   *)
(*                                                                         *)
(* POST /trigger creates a job record and a SyncService and schedules a    *)
(* background task, run_sync_job.  The task runs SyncService.sync, which   *)
(* starts a ticket coroutine and an article coroutine on the same service  *)
(* and gathers them; DELETE /cancel marks the record and closes the        *)
(* service's client while the task is running.  Every action is the code   *)
(* between two suspension points of one coroutine of the event loop.       *)
(*                                                                         *)
(* A page of tickets and an upload batch of articles are each one document *)
(* <<tenant, kind, n>>: the upload callback takes them whole and always    *)
(* returns.  A document of a kind without a store is skipped and a failed  *)
(* upload is swallowed, both logged only, so the model records which of    *)
(* them were stored and which were dropped.                                *)
(***************************************************************************)
EXTENDS Naturals, FiniteSets

CONSTANTS
  Tenants,    \* tenant ids of the X-Tenant-ID header
  Tasks,      \* background tasks: one per POST /trigger, with its own SyncService
  Options,    \* SyncOptions the client sends, with "metadata": Supabase configured,
              \* and "stores": the kinds of document a store was named for
  NPages,     \* pages of tickets the help desk holds
  NBatches,   \* upload batches of articles, at most
  Seconds,    \* the seconds of wall clock in which jobs are triggered
  None        \* no task, no job

\* sync_{tenant_id}_{int(timestamp)}: one id per tenant and second
JobIds == Tenants \X Seconds

ASSUME OptionsAssumption ==
  Options \subseteq [tickets : BOOLEAN, articles : BOOLEAN, metadata : BOOLEAN,
                     stores : SUBSET {"ticket", "article"}]
ASSUME BoundsAssumption == NPages \in Nat /\ NBatches \in Nat
ASSUME NoneAssumption == None \notin Tasks \union JobIds \union Options

VARIABLES
  jobs,       \* SyncJobStore._jobs
  services,   \* SyncJobStore._services
  pc,         \* where run_sync_job of a task stands
  jobOf,      \* the job id a task was scheduled with
  opts,       \* the options it was scheduled with
  outcome,    \* how its sync() ended
  tpc, tpage, \* run_ticket_sync: where it stands, the last page it was given
  apc, abatch, atotal, \* run_article_sync: where it stands, batches uploaded and to upload
  phase,      \* SyncProgress.phase
  tickets,    \* SyncProgress.tickets_processed, in pages
  uploaded,   \* SyncProgress.documents_uploaded
  pending,    \* _ticket_metadata_records and _article_metadata_records
  client,     \* is the service's connection pool open?
  meta,       \* ticket_metadata and article_metadata in Supabase
  stored,     \* history: documents that are in their store
  dropped,    \* history: documents an upload callback skipped or failed to upload
  triggers    \* history: what created each job record since the last restart

svcVars  == <<tpc, tpage, apc, abatch, atotal, phase, tickets, uploaded, pending, client>>
taskVars == <<pc, jobOf, opts, outcome>>
storeVars == <<jobs, services, triggers>>
uploadVars == <<stored, dropped>>
vars == <<storeVars, taskVars, svcVars, meta, uploadVars>>

Status == {"none", "pending", "running", "completed", "failed", "cancelled"}
JobRecord == [status : Status, result : Tasks \union {None}, error : BOOLEAN]
NewJob == [status |-> "pending", result |-> None, error |-> FALSE]
NoJob == [status |-> "none", result |-> None, error |-> FALSE]

Docs == Tenants \X {"ticket", "article"} \X (1 .. NPages + NBatches)
TicketDoc(k, n)  == <<jobOf[k][1], "ticket", n>>
ArticleDoc(k, n) == <<jobOf[k][1], "article", n>>

Live == {"scheduled", "initializing", "gathering", "closing"}
SubState == {"off", "fetch", "upload", "done", "failed"}

TypeOK ==
  /\ jobs \in [JobIds -> JobRecord]
  /\ services \in [JobIds -> Tasks \union {None}]
  /\ triggers \in [JobIds -> SUBSET (Tasks \union {None})]
  /\ pc \in [Tasks -> Live \union {"free", "ended", "lost"}]
  /\ jobOf \in [Tasks -> JobIds \union {None}]
  /\ opts \in [Tasks -> Options \union {None}]
  /\ outcome \in [Tasks -> {"none", "completed", "failed"}]
  /\ tpc \in [Tasks -> SubState]
  /\ tpage \in [Tasks -> 0 .. NPages]
  /\ apc \in [Tasks -> SubState]
  /\ atotal \in [Tasks -> 0 .. NBatches]
  /\ abatch \in [Tasks -> 0 .. NBatches]
  /\ phase \in [Tasks -> {"idle", "initializing", "syncing", "tickets", "articles",
                          "uploading", "completed", "failed"}]
  /\ tickets \in [Tasks -> 0 .. NPages]
  /\ uploaded \in [Tasks -> Nat]
  /\ pending \in [Tasks -> SUBSET Docs]
  /\ client \in [Tasks -> {"open", "closed"}]
  /\ meta \subseteq Docs
  /\ stored \subseteq Docs
  /\ dropped \subseteq Docs

\* the same value for the SyncService of every task
Each(v) == [k \in Tasks |-> v]

Init ==
  /\ jobs = [j \in JobIds |-> NoJob]
  /\ services = [j \in JobIds |-> None]
  /\ triggers = [j \in JobIds |-> {}]
  /\ pc = Each("free")
  /\ jobOf = Each(None)
  /\ opts = Each(None)
  /\ outcome = Each("none")
  /\ tpc = Each("off")
  /\ tpage = Each(0)
  /\ apc = Each("off")
  /\ abatch = Each(0)
  /\ atotal = Each(0)
  /\ phase = Each("idle")
  /\ tickets = Each(0)
  /\ uploaded = Each(0)
  /\ pending = Each({})
  /\ client = Each("closed")
  /\ meta = {}
  /\ stored = {}
  /\ dropped = {}

-----------------------------------------------------------------------------
(* The API *)

\* SyncJobStore.update_job: a no-op on an id the store does not hold
Updated(j, st, res, err) ==
  IF jobs[j].status = "none" THEN jobs
  ELSE [jobs EXCEPT ![j] = [status |-> st,
                            result |-> IF res = None THEN @.result ELSE res,
                            error |-> @.error \/ err]]

\* POST /trigger: create_job, a new SyncService, set_service, add_task.
\* Nothing looks for a job of the tenant that is still running.
TriggerSync(k, t, second, o) ==
  /\ pc[k] = "free"
  /\ LET j == <<t, second>> IN
       /\ jobs' = [jobs EXCEPT ![j] = NewJob]
       /\ services' = [services EXCEPT ![j] = k]
       /\ triggers' = [triggers EXCEPT ![j] = @ \union {k}]
       /\ jobOf' = [jobOf EXCEPT ![k] = j]
  /\ opts' = [opts EXCEPT ![k] = o]
  /\ pc' = [pc EXCEPT ![k] = "scheduled"]
  /\ UNCHANGED <<outcome, svcVars, meta, uploadVars>>

\* POST /trigger when building the metadata service raises: the record was
\* already created and no task will ever move it.
TriggerAborted(t, second) ==
  /\ LET j == <<t, second>> IN
       /\ jobs' = [jobs EXCEPT ![j] = NewJob]
       /\ triggers' = [triggers EXCEPT ![j] = @ \union {None}]
  /\ UNCHANGED <<services, taskVars, svcVars, meta, uploadVars>>

Cancellable_AnyJob(j) == jobs[j].status # "none"
Cancellable(j) == jobs[j].status \in {"pending", "running"}

\* DELETE /cancel/{job_id}: marks the record and closes the client; the task
\* is neither told nor stopped.
CancelSync(j) ==
  /\ Cancellable(j)
  /\ jobs' = Updated(j, "cancelled", None, FALSE)
  /\ client' = IF services[j] = None THEN client
               ELSE [client EXCEPT ![services[j]] = "closed"]
  /\ UNCHANGED <<services, triggers, taskVars, tpc, tpage, apc, abatch, atotal,
                 phase, tickets, uploaded, pending, meta, uploadVars>>

-----------------------------------------------------------------------------
(* run_sync_job and SyncService.sync *)

\* update_job(status="running") and the start of sync() up to its first await
RunSyncJob(k) ==
  /\ pc[k] = "scheduled"
  /\ jobs' = Updated(jobOf[k], "running", None, FALSE)
  /\ pc' = [pc EXCEPT ![k] = "initializing"]
  /\ phase' = [phase EXCEPT ![k] = "initializing"]
  /\ client' = [client EXCEPT ![k] = "open"]
  /\ UNCHANGED <<services, triggers, jobOf, opts, outcome, tpc, tpage, apc, abatch,
                 atotal, tickets, uploaded, pending, meta, uploadVars>>

\* initialize() returned: both coroutines are started and run to their first
\* await, the ticket one first, each writing the shared phase.
StartGather(k) ==
  /\ pc[k] = "initializing"
  /\ pc' = [pc EXCEPT ![k] = "gathering"]
  /\ tpc' = [tpc EXCEPT ![k] = IF opts[k].tickets THEN "fetch" ELSE "done"]
  /\ apc' = [apc EXCEPT ![k] = IF opts[k].articles THEN "fetch" ELSE "done"]
  /\ phase' = [phase EXCEPT ![k] = IF opts[k].articles THEN "articles"
                                   ELSE IF opts[k].tickets THEN "tickets" ELSE "syncing"]
  /\ client' = [client EXCEPT ![k] = "open"]
  /\ UNCHANGED <<storeVars, jobOf, opts, outcome, tpage, abatch, atotal, tickets,
                 uploaded, pending, meta, uploadVars>>

\* What leaving sync() with an exception does: its except branch and
\* run_sync_job's, with no await between them.
SyncRaises(k) ==
  /\ pc' = [pc EXCEPT ![k] = "closing"]
  /\ outcome' = [outcome EXCEPT ![k] = "failed"]
  /\ phase' = [phase EXCEPT ![k] = "failed"]
  /\ jobs' = Updated(jobOf[k], "failed", None, TRUE)
  /\ UNCHANGED <<services, triggers, jobOf, opts, tpc, tpage, apc, abatch, atotal,
                 tickets, uploaded, pending, client, meta, uploadVars>>

InitializeFails(k) ==
  /\ pc[k] = "initializing"
  /\ SyncRaises(k)

SomeFailed_TicketsOnly(k) == tpc[k] = "failed"
SomeFailed(k) == "failed" \in {tpc[k], apc[k]}

BothReturned_FirstOne(k) == "done" \in {tpc[k], apc[k]}
BothReturned(k) == tpc[k] = "done" /\ apc[k] = "done"

\* asyncio.gather without return_exceptions: the first failure is raised and
\* the other coroutine is left running.
GatherRaises(k) ==
  /\ pc[k] = "gathering"
  /\ SomeFailed(k)
  /\ SyncRaises(k)

\* What upsert_tickets and upsert_articles may save: a batch that fails is
\* counted and dropped, and all of them are if the tenant has no UUID.
UpsertTickets(records) == SUBSET {d \in records : d[2] = "ticket"}
UpsertArticles(records) == SUBSET {d \in records : d[2] = "article"}

\* _save_metadata, if there is a metadata service: the tickets, then the
\* articles; the records are forgotten, saved or not.
SaveMetadata(k) ==
  IF opts[k].metadata
  THEN /\ \E saved \in UpsertTickets(pending[k]), others \in UpsertArticles(pending[k]) :
            meta' = meta \union saved \union others
       /\ pending' = [pending EXCEPT ![k] = {}]
  ELSE UNCHANGED <<meta, pending>>

\* Both coroutines returned.  The metadata service blocks the event loop, so
\* the flush, the phase and the record change in one step.
SyncReturns(k) ==
  /\ pc[k] = "gathering"
  /\ BothReturned(k)
  /\ SaveMetadata(k)
  /\ pc' = [pc EXCEPT ![k] = "closing"]
  /\ outcome' = [outcome EXCEPT ![k] = "completed"]
  /\ phase' = [phase EXCEPT ![k] = "completed"]
  /\ jobs' = Updated(jobOf[k], "completed", k, FALSE)
  /\ UNCHANGED <<services, triggers, jobOf, opts, tpc, tpage, apc, abatch, atotal,
                 tickets, uploaded, client, uploadVars>>

\* finally: await sync_service.close()
CloseService(k) ==
  /\ pc[k] = "closing"
  /\ pc' = [pc EXCEPT ![k] = "ended"]
  /\ client' = [client EXCEPT ![k] = "closed"]
  /\ UNCHANGED <<storeVars, jobOf, opts, outcome, tpc, tpage, apc, abatch, atotal,
                 phase, tickets, uploaded, pending, meta, uploadVars>>

-----------------------------------------------------------------------------
(* run_ticket_sync: one batch per page the ingestion generator yields *)

\* The metadata records of a page or of articles, collected while they are
\* normalised, if there is a metadata service
Collected(k, docs) ==
  IF opts[k].metadata THEN [pending EXCEPT ![k] = @ \union docs] ELSE pending

\* upload_to_gemini, the upload callback: it uploads the document if its kind
\* has a store, and returns whether that succeeded or not.
Upload(k, doc) ==
  \/ /\ doc[2] \in opts[k].stores
     /\ stored' = stored \union {doc}
     /\ UNCHANGED dropped
  \/ /\ dropped' = dropped \union {doc}
     /\ UNCHANGED stored

\* documents_uploaded += len(batch), by whichever coroutine had it uploaded
CountUploaded_OwnOnly(k) == [uploaded EXCEPT ![k] = tickets[k] + 1]
CountUploaded(k) == [uploaded EXCEPT ![k] = @ + 1]

\* The next page the generator yields; a page in between whose fetch failed
\* was skipped.  Its records are collected before the upload starts.
TicketPage(k) ==
  /\ tpc[k] = "fetch"
  /\ \E n \in tpage[k] + 1 .. NPages :
       /\ tpage' = [tpage EXCEPT ![k] = n]
       /\ pending' = Collected(k, {TicketDoc(k, n)})
  /\ tpc' = [tpc EXCEPT ![k] = "upload"]
  /\ phase' = [phase EXCEPT ![k] = "uploading"]
  /\ client' = [client EXCEPT ![k] = "open"]
  /\ UNCHANGED <<storeVars, taskVars, apc, abatch, atotal, tickets, uploaded, meta,
                 uploadVars>>

TicketUpload(k) ==
  /\ tpc[k] = "upload"
  /\ tpc' = [tpc EXCEPT ![k] = "fetch"]
  /\ Upload(k, TicketDoc(k, tpage[k]))
  /\ uploaded' = CountUploaded(k)
  /\ tickets' = [tickets EXCEPT ![k] = @ + 1]
  /\ UNCHANGED <<storeVars, taskVars, tpage, apc, abatch, atotal, phase, pending,
                 client, meta>>

\* The generator is exhausted, after a last request that may have reopened
\* the connection pool.
TicketEnd(k) ==
  /\ tpc[k] = "fetch"
  /\ tpc' = [tpc EXCEPT ![k] = "done"]
  /\ \E c \in {client[k], "open"} : client' = [client EXCEPT ![k] = c]
  /\ UNCHANGED <<storeVars, taskVars, tpage, apc, abatch, atotal, phase, tickets,
                 uploaded, pending, meta, uploadVars>>

\* Normalising or transforming a page raises, before or after records of it
\* were collected.
TicketFail(k) ==
  /\ tpc[k] = "fetch"
  /\ tpc' = [tpc EXCEPT ![k] = "failed"]
  /\ \E docs \in {{}} \union {{TicketDoc(k, n)} : n \in tpage[k] + 1 .. NPages} :
       pending' = Collected(k, docs)
  /\ client' = [client EXCEPT ![k] = "open"]
  /\ UNCHANGED <<storeVars, taskVars, tpage, apc, abatch, atotal, phase, tickets,
                 uploaded, meta, uploadVars>>

-----------------------------------------------------------------------------
(* run_article_sync: everything is fetched first, then uploaded in batches *)

ArticlesFetched(k) ==
  /\ apc[k] = "fetch"
  /\ \E n \in 0 .. NBatches :
       /\ atotal' = [atotal EXCEPT ![k] = n]
       /\ apc' = [apc EXCEPT ![k] = IF n = 0 THEN "done" ELSE "upload"]
       /\ phase' = IF n = 0 THEN phase ELSE [phase EXCEPT ![k] = "uploading"]
       /\ pending' = Collected(k, {ArticleDoc(k, i) : i \in 1 .. n})
  /\ client' = [client EXCEPT ![k] = "open"]
  /\ UNCHANGED <<storeVars, taskVars, tpc, tpage, abatch, tickets, uploaded, meta,
                 uploadVars>>

LastBatch_OffByOne(k) == abatch[k] = atotal[k]
LastBatch(k) == abatch[k] + 1 = atotal[k]

ArticleUpload(k) ==
  /\ apc[k] = "upload"
  /\ abatch' = [abatch EXCEPT ![k] = @ + 1]
  /\ Upload(k, ArticleDoc(k, abatch[k] + 1))
  /\ uploaded' = CountUploaded(k)
  /\ apc' = [apc EXCEPT ![k] = IF LastBatch(k) THEN "done" ELSE "upload"]
  /\ UNCHANGED <<storeVars, taskVars, tpc, tpage, atotal, phase, tickets, pending,
                 client, meta>>

\* GET /solutions/categories fails for good, or an article does not normalise
\* after the records of some were collected.
ArticleFail(k) ==
  /\ apc[k] = "fetch"
  /\ apc' = [apc EXCEPT ![k] = "failed"]
  /\ \E n \in 0 .. NBatches :
       pending' = Collected(k, {ArticleDoc(k, i) : i \in 1 .. n})
  /\ client' = [client EXCEPT ![k] = "open"]
  /\ UNCHANGED <<storeVars, taskVars, tpc, tpage, abatch, atotal, phase, tickets,
                 uploaded, meta, uploadVars>>

-----------------------------------------------------------------------------
\* The process restarts: the job store, the services and every coroutine are
\* gone; Supabase and the document store stay.
Restart ==
  /\ jobs' = [j \in JobIds |-> NoJob]
  /\ services' = [j \in JobIds |-> None]
  /\ triggers' = [j \in JobIds |-> {}]
  /\ pc' = [k \in Tasks |-> IF pc[k] = "free" THEN "free" ELSE "lost"]
  /\ jobOf' = Each(None)
  /\ opts' = Each(None)
  /\ outcome' = Each("none")
  /\ tpc' = Each("off")
  /\ tpage' = Each(0)
  /\ apc' = Each("off")
  /\ abatch' = Each(0)
  /\ atotal' = Each(0)
  /\ phase' = Each("idle")
  /\ tickets' = Each(0)
  /\ uploaded' = Each(0)
  /\ pending' = Each({})
  /\ client' = Each("closed")
  /\ UNCHANGED <<meta, uploadVars>>

\* Every task was used and none is running: nothing is left to do.
Quiescent ==
  /\ \A k \in Tasks : pc[k] \in {"ended", "lost"}
  /\ UNCHANGED vars

TicketStep(k) == TicketPage(k) \/ TicketUpload(k) \/ TicketEnd(k) \/ TicketFail(k)
ArticleStep(k) == ArticlesFetched(k) \/ ArticleUpload(k) \/ ArticleFail(k)
SyncStep(k) ==
  \/ RunSyncJob(k) \/ StartGather(k) \/ InitializeFails(k)
  \/ GatherRaises(k) \/ SyncReturns(k) \/ CloseService(k)

TaskStep(k) == SyncStep(k) \/ TicketStep(k) \/ ArticleStep(k)

Next ==
  \/ \E k \in Tasks, t \in Tenants, s \in Seconds, o \in Options : TriggerSync(k, t, s, o)
  \/ \E t \in Tenants, s \in Seconds : TriggerAborted(t, s)
  \/ \E j \in JobIds : CancelSync(j)
  \/ \E k \in Tasks : TaskStep(k)
  \/ Restart
  \/ Quiescent

\* The event loop goes on resuming the coroutines of a task while one of them
\* can run: every request they await has a timeout.
Fairness == WF_vars(\E k \in Tasks : TaskStep(k))

Spec == Init /\ [][Next]_vars /\ Fairness

-----------------------------------------------------------------------------
(* Properties *)

\* A sync that ended well is whole: both coroutines returned, each batch they
\* fetched went to the upload callback and was counted once in the progress they
\* share, a record carries its result only then, and once its task ended no
\* straggler has reopened the connection pool.
CompletedSyncIsWhole ==
  /\ \A k \in Tasks : outcome[k] = "completed" =>
       /\ tpc[k] = "done" /\ apc[k] = "done"
       /\ abatch[k] = atotal[k]
       /\ uploaded[k] = tickets[k] + atotal[k]
       /\ pc[k] = "ended" => client[k] = "closed"
  /\ \A j \in JobIds : jobs[j].result # None => outcome[jobs[j].result] = "completed"

\* Supabase never lists a ticket or article before an upload of it came to its
\* end, whatever fails, restarts or is cancelled between the two: each one
\* listed is in its document store, or a sync logged that it skipped it (no
\* store for its kind) or failed to upload it.  The records do not tell the
\* two apart, and neither does documents_uploaded, which counts both.
MetadataNotAheadOfUpload == meta \subseteq stored \union dropped

\* As long as a job id was issued once, GET /status tells how its sync stands:
\* "completed" and "failed" exactly when it ended so, and the other states
\* only before it ended.  A cancelled job is one whose task is still at work.
StatusTellsOutcome ==
  \A j \in JobIds, k \in Tasks : triggers[j] = {k} =>
    /\ services[j] = k
    /\ jobs[j].status = "completed" <=> outcome[k] = "completed"
    /\ jobs[j].status = "failed" <=> outcome[k] = "failed"
    /\ jobs[j].status = "pending" => pc[k] = "scheduled"
    /\ jobs[j].status = "running" => pc[k] \in {"initializing", "gathering"}
    /\ jobs[j].status = "cancelled" => pc[k] \in {"scheduled", "initializing", "gathering"}
    /\ outcome[k] = "completed" => phase[k] = "completed"

\* After a sync returned its result nothing of it moves any more: no upload,
\* no metadata, no change of the progress the status endpoint reads.  (After a
\* failed one the surviving coroutine goes on; a restart forgets both.)
CompletedIsQuiet ==
  [][\A k \in Tasks : outcome[k] = "completed" /\ outcome'[k] = "completed" =>
       UNCHANGED <<tpc[k], apc[k], abatch[k], phase[k], tickets[k], uploaded[k], pending[k]>>
    ]_vars

\* Every triggered sync ends, unless the process restarts under it, and so do
\* both of its coroutines.
EverySyncEnds ==
  \A k \in Tasks : pc[k] = "scheduled" ~>
    /\ pc[k] \in {"ended", "lost"}
    /\ tpc[k] \notin {"fetch", "upload"} /\ apc[k] \notin {"fetch", "upload"}

\* What DELETE /cancel promises, "cancels the running sync job": a cancelled
\* job does not go on to run, complete or fail.  (Its id may be issued again,
\* or be forgotten.)
CancelIsFinal ==
  [][\A j \in JobIds :
       jobs[j].status = "cancelled" =>
         jobs'[j].status \in {"cancelled", "pending", "none"}]_vars
=============================================================================
