---------------------------- MODULE SyncJobProofs ----------------------------
(***************************************************************************)
(* Proofs about SyncJob for any tenants, tasks, pages and batches.         *)
(*                                                                         *)
(* Inv is inductive: InitInv and the *Step lemmas, one per conjunct, each  *)
(* with one step per action, give InvStep; Invariance is []Inv, and the    *)
(* theorems after it are the conjuncts and consequences of Inv that the    *)
(* runs check on small instances.                                          *)
(***************************************************************************)
EXTENDS SyncJob, TLAPS

\* What ties the bookkeeping of one task together: it has a job and options
\* from its trigger on, its coroutines exist only between gather and the end,
\* and only a whole sync has the outcome "completed".
TaskInv(k) ==
  /\ pc[k] \in Live \union {"ended"} => jobOf[k] \in JobIds /\ opts[k] \in Options
  /\ pc[k] \in {"free", "lost", "scheduled", "initializing"} =>
       /\ tpc[k] = "off" /\ apc[k] = "off"
       /\ outcome[k] = "none"
  /\ pc[k] = "gathering" => outcome[k] = "none"
  /\ outcome[k] = "completed" => tpc[k] = "done" /\ apc[k] = "done"
  /\ outcome[k] = "completed" /\ pc[k] = "ended" => client[k] = "closed"

\* The counters of one service: what each coroutine uploaded adds up, and the
\* article coroutine stops exactly at its last batch.
CountInv(k) ==
  /\ uploaded[k] = tickets[k] + abatch[k]
  /\ tickets[k] <= tpage[k]
  /\ tpc[k] = "upload" => tickets[k] < tpage[k]
  /\ abatch[k] <= atotal[k]
  /\ apc[k] = "upload" => abatch[k] < atotal[k]
  /\ apc[k] \in {"off", "fetch", "failed"} => abatch[k] = 0 /\ atotal[k] = 0
  /\ apc[k] = "done" => abatch[k] = atotal[k]

\* Unless a coroutine of the task failed, metadata waits in memory only for
\* documents that were stored or dropped, or are about to be.
PendingInv(k) ==
  \A d \in pending[k] :
    \/ d \in stored \union dropped \/ SomeFailed(k)
    \/ tpc[k] = "upload" /\ d = TicketDoc(k, tpage[k])
    \/ apc[k] = "upload" /\ \E i \in abatch[k] + 1 .. atotal[k] : d = ArticleDoc(k, i)

ResultInv == \A j \in JobIds : jobs[j].result # None => outcome[jobs[j].result] = "completed"

\* The history of triggers agrees with the store and the tasks: a job id has a
\* record exactly when it was issued, each task is among the triggers of its
\* job, and an id issued once belongs to a task that really started.
TriggerInv(j) ==
  /\ jobs[j].status = "none" <=> triggers[j] = {}
  /\ \A k \in Tasks : pc[k] \in Live \union {"ended"} /\ jobOf[k] = j => k \in triggers[j]
  /\ \A k \in Tasks : triggers[j] = {k} => jobOf[k] = j /\ pc[k] \in Live \union {"ended"}

\* StatusTellsOutcome, one job id and task at a time
StatusInv(j, k) ==
  /\ services[j] = k
  /\ jobs[j].status = "completed" <=> outcome[k] = "completed"
  /\ jobs[j].status = "failed" <=> outcome[k] = "failed"
  /\ jobs[j].status = "pending" => pc[k] = "scheduled"
  /\ jobs[j].status = "running" => pc[k] \in {"initializing", "gathering"}
  /\ jobs[j].status = "cancelled" => pc[k] \in {"scheduled", "initializing", "gathering"}
  /\ outcome[k] = "completed" => phase[k] = "completed"

Inv ==
  /\ TypeOK
  /\ \A k \in Tasks : TaskInv(k) /\ CountInv(k) /\ PendingInv(k)
  /\ ResultInv
  /\ MetadataNotAheadOfUpload
  /\ \A j \in JobIds : TriggerInv(j)
  /\ \A j \in JobIds, k \in Tasks : triggers[j] = {k} => StatusInv(j, k)

\* what CompletedIsQuiet says of one task in a step
QuietTask(k) ==
  UNCHANGED <<tpc[k], apc[k], abatch[k], phase[k], tickets[k], uploaded[k], pending[k]>>

USE DEF SomeFailed, Live, SubState, Status, svcVars, taskVars, storeVars, uploadVars

LEMMA DocsOfJob ==
  ASSUME NEW k \in Tasks, jobOf[k] \in JobIds
  PROVE  /\ \A n \in 1 .. NPages : TicketDoc(k, n) \in Docs
         /\ \A n \in 1 .. NBatches : ArticleDoc(k, n) \in Docs
<1>1. jobOf[k][1] \in Tenants
  BY DEF JobIds
<1>. QED
  BY <1>1, BoundsAssumption DEF TicketDoc, ArticleDoc, Docs

LEMMA UpdatedType ==
  ASSUME jobs \in [JobIds -> JobRecord], NEW j, NEW st \in Status,
         NEW res \in Tasks \union {None}, NEW err \in BOOLEAN
  PROVE  Updated(j, st, res, err) \in [JobIds -> JobRecord]
<1>. DEFINE r == [status |-> st, result |-> IF res = None THEN jobs[j].result ELSE res,
                  error |-> jobs[j].error \/ err]
<1>1. CASE jobs[j].status = "none"
  BY <1>1 DEF Updated
<1>2. CASE jobs[j].status # "none" /\ j \in JobIds
  <2>1. jobs[j] \in JobRecord
    BY <1>2
  <2>2. r \in JobRecord
    BY <2>1 DEF JobRecord
  <2>3. Updated(j, st, res, err) = [jobs EXCEPT ![j] = r]
    BY <1>2 DEF Updated
  <2>. QED
    BY <2>2, <2>3
<1>3. CASE jobs[j].status # "none" /\ j \notin JobIds
  <2>1. Updated(j, st, res, err) = [jobs EXCEPT ![j] = r]
    BY <1>3 DEF Updated
  <2>. QED
    BY <1>3, <2>1
<1>. QED
  BY <1>1, <1>2, <1>3

LEMMA UpdatedResult ==
  ASSUME jobs \in [JobIds -> JobRecord], NEW j, NEW st \in Status,
         NEW res \in Tasks \union {None}, NEW err \in BOOLEAN, NEW i \in JobIds
  PROVE  Updated(j, st, res, err)[i].result \in {jobs[i].result, res}
<1>1. CASE i = j
  BY <1>1 DEF Updated
<1>2. CASE i # j
  BY <1>2 DEF Updated
<1>. QED
  BY <1>1, <1>2

LEMMA UpdatedKeepsResult ==
  ASSUME jobs \in [JobIds -> JobRecord], NEW j, NEW st, NEW i \in JobIds
  PROVE  /\ Updated(j, st, None, FALSE)[i].result = jobs[i].result
         /\ Updated(j, st, None, TRUE)[i].result = jobs[i].result
<1>1. CASE i = j
  BY <1>1 DEF Updated
<1>2. CASE i # j
  BY <1>2 DEF Updated
<1>. QED
  BY <1>1, <1>2

LEMMA UpdatedStatus ==
  ASSUME jobs \in [JobIds -> JobRecord], NEW j, NEW i \in JobIds
  PROVE  /\ Updated(j, "running", None, FALSE)[i].status
              = IF i = j /\ jobs[i].status # "none" THEN "running" ELSE jobs[i].status
         /\ Updated(j, "failed", None, TRUE)[i].status
              = IF i = j /\ jobs[i].status # "none" THEN "failed" ELSE jobs[i].status
         /\ Updated(j, "cancelled", None, FALSE)[i].status
              = IF i = j /\ jobs[i].status # "none" THEN "cancelled" ELSE jobs[i].status
<1>1. CASE i = j
  BY <1>1 DEF Updated
<1>2. CASE i # j
  BY <1>2 DEF Updated
<1>. QED
  BY <1>1, <1>2

LEMMA CompletedStatus ==
  ASSUME jobs \in [JobIds -> JobRecord], NEW j, NEW k \in Tasks, NEW i \in JobIds
  PROVE  Updated(j, "completed", k, FALSE)[i].status
           = IF i = j /\ jobs[i].status # "none" THEN "completed" ELSE jobs[i].status
<1>1. CASE i = j
  BY <1>1 DEF Updated
<1>2. CASE i # j
  BY <1>2 DEF Updated
<1>. QED
  BY <1>1, <1>2

LEMMA InitInv == Init => Inv
<1>. SUFFICES ASSUME Init PROVE Inv
  OBVIOUS
<1>1. TypeOK
  BY BoundsAssumption DEF Init, TypeOK, Each, NoJob, JobRecord
<1>2. ASSUME NEW k \in Tasks PROVE TaskInv(k) /\ CountInv(k) /\ PendingInv(k)
  BY DEF Init, Each, TaskInv, CountInv, PendingInv
<1>3. ResultInv
  BY DEF Init, ResultInv, NoJob
<1>4. MetadataNotAheadOfUpload
  BY DEF Init, MetadataNotAheadOfUpload
<1>5. \A j \in JobIds : TriggerInv(j)
  BY DEF Init, TriggerInv, Each, NoJob
<1>6. \A j \in JobIds, k \in Tasks : triggers[j] # {k}
  BY DEF Init
<1>. QED
  BY <1>1, <1>2, <1>3, <1>4, <1>5, <1>6 DEF Inv

LEMMA TypeStep == Inv /\ [Next]_vars => TypeOK'
<1>. SUFFICES ASSUME Inv, [Next]_vars PROVE TypeOK'
  OBVIOUS
<1>. USE BoundsAssumption
<1>0. TypeOK
  BY DEF Inv
<1>1. ASSUME NEW k \in Tasks, NEW t \in Tenants, NEW s \in Seconds, NEW o \in Options,
             TriggerSync(k, t, s, o)
      PROVE  TypeOK'
  <2>1. <<t, s>> \in JobIds /\ NewJob \in JobRecord
    BY DEF JobIds, NewJob, JobRecord
  <2>. QED
    BY <1>0, <1>1, <2>1 DEF TypeOK, TriggerSync
<1>2. ASSUME NEW t \in Tenants, NEW s \in Seconds, TriggerAborted(t, s)
      PROVE  TypeOK'
  <2>1. <<t, s>> \in JobIds /\ NewJob \in JobRecord
    BY DEF JobIds, NewJob, JobRecord
  <2>. QED
    BY <1>0, <1>2, <2>1 DEF TypeOK, TriggerAborted
<1>3. ASSUME NEW j \in JobIds, CancelSync(j)
      PROVE  TypeOK'
  <2>1. jobs' \in [JobIds -> JobRecord]
    BY <1>0, <1>3, UpdatedType DEF TypeOK, CancelSync
  <2>. QED
    BY <1>0, <1>3, <2>1 DEF TypeOK, CancelSync
<1>4. ASSUME NEW k \in Tasks, RunSyncJob(k) PROVE TypeOK'
  <2>1. jobs' \in [JobIds -> JobRecord]
    BY <1>0, <1>4, UpdatedType DEF TypeOK, RunSyncJob
  <2>. QED
    BY <1>0, <1>4, <2>1 DEF TypeOK, RunSyncJob
<1>5. ASSUME NEW k \in Tasks, StartGather(k) PROVE TypeOK'
  BY <1>0, <1>5 DEF TypeOK, StartGather
<1>6. ASSUME NEW k \in Tasks, InitializeFails(k) PROVE TypeOK'
  <2>1. jobs' \in [JobIds -> JobRecord]
    BY <1>0, <1>6, UpdatedType DEF TypeOK, InitializeFails, SyncRaises
  <2>. QED
    BY <1>0, <1>6, <2>1 DEF TypeOK, InitializeFails, SyncRaises
<1>7. ASSUME NEW k \in Tasks, GatherRaises(k) PROVE TypeOK'
  <2>1. jobs' \in [JobIds -> JobRecord]
    BY <1>0, <1>7, UpdatedType DEF TypeOK, GatherRaises, SyncRaises
  <2>. QED
    BY <1>0, <1>7, <2>1 DEF TypeOK, GatherRaises, SyncRaises
<1>8. ASSUME NEW k \in Tasks, SyncReturns(k) PROVE TypeOK'
  <2>1. jobs' \in [JobIds -> JobRecord]
    BY <1>0, <1>8, UpdatedType DEF TypeOK, SyncReturns
  <2>2. meta' \subseteq Docs /\ pending' \in [Tasks -> SUBSET Docs]
    BY <1>0, <1>8 DEF TypeOK, SyncReturns, SaveMetadata, UpsertTickets, UpsertArticles
  <2>. QED
    BY <1>0, <1>8, <2>1, <2>2 DEF TypeOK, SyncReturns
<1>9. ASSUME NEW k \in Tasks, CloseService(k) PROVE TypeOK'
  BY <1>0, <1>9 DEF TypeOK, CloseService
<1>10. ASSUME NEW k \in Tasks, TicketPage(k) PROVE TypeOK'
  <2>1. jobOf[k] \in JobIds
    BY <1>0, <1>10 DEF Inv, TypeOK, TaskInv, TicketPage
  <2>2. CountInv(k)
    BY DEF Inv
  <2>. QED
    BY <1>0, <1>10, <2>1, <2>2, DocsOfJob
    DEF TypeOK, CountInv, TicketPage, Collected
<1>11. ASSUME NEW k \in Tasks, TicketUpload(k) PROVE TypeOK'
  <2>1. jobOf[k] \in JobIds
    BY <1>0, <1>11 DEF Inv, TypeOK, TaskInv, TicketUpload
  <2>2. CountInv(k)
    BY DEF Inv
  <2>. QED
    BY <1>0, <1>11, <2>1, <2>2, DocsOfJob
    DEF TypeOK, CountInv, TicketUpload, Upload, CountUploaded
<1>12. ASSUME NEW k \in Tasks, TicketEnd(k) PROVE TypeOK'
  BY <1>0, <1>12 DEF TypeOK, TicketEnd
<1>13. ASSUME NEW k \in Tasks, TicketFail(k) PROVE TypeOK'
  <2>1. jobOf[k] \in JobIds
    BY <1>0, <1>13 DEF Inv, TypeOK, TaskInv, TicketFail
  <2>2. pending' \in [Tasks -> SUBSET Docs]
    BY <1>0, <1>13, <2>1, DocsOfJob DEF TypeOK, TicketFail, Collected
  <2>. QED
    BY <1>0, <1>13, <2>2 DEF TypeOK, TicketFail
<1>14. ASSUME NEW k \in Tasks, ArticlesFetched(k) PROVE TypeOK'
  <2>1. jobOf[k] \in JobIds
    BY <1>0, <1>14 DEF Inv, TypeOK, TaskInv, ArticlesFetched
  <2>2. CountInv(k)
    BY DEF Inv
  <2>. QED
    BY <1>0, <1>14, <2>1, <2>2, DocsOfJob
    DEF TypeOK, CountInv, ArticlesFetched, Collected
<1>15. ASSUME NEW k \in Tasks, ArticleUpload(k) PROVE TypeOK'
  <2>1. jobOf[k] \in JobIds
    BY <1>0, <1>15 DEF Inv, TypeOK, TaskInv, ArticleUpload
  <2>2. CountInv(k)
    BY DEF Inv
  <2>. QED
    BY <1>0, <1>15, <2>1, <2>2, DocsOfJob
    DEF TypeOK, CountInv, ArticleUpload, Upload, CountUploaded, LastBatch
<1>16. ASSUME NEW k \in Tasks, ArticleFail(k) PROVE TypeOK'
  <2>1. jobOf[k] \in JobIds
    BY <1>0, <1>16 DEF Inv, TypeOK, TaskInv, ArticleFail
  <2>2. pending' \in [Tasks -> SUBSET Docs]
    BY <1>0, <1>16, <2>1, DocsOfJob DEF TypeOK, ArticleFail, Collected
  <2>. QED
    BY <1>0, <1>16, <2>2 DEF TypeOK, ArticleFail
<1>17. CASE Restart
  BY <1>0, <1>17 DEF TypeOK, Restart, Each, NoJob, JobRecord
<1>18. CASE UNCHANGED vars
  BY <1>0, <1>18 DEF TypeOK, vars
<1>. QED
  BY <1>1, <1>2, <1>3, <1>4, <1>5, <1>6, <1>7, <1>8, <1>9,
     <1>10, <1>11, <1>12, <1>13, <1>14, <1>15, <1>16, <1>17, <1>18
  DEF Next, TaskStep, SyncStep, TicketStep, ArticleStep, Quiescent

LEMMA TaskStepInv == Inv /\ [Next]_vars => \A m \in Tasks : TaskInv(m)'
<1>. SUFFICES ASSUME Inv, [Next]_vars, NEW m \in Tasks PROVE TaskInv(m)'
  OBVIOUS
<1>0. TypeOK /\ TaskInv(m)
  BY DEF Inv
<1>1. ASSUME NEW k \in Tasks, NEW t \in Tenants, NEW s \in Seconds,
             NEW o \in Options, TriggerSync(k, t, s, o)
      PROVE  TaskInv(m)'
  <2>1. <<t, s>> \in JobIds
    BY DEF JobIds
  <2>. QED
    BY <1>0, <1>1, <2>1 DEF TypeOK, TaskInv, TriggerSync
<1>2. ASSUME NEW t \in Tenants, NEW s \in Seconds, TriggerAborted(t, s) PROVE TaskInv(m)'
  BY <1>0, <1>2 DEF TypeOK, TaskInv, TriggerAborted
<1>3. ASSUME NEW j \in JobIds, CancelSync(j) PROVE TaskInv(m)'
  BY <1>0, <1>3 DEF TypeOK, TaskInv, CancelSync
<1>4. ASSUME NEW k \in Tasks, RunSyncJob(k) PROVE TaskInv(m)'
  BY <1>0, <1>4 DEF TypeOK, TaskInv, RunSyncJob
<1>5. ASSUME NEW k \in Tasks, StartGather(k) PROVE TaskInv(m)'
  BY <1>0, <1>5 DEF TypeOK, TaskInv, StartGather
<1>6. ASSUME NEW k \in Tasks, InitializeFails(k) PROVE TaskInv(m)'
  BY <1>0, <1>6 DEF TypeOK, TaskInv, InitializeFails, SyncRaises
<1>7. ASSUME NEW k \in Tasks, GatherRaises(k) PROVE TaskInv(m)'
  BY <1>0, <1>7 DEF TypeOK, TaskInv, GatherRaises, SyncRaises
<1>8. ASSUME NEW k \in Tasks, SyncReturns(k) PROVE TaskInv(m)'
  BY <1>0, <1>8 DEF TypeOK, TaskInv, SyncReturns, BothReturned
<1>9. ASSUME NEW k \in Tasks, CloseService(k) PROVE TaskInv(m)'
  BY <1>0, <1>9 DEF TypeOK, TaskInv, CloseService
<1>10. ASSUME NEW k \in Tasks, TicketPage(k) PROVE TaskInv(m)'
  BY <1>0, <1>10 DEF TypeOK, TaskInv, TicketPage
<1>11. ASSUME NEW k \in Tasks, TicketUpload(k) PROVE TaskInv(m)'
  BY <1>0, <1>11 DEF TypeOK, TaskInv, TicketUpload, CountUploaded
<1>12. ASSUME NEW k \in Tasks, TicketEnd(k) PROVE TaskInv(m)'
  BY <1>0, <1>12 DEF TypeOK, TaskInv, TicketEnd
<1>13. ASSUME NEW k \in Tasks, TicketFail(k) PROVE TaskInv(m)'
  BY <1>0, <1>13 DEF TypeOK, TaskInv, TicketFail
<1>14. ASSUME NEW k \in Tasks, ArticlesFetched(k) PROVE TaskInv(m)'
  BY <1>0, <1>14 DEF TypeOK, TaskInv, ArticlesFetched
<1>15. ASSUME NEW k \in Tasks, ArticleUpload(k) PROVE TaskInv(m)'
  BY <1>0, <1>15 DEF TypeOK, TaskInv, ArticleUpload, CountUploaded, LastBatch
<1>16. ASSUME NEW k \in Tasks, ArticleFail(k) PROVE TaskInv(m)'
  BY <1>0, <1>16 DEF TypeOK, TaskInv, ArticleFail
<1>17. CASE Restart
  BY <1>0, <1>17 DEF TypeOK, TaskInv, Restart, Each, NoJob
<1>18. CASE UNCHANGED vars
  BY <1>0, <1>18 DEF TypeOK, TaskInv, vars
<1>. QED
  BY <1>1, <1>2, <1>3, <1>4, <1>5, <1>6, <1>7, <1>8, <1>9,
     <1>10, <1>11, <1>12, <1>13, <1>14, <1>15, <1>16, <1>17, <1>18
  DEF Next, TaskStep, SyncStep, TicketStep, ArticleStep, Quiescent

LEMMA CountStep == Inv /\ [Next]_vars => \A m \in Tasks : CountInv(m)'
<1>. SUFFICES ASSUME Inv, [Next]_vars, NEW m \in Tasks PROVE CountInv(m)'
  OBVIOUS
<1>0. TypeOK /\ TaskInv(m) /\ CountInv(m)
  BY DEF Inv
<1>1. ASSUME NEW k \in Tasks, NEW t \in Tenants, NEW s \in Seconds,
             NEW o \in Options, TriggerSync(k, t, s, o)
      PROVE  CountInv(m)'
  BY <1>0, BoundsAssumption, <1>1 DEF TypeOK, TaskInv, CountInv, TriggerSync
<1>2. ASSUME NEW t \in Tenants, NEW s \in Seconds, TriggerAborted(t, s) PROVE CountInv(m)'
  BY <1>0, BoundsAssumption, <1>2 DEF TypeOK, TaskInv, CountInv, TriggerAborted
<1>3. ASSUME NEW j \in JobIds, CancelSync(j) PROVE CountInv(m)'
  BY <1>0, BoundsAssumption, <1>3 DEF TypeOK, TaskInv, CountInv, CancelSync
<1>4. ASSUME NEW k \in Tasks, RunSyncJob(k) PROVE CountInv(m)'
  BY <1>0, BoundsAssumption, <1>4 DEF TypeOK, TaskInv, CountInv, RunSyncJob
<1>5. ASSUME NEW k \in Tasks, StartGather(k) PROVE CountInv(m)'
  BY <1>0, BoundsAssumption, <1>5 DEF TypeOK, TaskInv, CountInv, StartGather
<1>6. ASSUME NEW k \in Tasks, InitializeFails(k) PROVE CountInv(m)'
  BY <1>0, BoundsAssumption, <1>6 DEF TypeOK, TaskInv, CountInv, InitializeFails, SyncRaises
<1>7. ASSUME NEW k \in Tasks, GatherRaises(k) PROVE CountInv(m)'
  BY <1>0, BoundsAssumption, <1>7
     DEF TypeOK, TaskInv, CountInv, GatherRaises, SyncRaises
<1>8. ASSUME NEW k \in Tasks, SyncReturns(k) PROVE CountInv(m)'
  BY <1>0, BoundsAssumption, <1>8 DEF TypeOK, TaskInv, CountInv, SyncReturns, BothReturned
<1>9. ASSUME NEW k \in Tasks, CloseService(k) PROVE CountInv(m)'
  BY <1>0, BoundsAssumption, <1>9 DEF TypeOK, TaskInv, CountInv, CloseService
<1>10. ASSUME NEW k \in Tasks, TicketPage(k) PROVE CountInv(m)'
  BY <1>0, BoundsAssumption, <1>10 DEF TypeOK, TaskInv, CountInv, TicketPage
<1>11. ASSUME NEW k \in Tasks, TicketUpload(k) PROVE CountInv(m)'
  BY <1>0, BoundsAssumption, <1>11
     DEF TypeOK, TaskInv, CountInv, TicketUpload, CountUploaded
<1>12. ASSUME NEW k \in Tasks, TicketEnd(k) PROVE CountInv(m)'
  BY <1>0, BoundsAssumption, <1>12 DEF TypeOK, TaskInv, CountInv, TicketEnd
<1>13. ASSUME NEW k \in Tasks, TicketFail(k) PROVE CountInv(m)'
  BY <1>0, BoundsAssumption, <1>13 DEF TypeOK, TaskInv, CountInv, TicketFail
<1>14. ASSUME NEW k \in Tasks, ArticlesFetched(k) PROVE CountInv(m)'
  BY <1>0, BoundsAssumption, <1>14 DEF TypeOK, TaskInv, CountInv, ArticlesFetched
<1>15. ASSUME NEW k \in Tasks, ArticleUpload(k) PROVE CountInv(m)'
  BY <1>0, BoundsAssumption, <1>15
     DEF TypeOK, TaskInv, CountInv, ArticleUpload, CountUploaded, LastBatch
<1>16. ASSUME NEW k \in Tasks, ArticleFail(k) PROVE CountInv(m)'
  BY <1>0, BoundsAssumption, <1>16 DEF TypeOK, TaskInv, CountInv, ArticleFail
<1>17. CASE Restart
  BY <1>0, BoundsAssumption, <1>17 DEF TypeOK, TaskInv, CountInv, Restart, Each, NoJob
<1>18. CASE UNCHANGED vars
  BY <1>0, BoundsAssumption, <1>18 DEF TypeOK, TaskInv, CountInv, vars
<1>. QED
  BY <1>1, <1>2, <1>3, <1>4, <1>5, <1>6, <1>7, <1>8, <1>9,
     <1>10, <1>11, <1>12, <1>13, <1>14, <1>15, <1>16, <1>17, <1>18
  DEF Next, TaskStep, SyncStep, TicketStep, ArticleStep, Quiescent

LEMMA PendingStep == Inv /\ [Next]_vars => \A m \in Tasks : PendingInv(m)'
<1>. SUFFICES ASSUME Inv, [Next]_vars, NEW m \in Tasks PROVE PendingInv(m)'
  BY DEF Inv
<1>0. TypeOK /\ TaskInv(m) /\ CountInv(m) /\ PendingInv(m)
  BY DEF Inv
<1>1. ASSUME NEW k \in Tasks, NEW t \in Tenants, NEW s \in Seconds,
             NEW o \in Options, TriggerSync(k, t, s, o)
      PROVE  PendingInv(m)'
  BY <1>0, <1>1
     DEF TypeOK, TaskInv, CountInv, PendingInv, TicketDoc, ArticleDoc, TriggerSync
<1>2. ASSUME NEW t \in Tenants, NEW s \in Seconds, TriggerAborted(t, s) PROVE PendingInv(m)'
  BY <1>0, <1>2
     DEF TypeOK, TaskInv, CountInv, PendingInv, TicketDoc, ArticleDoc, TriggerAborted
<1>3. ASSUME NEW j \in JobIds, CancelSync(j) PROVE PendingInv(m)'
  BY <1>0, <1>3 DEF TypeOK, TaskInv, CountInv, PendingInv, TicketDoc, ArticleDoc, CancelSync
<1>4. ASSUME NEW k \in Tasks, RunSyncJob(k) PROVE PendingInv(m)'
  BY <1>0, <1>4 DEF TypeOK, TaskInv, CountInv, PendingInv, TicketDoc, ArticleDoc, RunSyncJob
<1>5. ASSUME NEW k \in Tasks, StartGather(k) PROVE PendingInv(m)'
  BY <1>0, <1>5
     DEF TypeOK, TaskInv, CountInv, PendingInv, TicketDoc, ArticleDoc, StartGather
<1>6. ASSUME NEW k \in Tasks, InitializeFails(k) PROVE PendingInv(m)'
  BY <1>0, <1>6
     DEF TypeOK, TaskInv, CountInv, PendingInv, TicketDoc, ArticleDoc, InitializeFails,
         SyncRaises
<1>7. ASSUME NEW k \in Tasks, GatherRaises(k) PROVE PendingInv(m)'
  BY <1>0, <1>7
     DEF TypeOK, TaskInv, CountInv, PendingInv, TicketDoc, ArticleDoc, GatherRaises,
         SyncRaises
<1>8. ASSUME NEW k \in Tasks, SyncReturns(k) PROVE PendingInv(m)'
  BY <1>0, <1>8
     DEF TypeOK, TaskInv, CountInv, PendingInv, TicketDoc, ArticleDoc, SyncReturns,
         SaveMetadata, UpsertTickets, UpsertArticles, BothReturned
<1>9. ASSUME NEW k \in Tasks, CloseService(k) PROVE PendingInv(m)'
  BY <1>0, <1>9
     DEF TypeOK, TaskInv, CountInv, PendingInv, TicketDoc, ArticleDoc, CloseService
<1>10. ASSUME NEW k \in Tasks, TicketPage(k) PROVE PendingInv(m)'
  BY <1>0, <1>10
     DEF TypeOK, TaskInv, CountInv, PendingInv, TicketDoc, ArticleDoc, TicketPage, Collected
<1>11. ASSUME NEW k \in Tasks, TicketUpload(k) PROVE PendingInv(m)'
  BY <1>0, <1>11
     DEF TypeOK, TaskInv, CountInv, PendingInv, TicketDoc, ArticleDoc, TicketUpload, Upload,
         CountUploaded
<1>12. ASSUME NEW k \in Tasks, TicketEnd(k) PROVE PendingInv(m)'
  BY <1>0, <1>12 DEF TypeOK, TaskInv, CountInv, PendingInv, TicketDoc, ArticleDoc, TicketEnd
<1>13. ASSUME NEW k \in Tasks, TicketFail(k) PROVE PendingInv(m)'
  BY <1>0, <1>13
     DEF TypeOK, TaskInv, CountInv, PendingInv, TicketDoc, ArticleDoc, TicketFail, Collected
<1>14. ASSUME NEW k \in Tasks, ArticlesFetched(k) PROVE PendingInv(m)'
  BY <1>0, <1>14
     DEF TypeOK, TaskInv, CountInv, PendingInv, TicketDoc, ArticleDoc, ArticlesFetched, Collected
<1>15. ASSUME NEW k \in Tasks, ArticleUpload(k) PROVE PendingInv(m)'
  BY <1>0, <1>15
     DEF TypeOK, TaskInv, CountInv, PendingInv, TicketDoc, ArticleDoc, ArticleUpload, Upload,
         CountUploaded, LastBatch
<1>16. ASSUME NEW k \in Tasks, ArticleFail(k) PROVE PendingInv(m)'
  BY <1>0, <1>16
     DEF TypeOK, TaskInv, CountInv, PendingInv, TicketDoc, ArticleDoc, ArticleFail, Collected
<1>17. CASE Restart
  BY <1>0, <1>17
     DEF TypeOK, TaskInv, CountInv, PendingInv, TicketDoc, ArticleDoc, Restart, Each, NoJob
<1>18. CASE UNCHANGED vars
  BY <1>0, <1>18 DEF TypeOK, TaskInv, CountInv, PendingInv, TicketDoc, ArticleDoc, vars
<1>. QED
  BY <1>1, <1>2, <1>3, <1>4, <1>5, <1>6, <1>7, <1>8, <1>9,
     <1>10, <1>11, <1>12, <1>13, <1>14, <1>15, <1>16, <1>17, <1>18
  DEF Next, TaskStep, SyncStep, TicketStep, ArticleStep, Quiescent

LEMMA ResultStep == Inv /\ [Next]_vars => ResultInv'
<1>. SUFFICES ASSUME Inv, [Next]_vars PROVE ResultInv'
  OBVIOUS
<1>0. TypeOK /\ ResultInv /\ \A k \in Tasks : TaskInv(k)
  BY DEF Inv
<1>1. ASSUME NEW k \in Tasks, NEW t \in Tenants, NEW s \in Seconds,
             NEW o \in Options, TriggerSync(k, t, s, o)
      PROVE  ResultInv'
  <2>1. \A i \in JobIds : jobs'[i].result \in {jobs[i].result, None}
    BY <1>0, <1>1 DEF TypeOK, TriggerSync, NewJob
  <2>. QED
    BY <1>0, <1>1, <2>1 DEF TypeOK, ResultInv, TriggerSync
<1>2. ASSUME NEW t \in Tenants, NEW s \in Seconds, TriggerAborted(t, s) PROVE ResultInv'
  <2>1. \A i \in JobIds : jobs'[i].result \in {jobs[i].result, None}
    BY <1>0, <1>2 DEF TypeOK, TriggerAborted, NewJob
  <2>. QED
    BY <1>0, <1>2, <2>1 DEF TypeOK, ResultInv, TriggerAborted, taskVars
<1>3. ASSUME NEW j \in JobIds, CancelSync(j) PROVE ResultInv'
  <2>1. \A i \in JobIds : jobs'[i].result = jobs[i].result
    <3>1. jobs' = Updated(j, "cancelled", None, FALSE)
      BY <1>3 DEF CancelSync
    <3>2. jobs \in [JobIds -> JobRecord]
      BY <1>0 DEF TypeOK
    <3>. QED
      BY <3>1, <3>2, UpdatedKeepsResult
  <2>2. \A m \in Tasks : outcome[m] = "completed" => outcome'[m] = "completed"
    BY <1>0, <1>3 DEF TypeOK, TaskInv, CancelSync
  <2>3. \A i \in JobIds : jobs[i].result \in Tasks \union {None}
    BY <1>0 DEF TypeOK, JobRecord
  <2>. QED
    BY <1>0, <2>1, <2>2, <2>3 DEF ResultInv
<1>4. ASSUME NEW k \in Tasks, RunSyncJob(k) PROVE ResultInv'
  <2>1. \A i \in JobIds : jobs'[i].result = jobs[i].result
    <3>1. jobs' = Updated(jobOf[k], "running", None, FALSE)
      BY <1>4 DEF RunSyncJob
    <3>2. jobs \in [JobIds -> JobRecord]
      BY <1>0 DEF TypeOK
    <3>. QED
      BY <3>1, <3>2, UpdatedKeepsResult
  <2>2. \A m \in Tasks : outcome[m] = "completed" => outcome'[m] = "completed"
    BY <1>0, <1>4 DEF TypeOK, TaskInv, RunSyncJob
  <2>3. \A i \in JobIds : jobs[i].result \in Tasks \union {None}
    BY <1>0 DEF TypeOK, JobRecord
  <2>. QED
    BY <1>0, <2>1, <2>2, <2>3 DEF ResultInv
<1>5. ASSUME NEW k \in Tasks, StartGather(k) PROVE ResultInv'
  BY <1>0, NoneAssumption, <1>5 DEF TypeOK, ResultInv, StartGather
<1>6. ASSUME NEW k \in Tasks, InitializeFails(k) PROVE ResultInv'
  <2>1. \A i \in JobIds : jobs'[i].result = jobs[i].result
    <3>1. jobs' = Updated(jobOf[k], "failed", None, TRUE)
      BY <1>6 DEF InitializeFails, SyncRaises
    <3>2. jobs \in [JobIds -> JobRecord]
      BY <1>0 DEF TypeOK
    <3>. QED
      BY <3>1, <3>2, UpdatedKeepsResult
  <2>2. \A m \in Tasks : outcome[m] = "completed" => outcome'[m] = "completed"
    BY <1>0, <1>6 DEF TypeOK, TaskInv, InitializeFails, SyncRaises
  <2>3. \A i \in JobIds : jobs[i].result \in Tasks \union {None}
    BY <1>0 DEF TypeOK, JobRecord
  <2>. QED
    BY <1>0, <2>1, <2>2, <2>3 DEF ResultInv
<1>7. ASSUME NEW k \in Tasks, GatherRaises(k) PROVE ResultInv'
  <2>1. \A i \in JobIds : jobs'[i].result = jobs[i].result
    <3>1. jobs' = Updated(jobOf[k], "failed", None, TRUE)
      BY <1>7 DEF GatherRaises, SyncRaises
    <3>2. jobs \in [JobIds -> JobRecord]
      BY <1>0 DEF TypeOK
    <3>. QED
      BY <3>1, <3>2, UpdatedKeepsResult
  <2>2. \A m \in Tasks : outcome[m] = "completed" => outcome'[m] = "completed"
    BY <1>0, <1>7 DEF TypeOK, TaskInv, GatherRaises, SyncRaises
  <2>3. \A i \in JobIds : jobs[i].result \in Tasks \union {None}
    BY <1>0 DEF TypeOK, JobRecord
  <2>. QED
    BY <1>0, <2>1, <2>2, <2>3 DEF ResultInv
<1>8. ASSUME NEW k \in Tasks, SyncReturns(k) PROVE ResultInv'
  <2>1. \A i \in JobIds : jobs'[i].result \in {jobs[i].result, k}
    <3>. SUFFICES ASSUME NEW i \in JobIds PROVE jobs'[i].result \in {jobs[i].result, k}
      OBVIOUS
    <3>1. jobs' = Updated(jobOf[k], "completed", k, FALSE)
      BY <1>8 DEF SyncReturns
    <3>. QED
      BY <1>0, <3>1, UpdatedResult DEF TypeOK
  <2>2. \A m \in Tasks : m = k \/ outcome[m] = "completed" => outcome'[m] = "completed"
    BY <1>0, <1>8 DEF TypeOK, SyncReturns
  <2>3. \A i \in JobIds : jobs[i].result \in Tasks \union {None}
    BY <1>0 DEF TypeOK, JobRecord
  <2>. QED
    BY <1>0, <2>1, <2>2, <2>3 DEF ResultInv
<1>9. ASSUME NEW k \in Tasks, CloseService(k) PROVE ResultInv'
  BY <1>0, NoneAssumption, <1>9 DEF TypeOK, ResultInv, CloseService
<1>10. ASSUME NEW k \in Tasks, TicketPage(k) PROVE ResultInv'
  BY <1>0, NoneAssumption, <1>10 DEF TypeOK, ResultInv, TicketPage
<1>11. ASSUME NEW k \in Tasks, TicketUpload(k) PROVE ResultInv'
  BY <1>0, NoneAssumption, <1>11 DEF TypeOK, ResultInv, TicketUpload, CountUploaded
<1>12. ASSUME NEW k \in Tasks, TicketEnd(k) PROVE ResultInv'
  BY <1>0, NoneAssumption, <1>12 DEF TypeOK, ResultInv, TicketEnd
<1>13. ASSUME NEW k \in Tasks, TicketFail(k) PROVE ResultInv'
  BY <1>0, NoneAssumption, <1>13 DEF TypeOK, ResultInv, TicketFail
<1>14. ASSUME NEW k \in Tasks, ArticlesFetched(k) PROVE ResultInv'
  BY <1>0, NoneAssumption, <1>14 DEF TypeOK, ResultInv, ArticlesFetched
<1>15. ASSUME NEW k \in Tasks, ArticleUpload(k) PROVE ResultInv'
  BY <1>0, NoneAssumption, <1>15
     DEF TypeOK, ResultInv, ArticleUpload, CountUploaded, LastBatch
<1>16. ASSUME NEW k \in Tasks, ArticleFail(k) PROVE ResultInv'
  BY <1>0, NoneAssumption, <1>16 DEF TypeOK, ResultInv, ArticleFail
<1>17. CASE Restart
  BY <1>0, NoneAssumption, <1>17 DEF TypeOK, ResultInv, Restart, Each, NoJob
<1>18. CASE UNCHANGED vars
  BY <1>0, NoneAssumption, <1>18 DEF TypeOK, ResultInv, vars
<1>. QED
  BY <1>1, <1>2, <1>3, <1>4, <1>5, <1>6, <1>7, <1>8, <1>9,
     <1>10, <1>11, <1>12, <1>13, <1>14, <1>15, <1>16, <1>17, <1>18
  DEF Next, TaskStep, SyncStep, TicketStep, ArticleStep, Quiescent

LEMMA MetadataStep == Inv /\ [Next]_vars => MetadataNotAheadOfUpload'
<1>. SUFFICES ASSUME Inv, [Next]_vars PROVE MetadataNotAheadOfUpload'
  OBVIOUS
<1>0. TypeOK /\ MetadataNotAheadOfUpload
  BY DEF Inv
<1>1. ASSUME NEW k \in Tasks, NEW t \in Tenants, NEW s \in Seconds,
             NEW o \in Options, TriggerSync(k, t, s, o)
      PROVE  MetadataNotAheadOfUpload'
  BY <1>0, <1>1 DEF TypeOK, MetadataNotAheadOfUpload, TriggerSync
<1>2. ASSUME NEW t \in Tenants, NEW s \in Seconds, TriggerAborted(t, s)
      PROVE  MetadataNotAheadOfUpload'
  BY <1>0, <1>2 DEF TypeOK, MetadataNotAheadOfUpload, TriggerAborted
<1>3. ASSUME NEW j \in JobIds, CancelSync(j) PROVE MetadataNotAheadOfUpload'
  BY <1>0, <1>3 DEF TypeOK, MetadataNotAheadOfUpload, CancelSync
<1>4. ASSUME NEW k \in Tasks, RunSyncJob(k) PROVE MetadataNotAheadOfUpload'
  BY <1>0, <1>4 DEF TypeOK, MetadataNotAheadOfUpload, RunSyncJob
<1>5. ASSUME NEW k \in Tasks, StartGather(k) PROVE MetadataNotAheadOfUpload'
  BY <1>0, <1>5 DEF TypeOK, MetadataNotAheadOfUpload, StartGather
<1>6. ASSUME NEW k \in Tasks, InitializeFails(k) PROVE MetadataNotAheadOfUpload'
  BY <1>0, <1>6 DEF TypeOK, MetadataNotAheadOfUpload, InitializeFails, SyncRaises
<1>7. ASSUME NEW k \in Tasks, GatherRaises(k) PROVE MetadataNotAheadOfUpload'
  BY <1>0, <1>7 DEF TypeOK, MetadataNotAheadOfUpload, GatherRaises, SyncRaises
<1>8. ASSUME NEW k \in Tasks, SyncReturns(k) PROVE MetadataNotAheadOfUpload'
  <2>1. pending[k] \subseteq stored \union dropped
    BY <1>8 DEF Inv, PendingInv, SyncReturns, BothReturned
  <2>2. meta' \subseteq meta \union pending[k] /\ UNCHANGED <<stored, dropped>>
    BY <1>8 DEF SyncReturns, SaveMetadata, UpsertTickets, UpsertArticles
  <2>. QED
    BY <1>0, <2>1, <2>2 DEF MetadataNotAheadOfUpload
<1>9. ASSUME NEW k \in Tasks, CloseService(k) PROVE MetadataNotAheadOfUpload'
  BY <1>0, <1>9 DEF TypeOK, MetadataNotAheadOfUpload, CloseService
<1>10. ASSUME NEW k \in Tasks, TicketPage(k) PROVE MetadataNotAheadOfUpload'
  BY <1>0, <1>10 DEF TypeOK, MetadataNotAheadOfUpload, TicketPage
<1>11. ASSUME NEW k \in Tasks, TicketUpload(k) PROVE MetadataNotAheadOfUpload'
  BY <1>0, <1>11 DEF TypeOK, MetadataNotAheadOfUpload, TicketUpload, Upload, CountUploaded
<1>12. ASSUME NEW k \in Tasks, TicketEnd(k) PROVE MetadataNotAheadOfUpload'
  BY <1>0, <1>12 DEF TypeOK, MetadataNotAheadOfUpload, TicketEnd
<1>13. ASSUME NEW k \in Tasks, TicketFail(k) PROVE MetadataNotAheadOfUpload'
  BY <1>0, <1>13 DEF TypeOK, MetadataNotAheadOfUpload, TicketFail
<1>14. ASSUME NEW k \in Tasks, ArticlesFetched(k) PROVE MetadataNotAheadOfUpload'
  BY <1>0, <1>14 DEF TypeOK, MetadataNotAheadOfUpload, ArticlesFetched
<1>15. ASSUME NEW k \in Tasks, ArticleUpload(k) PROVE MetadataNotAheadOfUpload'
  BY <1>0, <1>15
     DEF TypeOK, MetadataNotAheadOfUpload, ArticleUpload, Upload, CountUploaded, LastBatch
<1>16. ASSUME NEW k \in Tasks, ArticleFail(k) PROVE MetadataNotAheadOfUpload'
  BY <1>0, <1>16 DEF TypeOK, MetadataNotAheadOfUpload, ArticleFail
<1>17. CASE Restart
  BY <1>0, <1>17 DEF TypeOK, MetadataNotAheadOfUpload, Restart, Each, NoJob
<1>18. CASE UNCHANGED vars
  BY <1>0, <1>18 DEF TypeOK, MetadataNotAheadOfUpload, vars
<1>. QED
  BY <1>1, <1>2, <1>3, <1>4, <1>5, <1>6, <1>7, <1>8, <1>9,
     <1>10, <1>11, <1>12, <1>13, <1>14, <1>15, <1>16, <1>17, <1>18
  DEF Next, TaskStep, SyncStep, TicketStep, ArticleStep, Quiescent

LEMMA TriggerStep == Inv /\ [Next]_vars => \A i \in JobIds : TriggerInv(i)'
<1>. SUFFICES ASSUME Inv, [Next]_vars, NEW i \in JobIds PROVE TriggerInv(i)'
  OBVIOUS
<1>0. TypeOK /\ TriggerInv(i) /\ \A k \in Tasks : TaskInv(k)
  BY DEF Inv
<1>1. ASSUME NEW k \in Tasks, NEW t \in Tenants, NEW s \in Seconds,
             NEW o \in Options, TriggerSync(k, t, s, o)
      PROVE  TriggerInv(i)'
  <2>1. <<t, s>> \in JobIds
    BY DEF JobIds
  <2>2. /\ pc[k] = "free"
        /\ pc' = [pc EXCEPT ![k] = "scheduled"]
        /\ jobOf' = [jobOf EXCEPT ![k] = <<t, s>>]
        /\ services' = [services EXCEPT ![<<t, s>>] = k]
        /\ UNCHANGED <<outcome, phase>>
    BY <1>1 DEF TriggerSync
  <2>3. CASE i = <<t, s>>
    <3>1. triggers'[i] = triggers[i] \union {k} /\ jobs'[i].status = "pending"
      BY <1>0, <1>1, <2>1, <2>3 DEF TypeOK, TriggerSync, NewJob
    <3>2. triggers'[i] # {} /\ \A n \in Tasks : triggers'[i] = {n} => n = k
      BY <3>1
    <3>3. triggers[i] \subseteq triggers'[i] /\ k \in triggers'[i]
      BY <3>1
    <3>4. \A n \in Tasks : n # k => pc'[n] = pc[n] /\ jobOf'[n] = jobOf[n]
      BY <1>0, <2>2 DEF TypeOK
    <3>5. pc'[k] = "scheduled" /\ jobOf'[k] = i
      BY <1>0, <2>1, <2>2, <2>3 DEF TypeOK
    <3>6. \A n \in Tasks :
            pc'[n] \in Live \union {"ended"} /\ jobOf'[n] = i => n \in triggers'[i]
      BY <1>0, <3>3, <3>4, <3>5 DEF TriggerInv
    <3>. QED
      BY <3>1, <3>2, <3>5, <3>6 DEF TriggerInv
  <2>4. CASE i # <<t, s>>
    <3>1. triggers'[i] = triggers[i] /\ jobs'[i] = jobs[i]
      BY <1>0, <1>1, <2>1, <2>4 DEF TypeOK, TriggerSync
    <3>. QED
      BY <1>0, <2>1, <2>2, <2>4, <3>1, NoneAssumption DEF TypeOK, TaskInv, TriggerInv
  <2>. QED
    BY <2>3, <2>4
<1>2. ASSUME NEW t \in Tenants, NEW s \in Seconds, TriggerAborted(t, s) PROVE TriggerInv(i)'
  <2>1. <<t, s>> \in JobIds
    BY DEF JobIds
  <2>2. UNCHANGED <<services, pc, jobOf, outcome, phase>>
    BY <1>2 DEF TriggerAborted
  <2>3. CASE i = <<t, s>>
    <3>1. triggers'[i] = triggers[i] \union {None} /\ jobs'[i].status = "pending"
      BY <1>0, <1>2, <2>1, <2>3 DEF TypeOK, TriggerAborted, NewJob
    <3>2. triggers'[i] # {} /\ \A n \in Tasks : triggers'[i] = {n} => n = None
      BY <3>1
    <3>3. triggers[i] \subseteq triggers'[i] /\ None \in triggers'[i]
      BY <3>1
    <3>4. \A n \in Tasks :
            pc'[n] \in Live \union {"ended"} /\ jobOf'[n] = i => n \in triggers'[i]
      BY <1>0, <2>2, <3>3 DEF TriggerInv
    <3>5. \A n \in Tasks : triggers'[i] # {n}
      BY <3>2, NoneAssumption
    <3>. QED
      BY <3>1, <3>2, <3>4, <3>5 DEF TriggerInv
  <2>4. CASE i # <<t, s>>
    <3>1. triggers'[i] = triggers[i] /\ jobs'[i] = jobs[i]
      BY <1>0, <1>2, <2>1, <2>4 DEF TypeOK, TriggerAborted
    <3>. QED
      BY <1>0, <2>1, <2>2, <2>4, <3>1, NoneAssumption DEF TypeOK, TaskInv, TriggerInv
  <2>. QED
    BY <2>3, <2>4
<1>3. ASSUME NEW j \in JobIds, CancelSync(j) PROVE TriggerInv(i)'
  <2>1. jobs' = Updated(j, "cancelled", None, FALSE)
    BY <1>3 DEF CancelSync
  <2>2. jobs'[i].status = IF i = j /\ jobs[i].status # "none"
                          THEN "cancelled" ELSE jobs[i].status
    BY <1>0, <2>1, UpdatedStatus DEF TypeOK
  <2>3. /\ Cancellable(j)
        /\ UNCHANGED <<services, triggers, pc, jobOf, outcome, phase>>
    BY <1>3 DEF CancelSync
  <2>. QED
    BY <1>0, <2>2, <2>3, NoneAssumption DEF TypeOK, TaskInv, TriggerInv, Cancellable
<1>4. ASSUME NEW k \in Tasks, RunSyncJob(k) PROVE TriggerInv(i)'
  <2>1. jobs' = Updated(jobOf[k], "running", None, FALSE)
    BY <1>4 DEF RunSyncJob
  <2>2. jobs'[i].status = IF i = jobOf[k] /\ jobs[i].status # "none"
                          THEN "running" ELSE jobs[i].status
    BY <1>0, <2>1, UpdatedStatus DEF TypeOK
  <2>3. /\ pc[k] = "scheduled"
        /\ pc' = [pc EXCEPT ![k] = "initializing"]
        /\ phase' = [phase EXCEPT ![k] = "initializing"]
        /\ UNCHANGED <<services, triggers, jobOf, outcome>>
    BY <1>4 DEF RunSyncJob
  <2>. QED
    BY <1>0, <2>2, <2>3, NoneAssumption DEF TypeOK, TaskInv, TriggerInv
<1>5. ASSUME NEW k \in Tasks, StartGather(k) PROVE TriggerInv(i)'
  BY <1>0, NoneAssumption, <1>5 DEF TypeOK, TaskInv, TriggerInv, StartGather
<1>6. ASSUME NEW k \in Tasks, InitializeFails(k) PROVE TriggerInv(i)'
  <2>1. jobs' = Updated(jobOf[k], "failed", None, TRUE)
    BY <1>6 DEF InitializeFails, SyncRaises
  <2>2. jobs'[i].status = IF i = jobOf[k] /\ jobs[i].status # "none"
                          THEN "failed" ELSE jobs[i].status
    BY <1>0, <2>1, UpdatedStatus DEF TypeOK
  <2>3. /\ pc[k] = "initializing"
        /\ pc' = [pc EXCEPT ![k] = "closing"]
        /\ outcome' = [outcome EXCEPT ![k] = "failed"]
        /\ phase' = [phase EXCEPT ![k] = "failed"]
        /\ UNCHANGED <<services, triggers, jobOf>>
    BY <1>6 DEF InitializeFails, SyncRaises
  <2>. QED
    BY <1>0, <2>2, <2>3, NoneAssumption DEF TypeOK, TaskInv, TriggerInv
<1>7. ASSUME NEW k \in Tasks, GatherRaises(k) PROVE TriggerInv(i)'
  <2>1. jobs' = Updated(jobOf[k], "failed", None, TRUE)
    BY <1>7 DEF GatherRaises, SyncRaises
  <2>2. jobs'[i].status = IF i = jobOf[k] /\ jobs[i].status # "none"
                          THEN "failed" ELSE jobs[i].status
    BY <1>0, <2>1, UpdatedStatus DEF TypeOK
  <2>3. /\ pc[k] = "gathering"
        /\ pc' = [pc EXCEPT ![k] = "closing"]
        /\ outcome' = [outcome EXCEPT ![k] = "failed"]
        /\ phase' = [phase EXCEPT ![k] = "failed"]
        /\ UNCHANGED <<services, triggers, jobOf>>
    BY <1>7 DEF GatherRaises, SyncRaises
  <2>. QED
    BY <1>0, <2>2, <2>3, NoneAssumption DEF TypeOK, TaskInv, TriggerInv
<1>8. ASSUME NEW k \in Tasks, SyncReturns(k) PROVE TriggerInv(i)'
  <2>1. jobs' = Updated(jobOf[k], "completed", k, FALSE)
    BY <1>8 DEF SyncReturns, BothReturned
  <2>2. jobs'[i].status = IF i = jobOf[k] /\ jobs[i].status # "none"
                          THEN "completed" ELSE jobs[i].status
    <3>1. jobs \in [JobIds -> JobRecord]
      BY <1>0 DEF TypeOK
    <3>2. Updated(jobOf[k], "completed", k, FALSE)[i].status
            = IF i = jobOf[k] /\ jobs[i].status # "none" THEN "completed" ELSE jobs[i].status
      BY <3>1, CompletedStatus
    <3>. QED
      BY <2>1, <3>2
  <2>3. /\ pc[k] = "gathering"
        /\ pc' = [pc EXCEPT ![k] = "closing"]
        /\ outcome' = [outcome EXCEPT ![k] = "completed"]
        /\ phase' = [phase EXCEPT ![k] = "completed"]
        /\ UNCHANGED <<services, triggers, jobOf>>
    BY <1>8 DEF SyncReturns, BothReturned
  <2>. QED
    BY <1>0, <2>2, <2>3, NoneAssumption DEF TypeOK, TaskInv, TriggerInv
<1>9. ASSUME NEW k \in Tasks, CloseService(k) PROVE TriggerInv(i)'
  BY <1>0, NoneAssumption, <1>9 DEF TypeOK, TaskInv, TriggerInv, CloseService
<1>10. ASSUME NEW k \in Tasks, TicketPage(k) PROVE TriggerInv(i)'
  BY <1>0, NoneAssumption, <1>10 DEF TypeOK, TaskInv, TriggerInv, TicketPage
<1>11. ASSUME NEW k \in Tasks, TicketUpload(k) PROVE TriggerInv(i)'
  BY <1>0, NoneAssumption, <1>11
     DEF TypeOK, TaskInv, TriggerInv, TicketUpload, CountUploaded
<1>12. ASSUME NEW k \in Tasks, TicketEnd(k) PROVE TriggerInv(i)'
  BY <1>0, NoneAssumption, <1>12 DEF TypeOK, TaskInv, TriggerInv, TicketEnd
<1>13. ASSUME NEW k \in Tasks, TicketFail(k) PROVE TriggerInv(i)'
  BY <1>0, NoneAssumption, <1>13 DEF TypeOK, TaskInv, TriggerInv, TicketFail
<1>14. ASSUME NEW k \in Tasks, ArticlesFetched(k) PROVE TriggerInv(i)'
  BY <1>0, NoneAssumption, <1>14 DEF TypeOK, TaskInv, TriggerInv, ArticlesFetched
<1>15. ASSUME NEW k \in Tasks, ArticleUpload(k) PROVE TriggerInv(i)'
  BY <1>0, NoneAssumption, <1>15
     DEF TypeOK, TaskInv, TriggerInv, ArticleUpload, CountUploaded, LastBatch
<1>16. ASSUME NEW k \in Tasks, ArticleFail(k) PROVE TriggerInv(i)'
  BY <1>0, NoneAssumption, <1>16 DEF TypeOK, TaskInv, TriggerInv, ArticleFail
<1>17. CASE Restart
  BY <1>0, NoneAssumption, <1>17 DEF TypeOK, TaskInv, TriggerInv, Restart, Each, NoJob
<1>18. CASE UNCHANGED vars
  BY <1>0, NoneAssumption, <1>18 DEF TypeOK, TaskInv, TriggerInv, vars
<1>. QED
  BY <1>1, <1>2, <1>3, <1>4, <1>5, <1>6, <1>7, <1>8, <1>9,
     <1>10, <1>11, <1>12, <1>13, <1>14, <1>15, <1>16, <1>17, <1>18
  DEF Next, TaskStep, SyncStep, TicketStep, ArticleStep, Quiescent

LEMMA StatusStep ==
  Inv /\ [Next]_vars
    => \A i \in JobIds, m \in Tasks : triggers'[i] = {m} => StatusInv(i, m)'
<1>. SUFFICES ASSUME Inv, [Next]_vars, NEW i \in JobIds, NEW m \in Tasks, triggers'[i] = {m}
     PROVE  StatusInv(i, m)'
  OBVIOUS
<1>0. /\ TypeOK /\ TriggerInv(i) /\ TaskInv(m) /\ (\A k \in Tasks : TaskInv(k))
      /\ triggers[i] = {m} => StatusInv(i, m)
  BY DEF Inv
<1>1. ASSUME NEW k \in Tasks, NEW t \in Tenants, NEW s \in Seconds,
             NEW o \in Options, TriggerSync(k, t, s, o)
      PROVE  StatusInv(i, m)'
  <2>1. <<t, s>> \in JobIds
    BY DEF JobIds
  <2>2. /\ pc[k] = "free"
        /\ pc' = [pc EXCEPT ![k] = "scheduled"]
        /\ jobOf' = [jobOf EXCEPT ![k] = <<t, s>>]
        /\ services' = [services EXCEPT ![<<t, s>>] = k]
        /\ UNCHANGED <<outcome, phase>>
    BY <1>1 DEF TriggerSync
  <2>3. CASE i = <<t, s>>
    <3>1. triggers'[i] = triggers[i] \union {k} /\ jobs'[i].status = "pending"
      BY <1>0, <1>1, <2>1, <2>3 DEF TypeOK, TriggerSync, NewJob
    <3>2. triggers'[i] # {} /\ \A n \in Tasks : triggers'[i] = {n} => n = k
      BY <3>1
    <3>3. triggers[i] \subseteq triggers'[i] /\ k \in triggers'[i]
      BY <3>1
    <3>. QED
      BY <1>0, <2>1, <2>2, <2>3, <3>1, <3>2, <3>3, NoneAssumption
         DEF TypeOK, TaskInv, TriggerInv, StatusInv
  <2>4. CASE i # <<t, s>>
    <3>1. triggers'[i] = triggers[i] /\ jobs'[i] = jobs[i]
      BY <1>0, <1>1, <2>1, <2>4 DEF TypeOK, TriggerSync
    <3>. QED
      BY <1>0, <2>1, <2>2, <2>4, <3>1, NoneAssumption
         DEF TypeOK, TaskInv, TriggerInv, StatusInv
  <2>. QED
    BY <2>3, <2>4
<1>2. ASSUME NEW t \in Tenants, NEW s \in Seconds, TriggerAborted(t, s)
      PROVE  StatusInv(i, m)'
  <2>1. <<t, s>> \in JobIds
    BY DEF JobIds
  <2>2. UNCHANGED <<services, pc, jobOf, outcome, phase>>
    BY <1>2 DEF TriggerAborted
  <2>3. CASE i = <<t, s>>
    <3>1. triggers'[i] = triggers[i] \union {None} /\ jobs'[i].status = "pending"
      BY <1>0, <1>2, <2>1, <2>3 DEF TypeOK, TriggerAborted, NewJob
    <3>2. triggers'[i] # {} /\ \A n \in Tasks : triggers'[i] = {n} => n = None
      BY <3>1
    <3>3. triggers[i] \subseteq triggers'[i] /\ None \in triggers'[i]
      BY <3>1
    <3>. QED
      BY <1>0, <2>1, <2>2, <2>3, <3>1, <3>2, <3>3, NoneAssumption
         DEF TypeOK, TaskInv, TriggerInv, StatusInv
  <2>4. CASE i # <<t, s>>
    <3>1. triggers'[i] = triggers[i] /\ jobs'[i] = jobs[i]
      BY <1>0, <1>2, <2>1, <2>4 DEF TypeOK, TriggerAborted
    <3>. QED
      BY <1>0, <2>1, <2>2, <2>4, <3>1, NoneAssumption
         DEF TypeOK, TaskInv, TriggerInv, StatusInv
  <2>. QED
    BY <2>3, <2>4
<1>3. ASSUME NEW j \in JobIds, CancelSync(j) PROVE StatusInv(i, m)'
  <2>1. jobs' = Updated(j, "cancelled", None, FALSE)
    BY <1>3 DEF CancelSync
  <2>2. jobs'[i].status = IF i = j /\ jobs[i].status # "none"
                          THEN "cancelled" ELSE jobs[i].status
    BY <1>0, <2>1, UpdatedStatus DEF TypeOK
  <2>3. /\ Cancellable(j)
        /\ UNCHANGED <<services, triggers, pc, jobOf, outcome, phase>>
    BY <1>3 DEF CancelSync
  <2>. QED
    BY <1>0, <2>2, <2>3, NoneAssumption
       DEF TypeOK, TaskInv, TriggerInv, StatusInv, Cancellable
<1>4. ASSUME NEW k \in Tasks, RunSyncJob(k) PROVE StatusInv(i, m)'
  <2>1. jobs' = Updated(jobOf[k], "running", None, FALSE)
    BY <1>4 DEF RunSyncJob
  <2>2. jobs'[i].status = IF i = jobOf[k] /\ jobs[i].status # "none"
                          THEN "running" ELSE jobs[i].status
    BY <1>0, <2>1, UpdatedStatus DEF TypeOK
  <2>3. /\ pc[k] = "scheduled"
        /\ pc' = [pc EXCEPT ![k] = "initializing"]
        /\ phase' = [phase EXCEPT ![k] = "initializing"]
        /\ UNCHANGED <<services, triggers, jobOf, outcome>>
    BY <1>4 DEF RunSyncJob
  <2>. QED
    BY <1>0, <2>2, <2>3, NoneAssumption DEF TypeOK, TaskInv, TriggerInv, StatusInv
<1>5. ASSUME NEW k \in Tasks, StartGather(k) PROVE StatusInv(i, m)'
  BY <1>0, NoneAssumption, <1>5 DEF TypeOK, TaskInv, TriggerInv, StatusInv, StartGather
<1>6. ASSUME NEW k \in Tasks, InitializeFails(k) PROVE StatusInv(i, m)'
  <2>1. jobs' = Updated(jobOf[k], "failed", None, TRUE)
    BY <1>6 DEF InitializeFails, SyncRaises
  <2>2. jobs'[i].status = IF i = jobOf[k] /\ jobs[i].status # "none"
                          THEN "failed" ELSE jobs[i].status
    BY <1>0, <2>1, UpdatedStatus DEF TypeOK
  <2>3. /\ pc[k] = "initializing"
        /\ pc' = [pc EXCEPT ![k] = "closing"]
        /\ outcome' = [outcome EXCEPT ![k] = "failed"]
        /\ phase' = [phase EXCEPT ![k] = "failed"]
        /\ UNCHANGED <<services, triggers, jobOf>>
    BY <1>6 DEF InitializeFails, SyncRaises
  <2>. QED
    BY <1>0, <2>2, <2>3, NoneAssumption DEF TypeOK, TaskInv, TriggerInv, StatusInv
<1>7. ASSUME NEW k \in Tasks, GatherRaises(k) PROVE StatusInv(i, m)'
  <2>1. jobs' = Updated(jobOf[k], "failed", None, TRUE)
    BY <1>7 DEF GatherRaises, SyncRaises
  <2>2. jobs'[i].status = IF i = jobOf[k] /\ jobs[i].status # "none"
                          THEN "failed" ELSE jobs[i].status
    BY <1>0, <2>1, UpdatedStatus DEF TypeOK
  <2>3. /\ pc[k] = "gathering"
        /\ pc' = [pc EXCEPT ![k] = "closing"]
        /\ outcome' = [outcome EXCEPT ![k] = "failed"]
        /\ phase' = [phase EXCEPT ![k] = "failed"]
        /\ UNCHANGED <<services, triggers, jobOf>>
    BY <1>7 DEF GatherRaises, SyncRaises
  <2>. QED
    BY <1>0, <2>2, <2>3, NoneAssumption DEF TypeOK, TaskInv, TriggerInv, StatusInv
<1>8. ASSUME NEW k \in Tasks, SyncReturns(k) PROVE StatusInv(i, m)'
  <2>1. jobs' = Updated(jobOf[k], "completed", k, FALSE)
    BY <1>8 DEF SyncReturns, BothReturned
  <2>2. jobs'[i].status = IF i = jobOf[k] /\ jobs[i].status # "none"
                          THEN "completed" ELSE jobs[i].status
    <3>1. jobs \in [JobIds -> JobRecord]
      BY <1>0 DEF TypeOK
    <3>2. Updated(jobOf[k], "completed", k, FALSE)[i].status
            = IF i = jobOf[k] /\ jobs[i].status # "none" THEN "completed" ELSE jobs[i].status
      BY <3>1, CompletedStatus
    <3>. QED
      BY <2>1, <3>2
  <2>3. /\ pc[k] = "gathering"
        /\ pc' = [pc EXCEPT ![k] = "closing"]
        /\ outcome' = [outcome EXCEPT ![k] = "completed"]
        /\ phase' = [phase EXCEPT ![k] = "completed"]
        /\ UNCHANGED <<services, triggers, jobOf>>
    BY <1>8 DEF SyncReturns, BothReturned
  <2>. QED
    BY <1>0, <2>2, <2>3, NoneAssumption DEF TypeOK, TaskInv, TriggerInv, StatusInv
<1>9. ASSUME NEW k \in Tasks, CloseService(k) PROVE StatusInv(i, m)'
  BY <1>0, NoneAssumption, <1>9 DEF TypeOK, TaskInv, TriggerInv, StatusInv, CloseService
<1>10. ASSUME NEW k \in Tasks, TicketPage(k) PROVE StatusInv(i, m)'
  BY <1>0, NoneAssumption, <1>10 DEF TypeOK, TaskInv, TriggerInv, StatusInv, TicketPage
<1>11. ASSUME NEW k \in Tasks, TicketUpload(k) PROVE StatusInv(i, m)'
  BY <1>0, NoneAssumption, <1>11
     DEF TypeOK, TaskInv, TriggerInv, StatusInv, TicketUpload, CountUploaded
<1>12. ASSUME NEW k \in Tasks, TicketEnd(k) PROVE StatusInv(i, m)'
  BY <1>0, NoneAssumption, <1>12 DEF TypeOK, TaskInv, TriggerInv, StatusInv, TicketEnd
<1>13. ASSUME NEW k \in Tasks, TicketFail(k) PROVE StatusInv(i, m)'
  BY <1>0, NoneAssumption, <1>13 DEF TypeOK, TaskInv, TriggerInv, StatusInv, TicketFail
<1>14. ASSUME NEW k \in Tasks, ArticlesFetched(k) PROVE StatusInv(i, m)'
  BY <1>0, NoneAssumption, <1>14 DEF TypeOK, TaskInv, TriggerInv, StatusInv, ArticlesFetched
<1>15. ASSUME NEW k \in Tasks, ArticleUpload(k) PROVE StatusInv(i, m)'
  BY <1>0, NoneAssumption, <1>15
     DEF TypeOK, TaskInv, TriggerInv, StatusInv, ArticleUpload, CountUploaded, LastBatch
<1>16. ASSUME NEW k \in Tasks, ArticleFail(k) PROVE StatusInv(i, m)'
  BY <1>0, NoneAssumption, <1>16 DEF TypeOK, TaskInv, TriggerInv, StatusInv, ArticleFail
<1>17. CASE Restart
  BY <1>0, NoneAssumption, <1>17
     DEF TypeOK, TaskInv, TriggerInv, StatusInv, Restart, Each, NoJob
<1>18. CASE UNCHANGED vars
  BY <1>0, NoneAssumption, <1>18 DEF TypeOK, TaskInv, TriggerInv, StatusInv, vars
<1>. QED
  BY <1>1, <1>2, <1>3, <1>4, <1>5, <1>6, <1>7, <1>8, <1>9,
     <1>10, <1>11, <1>12, <1>13, <1>14, <1>15, <1>16, <1>17, <1>18
  DEF Next, TaskStep, SyncStep, TicketStep, ArticleStep, Quiescent

LEMMA QuietStep ==
  Inv /\ [Next]_vars
    => \A m \in Tasks : outcome[m] = "completed" /\ outcome'[m] = "completed" => QuietTask(m)
<1>. SUFFICES ASSUME Inv, [Next]_vars, NEW m \in Tasks,
                    outcome[m] = "completed", outcome'[m] = "completed" PROVE QuietTask(m)
  OBVIOUS
<1>0. TypeOK /\ TaskInv(m)
  BY DEF Inv
<1>1. ASSUME NEW k \in Tasks, NEW t \in Tenants, NEW s \in Seconds,
             NEW o \in Options, TriggerSync(k, t, s, o)
      PROVE  QuietTask(m)
  BY <1>0, <1>1 DEF TypeOK, TaskInv, QuietTask, TriggerSync
<1>2. ASSUME NEW t \in Tenants, NEW s \in Seconds, TriggerAborted(t, s) PROVE QuietTask(m)
  BY <1>0, <1>2 DEF TypeOK, TaskInv, QuietTask, TriggerAborted
<1>3. ASSUME NEW j \in JobIds, CancelSync(j) PROVE QuietTask(m)
  BY <1>0, <1>3 DEF TypeOK, TaskInv, QuietTask, CancelSync
<1>4. ASSUME NEW k \in Tasks, RunSyncJob(k) PROVE QuietTask(m)
  BY <1>0, <1>4 DEF TypeOK, TaskInv, QuietTask, RunSyncJob
<1>5. ASSUME NEW k \in Tasks, StartGather(k) PROVE QuietTask(m)
  BY <1>0, <1>5 DEF TypeOK, TaskInv, QuietTask, StartGather
<1>6. ASSUME NEW k \in Tasks, InitializeFails(k) PROVE QuietTask(m)
  BY <1>0, <1>6 DEF TypeOK, TaskInv, QuietTask, InitializeFails, SyncRaises
<1>7. ASSUME NEW k \in Tasks, GatherRaises(k) PROVE QuietTask(m)
  BY <1>0, <1>7 DEF TypeOK, TaskInv, QuietTask, GatherRaises, SyncRaises
<1>8. ASSUME NEW k \in Tasks, SyncReturns(k) PROVE QuietTask(m)
  BY <1>0, <1>8 DEF TypeOK, TaskInv, QuietTask, SyncReturns, SaveMetadata, BothReturned
<1>9. ASSUME NEW k \in Tasks, CloseService(k) PROVE QuietTask(m)
  BY <1>0, <1>9 DEF TypeOK, TaskInv, QuietTask, CloseService
<1>10. ASSUME NEW k \in Tasks, TicketPage(k) PROVE QuietTask(m)
  BY <1>0, <1>10 DEF TypeOK, TaskInv, QuietTask, TicketPage, Collected
<1>11. ASSUME NEW k \in Tasks, TicketUpload(k) PROVE QuietTask(m)
  BY <1>0, <1>11 DEF TypeOK, TaskInv, QuietTask, TicketUpload, CountUploaded
<1>12. ASSUME NEW k \in Tasks, TicketEnd(k) PROVE QuietTask(m)
  BY <1>0, <1>12 DEF TypeOK, TaskInv, QuietTask, TicketEnd
<1>13. ASSUME NEW k \in Tasks, TicketFail(k) PROVE QuietTask(m)
  BY <1>0, <1>13 DEF TypeOK, TaskInv, QuietTask, TicketFail, Collected
<1>14. ASSUME NEW k \in Tasks, ArticlesFetched(k) PROVE QuietTask(m)
  BY <1>0, <1>14 DEF TypeOK, TaskInv, QuietTask, ArticlesFetched, Collected
<1>15. ASSUME NEW k \in Tasks, ArticleUpload(k) PROVE QuietTask(m)
  BY <1>0, <1>15 DEF TypeOK, TaskInv, QuietTask, ArticleUpload, CountUploaded, LastBatch
<1>16. ASSUME NEW k \in Tasks, ArticleFail(k) PROVE QuietTask(m)
  BY <1>0, <1>16 DEF TypeOK, TaskInv, QuietTask, ArticleFail, Collected
<1>17. CASE Restart
  BY <1>0, <1>17 DEF TypeOK, TaskInv, QuietTask, Restart, Each, NoJob
<1>18. CASE UNCHANGED vars
  BY <1>0, <1>18 DEF TypeOK, TaskInv, QuietTask, vars
<1>. QED
  BY <1>1, <1>2, <1>3, <1>4, <1>5, <1>6, <1>7, <1>8, <1>9,
     <1>10, <1>11, <1>12, <1>13, <1>14, <1>15, <1>16, <1>17, <1>18
  DEF Next, TaskStep, SyncStep, TicketStep, ArticleStep, Quiescent

LEMMA InvStep == Inv /\ [Next]_vars => Inv'
BY TypeStep, TaskStepInv, CountStep, PendingStep, ResultStep, MetadataStep, TriggerStep,
   StatusStep DEF Inv

THEOREM Invariance == Spec => []Inv
BY InitInv, InvStep, PTL DEF Spec

\* Each variable keeps its type, whatever the tenants, the triggers and the
\* failures: in particular no counter of a sync outgrows its pages and batches.
THEOREM TypeCorrect == Spec => []TypeOK
<1>1. Inv => TypeOK
  BY DEF Inv
<1>. QED
  BY <1>1, Invariance, PTL

\* A sync that returned its result took every batch it fetched through the
\* upload callback and counted each once, for any number of concurrent syncs and batches.
THEOREM CompletedWhole == Spec => []CompletedSyncIsWhole
<1>1. Inv => CompletedSyncIsWhole
  <2>. SUFFICES ASSUME Inv PROVE CompletedSyncIsWhole
    OBVIOUS
  <2>1. ASSUME NEW k \in Tasks, outcome[k] = "completed"
        PROVE  /\ tpc[k] = "done" /\ apc[k] = "done"
               /\ abatch[k] = atotal[k]
               /\ uploaded[k] = tickets[k] + atotal[k]
               /\ pc[k] = "ended" => client[k] = "closed"
    BY <2>1 DEF Inv, TaskInv, CountInv
  <2>. QED
    BY <2>1 DEF CompletedSyncIsWhole, Inv, ResultInv
<1>. QED
  BY <1>1, Invariance, PTL

\* Metadata in Supabase never runs ahead of the uploads, whether they store the
\* document or drop it, across cancellations, orphaned coroutines and restarts.
THEOREM MetadataSafe == Spec => []MetadataNotAheadOfUpload
<1>1. Inv => MetadataNotAheadOfUpload
  BY DEF Inv
<1>. QED
  BY <1>1, Invariance, PTL

\* GET /status of a job id issued once tells how its sync stands.
THEOREM StatusCorrect == Spec => []StatusTellsOutcome
<1>1. Inv => StatusTellsOutcome
  BY DEF Inv, StatusInv, StatusTellsOutcome
<1>. QED
  BY <1>1, Invariance, PTL

\* Nothing of a sync moves after it returned its result.
THEOREM CompletedQuiet == Spec => CompletedIsQuiet
<1>1. Inv /\ [Next]_vars
        => [\A k \in Tasks : outcome[k] = "completed" /\ outcome'[k] = "completed" =>
              UNCHANGED <<tpc[k], apc[k], abatch[k], phase[k], tickets[k], uploaded[k],
                          pending[k]>>]_vars
  BY QuietStep DEF QuietTask
<1>. QED
  BY <1>1, Invariance, PTL DEF Spec, CompletedIsQuiet

-----------------------------------------------------------------------------
(* What the liveness of a sync rests on: its work only shrinks, and until it *)
(* has ended one of its own coroutines can go on.                            *)

\* Steps a task has before it, at most: of its two coroutines and of the job
TicketWork(k) ==
  CASE tpc[k] = "fetch" -> 2 * (NPages - tpage[k]) + 1
    [] tpc[k] = "upload" -> 2 * (NPages - tpage[k]) + 2
    [] OTHER -> 0
ArticleWork(k) ==
  CASE apc[k] = "fetch" -> NBatches + 1
    [] apc[k] = "upload" -> atotal[k] - abatch[k]
    [] OTHER -> 0
JobWork(k) ==
  CASE pc[k] = "scheduled" -> 2 * NPages + NBatches + 6
    [] pc[k] = "initializing" -> 2 * NPages + NBatches + 5
    [] pc[k] = "gathering" -> 2
    [] pc[k] = "closing" -> 1
    [] OTHER -> 0
Work(k) == JobWork(k) + TicketWork(k) + ArticleWork(k)

\* The guard of one of the actions of the task holds.
CanGoOn(k) ==
  \/ pc[k] \in {"scheduled", "initializing", "closing"}
  \/ pc[k] = "gathering" /\ (SomeFailed(k) \/ BothReturned(k))
  \/ tpc[k] \in {"fetch", "upload"}
  \/ apc[k] \in {"fetch", "upload"}

\* Once triggered, a sync never waits for what only another sync, a client or
\* a retry could give it.
NeverStuck == \A k \in Tasks : pc[k] \in Live => CanGoOn(k)

\* No step of anybody adds to the work of a sync that was triggered, and each
\* of its own takes some away: no cancellation and no other sync starts it over.
SyncsAdvance ==
  [][\A k \in Tasks : pc[k] # "free" =>
       /\ Work(k)' <= Work(k)
       /\ TaskStep(k) => Work(k)' < Work(k)]_vars

\* gather starts both coroutines, and nothing takes them away but a restart.
Gathers(k) == pc[k] = "gathering" => tpc[k] # "off" /\ apc[k] # "off"

LEMMA WorkBounded ==
  ASSUME Inv, NEW k \in Tasks
  PROVE  /\ JobWork(k) \in Nat
         /\ TicketWork(k) \in 0 .. 2 * NPages + 2
         /\ ArticleWork(k) \in 0 .. NBatches + 1
         /\ Work(k) \in Nat
<1>1. /\ tpage[k] \in 0 .. NPages /\ abatch[k] \in Nat /\ atotal[k] \in 0 .. NBatches
      /\ apc[k] = "upload" => abatch[k] < atotal[k]
  BY DEF Inv, TypeOK, CountInv
<1>2. JobWork(k) \in Nat
  BY BoundsAssumption DEF JobWork
<1>3. TicketWork(k) \in 0 .. 2 * NPages + 2
  BY <1>1, BoundsAssumption DEF TicketWork
<1>4. ArticleWork(k) \in 0 .. NBatches + 1
  BY <1>1, BoundsAssumption DEF ArticleWork
<1>. QED
  BY <1>2, <1>3, <1>4, BoundsAssumption DEF Work

\* The work of a task whose job, or coroutine, does not move stays what it is.
LEMMA WorkKept ==
  ASSUME NEW k \in Tasks
  PROVE  /\ pc'[k] = pc[k] => JobWork(k)' = JobWork(k)
         /\ tpc'[k] = tpc[k] /\ tpage'[k] = tpage[k] => TicketWork(k)' = TicketWork(k)
         /\ apc'[k] = apc[k] /\ atotal'[k] = atotal[k] /\ abatch'[k] = abatch[k]
              => ArticleWork(k)' = ArticleWork(k)
BY DEF JobWork, TicketWork, ArticleWork

LEMMA SyncStepWorks ==
  ASSUME Inv, NEW k \in Tasks, SyncStep(k)
  PROVE  Work(k)' < Work(k)
<1>0. TypeOK /\ TaskInv(k) /\ JobWork(k) \in Nat /\ TicketWork(k) \in Nat /\ ArticleWork(k) \in Nat
  BY WorkBounded DEF Inv
<1>1. CASE StartGather(k)
  <2>1. pc[k] = "initializing" /\ pc'[k] = "gathering"
    BY <1>0, <1>1 DEF StartGather, TypeOK
  <2>2. JobWork(k) = 2 * NPages + NBatches + 5 /\ JobWork(k)' = 2
    BY <2>1 DEF JobWork
  <2>3. tpc'[k] \in {"fetch", "done"} /\ tpage'[k] = tpage[k] /\ tpage[k] \in 0 .. NPages
    BY <1>0, <1>1 DEF StartGather, TypeOK
  <2>4. TicketWork(k)' \in 0 .. 2 * NPages + 1
    BY <2>3, BoundsAssumption DEF TicketWork
  <2>5. apc'[k] \in {"fetch", "done"}
    BY <1>0, <1>1 DEF StartGather, TypeOK
  <2>6. ArticleWork(k)' \in 0 .. NBatches + 1
    BY <2>5, BoundsAssumption DEF ArticleWork
  <2>. QED
    BY <1>0, <2>2, <2>4, <2>6, BoundsAssumption DEF Work
<1>2. ASSUME JobWork(k)' < JobWork(k), JobWork(k)' \in Nat,
             UNCHANGED <<tpc, tpage, apc, atotal, abatch>>
      PROVE  Work(k)' < Work(k)
  BY <1>0, <1>2, WorkKept DEF Work
<1>3. CASE RunSyncJob(k)
  <2>1. pc[k] = "scheduled" /\ pc'[k] = "initializing"
    BY <1>0, <1>3 DEF RunSyncJob, TypeOK
  <2>2. JobWork(k)' < JobWork(k) /\ JobWork(k)' \in Nat
    BY <2>1, BoundsAssumption DEF JobWork
  <2>. QED
    BY <1>2, <1>3, <2>2 DEF RunSyncJob
<1>4. CASE InitializeFails(k)
  <2>1. pc[k] = "initializing" /\ pc'[k] = "closing"
    BY <1>0, <1>4 DEF InitializeFails, SyncRaises, TypeOK
  <2>2. JobWork(k)' < JobWork(k) /\ JobWork(k)' \in Nat
    BY <2>1, BoundsAssumption DEF JobWork
  <2>. QED
    BY <1>2, <1>4, <2>2 DEF InitializeFails, SyncRaises
<1>5. CASE GatherRaises(k)
  <2>1. pc[k] = "gathering" /\ pc'[k] = "closing"
    BY <1>0, <1>5 DEF GatherRaises, SyncRaises, TypeOK
  <2>2. JobWork(k)' < JobWork(k) /\ JobWork(k)' \in Nat
    BY <2>1 DEF JobWork
  <2>. QED
    BY <1>2, <1>5, <2>2 DEF GatherRaises, SyncRaises
<1>6. CASE SyncReturns(k)
  <2>1. pc[k] = "gathering" /\ pc'[k] = "closing"
    BY <1>0, <1>6 DEF SyncReturns, TypeOK
  <2>2. JobWork(k)' < JobWork(k) /\ JobWork(k)' \in Nat
    BY <2>1 DEF JobWork
  <2>. QED
    BY <1>2, <1>6, <2>2 DEF SyncReturns
<1>7. CASE CloseService(k)
  <2>1. pc[k] = "closing" /\ pc'[k] = "ended"
    BY <1>0, <1>7 DEF CloseService, TypeOK
  <2>2. JobWork(k)' < JobWork(k) /\ JobWork(k)' \in Nat
    BY <2>1 DEF JobWork
  <2>. QED
    BY <1>2, <1>7, <2>2 DEF CloseService
<1>. QED
  BY <1>1, <1>3, <1>4, <1>5, <1>6, <1>7 DEF SyncStep

LEMMA TicketStepWorks ==
  ASSUME Inv, NEW k \in Tasks, TicketStep(k)
  PROVE  Work(k)' < Work(k)
<1>0. TypeOK /\ JobWork(k) \in Nat /\ TicketWork(k) \in Nat /\ ArticleWork(k) \in Nat
  BY WorkBounded DEF Inv
<1>1. tpage[k] \in 0 .. NPages
  BY <1>0 DEF TypeOK
<1>2. ASSUME TicketWork(k)' < TicketWork(k), TicketWork(k)' \in Nat,
             UNCHANGED <<pc, apc, atotal, abatch>>
      PROVE  Work(k)' < Work(k)
  BY <1>0, <1>2, WorkKept DEF Work
<1>3. CASE TicketPage(k)
  <2>1. /\ tpc[k] = "fetch" /\ tpc'[k] = "upload"
        /\ tpage'[k] \in tpage[k] + 1 .. NPages
        /\ UNCHANGED <<pc, apc, atotal, abatch>>
    BY <1>0, <1>3 DEF TicketPage, TypeOK
  <2>2. TicketWork(k)' < TicketWork(k) /\ TicketWork(k)' \in Nat
    BY <1>1, <2>1, BoundsAssumption DEF TicketWork
  <2>. QED
    BY <1>2, <2>1, <2>2
<1>4. CASE TicketUpload(k)
  <2>1. /\ tpc[k] = "upload" /\ tpc'[k] = "fetch" /\ tpage'[k] = tpage[k]
        /\ UNCHANGED <<pc, apc, atotal, abatch>>
    BY <1>0, <1>4 DEF TicketUpload, Upload, TypeOK
  <2>2. TicketWork(k)' < TicketWork(k) /\ TicketWork(k)' \in Nat
    BY <1>1, <2>1, BoundsAssumption DEF TicketWork
  <2>. QED
    BY <1>2, <2>1, <2>2
<1>5. CASE TicketEnd(k) \/ TicketFail(k)
  <2>1. /\ tpc[k] = "fetch" /\ tpc'[k] \in {"done", "failed"}
        /\ UNCHANGED <<pc, apc, atotal, abatch>>
    BY <1>0, <1>5 DEF TicketEnd, TicketFail, TypeOK
  <2>2. TicketWork(k)' < TicketWork(k) /\ TicketWork(k)' \in Nat
    BY <1>1, <2>1, BoundsAssumption DEF TicketWork
  <2>. QED
    BY <1>2, <2>1, <2>2
<1>. QED
  BY <1>3, <1>4, <1>5 DEF TicketStep

LEMMA ArticleStepWorks ==
  ASSUME Inv, NEW k \in Tasks, ArticleStep(k)
  PROVE  Work(k)' < Work(k)
<1>0. TypeOK /\ JobWork(k) \in Nat /\ TicketWork(k) \in Nat /\ ArticleWork(k) \in Nat
  BY WorkBounded DEF Inv
<1>1. /\ atotal[k] \in 0 .. NBatches /\ abatch[k] \in 0 .. NBatches
      /\ apc[k] = "upload" => abatch[k] < atotal[k]
      /\ apc[k] = "fetch" => abatch[k] = 0
  BY DEF Inv, TypeOK, CountInv
<1>2. ASSUME ArticleWork(k)' < ArticleWork(k), ArticleWork(k)' \in Nat,
             UNCHANGED <<pc, tpc, tpage>>
      PROVE  Work(k)' < Work(k)
  BY <1>0, <1>2, WorkKept DEF Work
<1>3. CASE ArticlesFetched(k)
  <2>1. /\ apc[k] = "fetch" /\ abatch'[k] = abatch[k]
        /\ atotal'[k] \in 0 .. NBatches
        /\ apc'[k] \in {"done", "upload"}
        /\ UNCHANGED <<pc, tpc, tpage>>
    BY <1>0, <1>3 DEF ArticlesFetched, TypeOK
  <2>2. ArticleWork(k)' < ArticleWork(k) /\ ArticleWork(k)' \in Nat
    BY <1>1, <2>1, BoundsAssumption DEF ArticleWork
  <2>. QED
    BY <1>2, <2>1, <2>2
<1>4. CASE ArticleUpload(k)
  <2>1. /\ apc[k] = "upload" /\ abatch'[k] = abatch[k] + 1 /\ atotal'[k] = atotal[k]
        /\ apc'[k] \in {"done", "upload"}
        /\ UNCHANGED <<pc, tpc, tpage>>
    BY <1>0, <1>4 DEF ArticleUpload, Upload, TypeOK
  <2>2. ArticleWork(k)' < ArticleWork(k) /\ ArticleWork(k)' \in Nat
    BY <1>1, <2>1, BoundsAssumption DEF ArticleWork
  <2>. QED
    BY <1>2, <2>1, <2>2
<1>5. CASE ArticleFail(k)
  <2>1. /\ apc[k] = "fetch" /\ apc'[k] = "failed"
        /\ UNCHANGED <<pc, tpc, tpage>>
    BY <1>0, <1>5 DEF ArticleFail, TypeOK
  <2>2. ArticleWork(k)' < ArticleWork(k) /\ ArticleWork(k)' \in Nat
    BY <1>1, <2>1, BoundsAssumption DEF ArticleWork
  <2>. QED
    BY <1>2, <2>1, <2>2
<1>. QED
  BY <1>3, <1>4, <1>5 DEF ArticleStep

\* What a task is doing as far as its work goes
Standing(k) == <<pc[k], tpc[k], tpage[k], apc[k], abatch[k], atotal[k]>>

LEMMA StandingKept ==
  ASSUME NEW k \in Tasks, UNCHANGED Standing(k)
  PROVE  Work(k)' = Work(k)
<1>1. /\ pc'[k] = pc[k]
      /\ tpc'[k] = tpc[k] /\ tpage'[k] = tpage[k]
      /\ apc'[k] = apc[k] /\ abatch'[k] = abatch[k] /\ atotal'[k] = atotal[k]
  BY DEF Standing
<1>. QED
  BY <1>1, WorkKept DEF Work

\* A step of another task leaves a task standing.
LEMMA OthersStand ==
  ASSUME TypeOK, NEW k \in Tasks, NEW m \in Tasks \ {k}, TaskStep(k)
  PROVE  UNCHANGED Standing(m)
<1>1. CASE RunSyncJob(k)
  BY <1>1 DEF TypeOK, Standing, RunSyncJob
<1>2. CASE StartGather(k)
  BY <1>2 DEF TypeOK, Standing, StartGather
<1>3. CASE InitializeFails(k)
  BY <1>3 DEF TypeOK, Standing, InitializeFails, SyncRaises
<1>4. CASE GatherRaises(k)
  BY <1>4 DEF TypeOK, Standing, GatherRaises, SyncRaises
<1>5. CASE SyncReturns(k)
  BY <1>5 DEF TypeOK, Standing, SyncReturns
<1>6. CASE CloseService(k)
  BY <1>6 DEF TypeOK, Standing, CloseService
<1>7. CASE TicketPage(k)
  BY <1>7 DEF TypeOK, Standing, TicketPage
<1>8. CASE TicketUpload(k)
  BY <1>8 DEF TypeOK, Standing, TicketUpload
<1>9. CASE TicketEnd(k)
  BY <1>9 DEF TypeOK, Standing, TicketEnd
<1>10. CASE TicketFail(k)
  BY <1>10 DEF TypeOK, Standing, TicketFail
<1>11. CASE ArticlesFetched(k)
  BY <1>11 DEF TypeOK, Standing, ArticlesFetched
<1>12. CASE ArticleUpload(k)
  BY <1>12 DEF TypeOK, Standing, ArticleUpload
<1>13. CASE ArticleFail(k)
  BY <1>13 DEF TypeOK, Standing, ArticleFail
<1>. QED
  BY <1>1, <1>2, <1>3, <1>4, <1>5, <1>6, <1>7, <1>8, <1>9, <1>10, <1>11, <1>12, <1>13
  DEF TaskStep, SyncStep, TicketStep, ArticleStep

LEMMA WorkStaysNumber == Inv' => (\A k \in Tasks : Work(k) \in Nat)'
<1>1. Inv => \A k \in Tasks : Work(k) \in Nat
  BY WorkBounded
<1>. QED
  BY <1>1, PTL

\* However many other syncs run, are cancelled or end, the work of a sync only
\* shrinks: with WorkBounded the safety half of EverySyncEnds.
THEOREM SyncsGetCloser == Spec => SyncsAdvance
<1>1. ASSUME Inv, NEW m \in Tasks, TaskStep(m)
      PROVE  Work(m)' < Work(m)
  BY <1>1, SyncStepWorks, TicketStepWorks, ArticleStepWorks DEF TaskStep
<1>2. ASSUME Inv, [Next]_vars, NEW m \in Tasks, pc[m] # "free"
      PROVE  Work(m)' <= Work(m)
  <2>0. TypeOK /\ Work(m) \in Nat /\ (UNCHANGED Standing(m) => Work(m)' <= Work(m))
    BY <1>2, WorkBounded, StandingKept DEF Inv
  <2>n. Work(m)' \in Nat
    BY <1>2, InvStep, WorkStaysNumber
  <2>1. ASSUME NEW k \in Tasks, TaskStep(k) PROVE Work(m)' <= Work(m)
    <3>1. CASE k = m
      <4>1. Work(m)' < Work(m) /\ Work(m)' \in Nat
        BY <1>1, <1>2, <2>1, <3>1, <2>n
      <4>. QED
        BY <2>0, <4>1
    <3>2. CASE k # m
      BY <2>0, <2>1, <3>2, OthersStand
    <3>. QED
      BY <3>1, <3>2
  <2>2. ASSUME NEW k \in Tasks, NEW t \in Tenants, NEW s \in Seconds, NEW o \in Options,
               TriggerSync(k, t, s, o)
        PROVE  Work(m)' <= Work(m)
    <3>1. k # m /\ UNCHANGED Standing(m)
      BY <1>2, <2>0, <2>2 DEF TriggerSync, TypeOK, Standing
    <3>. QED
      BY <2>0, <3>1
  <2>3. ASSUME NEW t \in Tenants, NEW s \in Seconds, TriggerAborted(t, s)
        PROVE  Work(m)' <= Work(m)
    BY <2>0, <2>3 DEF TriggerAborted, Standing
  <2>4. ASSUME NEW j \in JobIds, CancelSync(j) PROVE Work(m)' <= Work(m)
    BY <2>0, <2>4 DEF CancelSync, Standing
  <2>5. CASE Restart
    <3>1. pc'[m] \in {"free", "lost"} /\ tpc'[m] = "off" /\ apc'[m] = "off"
      BY <2>5 DEF Restart, Each
    <3>2. Work(m)' = 0
      BY <3>1 DEF Work, JobWork, TicketWork, ArticleWork
    <3>. QED
      BY <2>0, <3>2
  <2>6. CASE UNCHANGED vars
    BY <2>0, <2>6 DEF vars, Standing
  <2>. QED
    BY <1>2, <2>1, <2>2, <2>3, <2>4, <2>5, <2>6 DEF Next, Quiescent
<1>3. Inv /\ [Next]_vars =>
        [\A k \in Tasks : pc[k] # "free" =>
           /\ Work(k)' <= Work(k)
           /\ TaskStep(k) => Work(k)' < Work(k)]_vars
  BY <1>1, <1>2
<1>. QED
  BY <1>3, Invariance, PTL DEF SyncsAdvance, Spec

LEMMA GathersStep == Inv /\ [Next]_vars /\ (\A m \in Tasks : Gathers(m))
                       => (\A m \in Tasks : Gathers(m))'
<1>. SUFFICES ASSUME Inv, [Next]_vars, NEW m \in Tasks, Gathers(m) PROVE Gathers(m)'
  BY DEF Gathers
<1>0. TypeOK
  BY DEF Inv
<1>k. UNCHANGED <<pc[m], tpc[m], apc[m]>> => Gathers(m)'
  BY DEF Gathers
<1>s. UNCHANGED Standing(m) => Gathers(m)'
  BY <1>k DEF Standing
<1>1. ASSUME TaskStep(m) PROVE Gathers(m)'
  <2>1. CASE StartGather(m)
    BY <1>0, <2>1 DEF TypeOK, Gathers, StartGather
  <2>2. CASE SyncStep(m) /\ ~StartGather(m)
    BY <1>0, <2>2 DEF TypeOK, Gathers, SyncStep, RunSyncJob, InitializeFails, GatherRaises,
                     SyncRaises, SyncReturns, CloseService
  <2>3. CASE TicketStep(m)
    BY <1>0, <2>3 DEF TypeOK, Gathers, TicketStep, TicketPage, TicketUpload, Upload, TicketEnd, TicketFail
  <2>4. CASE ArticleStep(m)
    BY <1>0, <2>4 DEF TypeOK, Gathers, ArticleStep, ArticlesFetched, ArticleUpload, Upload, ArticleFail
  <2>. QED
    BY <1>1, <2>1, <2>2, <2>3, <2>4 DEF TaskStep
<1>2. ASSUME NEW k \in Tasks, TaskStep(k) PROVE Gathers(m)'
  BY <1>0, <1>1, <1>2, <1>s, OthersStand
<1>3. ASSUME NEW k \in Tasks, NEW t \in Tenants, NEW s \in Seconds, NEW o \in Options,
             TriggerSync(k, t, s, o)
      PROVE  Gathers(m)'
  BY <1>0, <1>3 DEF TriggerSync, TypeOK, Gathers
<1>4. ASSUME NEW t \in Tenants, NEW s \in Seconds, TriggerAborted(t, s) PROVE Gathers(m)'
  BY <1>k, <1>4 DEF TriggerAborted
<1>5. ASSUME NEW j \in JobIds, CancelSync(j) PROVE Gathers(m)'
  BY <1>k, <1>5 DEF CancelSync
<1>6. CASE Restart
  BY <1>6 DEF Restart, Gathers
<1>7. CASE UNCHANGED vars
  BY <1>k, <1>7 DEF vars
<1>. QED
  BY <1>2, <1>3, <1>4, <1>5, <1>6, <1>7 DEF Next, Quiescent

\* A sync that was triggered and has not ended can go on by itself, whatever
\* the cancellations, the failures and the other syncs: it waits for nobody.
THEOREM NoSyncStuck == Spec => []NeverStuck
<1>1. Init => \A m \in Tasks : Gathers(m)
  BY DEF Init, Each, Gathers
<1>2. TypeOK /\ (\A m \in Tasks : Gathers(m)) => NeverStuck
  <2>. SUFFICES ASSUME TypeOK, NEW k \in Tasks, Gathers(k), pc[k] \in Live PROVE CanGoOn(k)
    BY DEF NeverStuck
  <2>1. CASE pc[k] = "gathering"
    <3>1. tpc[k] \in SubState \ {"off"} /\ apc[k] \in SubState \ {"off"}
      BY <2>1 DEF TypeOK, Gathers
    <3>. QED
      BY <2>1, <3>1 DEF CanGoOn, BothReturned
  <2>2. CASE pc[k] # "gathering"
    BY <2>2 DEF CanGoOn
  <2>. QED
    BY <2>1, <2>2
<1>. QED
  BY <1>1, <1>2, GathersStep, Invariance, TypeCorrect, PTL DEF Spec
=============================================================================
