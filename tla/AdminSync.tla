------------------------------ MODULE AdminSync ------------------------------
(***************************************************************************)
(* The administration API: the tenants and the sync jobs that              *)
(* app/services/admin_service.py keeps in memory for the routes of         *)
(* app/api/routes/admin.py.  A route checks that no sync of the tenant is  *)
(* current and schedules a task; the job is created when the task begins,  *)
(* so a second task may have been let in by then.                          *)
(*                                                                         *)
(* Jobs of the scheduler do not occur: create_scheduler_job hands add_job  *)
(* a keyword it does not take, so none is ever added.                      *)
(***************************************************************************)
EXTENDS Naturals

CONSTANTS Tenants, Jobs, Domains, NoDomain, NoJob

ASSUME AdminAssumption == Tenants # {}

VARIABLES
  tenants,   \* TenantStore._tenants: absent, or the Freshdesk domain of the tenant
  job,       \* per job: its tenant, where its task is, its status, its progress
  current,   \* SyncJobStore._current_jobs
  refusals   \* history: tenants whose trigger was refused while none of their syncs ran

adminVars == <<tenants, job, current, refusals>>

JobStages == {"idle", "scheduled", "sleeping", "over", "gone"}
JobStatuses == {"none", "running", "completed"}

AdminTypeOK ==
  /\ tenants \in [Tenants -> Domains \union {NoDomain}]
  /\ job \in [Jobs -> [tenant : Tenants, stage : JobStages, status : JobStatuses, progress : 0..4]]
  /\ current \in [Tenants -> Jobs \union {NoJob}]
  /\ refusals \subseteq Tenants

Unused == [tenant |-> CHOOSE t \in Tenants : TRUE, stage |-> "idle", status |-> "none", progress |-> 0]

AdminInit ==
  /\ tenants = [t \in Tenants |-> NoDomain]
  /\ job = [j \in Jobs |-> Unused]
  /\ current = [t \in Tenants |-> NoJob]
  /\ refusals = {}

Known(t) == tenants[t] # NoDomain

-----------------------------------------------------------------------------
(* A tenant that exists is a conflict.                                     *)
CreateTenant(t, d) ==
  /\ ~Known(t)
  /\ tenants' = [tenants EXCEPT ![t] = d]
  /\ UNCHANGED <<job, current, refusals>>

(* d is the domain sent, or none: what is not sent is kept.                *)
UpdateTenant(t, d) ==
  /\ Known(t)
  /\ tenants' = IF d = NoDomain THEN tenants ELSE [tenants EXCEPT ![t] = d]
  /\ UNCHANGED <<job, current, refusals>>

DeleteTenant(t) ==
  /\ Known(t)
  /\ tenants' = [tenants EXCEPT ![t] = NoDomain]
  /\ UNCHANGED <<job, current, refusals>>

(* GET and PUT of the configuration create the tenant from the domain in   *)
(* the header, or answer 404 without one; PUT then updates it.             *)
UpsertConfig(t, header, d) ==
  /\ Known(t) \/ header # NoDomain
  /\ tenants' = [tenants EXCEPT ![t] = IF d # NoDomain THEN d ELSE IF Known(t) THEN @ ELSE header]
  /\ UNCHANGED <<job, current, refusals>>

-----------------------------------------------------------------------------
InProgress(t) == current[t] # NoJob
Running(t) == {j \in Jobs : job[j].tenant = t /\ job[j].stage = "sleeping"}

(* The tenant need not be known.                                           *)
TriggerAdminSync(t, j) ==
  /\ job[j].stage = "idle" /\ ~InProgress(t)
  /\ job' = [job EXCEPT ![j].stage = "scheduled", ![j].tenant = t]
  /\ UNCHANGED <<tenants, current, refusals>>

(* 409                                                                     *)
RefuseAdminSync(t) ==
  /\ InProgress(t)
  /\ refusals' = IF Running(t) = {} THEN refusals \union {t} ELSE refusals
  /\ UNCHANGED <<tenants, job, current>>

BeginAdminSync(j) ==
  /\ job[j].stage = "scheduled"
  /\ job' = [job EXCEPT ![j] = [tenant |-> @.tenant, stage |-> "sleeping", status |-> "running", progress |-> 1]]
  /\ current' = [current EXCEPT ![job[j].tenant] = j]
  /\ UNCHANGED <<tenants, refusals>>

(* A quarter of the simulated work, a second of sleep.                     *)
ProgressAdminSync(j) ==
  /\ job[j].stage = "sleeping" /\ job[j].progress < 4
  /\ job' = [job EXCEPT ![j].progress = @ + 1]
  /\ UNCHANGED <<tenants, current, refusals>>

(* The current job of the tenant is forgotten, whichever it is.            *)
CompleteAdminSync(j) ==
  /\ job[j].stage = "sleeping" /\ job[j].progress = 4
  /\ job' = [job EXCEPT ![j].stage = "over", ![j].status = "completed"]
  /\ current' = [current EXCEPT ![job[j].tenant] = NoJob]
  /\ UNCHANGED <<tenants, refusals>>

AdminRestart_KeepsCurrent ==
  /\ tenants' = [t \in Tenants |-> NoDomain]
  /\ job' = [j \in Jobs |-> IF job[j].stage = "idle" THEN job[j]
                            ELSE [Unused EXCEPT !.stage = "gone"]]
  /\ UNCHANGED <<current, refusals>>

(* Everything was in memory, the tasks too.                                *)
AdminRestart ==
  /\ tenants' = [t \in Tenants |-> NoDomain]
  /\ job' = [j \in Jobs |-> IF job[j].stage = "idle" THEN job[j]
                            ELSE [Unused EXCEPT !.stage = "gone"]]
  /\ current' = [t \in Tenants |-> NoJob]
  /\ UNCHANGED refusals

AdminNext ==
  \/ \E t \in Tenants :
       \/ \E d \in Domains : CreateTenant(t, d)
       \/ \E d \in Domains \union {NoDomain} :
            UpdateTenant(t, d) \/ \E header \in Domains \union {NoDomain} : UpsertConfig(t, header, d)
       \/ DeleteTenant(t) \/ RefuseAdminSync(t)
       \/ \E j \in Jobs : TriggerAdminSync(t, j)
  \/ \E j \in Jobs : BeginAdminSync(j) \/ ProgressAdminSync(j) \/ CompleteAdminSync(j)
  \/ AdminRestart

AdminSpec == AdminInit /\ [][AdminNext]_adminVars

-----------------------------------------------------------------------------
(* Although a completed job forgets a current job that need not be its     *)
(* own, and jobs overlap, no tenant is refused a sync while none of its    *)
(* syncs runs: nothing stays current after the last one is over.           *)
RefusedOnlyWhileRunning == refusals = {}

=============================================================================
