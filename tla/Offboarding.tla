---------------------------- MODULE Offboarding ----------------------------
(***************************************************************************)
(* Offboarding of one tenant: export, retention window, legal hold, wipe.  *)
(* The control plane keeps the jobs and asks the school server, by outbox  *)
(* events that may arrive late and more than once, to export and to wipe;  *)
(* the school server reports back.  The school server's side is external:  *)
(* it answers only what it was asked, but as late and as often as it may.  *)
(* A transaction of a route is one step; the billing worker's pass, which  *)
(* runs in a thread of its own, is two: its reads and its commit.          *)
(***************************************************************************)
EXTENDS Integers, FiniteSets

CONSTANT MaxJobs  \* rows of tenant_offboard_jobs

ASSUME OffboardingAssumption == MaxJobs \in Nat \ {0}

Jobs == 1 .. MaxJobs

VARIABLES jobs,     \* the rows: status, and whether the wipe date has passed
          tenant,   \* tenants row: status, status_reason
          hold,     \* tenants.legal_hold
          wipes,    \* jobs whose wipe the school server was asked for
          exported, \* jobs whose export the school server has reported
          pass      \* what the open dispatch_due_wipes has read

offboardVars == <<jobs, tenant, hold, wipes, exported, pass>>

JobStatus == {"absent", "export_pending", "wipe_scheduled", "blocked_legal_hold",
              "wipe_dispatched", "completed", "failed", "cancelled"}
Live == {"export_pending", "wipe_scheduled"}
\* dated: wipe_scheduled_at is set; due: it has passed.
Job == [status : JobStatus, dated : BOOLEAN, due : BOOLEAN]
NoJob == [status |-> "absent", dated |-> FALSE, due |-> FALSE]
NoPass == [due |-> {}, hold |-> FALSE]

With(j, status) == jobs' = [jobs EXCEPT ![j].status = status]
LiveJobs == {j \in Jobs : jobs[j].status \in Live}
NextJob(j) == jobs[j].status = "absent"
              /\ \A k \in Jobs : k < j => jobs[k].status # "absent"

-----------------------------------------------------------------------------
(* Mutations of definitions below; not part of the specification.          *)

\* dispatch_due_wipes takes jobs whose export is still pending.
MutDueWipes == {j \in Jobs : jobs[j].status \in Live /\ jobs[j].due}
\* Legal hold is checked at scheduling time only.
MutWipeOutcome == "wipe_dispatched"
\* cancel_offboard_job leaves the tenant archived.
MutRestored == tenant
\* The worker drops due jobs (a job row that nothing reads).
MutStartPass == FALSE /\ UNCHANGED offboardVars
\* schedule_offboard under legal hold schedules all the same.
MutScheduleUnderHold(j) ==
    /\ hold /\ NextJob(j)
    /\ jobs' = [jobs EXCEPT ![j] = [status |-> "blocked_legal_hold",
                                    dated |-> TRUE, due |-> FALSE]]
    /\ UNCHANGED <<tenant, hold, wipes, exported, pass>>
\* complete_offboard_job stores a status of the school server's making.
MutSchoolFailed(j) ==
    /\ jobs[j].dated
    /\ With(j, "wipe_failed")
    /\ UNCHANGED <<tenant, hold, wipes, exported, pass>>

-----------------------------------------------------------------------------

OffboardInit ==
    /\ jobs = [j \in Jobs |-> NoJob]
    /\ tenant = [status |-> "active", reason |-> ""]
    /\ hold = FALSE
    /\ wipes = {}
    /\ exported = {}
    /\ pass = NoPass

\* schedule_offboard_job: returns the live job when there is one.
ScheduleJob ==
    \/ /\ LiveJobs # {}
       /\ UNCHANGED offboardVars
    \/ \E j \in Jobs :
          /\ LiveJobs = {} /\ NextJob(j)
          /\ jobs' = [jobs EXCEPT ![j] = [status |-> "export_pending",
                                          dated |-> TRUE, due |-> FALSE]]
          /\ tenant' = [status |-> "archived", reason |-> "offboarding"]
          /\ UNCHANGED <<hold, wipes, exported, pass>>

\* schedule_offboard of a tenant under legal hold records a blocked job.
ScheduleUnderHold(j) ==
    /\ hold /\ NextJob(j)
    /\ With(j, "blocked_legal_hold")
    /\ UNCHANGED <<tenant, hold, wipes, exported, pass>>

\* update_tenant: the hold may be set and lifted at any time.
SetLegalHold ==
    /\ hold' = ~hold
    /\ UNCHANGED <<jobs, tenant, wipes, exported, pass>>

\* The retention window of a job ends.
WindowEnds(j) ==
    /\ jobs[j].dated /\ ~jobs[j].due
    /\ jobs' = [jobs EXCEPT ![j].due = TRUE]
    /\ UNCHANGED <<tenant, hold, wipes, exported, pass>>

\* cancel_offboard_job restores the tenant a job had archived.
Restored == IF tenant.reason = "offboarding"
              THEN [status |-> "active", reason |-> ""] ELSE tenant

\* cancel_offboard: refused once the wipe is dispatched.
CancelJob(j) ==
    /\ jobs[j].status \notin {"absent", "completed", "wipe_dispatched",
                              "cancelled"}
    /\ With(j, "cancelled")
    /\ tenant' = Restored
    /\ UNCHANGED <<hold, wipes, exported, pass>>

DueWipes == {j \in Jobs : jobs[j].status = "wipe_scheduled" /\ jobs[j].due}

\* dispatch_due_wipes reads the due jobs and the tenant, ...
StartPass ==
    /\ pass = NoPass /\ DueWipes # {}
    /\ pass' = [due |-> DueWipes, hold |-> hold]
    /\ UNCHANGED <<jobs, tenant, hold, wipes, exported>>

\* The hold is checked again when the wipe is due.
WipeOutcome == IF pass.hold THEN "blocked_legal_hold" ELSE "wipe_dispatched"

\* ... and commits what it made of them.
EndPass ==
    /\ pass # NoPass
    /\ jobs' = [j \in Jobs |-> IF j \in pass.due
                                 THEN [jobs[j] EXCEPT !.status = WipeOutcome]
                                 ELSE jobs[j]]
    /\ wipes' = IF WipeOutcome = "wipe_dispatched" THEN wipes \cup pass.due
                                                   ELSE wipes
    /\ pass' = NoPass
    /\ UNCHANGED <<tenant, hold, exported>>

\* offboard_result, "export_ready": the job's status is not looked at.  A job
\* with a wipe date was announced to the school server.
ExportReady(j) ==
    /\ jobs[j].dated
    /\ With(j, "wipe_scheduled")
    /\ exported' = exported \cup {j}
    /\ UNCHANGED <<tenant, hold, wipes, pass>>

\* offboard_result, "wipe_completed".
WipeCompleted(j) ==
    /\ j \in wipes
    /\ With(j, "completed")
    /\ UNCHANGED <<tenant, hold, wipes, exported, pass>>

\* offboard_result, "failed": the export or the wipe failed.
SchoolFailed(j) ==
    /\ jobs[j].dated
    /\ With(j, "failed")
    /\ UNCHANGED <<tenant, hold, wipes, exported, pass>>

OffboardStep ==
    \/ SetLegalHold
    \/ \E j \in Jobs : ScheduleUnderHold(j) \/ WindowEnds(j) \/ CancelJob(j)
                       \/ ExportReady(j) \/ WipeCompleted(j) \/ SchoolFailed(j)
    \/ StartPass
    \/ EndPass

-----------------------------------------------------------------------------

OffboardTypeOK ==
    /\ jobs \in [Jobs -> Job]
    /\ tenant \in [status : {"active", "archived", "blacklisted"},
                   reason : {"", "offboarding", "abuse"}]
    /\ hold \in BOOLEAN
    /\ wipes \subseteq Jobs /\ exported \subseteq Jobs
    /\ pass \in [due : SUBSET Jobs, hold : BOOLEAN]

\* A destructive wipe is requested only after the school server has reported
\* that job's export (dispatch_due_wipes), however late, repeated or reordered
\* its reports are.
WipeAfterExport == wipes \subseteq exported

\* A hold in force when the pass reads the tenant stops the wipe, on every path
\* a job can take to it (dispatch_due_wipes).  A hold committed while the pass
\* is open comes too late.
NoWipeUnderHold == [][wipes' # wipes => ~pass.hold]_<<wipes, pass>>

\* dispatch_due_wipes: a wipe follows its export and no hold.
WipesAreEarned == []WipeAfterExport /\ NoWipeUnderHold

\* A tenant archived for offboarding has a job that is not cancelled: no
\* sequence of scheduling, blocking and cancelling leaves it archived for ever.
ArchivedHasJob ==
    tenant.reason = "offboarding" =>
        \E j \in Jobs : jobs[j].status \notin {"absent", "cancelled"}

\* The wipe date does not pass silently: a job whose export is ready leaves
\* wipe_scheduled (dispatched, blocked by a hold, or cancelled).
DueWipesAreHandled ==
    \A j \in Jobs : jobs[j].status = "wipe_scheduled"
                       ~> jobs[j].status # "wipe_scheduled"
=============================================================================
