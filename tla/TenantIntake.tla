----------------------------- MODULE TenantIntake -----------------------------
(***************************************************************************)
(* How a school becomes active in the control plane: it registers and      *)
(* verifies its email, staff queue the initialization of its database, the *)
(* school server reports on it, and the trial is granted once.  Each       *)
(* handler is a READ COMMITTED transaction without locks that writes the   *)
(* columns it has changed from what it read.                               *)
(***************************************************************************)
EXTENDS Integers

CONSTANTS Keys,       \* idempotency keys of provisioning requests, one job each
          NoKey,
          Handlers,   \* requests under way at once
          MaxRequests \* bound: requests

ASSUME IntakeAssumption == NoKey \notin Keys /\ MaxRequests \in Nat

VARIABLES
    school,     \* tenants.status
    byStaff,    \* ghost: staff created the tenant or set its status by hand
    grant,      \* is there a tenant_trials row?
    job,        \* tenant_provisioning_jobs.status
    handler,    \* the requests under way, with what they have read
    requests,   \* how many there have been
    verified,   \* ghost: the school has been verified, or reported as ready
    entwined    \* ghost: have two requests overlapped?

intakeVars == <<school, byStaff, grant, job, handler, requests, verified, entwined>>

SchoolStatus == {"none", "pending_verification", "provisioning", "active",
                 "suspended", "blacklisted", "archived"}
JobStatus == {"none", "queued", "running", "succeeded", "failed"}
Ops == {"activate", "provision", "report", "staff"}
NoRequest == [pc |-> "idle", op |-> "staff", school |-> "none", grant |-> FALSE,
               key |-> NoKey, to |-> "none", status |-> "none"]

\* Reports from which the tenant gets a status.
SchoolAfter(status) == CASE status = "succeeded" -> "active"
                         [] status = "failed"    -> "provisioning"
                         [] OTHER                -> "none"

-----------------------------------------------------------------------------
(* Mutations of definitions below; not part of the specification.          *)

\* apply_initialization_result does not grant the trial.
MutGrants(h) == handler[h].op = "activate"

-----------------------------------------------------------------------------
IntakeInit ==
    /\ school = "none" /\ byStaff = FALSE /\ grant = FALSE
    /\ job = [k \in Keys |-> "none"]
    /\ handler = [h \in Handlers |-> NoRequest]
    /\ requests = 0 /\ verified = FALSE /\ entwined = FALSE

\* register_tenant; a tenant that is there already is left as it is.
RegisterTenant ==
    /\ school = "none"
    /\ school' = "pending_verification"
    /\ UNCHANGED <<byStaff, grant, job, handler, requests, verified, entwined>>

\* create_tenant of the console.
CreateTenant ==
    /\ school = "none"
    /\ school' = "active" /\ byStaff' = TRUE
    /\ UNCHANGED <<grant, job, handler, requests, verified, entwined>>

-----------------------------------------------------------------------------
(* The other handlers, up to their writes.  to is the status a handler     *)
(* gives the tenant, and status the one it gives the job.                  *)

InHand(h) == handler[h].pc = "write"

BeginHandler(h, op, key, to, status) ==
    /\ ~InHand(h) /\ requests < MaxRequests /\ school # "none"
    /\ handler' = [handler EXCEPT ![h] = [pc |-> "write", op |-> op, school |-> school,
                      grant |-> grant, key |-> key, to |-> to, status |-> status]]
    /\ entwined' = (entwined \/ \E g \in Handlers : InHand(g))
    /\ requests' = requests + 1
    /\ UNCHANGED <<school, byStaff, grant, job, verified>>

ActivateSchool(h) ==
    /\ school \in {"pending_verification", "provisioning", "active"}
    /\ BeginHandler(h, "activate", NoKey, "active", "none")

\* provision_tenant and queue_initialization; a key that has its job is
\* replayed and changes nothing.
ProvisionTenant(h, k) ==
    /\ school \in {"provisioning", "active", "archived"} /\ job[k] = "none"
    /\ BeginHandler(h, "provision", k, "provisioning", "queued")

\* provisioning_result: any report about any job that exists.
ProvisioningResult(h, k, status) ==
    /\ job[k] # "none"
    /\ BeginHandler(h, "report", k, SchoolAfter(status), status)

\* change_status of the console, the approved blacklisting, the suspensions
\* of the billing worker.
SetStatus(h, to) == BeginHandler(h, "staff", NoKey, to, "none")

-----------------------------------------------------------------------------
\* activate_tenant and a report of success call initialize_trial_once.
Grants(h) == handler[h].to = "active" /\ handler[h].op \in {"activate", "report"}

\* The job of the key, or the trial, has come up since it was looked up.
Conflict(h) ==
    \/ handler[h].op = "provision" /\ job[handler[h].key] # "none"
    \/ Grants(h) /\ ~handler[h].grant /\ grant

CommitHandler(h) ==
    LET at == handler[h] IN
    /\ InHand(h) /\ ~Conflict(h)
    /\ school' = IF at.to \in {"none", at.school} THEN school ELSE at.to
    /\ job' = IF at.key = NoKey THEN job ELSE [job EXCEPT ![at.key] = at.status]
    /\ grant' = (grant \/ Grants(h))
    /\ byStaff' = (byStaff \/ at.op = "staff")
    /\ verified' = (verified \/ at.op = "activate" \/ at.status = "succeeded")
    /\ handler' = [handler EXCEPT ![h] = NoRequest]
    /\ UNCHANGED <<requests, entwined>>

\* A conflict rolls the transaction back, and so does any other failure.
RollBack(h) ==
    /\ InHand(h)
    /\ handler' = [handler EXCEPT ![h] = NoRequest]
    /\ UNCHANGED <<school, byStaff, grant, job, requests, verified, entwined>>

IntakeNext ==
    \/ RegisterTenant \/ CreateTenant
    \/ \E h \in Handlers :
          \/ ActivateSchool(h) \/ CommitHandler(h) \/ RollBack(h)
          \/ \E k \in Keys : ProvisionTenant(h, k)
          \/ \E k \in Keys, status \in {"running", "succeeded", "failed"} :
                ProvisioningResult(h, k, status)
          \/ \E to \in SchoolStatus \ {"none"} : SetStatus(h, to)

IntakeSpec == IntakeInit /\ [][IntakeNext]_intakeVars

IntakeTypeOK ==
    /\ requests \in 0 .. MaxRequests
    /\ school \in SchoolStatus /\ job \in [Keys -> JobStatus]
    /\ handler \in [Handlers -> [pc : {"idle", "write"}, op : Ops,
          school : SchoolStatus, grant : BOOLEAN, key : Keys \cup {NoKey},
          to : SchoolStatus, status : JobStatus]]
    /\ {byStaff, grant, verified, entwined} \subseteq BOOLEAN

(***************************************************************************)
(* A trial is granted only to a school that was verified or reported as    *)
(* ready, and a school that became active without staff, or whose          *)
(* initialization succeeded, has its trial, however the handlers overlap.  *)
(* As long as they did not, a school waits for its database only while     *)
(* some job has not succeeded.                                             *)
(* (internal.py provisioning_result: "merely delivering the initialization *)
(* event never changes the tenant to active"; trials.py                    *)
(* initialize_trial_once; provisioning.py.)                                *)
(***************************************************************************)
IntakeSound ==
    /\ grant => verified
    /\ school = "active" /\ ~byStaff => grant
    /\ (\E k \in Keys : job[k] = "succeeded") => grant
    /\ school = "provisioning" /\ ~byStaff /\ ~entwined
          => \E k \in Keys : job[k] \notin {"none", "succeeded"}
=============================================================================
