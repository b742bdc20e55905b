-------------------------- MODULE TenantOperations --------------------------
(***************************************************************************)
(* Dual control and offboarding of one tenant together: with dual control  *)
(* required, the console's blacklist, unblacklist and offboard routes only *)
(* create requests, and the approval executes them on the tenant.          *)
(***************************************************************************)
EXTENDS DualControl, Offboarding

vars == <<dualVars, offboardVars>>

DualActions == {"tenant.blacklist", "tenant.unblacklist", "tenant.offboard"}
ASSUME ActionsAssumption == Actions \subseteq DualActions

Init == DualInit /\ OffboardInit

\* schedule_offboard asks for approval only when there is no legal hold.
RequestAction ==
    \E r \in Requests, a \in Actions, s \in Requesters :
        /\ CreateRequest(r, a, s)
        /\ a = "tenant.offboard" => ~hold
        /\ UNCHANGED offboardVars

SetTenant(status, reason) ==
    /\ tenant' = [status |-> status, reason |-> reason]
    /\ UNCHANGED <<jobs, hold, wipes, exported, pass>>

\* _execute, by action.
Execute(r) ==
    \/ /\ requests[r].action = "tenant.blacklist"
       /\ SetTenant("blacklisted", "abuse")
    \/ /\ requests[r].action = "tenant.unblacklist"
       /\ SetTenant("active", "")
    \/ /\ requests[r].action = "tenant.offboard"
       /\ ~hold
       /\ ScheduleJob

ApproveAndExecute ==
    \E r \in Requests, s \in Approvers :
        Approve(r, s) /\ Execute(r)

\* "Tenant under legal hold": the approval is rolled back.
Refused ==
    \E r \in Requests, s \in Approvers :
        /\ Abort(r, s)
        /\ requests[r].action = "tenant.offboard" /\ hold
        /\ UNCHANGED offboardVars

OtherDual ==
    /\ \/ \E r \in Requests : Elapse(r) \/ ExpireOnDecide(r)
       \/ \E r \in Requests, s \in Approvers : BeginDecide(r, s) \/ Reject(r, s)
       \/ ListRead
       \/ ListExpire
    /\ UNCHANGED offboardVars

Offboard == OffboardStep /\ UNCHANGED dualVars

Next == RequestAction \/ ApproveAndExecute \/ Refused \/ OtherDual \/ Offboard

\* The worker runs for ever, and retention windows end.
Fairness ==
    /\ WF_vars((StartPass \/ EndPass) /\ UNCHANGED dualVars)
    /\ \A j \in Jobs : WF_vars(WindowEnds(j) /\ UNCHANGED dualVars)

Spec == Init /\ [][Next]_vars /\ Fairness

-----------------------------------------------------------------------------

TypeOK == DualTypeOK /\ OffboardTypeOK

\* With dual control required, every job that was ever going to wipe comes from
\* an executed offboard request of its own (decide, schedule_offboard_job): no
\* retry, double click or late report of the school server adds one.
JobsAreApproved ==
    Cardinality({j \in Jobs : jobs[j].dated})
        <= Cardinality({r \in Requests : effects[r] > 0
                            /\ requests[r].action = "tenant.offboard"})

\* A tenant is archived for a job, and each job was approved
\* (schedule_offboard_job, cancel_offboard_job).
OffboardingIsApproved == ArchivedHasJob /\ JobsAreApproved

-----------------------------------------------------------------------------
(* What the source says and the code does not do.                          *)

\* cancel_offboard_job: "Abort an offboard before the wipe fires and restore
\* the tenant."  A cancelled job stays out of the way of the wipe.
CancelledIsNotWiped ==
    [][\A j \in Jobs : jobs[j].status = "cancelled"
                          => jobs'[j].status \notin Live]_vars
=============================================================================
