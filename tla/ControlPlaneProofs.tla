-------------------------- MODULE ControlPlaneProofs --------------------------
(***************************************************************************)
(* What the control plane does to the schools it runs: the approvals and   *)
(* the offboarding jobs of TenantOperations, the events of Outbox, and the *)
(* configuration that RuntimeConfig brings to the school server, for any   *)
(* number of requests, jobs, staff, events, drainers and replicas.         *)
(***************************************************************************)
EXTENDS TenantOperations, Outbox, RuntimeConfig, FiniteSetTheorems, SequenceTheorems,
        TLAPS

-----------------------------------------------------------------------------
(* Approvals and offboarding: TenantOperations.                            *)

USE DEF Requests, Jobs, Staff

-----------------------------------------------------------------------------
(* Type correctness.                                                       *)

LEMMA CreateType ==
    ASSUME DualTypeOK, NEW r \in Requests, NEW a \in Actions,
           NEW s \in Requesters, CreateRequest(r, a, s)
    PROVE  DualTypeOK'
BY DEF DualTypeOK, CreateRequest, Request

LEMMA DecidedType ==
    ASSUME DualTypeOK, NEW r \in Requests, NEW s \in Approvers \cup {Nobody},
           NEW status \in {"rejected", "executed", "expired"},
           Decided(r, status, s)
    PROVE  requests' \in [Requests -> Request]
<1>1. requests[r] \in Request
      BY DEF DualTypeOK
<1>2. [requests[r] EXCEPT !.status = status, !.approver = s, !.late = FALSE]
         \in Request
      BY <1>1 DEF Request
<1>3. requests' = [requests EXCEPT ![r] =
         [requests[r] EXCEPT !.status = status, !.approver = s, !.late = FALSE]]
      BY <1>1 DEF Decided, DualTypeOK, Request
<1>4. QED BY <1>2, <1>3 DEF DualTypeOK

LEMMA DualStepType ==
    ASSUME DualTypeOK, OtherDual
    PROVE  DualTypeOK'
<1>1. ASSUME NEW r \in Requests, Elapse(r) PROVE DualTypeOK'
      BY <1>1 DEF DualTypeOK, Elapse, Request
<1>2. ASSUME NEW r \in Requests, ExpireOnDecide(r) PROVE DualTypeOK'
      BY <1>2, DecidedType DEF DualTypeOK, ExpireOnDecide
<1>3. ASSUME NEW r \in Requests, NEW s \in Approvers, BeginDecide(r, s)
      PROVE  DualTypeOK'
      BY <1>3 DEF DualTypeOK, BeginDecide
<1>4. ASSUME NEW r \in Requests, NEW s \in Approvers, Reject(r, s)
      PROVE  DualTypeOK'
      BY <1>4, DecidedType DEF DualTypeOK, Reject, Release
<1>5. ASSUME ListRead PROVE DualTypeOK'
      BY <1>5 DEF DualTypeOK, ListRead
<1>6. ASSUME ListExpire PROVE DualTypeOK'
  <2>1. \A r \in Requests : [requests[r] EXCEPT !.status = "expired",
                                                !.late = FALSE] \in Request
        BY DEF DualTypeOK, Request
  <2>2. requests' \in [Requests -> Request]
        BY <1>6, <2>1 DEF ListExpire, DualTypeOK
  <2>3. QED BY <1>6, <2>2 DEF ListExpire, DualTypeOK
<1>7. QED BY <1>1, <1>2, <1>3, <1>4, <1>5, <1>6 DEF OtherDual

LEMMA WithType ==
    ASSUME OffboardTypeOK, NEW j \in Jobs, NEW status \in JobStatus,
           With(j, status)
    PROVE  jobs' \in [Jobs -> Job]
BY DEF OffboardTypeOK, With, Job

LEMMA ScheduleType ==
    ASSUME OffboardTypeOK, ScheduleJob
    PROVE  OffboardTypeOK'
<1>1. CASE UNCHANGED offboardVars
      BY <1>1 DEF OffboardTypeOK, offboardVars
<1>2. CASE ~UNCHANGED offboardVars
  <2>1. PICK j \in Jobs :
           /\ jobs' = [jobs EXCEPT ![j] = [status |-> "export_pending",
                                           dated |-> TRUE, due |-> FALSE]]
           /\ tenant' = [status |-> "archived", reason |-> "offboarding"]
           /\ UNCHANGED <<hold, wipes, exported, pass>>
        BY <1>2 DEF ScheduleJob
  <2>2. [status |-> "export_pending", dated |-> TRUE, due |-> FALSE] \in Job
        BY DEF Job, JobStatus
  <2>3. jobs' \in [Jobs -> Job]
        BY <2>1, <2>2 DEF OffboardTypeOK
  <2>4. QED BY <2>1, <2>3 DEF OffboardTypeOK
<1>3. QED BY <1>1, <1>2

LEMMA OffboardStepType ==
    ASSUME OffboardTypeOK, OffboardStep
    PROVE  OffboardTypeOK'
<1>1. ASSUME SetLegalHold PROVE OffboardTypeOK'
      BY <1>1 DEF OffboardTypeOK, SetLegalHold
<1>2. ASSUME NEW j \in Jobs, ScheduleUnderHold(j) PROVE OffboardTypeOK'
      BY <1>2, WithType DEF OffboardTypeOK, ScheduleUnderHold, JobStatus
<1>3. ASSUME NEW j \in Jobs, WindowEnds(j) PROVE OffboardTypeOK'
      BY <1>3 DEF OffboardTypeOK, WindowEnds, Job
<1>4. ASSUME NEW j \in Jobs, CancelJob(j) PROVE OffboardTypeOK'
      BY <1>4, WithType DEF OffboardTypeOK, CancelJob, Restored, JobStatus
<1>5. ASSUME NEW j \in Jobs, ExportReady(j) PROVE OffboardTypeOK'
      BY <1>5, WithType DEF OffboardTypeOK, ExportReady, JobStatus
<1>6. ASSUME NEW j \in Jobs, WipeCompleted(j) PROVE OffboardTypeOK'
      BY <1>6, WithType DEF OffboardTypeOK, WipeCompleted, JobStatus
<1>7. ASSUME NEW j \in Jobs, SchoolFailed(j) PROVE OffboardTypeOK'
      BY <1>7, WithType DEF OffboardTypeOK, SchoolFailed, JobStatus
<1>8. ASSUME StartPass PROVE OffboardTypeOK'
      BY <1>8 DEF OffboardTypeOK, StartPass, DueWipes
<1>9. ASSUME EndPass PROVE OffboardTypeOK'
  <2>1. WipeOutcome \in JobStatus
        BY DEF WipeOutcome, JobStatus
  <2>2. \A j \in Jobs : [jobs[j] EXCEPT !.status = WipeOutcome] \in Job
        BY <2>1 DEF OffboardTypeOK, Job
  <2>3. jobs' \in [Jobs -> Job]
        BY <1>9, <2>2 DEF EndPass, OffboardTypeOK
  <2>4. QED BY <1>9, <2>3 DEF EndPass, OffboardTypeOK, NoPass
<1>10. QED BY <1>1, <1>2, <1>3, <1>4, <1>5, <1>6, <1>7, <1>8, <1>9
           DEF OffboardStep

LEMMA ApproveType ==
    ASSUME TypeOK, ApproveAndExecute
    PROVE  TypeOK'
<1>1. PICK r \in Requests, s \in Approvers : Approve(r, s) /\ Execute(r)
      BY DEF ApproveAndExecute
<1>2. DualTypeOK'
      BY <1>1, DecidedType DEF TypeOK, DualTypeOK, Approve, Release
<1>3. OffboardTypeOK'
  <2>1. ASSUME NEW status \in {"active", "blacklisted"},
               NEW reason \in {"", "abuse"}, SetTenant(status, reason)
        PROVE  OffboardTypeOK'
        BY <2>1 DEF TypeOK, OffboardTypeOK, SetTenant
  <2>2. QED BY <1>1, <2>1, ScheduleType DEF TypeOK, Execute
<1>4. QED BY <1>2, <1>3 DEF TypeOK

LEMMA TypeStep ==
    ASSUME TypeOK, [Next]_vars
    PROVE  TypeOK'
<1>1. CASE RequestAction
      BY <1>1, CreateType
         DEF RequestAction, TypeOK, OffboardTypeOK, offboardVars
<1>2. CASE ApproveAndExecute
      BY <1>2, ApproveType
<1>3. CASE Refused
  <2>1. PICK r \in Requests, s \in Approvers :
           /\ deciding' = [deciding EXCEPT ![r] = @ \ {s}]
           /\ UNCHANGED <<requests, listed, effects>>
        BY <1>3 DEF Refused, Abort, Release
  <2>2. deciding' \in [Requests -> SUBSET Approvers]
        BY <2>1 DEF TypeOK, DualTypeOK
  <2>3. DualTypeOK'
        BY <2>1, <2>2 DEF TypeOK, DualTypeOK
  <2>4. OffboardTypeOK'
        BY <1>3 DEF Refused, TypeOK, OffboardTypeOK, offboardVars
  <2>5. QED BY <2>3, <2>4 DEF TypeOK
<1>4. CASE OtherDual
      BY <1>4, DualStepType DEF OtherDual, TypeOK, OffboardTypeOK, offboardVars
<1>5. CASE Offboard
      BY <1>5, OffboardStepType DEF Offboard, TypeOK, DualTypeOK, dualVars
<1>6. CASE UNCHANGED vars
      BY <1>6 DEF vars, dualVars, offboardVars, TypeOK, DualTypeOK, OffboardTypeOK
<1>7. QED BY <1>1, <1>2, <1>3, <1>4, <1>5, <1>6 DEF Next

LEMMA InitTypes == Init => TypeOK
<1>1. ASSUME DualInit PROVE DualTypeOK
  <2>1. (CHOOSE a \in Actions : TRUE) \in Actions
        BY DualControlAssumption
  <2>2. QED BY <1>1, <2>1 DEF DualInit, DualTypeOK, Request
<1>2. ASSUME OffboardInit PROVE OffboardTypeOK
      BY <1>2 DEF OffboardInit, OffboardTypeOK, Job, NoJob, JobStatus, NoPass
<1>3. QED BY <1>1, <1>2 DEF Init, TypeOK

\* Rows, transactions and the worker's pass keep their shapes.
THEOREM OperationTypes == Spec => []TypeOK
<1>1. QED BY InitTypes, TypeStep, PTL DEF Spec

-----------------------------------------------------------------------------
(* Dual control.                                                           *)

\* The strengthening: what holds while decide has a row locked.
OneDecides ==
    \A r \in Requests : \A s, t \in deciding[r] : s = t

DecidingPending ==
    \A r \in Requests : \A s \in deciding[r] :
        Pending(r) /\ s # requests[r].by

NotYetExecuted ==
    \A r \in Requests : requests[r].status \in {"absent", "pending"}
                          => effects[r] = 0

DualInv == /\ OneDecides
           /\ DecidingPending
           /\ NotYetExecuted
           /\ ExecutedAtMostOnce
           /\ TwoPeople

LEMMA CreateDual ==
    ASSUME TypeOK, DualInv, NEW r \in Requests, NEW a \in Actions,
           NEW s \in Requesters, CreateRequest(r, a, s)
    PROVE  DualInv'
<1>1. deciding[r] = {} /\ effects[r] = 0
      BY DEF DualInv, DecidingPending, NotYetExecuted, CreateRequest, Pending,
             TypeOK, DualTypeOK
<1>2. QED BY <1>1 DEF DualInv, OneDecides, DecidingPending, NotYetExecuted,
                 ExecutedAtMostOnce, TwoPeople, CreateRequest, Pending, TypeOK,
                 DualTypeOK, Request

LEMMA DecideDual ==
    ASSUME TypeOK, DualInv, NEW r \in Requests, NEW s \in Approvers,
           s \in deciding[r], Release(r, s),
           \/ Decided(r, "rejected", s) /\ UNCHANGED effects
           \/ /\ Decided(r, "executed", s)
              /\ effects' = [effects EXCEPT ![r] = @ + 1]
           \/ UNCHANGED <<requests, effects>>
    PROVE  DualInv'
<1>1. Pending(r) /\ s # requests[r].by /\ effects[r] = 0 /\ s # Nobody
      BY DualControlAssumption
         DEF DualInv, DecidingPending, NotYetExecuted, Pending
<1>2. deciding' = [deciding EXCEPT ![r] = {}]
      BY DEF DualInv, OneDecides, Release, TypeOK, DualTypeOK
<1>3. \A q \in Requests : q # r => requests'[q] = requests[q]
                                   /\ effects'[q] = effects[q]
      BY DEF Decided, TypeOK, DualTypeOK
<1>4. /\ OneDecides'
      /\ DecidingPending'
  <2>1. deciding'[r] = {} /\ \A q \in Requests : q # r => deciding'[q] = deciding[q]
        BY <1>2 DEF TypeOK, DualTypeOK
  <2>2. OneDecides'
        BY <2>1 DEF DualInv, OneDecides
  <2>3. DecidingPending'
        BY <1>3, <2>1 DEF DualInv, DecidingPending, Pending
  <2>4. QED BY <2>2, <2>3
<1>5. /\ requests'[r].status \in {"absent", "pending"} => effects'[r] = 0
      /\ effects'[r] <= 1
      /\ effects'[r] > 0 => /\ requests'[r].approver = s
                            /\ requests'[r].by = requests[r].by
  <2>1. CASE Decided(r, "rejected", s) /\ UNCHANGED effects
        BY <1>1, <2>1 DEF Decided, TypeOK, DualTypeOK, Request
  <2>2. CASE /\ Decided(r, "executed", s)
             /\ effects' = [effects EXCEPT ![r] = @ + 1]
    <3>1. effects'[r] = 1
          BY <1>1, <2>2 DEF TypeOK, DualTypeOK
    <3>2. requests'[r] = [requests[r] EXCEPT !.status = "executed",
                                             !.approver = s, !.late = FALSE]
          BY <2>2 DEF Decided, TypeOK, DualTypeOK, Request
    <3>3. requests[r] \in Request
          BY DEF TypeOK, DualTypeOK
    <3>4. QED BY <3>1, <3>2, <3>3 DEF Request
  <2>3. CASE UNCHANGED <<requests, effects>>
        BY <1>1, <2>3
  <2>4. QED BY <2>1, <2>2, <2>3
<1>6. NotYetExecuted' /\ ExecutedAtMostOnce' /\ TwoPeople'
      BY <1>1, <1>3, <1>5
         DEF DualInv, NotYetExecuted, ExecutedAtMostOnce, TwoPeople
<1>7. QED BY <1>4, <1>6 DEF DualInv

LEMMA ListExpireDual ==
    ASSUME TypeOK, DualInv, ListExpire
    PROVE  DualInv'
<1>1. UNCHANGED <<deciding, effects>>
      BY DEF ListExpire
<1>2. \A r \in Requests : r \notin listed => requests'[r] = requests[r]
      BY DEF ListExpire
<1>3. ASSUME NEW r \in listed
      PROVE  /\ requests'[r].status = "expired"
             /\ requests'[r].by = requests[r].by
             /\ requests'[r].approver = requests[r].approver
             /\ deciding[r] = {}
  <2>1. r \in Requests /\ requests[r] \in Request
        BY DEF TypeOK, DualTypeOK
  <2>2. requests'[r] = [requests[r] EXCEPT !.status = "expired", !.late = FALSE]
        BY <2>1 DEF ListExpire
  <2>3. deciding[r] = {}
        BY DEF ListExpire
  <2>4. QED BY <2>1, <2>2, <2>3 DEF Request
<1>4. OneDecides'
      BY <1>1 DEF DualInv, OneDecides
<1>5. DecidingPending'
      BY <1>1, <1>2, <1>3 DEF DualInv, DecidingPending, Pending
<1>6. NotYetExecuted'
      BY <1>1, <1>2, <1>3 DEF DualInv, NotYetExecuted
<1>7. ExecutedAtMostOnce'
      BY <1>1 DEF DualInv, ExecutedAtMostOnce
<1>8. TwoPeople'
      BY <1>1, <1>2, <1>3 DEF DualInv, TwoPeople
<1>9. QED BY <1>4, <1>5, <1>6, <1>7, <1>8 DEF DualInv

LEMMA OtherDualStep ==
    ASSUME TypeOK, DualInv, OtherDual
    PROVE  DualInv'
<1> USE DEF DualInv, OneDecides, DecidingPending, NotYetExecuted,
            ExecutedAtMostOnce, TwoPeople, Pending, TypeOK, DualTypeOK, Request
<1>1. ASSUME NEW r \in Requests, Elapse(r) PROVE DualInv'
      BY <1>1 DEF Elapse
<1>2. ASSUME NEW r \in Requests, ExpireOnDecide(r) PROVE DualInv'
      BY <1>2 DEF ExpireOnDecide, Decided
<1>3. ASSUME NEW r \in Requests, NEW s \in Approvers, BeginDecide(r, s)
      PROVE  DualInv'
      BY <1>3 DEF BeginDecide, Unlocked, MayDecide
<1>4. ASSUME NEW r \in Requests, NEW s \in Approvers, Reject(r, s)
      PROVE  DualInv'
      BY <1>4, DecideDual DEF Reject
<1>5. ASSUME ListRead PROVE DualInv'
      BY <1>5 DEF ListRead
<1>6. ASSUME ListExpire PROVE DualInv'
      BY <1>6, ListExpireDual
<1>7. QED BY <1>1, <1>2, <1>3, <1>4, <1>5, <1>6 DEF OtherDual

LEMMA DualStep ==
    ASSUME TypeOK, DualInv, [Next]_vars
    PROVE  DualInv'
<1>1. CASE RequestAction
      BY <1>1, CreateDual DEF RequestAction
<1>2. CASE ApproveAndExecute
  <2>1. PICK r \in Requests, s \in Approvers : Approve(r, s)
        BY <1>2 DEF ApproveAndExecute
  <2>2. /\ s \in deciding[r]
        /\ Release(r, s)
        /\ Decided(r, "executed", s)
        /\ effects' = [effects EXCEPT ![r] = @ + 1]
        BY <2>1 DEF Approve
  <2>3. QED BY <2>2, DecideDual
<1>3. CASE Refused
  <2>1. PICK r \in Requests, s \in Approvers : Abort(r, s)
        BY <1>3 DEF Refused
  <2>2. /\ s \in deciding[r]
        /\ Release(r, s)
        /\ UNCHANGED <<requests, effects>>
        BY <2>1 DEF Abort
  <2>3. QED BY <2>2, DecideDual
<1>4. CASE OtherDual
      BY <1>4, OtherDualStep
<1>5. CASE Offboard
      BY <1>5 DEF Offboard, dualVars, DualInv, OneDecides, DecidingPending, NotYetExecuted,
                  ExecutedAtMostOnce, TwoPeople, Pending
<1>6. CASE UNCHANGED vars
      BY <1>6 DEF vars, dualVars, DualInv, OneDecides, DecidingPending, NotYetExecuted,
                  ExecutedAtMostOnce, TwoPeople, Pending
<1>7. QED BY <1>1, <1>2, <1>3, <1>4, <1>5, <1>6 DEF Next

LEMMA InitDual == Init => DualInv
BY DEF Init, DualInit, DualInv, OneDecides, DecidingPending, NotYetExecuted,
       ExecutedAtMostOnce, TwoPeople

\* decide's row lock: approvals that arrive together execute the action once,
\* although list_requests expires the same rows without a lock.
THEOREM ApprovalExecutesOnce == Spec => []ExecutedAtMostOnce
<1>1. QED BY InitTypes, TypeStep, InitDual, DualStep, PTL DEF Spec, DualInv

\* An executed action was approved by somebody other than who asked for it.
THEOREM ApprovalTakesTwo == Spec => []TwoPeople
<1>1. QED BY InitTypes, TypeStep, InitDual, DualStep, PTL DEF Spec, DualInv

\* The two together: what decide promises of an approved action.
THEOREM DecisionsAreSound == Spec => []ApprovalsAreSound
<1>1. DualInv => ApprovalsAreSound
      BY DEF DualInv, ApprovalsAreSound
<1>2. QED BY <1>1, InitTypes, TypeStep, InitDual, DualStep, PTL DEF Spec

-----------------------------------------------------------------------------
(* Offboarding.                                                            *)

\* The strengthening: wherever a wipe can come from, the export is there.
WipeInv == /\ \A j \in Jobs : jobs[j].status = "wipe_scheduled" => j \in exported
           /\ pass.due \subseteq exported
           /\ WipeAfterExport

LEMMA WithWipe ==
    ASSUME TypeOK, WipeInv, NEW j \in Jobs, NEW status \in JobStatus,
           With(j, status), status = "wipe_scheduled" => j \in exported',
           exported \subseteq exported', UNCHANGED <<wipes, pass>>
    PROVE  WipeInv'
<1>1. \A k \in Jobs : jobs'[k].status = "wipe_scheduled" => k \in exported'
      BY DEF TypeOK, OffboardTypeOK, WipeInv, With, Job
<1>2. QED BY <1>1 DEF WipeInv, WipeAfterExport

LEMMA OffboardWipe ==
    ASSUME TypeOK, WipeInv, OffboardStep
    PROVE  WipeInv'
<1>1. ASSUME SetLegalHold PROVE WipeInv'
      BY <1>1 DEF SetLegalHold, WipeInv, WipeAfterExport
<1>2. ASSUME NEW j \in Jobs, ScheduleUnderHold(j) PROVE WipeInv'
      BY <1>2, WithWipe DEF ScheduleUnderHold, JobStatus
<1>3. ASSUME NEW j \in Jobs, WindowEnds(j) PROVE WipeInv'
  <2>1. \A k \in Jobs : jobs'[k].status = jobs[k].status
        BY <1>3 DEF WindowEnds, TypeOK, OffboardTypeOK, Job
  <2>2. QED BY <1>3, <2>1 DEF WindowEnds, WipeInv, WipeAfterExport
<1>4. ASSUME NEW j \in Jobs, CancelJob(j) PROVE WipeInv'
      BY <1>4, WithWipe DEF CancelJob, JobStatus
<1>5. ASSUME NEW j \in Jobs, ExportReady(j) PROVE WipeInv'
      BY <1>5, WithWipe DEF ExportReady, JobStatus
<1>6. ASSUME NEW j \in Jobs, WipeCompleted(j) PROVE WipeInv'
      BY <1>6, WithWipe DEF WipeCompleted, JobStatus
<1>7. ASSUME NEW j \in Jobs, SchoolFailed(j) PROVE WipeInv'
      BY <1>7, WithWipe DEF SchoolFailed, JobStatus
<1>8. ASSUME StartPass PROVE WipeInv'
      BY <1>8 DEF StartPass, DueWipes, WipeInv, WipeAfterExport
<1>9. ASSUME EndPass PROVE WipeInv'
  <2>1. WipeOutcome # "wipe_scheduled"
        BY DEF WipeOutcome
  <2>2. \A k \in Jobs : jobs'[k].status = "wipe_scheduled"
                           => jobs[k].status = "wipe_scheduled"
        BY <1>9, <2>1 DEF EndPass, TypeOK, OffboardTypeOK, Job
  <2>3. QED BY <1>9, <2>2 DEF EndPass, WipeInv, WipeAfterExport, NoPass
<1>10. QED BY <1>1, <1>2, <1>3, <1>4, <1>5, <1>6, <1>7, <1>8, <1>9
           DEF OffboardStep

LEMMA ExecuteWipe ==
    ASSUME TypeOK, WipeInv, ApproveAndExecute
    PROVE  WipeInv'
<1>1. PICK r \in Requests : Execute(r)
      BY DEF ApproveAndExecute
<1>2. \/ UNCHANGED <<jobs, wipes, exported, pass>>
      \/ \E j \in Jobs :
            /\ jobs' = [jobs EXCEPT ![j] = [status |-> "export_pending",
                                            dated |-> TRUE, due |-> FALSE]]
            /\ UNCHANGED <<wipes, exported, pass>>
      BY <1>1 DEF Execute, SetTenant, ScheduleJob, offboardVars
<1>3. \A k \in Jobs : jobs'[k].status = "wipe_scheduled"
                         => jobs[k].status = "wipe_scheduled"
  <2>1. ASSUME NEW j \in Jobs, NEW k \in Jobs,
               jobs' = [jobs EXCEPT ![j] = [status |-> "export_pending",
                                            dated |-> TRUE, due |-> FALSE]],
               jobs'[k].status = "wipe_scheduled"
        PROVE  jobs[k].status = "wipe_scheduled"
    <3>1. k # j
          BY <2>1 DEF TypeOK, OffboardTypeOK
    <3>2. QED BY <2>1, <3>1 DEF TypeOK, OffboardTypeOK
  <2>2. QED BY <1>2, <2>1
<1>4. QED BY <1>2, <1>3 DEF WipeInv, WipeAfterExport

LEMMA WipeStep ==
    ASSUME TypeOK, WipeInv, [Next]_vars
    PROVE  WipeInv'
<1>1. CASE UNCHANGED offboardVars
      BY <1>1 DEF offboardVars, WipeInv, WipeAfterExport
<1>2. CASE ApproveAndExecute
      BY <1>2, ExecuteWipe
<1>3. CASE Offboard
      BY <1>3, OffboardWipe DEF Offboard
<1>4. QED BY <1>1, <1>2, <1>3
          DEF Next, RequestAction, Refused, OtherDual, vars

LEMMA InitWipe == Init => WipeInv
<1>1. ASSUME OffboardInit
      PROVE  \A j \in Jobs : jobs[j].status = "absent"
      BY <1>1 DEF OffboardInit, NoJob
<1>2. ASSUME OffboardInit
      PROVE  pass.due = {} /\ wipes = {}
      BY <1>2 DEF OffboardInit, NoPass
<1>3. QED BY <1>1, <1>2 DEF Init, WipeInv, WipeAfterExport

\* dispatch_due_wipes: whatever the school server reports, and in whichever
\* order, no wipe is asked for before the job's export was reported.
THEOREM WipesFollowExports == Spec => []WipeAfterExport
<1>1. QED BY InitTypes, TypeStep, InitWipe, WipeStep, PTL DEF Spec, WipeInv

\* No path to a wipe avoids the hold its pass has read.
THEOREM HoldsStopWipes == Spec => NoWipeUnderHold
<1>1. ASSUME [Next]_vars, wipes' # wipes
      PROVE  ~pass.hold
  <2>1. ASSUME EndPass PROVE ~pass.hold
        BY <2>1, <1>1 DEF EndPass, WipeOutcome
  <2>2. EndPass
        BY <1>1 DEF Next, vars, offboardVars, RequestAction, ApproveAndExecute,
              Execute, SetTenant, ScheduleJob, Refused, OtherDual, Offboard,
              OffboardStep, SetLegalHold, ScheduleUnderHold, WindowEnds,
              CancelJob, ExportReady, WipeCompleted, SchoolFailed, StartPass
  <2>3. QED BY <2>1, <2>2
<1>2. [Next]_vars => [wipes' # wipes => ~pass.hold]_<<wipes, pass>>
      BY <1>1
<1>3. QED BY <1>2, PTL DEF Spec, NoWipeUnderHold

\* A wipe follows its export and no hold.
THEOREM EveryWipeIsEarned == Spec => WipesAreEarned
<1>1. QED BY WipesFollowExports, HoldsStopWipes, PTL DEF WipesAreEarned

-----------------------------------------------------------------------------
(* An archived tenant.                                                     *)

Kept(j) == jobs[j].status \notin {"absent", "cancelled"}

LEMMA KeepsJob ==
    ASSUME ArchivedHasJob, tenant'.reason = "offboarding" =>
                              tenant.reason = "offboarding",
           \A j \in Jobs : Kept(j) => Kept(j)'
    PROVE  ArchivedHasJob'
BY DEF ArchivedHasJob, Kept

LEMMA WithKeeps ==
    ASSUME TypeOK, NEW j \in Jobs, NEW status \in JobStatus \ {"absent", "cancelled"},
           With(j, status), NEW k \in Jobs, Kept(k)
    PROVE  Kept(k)'
BY DEF TypeOK, OffboardTypeOK, With, Job, Kept

LEMMA OffboardArchived ==
    ASSUME TypeOK, ArchivedHasJob, OffboardStep
    PROVE  ArchivedHasJob'
<1>1. ASSUME SetLegalHold PROVE ArchivedHasJob'
      BY <1>1 DEF SetLegalHold, ArchivedHasJob
<1>2. ASSUME NEW j \in Jobs, ScheduleUnderHold(j) PROVE ArchivedHasJob'
      BY <1>2, WithKeeps, KeepsJob DEF ScheduleUnderHold, JobStatus
<1>3. ASSUME NEW j \in Jobs, WindowEnds(j) PROVE ArchivedHasJob'
  <2>1. \A k \in Jobs : jobs'[k].status = jobs[k].status
        BY <1>3 DEF WindowEnds, TypeOK, OffboardTypeOK, Job
  <2>2. QED BY <1>3, <2>1 DEF WindowEnds, ArchivedHasJob
<1>4. ASSUME NEW j \in Jobs, CancelJob(j) PROVE ArchivedHasJob'
  <2>1. tenant'.reason # "offboarding"
        BY <1>4 DEF CancelJob, Restored
  <2>2. QED BY <2>1 DEF ArchivedHasJob
<1>5. ASSUME NEW j \in Jobs, ExportReady(j) PROVE ArchivedHasJob'
      BY <1>5, WithKeeps, KeepsJob DEF ExportReady, JobStatus
<1>6. ASSUME NEW j \in Jobs, WipeCompleted(j) PROVE ArchivedHasJob'
      BY <1>6, WithKeeps, KeepsJob DEF WipeCompleted, JobStatus
<1>7. ASSUME NEW j \in Jobs, SchoolFailed(j) PROVE ArchivedHasJob'
      BY <1>7, WithKeeps, KeepsJob DEF SchoolFailed, JobStatus
<1>8. ASSUME StartPass PROVE ArchivedHasJob'
      BY <1>8 DEF StartPass, ArchivedHasJob
<1>9. ASSUME EndPass PROVE ArchivedHasJob'
  <2>1. \A k \in Jobs : jobs'[k].status \in {jobs[k].status, WipeOutcome}
        BY <1>9 DEF EndPass, TypeOK, OffboardTypeOK, Job
  <2>2. \A k \in Jobs : Kept(k) => Kept(k)'
        BY <2>1 DEF Kept, WipeOutcome
  <2>3. QED BY <1>9, <2>2, KeepsJob DEF EndPass
<1>10. QED BY <1>1, <1>2, <1>3, <1>4, <1>5, <1>6, <1>7, <1>8, <1>9
           DEF OffboardStep

LEMMA ScheduleArchived ==
    ASSUME TypeOK, ArchivedHasJob, ScheduleJob
    PROVE  ArchivedHasJob'
<1>1. CASE UNCHANGED offboardVars
      BY <1>1 DEF offboardVars, ArchivedHasJob
<1>2. CASE ~UNCHANGED offboardVars
  <2>1. PICK j \in Jobs :
           jobs' = [jobs EXCEPT ![j] = [status |-> "export_pending",
                                        dated |-> TRUE, due |-> FALSE]]
        BY <1>2 DEF ScheduleJob
  <2>2. jobs'[j].status = "export_pending"
        BY <2>1 DEF TypeOK, OffboardTypeOK
  <2>3. QED BY <2>2 DEF ArchivedHasJob
<1>3. QED BY <1>1, <1>2

LEMMA ArchivedStep ==
    ASSUME TypeOK, ArchivedHasJob, [Next]_vars
    PROVE  ArchivedHasJob'
<1>1. CASE UNCHANGED offboardVars
      BY <1>1 DEF offboardVars, ArchivedHasJob
<1>2. CASE ApproveAndExecute
  <2>1. PICK r \in Requests : Execute(r)
        BY <1>2 DEF ApproveAndExecute
  <2>2. ASSUME NEW status, NEW reason \in {"", "abuse"}, SetTenant(status, reason)
        PROVE  ArchivedHasJob'
    <3>1. tenant'.reason # "offboarding"
          BY <2>2 DEF SetTenant
    <3>2. QED BY <3>1 DEF ArchivedHasJob
  <2>3. QED BY <2>1, <2>2, ScheduleArchived DEF Execute
<1>3. CASE Offboard
      BY <1>3, OffboardArchived DEF Offboard
<1>4. QED BY <1>1, <1>2, <1>3
          DEF Next, RequestAction, Refused, OtherDual, vars

\* No sequence of scheduling, approving, blocking, cancelling and reporting
\* leaves the tenant archived for offboarding without a job to show for it.
THEOREM ArchivedForAJob == Spec => []ArchivedHasJob
<1>1. Init => ArchivedHasJob
  <2>1. ASSUME OffboardInit PROVE ArchivedHasJob
        BY <2>1 DEF OffboardInit, ArchivedHasJob
  <2>2. QED BY <2>1 DEF Init
<1>2. QED BY <1>1, InitTypes, TypeStep, ArchivedStep, PTL DEF Spec
-----------------------------------------------------------------------------
(* Jobs and the approvals they come from.                                  *)

DatedJobs == {j \in Jobs : jobs[j].dated}
ExecutedRequests ==
    {r \in Requests : effects[r] > 0 /\ requests[r].action = "tenant.offboard"}

LEMMA SetsAreFinite ==
    /\ IsFiniteSet(DatedJobs) /\ Cardinality(DatedJobs) \in Nat
    /\ IsFiniteSet(ExecutedRequests) /\ Cardinality(ExecutedRequests) \in Nat
    /\ IsFiniteSet(DatedJobs') /\ Cardinality(DatedJobs') \in Nat
    /\ IsFiniteSet(ExecutedRequests') /\ Cardinality(ExecutedRequests') \in Nat
<1>1. IsFiniteSet(1 .. MaxJobs) /\ IsFiniteSet(1 .. MaxRequests)
      BY FS_Interval, OffboardingAssumption, DualControlAssumption
<1>2. /\ DatedJobs \subseteq 1 .. MaxJobs /\ DatedJobs' \subseteq 1 .. MaxJobs
      /\ ExecutedRequests \subseteq 1 .. MaxRequests
      /\ ExecutedRequests' \subseteq 1 .. MaxRequests
      BY DEF DatedJobs, ExecutedRequests
<1>3. /\ IsFiniteSet(DatedJobs) /\ IsFiniteSet(DatedJobs')
      /\ IsFiniteSet(ExecutedRequests) /\ IsFiniteSet(ExecutedRequests')
      BY <1>1, <1>2, FS_Subset
<1>4. QED BY <1>3, FS_CardinalityType

\* A step that adds no dated job and takes no executed request away.
LEMMA NoNewJob ==
    ASSUME JobsAreApproved, DatedJobs' \subseteq DatedJobs,
           ExecutedRequests \subseteq ExecutedRequests'
    PROVE  JobsAreApproved'
<1>1. Cardinality(DatedJobs') <= Cardinality(DatedJobs)
      BY SetsAreFinite, FS_Subset
<1>2. Cardinality(ExecutedRequests) <= Cardinality(ExecutedRequests')
      BY SetsAreFinite, FS_Subset
<1>3. Cardinality(DatedJobs) <= Cardinality(ExecutedRequests)
      BY DEF JobsAreApproved, DatedJobs, ExecutedRequests
<1>4. Cardinality(DatedJobs') <= Cardinality(ExecutedRequests')
      BY <1>1, <1>2, <1>3, SetsAreFinite
<1>5. QED BY <1>4 DEF JobsAreApproved, DatedJobs, ExecutedRequests

\* A step that adds a dated job and a request executed for it.
LEMMA JobForRequest ==
    ASSUME JobsAreApproved, NEW j \in Jobs, NEW r \in Requests,
           DatedJobs' \subseteq DatedJobs \cup {j},
           ExecutedRequests \cup {r} \subseteq ExecutedRequests',
           r \notin ExecutedRequests
    PROVE  JobsAreApproved'
<1>1. /\ IsFiniteSet(DatedJobs \cup {j})
      /\ Cardinality(DatedJobs \cup {j}) <= Cardinality(DatedJobs) + 1
  <2>1. IsFiniteSet(DatedJobs) /\ Cardinality(DatedJobs) \in Nat
        BY SetsAreFinite
  <2>2. /\ IsFiniteSet(DatedJobs \cup {j})
        /\ Cardinality(DatedJobs \cup {j}) =
              IF j \in DatedJobs THEN Cardinality(DatedJobs) ELSE Cardinality(DatedJobs) + 1
        BY <2>1, FS_AddElement, Zenon
  <2>3. QED BY <2>1, <2>2
<1>2. Cardinality(ExecutedRequests \cup {r}) = Cardinality(ExecutedRequests) + 1
  <2>1. IsFiniteSet(ExecutedRequests)
        BY SetsAreFinite
  <2>2. QED BY <2>1, FS_AddElement
<1>3. Cardinality(DatedJobs') <= Cardinality(DatedJobs \cup {j})
      BY <1>1, FS_Subset
<1>4. Cardinality(ExecutedRequests \cup {r}) <= Cardinality(ExecutedRequests')
      BY SetsAreFinite, FS_Subset
<1>5. Cardinality(DatedJobs) <= Cardinality(ExecutedRequests)
      BY DEF JobsAreApproved, DatedJobs, ExecutedRequests
<1>6. Cardinality(DatedJobs \cup {j}) \in Nat
      BY <1>1, FS_CardinalityType
<1>7. Cardinality(DatedJobs') <= Cardinality(ExecutedRequests')
      BY <1>1, <1>2, <1>3, <1>4, <1>5, <1>6, SetsAreFinite
<1>8. QED BY <1>7 DEF JobsAreApproved, DatedJobs, ExecutedRequests

\* What dual control does besides executing keeps the executed requests.
LEMMA OtherDualKeeps ==
    ASSUME TypeOK, DualInv, RequestAction \/ OtherDual
    PROVE  ExecutedRequests \subseteq ExecutedRequests'
<1> USE DEF TypeOK, DualTypeOK, Request
<1>1. \A r \in Requests : effects'[r] = effects[r]
      BY DEF RequestAction, OtherDual, CreateRequest, Elapse, ExpireOnDecide, Reject,
             BeginDecide, ListRead, ListExpire
<1>2. ASSUME NEW r \in Requests, effects[r] > 0
      PROVE  requests'[r].action = requests[r].action
  <2>1. requests[r].status # "absent"
        BY <1>2 DEF DualInv, NotYetExecuted
  <2>2. CASE RequestAction
        BY <2>1, <2>2 DEF RequestAction, CreateRequest
  <2>3. ASSUME NEW q \in Requests, Elapse(q)
        PROVE  requests'[r].action = requests[r].action
        BY <2>3 DEF Elapse
  <2>4. ASSUME NEW q \in Requests, NEW status, NEW s, Decided(q, status, s)
        PROVE  requests'[r].action = requests[r].action
        BY <2>4 DEF Decided
  <2>5. ASSUME ListExpire
        PROVE  requests'[r].action = requests[r].action
        BY <2>5 DEF ListExpire
  <2>6. CASE OtherDual
        BY <2>3, <2>4, <2>5, <2>6 DEF OtherDual, ExpireOnDecide, Reject, BeginDecide, ListRead
  <2>7. QED BY <2>2, <2>6
<1>3. QED BY <1>1, <1>2 DEF ExecutedRequests

\* What happens to a job keeps its date.
LEMMA OffboardKeepsDates ==
    ASSUME TypeOK, OffboardStep
    PROVE  DatedJobs' \subseteq DatedJobs
<1> USE DEF TypeOK, OffboardTypeOK, Job
<1>1. ASSUME NEW j \in Jobs, NEW status, With(j, status)
      PROVE  \A k \in Jobs : jobs'[k].dated = jobs[k].dated
      BY <1>1 DEF With
<1>2. ASSUME NEW j \in Jobs, WindowEnds(j)
      PROVE  \A k \in Jobs : jobs'[k].dated = jobs[k].dated
      BY <1>2 DEF WindowEnds
<1>3. ASSUME EndPass
      PROVE  \A k \in Jobs : jobs'[k].dated = jobs[k].dated
      BY <1>3 DEF EndPass
<1>4. \A k \in Jobs : jobs'[k].dated = jobs[k].dated
      BY <1>1, <1>2, <1>3 DEF OffboardStep, SetLegalHold, ScheduleUnderHold, CancelJob,
            ExportReady, WipeCompleted, SchoolFailed, StartPass
<1>5. QED BY <1>4 DEF DatedJobs

LEMMA ApproveJobs ==
    ASSUME TypeOK, DualInv, JobsAreApproved, ApproveAndExecute
    PROVE  JobsAreApproved'
<1>1. PICK r \in Requests, s \in Approvers : Approve(r, s) /\ Execute(r)
      BY DEF ApproveAndExecute
<1>2. effects[r] = 0
      BY <1>1 DEF Approve, DualInv, DecidingPending, NotYetExecuted, Pending
<1>3. /\ \A q \in Requests : requests'[q].action = requests[q].action
      /\ \A q \in Requests : effects'[q] = IF q = r THEN effects[q] + 1 ELSE effects[q]
      BY <1>1 DEF Approve, Decided, TypeOK, DualTypeOK, Request
<1>4. ExecutedRequests \subseteq ExecutedRequests'
      BY <1>2, <1>3 DEF ExecutedRequests
<1>5. CASE jobs' = jobs
  <2>1. DatedJobs' \subseteq DatedJobs
        BY <1>5 DEF DatedJobs
  <2>2. QED BY <2>1, <1>4, NoNewJob
<1>6. CASE jobs' # jobs
  <2>1. requests[r].action = "tenant.offboard" /\ ScheduleJob
        BY <1>1, <1>6 DEF Execute, SetTenant
  <2>2. PICK j \in Jobs :
           jobs' = [jobs EXCEPT ![j] = [status |-> "export_pending",
                                        dated |-> TRUE, due |-> FALSE]]
        BY <2>1, <1>6 DEF ScheduleJob, offboardVars
  <2>3. DatedJobs' \subseteq DatedJobs \cup {j}
        BY <2>2 DEF DatedJobs, TypeOK, OffboardTypeOK, Job
  <2>4. r \in ExecutedRequests' /\ r \notin ExecutedRequests
        BY <1>2, <1>3, <2>1 DEF ExecutedRequests
  <2>5. QED BY <1>4, <2>3, <2>4, JobForRequest
<1>7. QED BY <1>5, <1>6

LEMMA JobsStep ==
    ASSUME TypeOK, DualInv, JobsAreApproved, [Next]_vars
    PROVE  JobsAreApproved'
<1>1. CASE RequestAction \/ OtherDual
  <2>1. DatedJobs' \subseteq DatedJobs
        BY <1>1 DEF DatedJobs, RequestAction, OtherDual, offboardVars
  <2>2. QED BY <1>1, <2>1, OtherDualKeeps, NoNewJob
<1>2. CASE ApproveAndExecute
      BY <1>2, ApproveJobs
<1>3. CASE Refused
  <2>1. UNCHANGED <<requests, effects, jobs>>
        BY <1>3 DEF Refused, Abort, offboardVars
  <2>2. QED BY <2>1 DEF JobsAreApproved
<1>4. CASE Offboard
  <2>1. DatedJobs' \subseteq DatedJobs
        BY <1>4, OffboardKeepsDates DEF Offboard
  <2>2. ExecutedRequests \subseteq ExecutedRequests'
        BY <1>4 DEF Offboard, dualVars, ExecutedRequests
  <2>3. QED BY <2>1, <2>2, NoNewJob
<1>5. CASE UNCHANGED vars
      BY <1>5 DEF vars, dualVars, offboardVars, JobsAreApproved
<1>6. QED BY <1>1, <1>2, <1>3, <1>4, <1>5 DEF Next

LEMMA InitJobs == Init => JobsAreApproved
<1>1. SUFFICES ASSUME Init PROVE JobsAreApproved
      OBVIOUS
<1>2. DatedJobs = {}
      BY <1>1 DEF Init, OffboardInit, NoJob, DatedJobs
<1>3. Cardinality(DatedJobs) = 0
      BY <1>2, FS_EmptySet
<1>4. QED BY <1>3, SetsAreFinite DEF JobsAreApproved, DatedJobs, ExecutedRequests

\* Every job that was ever going to wipe has an executed approval of its own,
\* and an archived tenant has a job: no retry, double click, cancellation or
\* late report adds the one or leaves the other behind.
THEOREM OffboardingTakesApproval == Spec => []OffboardingIsApproved
<1>1. Spec => []JobsAreApproved
      BY InitTypes, TypeStep, InitDual, DualStep, InitJobs, JobsStep, PTL DEF Spec
<1>2. QED BY <1>1, ArchivedForAJob, PTL DEF OffboardingIsApproved

-----------------------------------------------------------------------------
(* Events and their delivery: Outbox.                                      *)

USE DEF Events

Outcomes == {"delivered", "failed", "rejected"}
Batch == [open : BOOLEAN, todo : SUBSET Events, marks : [Events -> Marks]]

-----------------------------------------------------------------------------
(* Type correctness.                                                       *)

LEMMA IdleType == Idle \in Batch
BY OutboxAssumption DEF Idle, Batch, Marks, NoMark

LEMMA MarkType ==
    ASSUME OutboxTypeOK, NEW d \in Drainers, NEW e \in Events,
           NEW kind \in Outcomes, Mark(d, e, kind)
    PROVE  /\ batch' \in [Drainers -> Batch]
           /\ batch'[d].open = batch[d].open
           /\ batch'[d].todo = batch[d].todo \ {e}
           /\ batch'[d].marks[e] = [kind |-> kind, from |-> batch[d].marks[e].from]
           /\ \A f \in Events : f # e => batch'[d].marks[f] = batch[d].marks[f]
           /\ \A c \in Drainers : c # d => batch'[c] = batch[c]
<1>1. batch[d] \in Batch
      BY DEF OutboxTypeOK, Batch
<1>2. batch[d].marks[e] \in Marks
      BY <1>1 DEF Batch
<1> DEFINE new == [batch[d] EXCEPT !.todo = @ \ {e}, !.marks[e].kind = kind]
<1>3. batch' = [batch EXCEPT ![d] = new]
      BY <1>1 DEF Mark, OutboxTypeOK, Batch
<1>4. /\ new.open = batch[d].open
      /\ new.todo = batch[d].todo \ {e}
      /\ new.marks = [batch[d].marks EXCEPT ![e].kind = kind]
      BY <1>1 DEF Batch
<1>5. new.marks[e] = [kind |-> kind, from |-> batch[d].marks[e].from]
      BY <1>1, <1>2, <1>4 DEF Batch, Marks
<1>6. new.marks \in [Events -> Marks]
      BY <1>1, <1>2, <1>4, <1>5 DEF Batch, Marks, Outcomes
<1>7. new \in Batch
      BY <1>1, <1>4, <1>6 DEF Batch
<1>8. QED BY <1>1, <1>3, <1>4, <1>5, <1>7 DEF OutboxTypeOK, Batch

LEMMA RefusedType ==
    ASSUME OutboxTypeOK, NEW e \in Events, NEW n \in {1, MaxAttempts}, CountRefusal(e, n)
    PROVE  /\ refused' \in [Events -> 0 .. MaxAttempts]
           /\ \A f \in Events : refused[f] <= refused'[f]
           /\ refused'[e] >= IF refused[e] + n <= MaxAttempts THEN refused[e] + n
                                                              ELSE MaxAttempts
BY OutboxAssumption DEF OutboxTypeOK, CountRefusal

LEMMA WrittenType ==
    ASSUME NEW row \in Row, NEW mark \in Marks
    PROVE  Written(row, mark) \in Row
<1>1. CASE mark.kind = "none"
      BY <1>1 DEF Written
<1>2. CASE mark.kind = "delivered"
      BY <1>2 DEF Written, Row
<1> DEFINE dead == [row EXCEPT !.attempts = MaxAttempts, !.status = "dead_letter",
                               !.due = FALSE]
<1>d. dead \in Row
  <2>1. MaxAttempts \in 0 .. MaxAttempts
        BY OutboxAssumption
  <2>2. QED BY <2>1 DEF Row
<1>3. CASE mark.kind = "failed"
  <2>1. mark.from \in 0 .. MaxAttempts
        BY DEF Marks
  <2>2. CASE mark.from + 1 >= MaxAttempts
        BY <1>3, <1>d, <2>2 DEF Written, Failed
  <2>3. CASE ~(mark.from + 1 >= MaxAttempts)
    <3>1. mark.from + 1 \in 0 .. MaxAttempts
          BY <2>1, <2>3, OutboxAssumption
    <3>2. [row EXCEPT !.attempts = mark.from + 1, !.due = FALSE] \in Row
          BY <3>1 DEF Row
    <3>3. QED BY <1>3, <2>3, <3>2 DEF Written, Failed
  <2>4. QED BY <2>2, <2>3
<1>4. CASE mark.kind = "rejected"
      BY <1>4, <1>d DEF Written
<1>5. QED BY <1>1, <1>2, <1>3, <1>4 DEF Marks

LEMMA PostType ==
    ASSUME OutboxTypeOK, NEW d \in Drainers, Post(d)
    PROVE  OutboxTypeOK'
<1>1. PICK e \in Events : \/ PostAccepted(d, e) \/ PostUnanswered(d, e)
                          \/ PostFailed(d, e) \/ PostRejected(d, e)
      BY DEF Post
<1>2. batch' \in [Drainers -> Batch]
      BY <1>1, MarkType
         DEF PostAccepted, PostUnanswered, PostFailed, PostRejected, Outcomes
<1>3. refused' \in [Events -> 0 .. MaxAttempts]
      BY <1>1, RefusedType
         DEF PostAccepted, PostUnanswered, PostFailed, PostRejected, OutboxTypeOK
<1>4. QED BY <1>1, <1>2, <1>3
          DEF PostAccepted, PostUnanswered, PostFailed, PostRejected, OutboxTypeOK, Batch

LEMMA ReadType ==
    ASSUME OutboxTypeOK, NEW d \in Drainers, ReadBatch(d)
    PROVE  OutboxTypeOK'
<1>1. Selection \subseteq Events
      BY DEF Selection, DueEvents
<1>2. \A e \in Events : rows[e].attempts \in 0 .. MaxAttempts
      BY DEF OutboxTypeOK, Row
<1> DEFINE marks == [e \in Events |-> IF e \in Selection
                       THEN [kind |-> "none", from |-> rows[e].attempts]
                       ELSE NoMark]
<1>3. marks \in [Events -> Marks]
      BY <1>2, OutboxAssumption DEF Marks, NoMark
<1>4. [open |-> TRUE, todo |-> Selection, marks |-> marks] \in Batch
      BY <1>1, <1>3 DEF Batch
<1>5. batch' \in [Drainers -> Batch]
      BY <1>4 DEF ReadBatch, OutboxTypeOK, Batch
<1>6. QED BY <1>5 DEF ReadBatch, OutboxTypeOK, Batch

LEMMA CommitType ==
    ASSUME OutboxTypeOK, NEW d \in Drainers, CommitBatch(d)
    PROVE  OutboxTypeOK'
<1>1. \A e \in Events : Written(rows[e], batch[d].marks[e]) \in Row
      BY WrittenType DEF OutboxTypeOK
<1>2. rows' \in [Events -> Row]
      BY <1>1 DEF CommitBatch
<1>3. batch' \in [Drainers -> Batch]
      BY IdleType DEF CommitBatch, OutboxTypeOK, Batch
<1>4. QED BY <1>2, <1>3 DEF CommitBatch, OutboxTypeOK, Batch

LEMMA OutboxTypeStep ==
    ASSUME OutboxTypeOK, [OutboxNext]_outboxVars
    PROVE  OutboxTypeOK'
<1>1. ASSUME NEW e \in Events, Enqueue(e) PROVE OutboxTypeOK'
  <2>1. [status |-> "pending", published |-> FALSE, attempts |-> 0, due |-> TRUE]
           \in Row
        BY OutboxAssumption DEF Row
  <2>2. QED BY <1>1, <2>1 DEF Enqueue, OutboxTypeOK
<1>2. ASSUME NEW e \in Events, BackoffEnds(e) PROVE OutboxTypeOK'
      BY <1>2 DEF BackoffEnds, OutboxTypeOK, Row
<1>3. ASSUME NEW d \in Drainers, Drain(d) PROVE OutboxTypeOK'
      BY <1>3, ReadType, PostType, CommitType DEF Drain
<1>4. ASSUME NEW d \in Drainers, Crash(d) PROVE OutboxTypeOK'
  <2>1. batch' \in [Drainers -> Batch]
        BY <1>4, IdleType DEF Crash, OutboxTypeOK, Batch
  <2>2. QED BY <1>4, <2>1, OutboxAssumption DEF Crash, OutboxTypeOK, Batch
<1>5. CASE UNCHANGED outboxVars
      BY <1>5 DEF outboxVars, OutboxTypeOK
<1>6. QED BY <1>1, <1>2, <1>3, <1>4, <1>5 DEF OutboxNext

LEMMA OutboxTypeStart == OutboxInit => OutboxTypeOK
<1>1. NoRow \in Row
      BY OutboxAssumption DEF NoRow, Row
<1>2. QED BY <1>1, IdleType, OutboxAssumption DEF OutboxInit, OutboxTypeOK, Batch

\* Rows, batches and counters keep their types.
THEOREM OutboxTypes == OutboxSpec => []OutboxTypeOK
<1>1. QED BY OutboxTypeStart, OutboxTypeStep, PTL DEF OutboxSpec

-----------------------------------------------------------------------------
(* What a row and a mark say was done: n counts the refusals of the event, *)
(* hits holds the events that have reached the school server.              *)

RowEarned(row, e, n, hits) ==
    /\ row.attempts <= n
    /\ row.published => e \in hits
    /\ row.status = "absent" => ~row.published
    /\ row.status = "dead_letter" => n = MaxAttempts

MarkEarned(mark, e, n, hits) ==
    /\ mark.kind = "none" => mark.from <= n
    /\ mark.kind = "delivered" => e \in hits
    /\ mark.kind = "failed" => mark.from + 1 <= n \/ n = MaxAttempts
    /\ mark.kind = "rejected" => n = MaxAttempts

\* A batch holds only rows there are, and has posted what it no longer holds.
BatchAppended(d) ==
    \A e \in Events : /\ e \in batch[d].todo => batch[d].marks[e].kind = "none"
                      /\ e \in batch[d].todo \/ batch[d].marks[e].kind # "none"
                            => rows[e].status # "absent"

Earned ==
    /\ \A e \in Events : RowEarned(rows[e], e, refused[e], reached)
    /\ \A d \in Drainers, e \in Events :
          MarkEarned(batch[d].marks[e], e, refused[e], reached)
    /\ \A d \in Drainers : BatchAppended(d)

LEMMA EarnedGrows ==
    ASSUME NEW n \in 0 .. MaxAttempts, NEW m \in 0 .. MaxAttempts, n <= m,
           NEW e, NEW hits, NEW more, hits \subseteq more
    PROVE  /\ \A row \in Row :
                 RowEarned(row, e, n, hits) => RowEarned(row, e, m, more)
           /\ \A mark \in Marks :
                 MarkEarned(mark, e, n, hits) => MarkEarned(mark, e, m, more)
BY OutboxAssumption DEF RowEarned, MarkEarned, Row, Marks

\* A commit writes only what its batch has earned.
LEMMA WrittenEarned ==
    ASSUME NEW row \in Row, NEW mark \in Marks, NEW n \in 0 .. MaxAttempts,
           NEW e, NEW hits, mark.kind # "none" => row.status # "absent",
           RowEarned(row, e, n, hits), MarkEarned(mark, e, n, hits)
    PROVE  RowEarned(Written(row, mark), e, n, hits)
<1>1. CASE mark.kind = "none"
      BY <1>1 DEF Written
<1>2. CASE mark.kind = "delivered"
      BY <1>2 DEF Written, RowEarned, MarkEarned, Row
<1>3. CASE mark.kind = "failed"
  <2>1. CASE mark.from + 1 >= MaxAttempts
        BY <1>3, <2>1, OutboxAssumption
           DEF Written, Failed, RowEarned, MarkEarned, Row, Marks
  <2>2. CASE ~(mark.from + 1 >= MaxAttempts)
        BY <1>3, <2>2, OutboxAssumption
           DEF Written, Failed, RowEarned, MarkEarned, Row, Marks
  <2>3. QED BY <2>1, <2>2
<1>4. CASE mark.kind = "rejected"
  <2>1. Written(row, mark).status = "dead_letter" /\ n = MaxAttempts
        BY <1>4 DEF Written, Row, MarkEarned
  <2>2. /\ Written(row, mark).attempts = MaxAttempts
        /\ Written(row, mark).published = row.published
        BY <1>4 DEF Written, Row
  <2>3. QED BY <2>1, <2>2, OutboxAssumption DEF RowEarned
<1>5. QED BY <1>1, <1>2, <1>3, <1>4 DEF Marks

LEMMA WrittenStatus ==
    ASSUME NEW row \in Row, NEW mark \in Marks,
           mark.kind # "none" => row.status # "absent"
    PROVE  /\ Written(row, mark).status = "absent" <=> row.status = "absent"
           /\ Written(row, mark).published <=>
                 row.published \/ mark.kind = "delivered"
           /\ row.status = "dead_letter" /\ mark.kind # "delivered"
                 => Written(row, mark).status = "dead_letter"
<1>1. CASE mark.kind = "none"
      BY <1>1 DEF Written
<1>2. CASE mark.kind = "delivered"
      BY <1>2 DEF Written, Row
<1>3. CASE mark.kind = "failed"
      BY <1>3 DEF Written, Failed, Row
<1>4. CASE mark.kind = "rejected"
      BY <1>4 DEF Written, Row
<1>5. QED BY <1>1, <1>2, <1>3, <1>4 DEF Marks

LEMMA IdleEarned ==
    ASSUME OutboxTypeOK, NEW e \in Events
    PROVE  /\ MarkEarned(Idle.marks[e], e, refused[e], reached)
           /\ e \notin Idle.todo /\ Idle.marks[e].kind = "none"
BY OutboxAssumption DEF OutboxTypeOK, Idle, NoMark, MarkEarned

-----------------------------------------------------------------------------
(* The steps keep Earned.                                                  *)

LEMMA EnqueueEarned ==
    ASSUME OutboxTypeOK, Earned, NEW e \in Events, Enqueue(e)
    PROVE  Earned'
<1>1. \A f \in Events : RowEarned(rows'[f], f, refused[f], reached)
  <2>1. TAKE f \in Events
  <2>2. CASE f = e
        BY <2>2, OutboxAssumption DEF Enqueue, OutboxTypeOK, RowEarned
  <2>3. CASE f # e
        BY <2>3 DEF Enqueue, OutboxTypeOK, Earned
  <2>4. QED BY <2>2, <2>3
<1>2. \A f \in Events : rows[f].status # "absent" => rows'[f].status # "absent"
      BY DEF Enqueue, OutboxTypeOK
<1>3. QED BY <1>1, <1>2 DEF Enqueue, Earned, BatchAppended

LEMMA BackoffEarned ==
    ASSUME OutboxTypeOK, Earned, NEW e \in Events, BackoffEnds(e)
    PROVE  Earned'
<1>1. \A f \in Events : /\ rows'[f].status = rows[f].status
                        /\ rows'[f].published = rows[f].published
                        /\ rows'[f].attempts = rows[f].attempts
      BY DEF BackoffEnds, OutboxTypeOK, Row
<1>2. QED BY <1>1 DEF BackoffEnds, Earned, BatchAppended, RowEarned

LEMMA ReadEarned ==
    ASSUME OutboxTypeOK, Earned, NEW d \in Drainers, ReadBatch(d)
    PROVE  Earned'
<1> DEFINE new == [open |-> TRUE, todo |-> Selection,
                   marks |-> [e \in Events |-> IF e \in Selection
                                THEN [kind |-> "none", from |-> rows[e].attempts]
                                ELSE NoMark]]
<1>1. batch' = [batch EXCEPT ![d] = new]
      BY DEF ReadBatch
<1>2. batch'[d] = new /\ \A c \in Drainers : c # d => batch'[c] = batch[c]
      BY <1>1 DEF OutboxTypeOK
<1>3. \A e \in Events : /\ new.marks[e].kind = "none"
                        /\ new.marks[e].from \in {0, rows[e].attempts}
      BY DEF NoMark
<1>4. \A e \in Selection : e \in Events /\ rows[e].status # "absent"
      BY DEF Selection, DueEvents, IsDue
<1>5. \A e \in Events : new.marks[e].from <= refused[e]
      BY <1>3 DEF Earned, RowEarned, OutboxTypeOK, Row
<1>6. ASSUME NEW c \in Drainers, NEW e \in Events
      PROVE  MarkEarned(batch'[c].marks[e], e, refused[e], reached)
  <2>1. CASE c = d
        BY <2>1, <1>2, <1>3, <1>5 DEF MarkEarned
  <2>2. CASE c # d
        BY <2>2, <1>2 DEF Earned
  <2>3. QED BY <2>1, <2>2
<1>7. ASSUME NEW c \in Drainers
      PROVE  BatchAppended(c)'
  <2>1. CASE c = d
        BY <2>1, <1>2, <1>3, <1>4 DEF BatchAppended, ReadBatch
  <2>2. CASE c # d
        BY <2>2, <1>2 DEF Earned, BatchAppended, ReadBatch
  <2>3. QED BY <2>1, <2>2
<1>8. QED BY <1>6, <1>7 DEF Earned, ReadBatch

\* A batch's marks, taken one by one.
LEMMA MarksTyped ==
    ASSUME OutboxTypeOK, NEW c \in Drainers, NEW f \in Events
    PROVE  batch[c].marks[f] \in Marks /\ refused[f] \in 0 .. MaxAttempts
<1>1. batch[c] \in [open : BOOLEAN, todo : SUBSET Events,
                    marks : [Events -> Marks]]
      BY DEF OutboxTypeOK
<1>2. batch[c].marks \in [Events -> Marks]
      BY <1>1
<1>3. QED BY <1>2 DEF OutboxTypeOK

LEMMA MarksEarned ==
    ASSUME Earned, NEW c \in Drainers, NEW f \in Events
    PROVE  MarkEarned(batch[c].marks[f], f, refused[f], reached)
BY DEF Earned

\* A post: its mark is earned by what the school server did.
LEMMA PostEarned ==
    ASSUME OutboxTypeOK, OutboxTypeOK', Earned, NEW d \in Drainers, NEW e \in Events,
           Posting(d, e), NEW kind \in Outcomes,
           Mark(d, e, kind), rows' = rows, reached \subseteq reached',
           \A f \in Events : refused[f] <= refused'[f],
           MarkEarned([kind |-> kind, from |-> batch[d].marks[e].from],
                      e, refused'[e], reached')
    PROVE  Earned'
<1>m. /\ batch'[d].todo = batch[d].todo \ {e}
      /\ batch'[d].marks[e] = [kind |-> kind, from |-> batch[d].marks[e].from]
      /\ \A f \in Events : f # e => batch'[d].marks[f] = batch[d].marks[f]
      /\ \A c \in Drainers : c # d => batch'[c] = batch[c]
      BY MarkType
<1>1. \A f \in Events : RowEarned(rows'[f], f, refused'[f], reached')
  <2>1. TAKE f \in Events
  <2>2. /\ rows[f] \in Row /\ RowEarned(rows[f], f, refused[f], reached)
        /\ refused[f] \in 0 .. MaxAttempts /\ refused'[f] \in 0 .. MaxAttempts
        BY DEF OutboxTypeOK, Earned
  <2>3. QED BY <2>2, EarnedGrows
<1>2. ASSUME NEW c \in Drainers, NEW f \in Events
      PROVE  MarkEarned(batch'[c].marks[f], f, refused'[f], reached')
  <2>1. /\ batch[c].marks[f] \in Marks
        /\ MarkEarned(batch[c].marks[f], f, refused[f], reached)
        /\ refused[f] \in 0 .. MaxAttempts /\ refused'[f] \in 0 .. MaxAttempts
        BY MarksTyped, MarksEarned DEF OutboxTypeOK
  <2>2. MarkEarned(batch[c].marks[f], f, refused'[f], reached')
    <3>1. refused[f] <= refused'[f]
          OBVIOUS
    <3>2. QED BY <2>1, <3>1, OutboxAssumption DEF MarkEarned, Marks
  <2>3. CASE c = d /\ f = e
        BY <2>3, <1>m
  <2>4. CASE c # d \/ f # e
        BY <2>2, <2>4, <1>m
  <2>5. QED BY <2>3, <2>4
<1>3. ASSUME NEW c \in Drainers
      PROVE  BatchAppended(c)'
  <2>1. BatchAppended(c) /\ BatchAppended(d)
        BY DEF Earned
  <2>2. CASE c = d
        BY <2>1, <2>2, <1>m DEF BatchAppended, Posting
  <2>3. CASE c # d
        BY <2>1, <2>3, <1>m DEF BatchAppended
  <2>4. QED BY <2>2, <2>3
<1>4. QED BY <1>1, <1>2, <1>3 DEF Earned

LEMMA PostingUnmarked ==
    ASSUME Earned, NEW d \in Drainers, NEW e \in Events, Posting(d, e)
    PROVE  batch[d].marks[e].kind = "none"
<1>1. BatchAppended(d) /\ e \in batch[d].todo
      BY DEF Earned, Posting
<1>2. QED BY <1>1 DEF BatchAppended

LEMMA PostsEarned ==
    ASSUME OutboxTypeOK, OutboxTypeOK', Earned, NEW d \in Drainers, Post(d)
    PROVE  Earned'
<1>1. PICK e \in Events : \/ PostAccepted(d, e) \/ PostUnanswered(d, e)
                          \/ PostFailed(d, e) \/ PostRejected(d, e)
      BY DEF Post
<1>2. /\ batch[d].marks[e] \in Marks /\ refused[e] \in 0 .. MaxAttempts
      /\ MarkEarned(batch[d].marks[e], e, refused[e], reached)
      BY MarksTyped, MarksEarned
<1>3. CASE PostAccepted(d, e)
  <2>1. MarkEarned([kind |-> "delivered", from |-> batch[d].marks[e].from],
                   e, refused'[e], reached')
        BY <1>3 DEF PostAccepted, MarkEarned
  <2>2. \A f \in Events : refused[f] <= refused'[f]
        BY <1>3 DEF PostAccepted, OutboxTypeOK
  <2>3. QED BY <1>3, <2>1, <2>2, PostEarned DEF PostAccepted, Outcomes
<1>4. ASSUME Posting(d, e), CountRefusal(e, 1)
      PROVE  /\ MarkEarned([kind |-> "failed", from |-> batch[d].marks[e].from],
                           e, refused'[e], reached')
             /\ \A f \in Events : refused[f] <= refused'[f]
  <2>1. batch[d].marks[e].from \in Nat /\ batch[d].marks[e].from <= refused[e]
    <3>1. batch[d].marks[e].kind = "none"
          BY <1>4, PostingUnmarked
    <3>2. QED BY <1>2, <3>1, OutboxAssumption DEF MarkEarned, Marks
  <2>2. /\ refused'[e] \in 0 .. MaxAttempts
        /\ \A f \in Events : refused[f] <= refused'[f]
        /\ refused'[e] >= IF refused[e] + 1 <= MaxAttempts THEN refused[e] + 1
                                                          ELSE MaxAttempts
        BY <1>4, RefusedType
  <2>3. QED BY <1>2, <2>1, <2>2, OutboxAssumption DEF MarkEarned
<1>5. CASE PostUnanswered(d, e)
      BY <1>5, <1>4, PostEarned DEF PostUnanswered, Outcomes
<1>6. CASE PostFailed(d, e)
      BY <1>6, <1>4, PostEarned DEF PostFailed, Outcomes
<1>7. CASE PostRejected(d, e)
  <2>1. /\ refused'[e] \in 0 .. MaxAttempts
        /\ \A f \in Events : refused[f] <= refused'[f]
        /\ refused'[e] >= IF refused[e] + MaxAttempts <= MaxAttempts
                           THEN refused[e] + MaxAttempts ELSE MaxAttempts
        BY <1>7, RefusedType DEF PostRejected
  <2>2. refused'[e] = MaxAttempts
        BY <1>2, <2>1, OutboxAssumption
  <2>3. MarkEarned([kind |-> "rejected", from |-> batch[d].marks[e].from],
                   e, refused'[e], reached')
        BY <2>2 DEF MarkEarned
  <2>4. QED BY <1>7, <2>1, <2>3, PostEarned DEF PostRejected, Outcomes
<1>8. QED BY <1>1, <1>3, <1>5, <1>6, <1>7

\* A batch ends, committed or not: it is idle again.
LEMMA EndEarned ==
    ASSUME OutboxTypeOK, Earned, NEW d \in Drainers,
           batch' = [batch EXCEPT ![d] = Idle], UNCHANGED <<reached, refused>>,
           \A e \in Events : rows[e].status # "absent" => rows'[e].status # "absent"
    PROVE  /\ \A c \in Drainers, e \in Events :
                 MarkEarned(batch'[c].marks[e], e, refused'[e], reached')
           /\ \A c \in Drainers : BatchAppended(c)'
<1>1. batch'[d] = Idle /\ \A c \in Drainers : c # d => batch'[c] = batch[c]
      BY DEF OutboxTypeOK
<1>2. QED BY <1>1, IdleEarned DEF Earned, BatchAppended

LEMMA CommitEarned ==
    ASSUME OutboxTypeOK, Earned, NEW d \in Drainers, CommitBatch(d)
    PROVE  Earned'
<1>1. ASSUME NEW e \in Events
      PROVE  /\ rows[e] \in Row /\ batch[d].marks[e] \in Marks
             /\ refused[e] \in 0 .. MaxAttempts
             /\ RowEarned(rows[e], e, refused[e], reached)
             /\ MarkEarned(batch[d].marks[e], e, refused[e], reached)
             /\ batch[d].marks[e].kind # "none" => rows[e].status # "absent"
      BY DEF OutboxTypeOK, Earned, BatchAppended
<1>2. \A e \in Events : rows'[e] = Written(rows[e], batch[d].marks[e])
      BY DEF CommitBatch
<1>3. \A e \in Events : RowEarned(rows'[e], e, refused[e], reached)
      BY <1>1, <1>2, WrittenEarned
<1>4. \A e \in Events : rows[e].status # "absent" => rows'[e].status # "absent"
      BY <1>1, <1>2, WrittenStatus
<1>5. QED BY <1>3, <1>4, EndEarned DEF CommitBatch, Earned

LEMMA EarnedStep ==
    ASSUME OutboxTypeOK, OutboxTypeOK', Earned, [OutboxNext]_outboxVars
    PROVE  Earned'
<1>1. ASSUME NEW e \in Events, Enqueue(e) \/ BackoffEnds(e) PROVE Earned'
      BY <1>1, EnqueueEarned, BackoffEarned
<1>2. ASSUME NEW d \in Drainers, Drain(d) PROVE Earned'
      BY <1>2, ReadEarned, PostsEarned, CommitEarned DEF Drain
<1>3. ASSUME NEW d \in Drainers, Crash(d) PROVE Earned'
      BY <1>3, EndEarned DEF Crash, Earned
<1>4. CASE UNCHANGED outboxVars
      BY <1>4 DEF outboxVars, Earned, BatchAppended
<1>5. QED BY <1>1, <1>2, <1>3, <1>4 DEF OutboxNext

LEMMA InitEarned == OutboxInit => Earned
<1>1. SUFFICES ASSUME OutboxInit PROVE Earned
      OBVIOUS
<1>2. OutboxTypeOK
      BY <1>1, OutboxTypeStart
<1>3. \A e \in Events : RowEarned(rows[e], e, refused[e], reached)
      BY <1>1, OutboxAssumption DEF OutboxInit, NoRow, RowEarned
<1>4. \A d \in Drainers : batch[d] = Idle
      BY <1>1 DEF OutboxInit
<1>5. QED BY <1>2, <1>3, <1>4, IdleEarned DEF Earned, BatchAppended

LEMMA EarnedAlways == OutboxSpec => [](OutboxTypeOK /\ Earned)
<1>1. OutboxTypeOK /\ Earned /\ [OutboxNext]_outboxVars => (OutboxTypeOK /\ Earned)'
      BY OutboxTypeStep, EarnedStep
<1>2. QED BY <1>1, OutboxTypeStart, InitEarned, PTL DEF OutboxSpec

\* Overlapping batches count from stale attempts, and yet no event is given
\* up before the school server refused it or MAX_ATTEMPTS posts failed.
THEOREM DeadLettersEarned == OutboxSpec => []DeadLettersAreEarned
<1>1. Earned => DeadLettersAreEarned
      BY DEF Earned, RowEarned, DeadLettersAreEarned
<1>2. QED BY <1>1, EarnedAlways, PTL

-----------------------------------------------------------------------------
(* The refinement of EventDelivery.                                        *)

Appended == {e \in Events : rows[e].status # "absent"}
Published == {e \in Events : rows[e].published}
Dead == {e \in Events : rows[e].status = "dead_letter"}

\* Delivery's state is these four sets.
LEMMA Mapped ==
    /\ Delivery!vars = <<Appended, reached, Published, Dead>>
    /\ \A e \in Events : Delivery!Append(e) <=>
          /\ e \notin Appended /\ Appended' = Appended \cup {e}
          /\ reached' = reached /\ Published' = Published /\ Dead' = Dead
    /\ \A e \in Events : Delivery!Reach(e) <=>
          /\ e \in Appended /\ reached' = reached \cup {e}
          /\ Appended' = Appended /\ Published' = Published /\ Dead' = Dead
    /\ \A ok, given : Delivery!Record(ok, given) <=>
          /\ ok \subseteq reached /\ given \subseteq Appended
          /\ Published' = Published \cup ok
          /\ Dead' = (Dead \ ok) \cup given
          /\ Appended' = Appended /\ reached' = reached
BY DEF Delivery!vars, Delivery!Append, Delivery!Reach, Delivery!Record,
       Appended, Published, Dead

LEMMA StutterDelivers ==
    ASSUME UNCHANGED <<rows, reached>>
    PROVE  UNCHANGED Delivery!vars
BY DEF Delivery!vars

LEMMA EnqueueDelivers ==
    ASSUME OutboxTypeOK, Earned, NEW e \in Events, Enqueue(e)
    PROVE  Delivery!Append(e)
<1>1. /\ rows[e].status = "absent" /\ ~rows[e].published
      /\ rows'[e].status = "pending" /\ ~rows'[e].published
      /\ \A f \in Events : f # e => rows'[f] = rows[f]
      BY DEF Enqueue, OutboxTypeOK, Earned, RowEarned
<1>2. e \notin Appended /\ Appended' = Appended \cup {e}
      BY <1>1 DEF Appended
<1>3. Published' = Published
      BY <1>1 DEF Published
<1>4. Dead' = Dead
      BY <1>1 DEF Dead
<1>5. QED BY <1>2, <1>3, <1>4, Mapped DEF Enqueue

LEMMA BackoffDelivers ==
    ASSUME OutboxTypeOK, NEW e \in Events, BackoffEnds(e)
    PROVE  UNCHANGED Delivery!vars
<1>1. \A f \in Events : /\ rows'[f].status = rows[f].status
                        /\ rows'[f].published = rows[f].published
      BY DEF BackoffEnds, OutboxTypeOK, Row
<1>2. Appended' = Appended /\ Published' = Published /\ Dead' = Dead
      BY <1>1 DEF Appended, Published, Dead
<1>3. QED BY <1>2 DEF BackoffEnds, Delivery!vars, Appended, Published, Dead

LEMMA PostDelivers ==
    ASSUME Earned, NEW d \in Drainers, Post(d)
    PROVE  (\E e \in Events : Delivery!Reach(e)) \/ UNCHANGED Delivery!vars
<1>1. PICK e \in Events : \/ PostAccepted(d, e) \/ PostUnanswered(d, e)
                          \/ PostFailed(d, e) \/ PostRejected(d, e)
      BY DEF Post
<1>2. Appended' = Appended /\ Published' = Published /\ Dead' = Dead
      BY <1>1 DEF PostAccepted, PostUnanswered, PostFailed, PostRejected,
                  Appended, Published, Dead
<1>3. CASE PostAccepted(d, e) \/ PostUnanswered(d, e)
  <2>1. e \in Appended /\ reached' = reached \cup {e}
        BY <1>3 DEF PostAccepted, PostUnanswered, Posting, Earned,
                    BatchAppended, Appended
  <2>2. QED BY <1>2, <2>1, Mapped
<1>4. CASE PostFailed(d, e) \/ PostRejected(d, e)
      BY <1>4, StutterDelivers DEF PostFailed, PostRejected
<1>5. QED BY <1>1, <1>3, <1>4

\* A commit publishes what it marked delivered, and records its dead letters.
LEMMA CommitDelivers ==
    ASSUME OutboxTypeOK, Earned, NEW d \in Drainers, CommitBatch(d)
    PROVE  \E ok, given \in SUBSET Events : Delivery!Record(ok, given)
<1> DEFINE ok == {e \in Events : batch[d].marks[e].kind = "delivered"}
<1>1. ASSUME NEW e \in Events
      PROVE  /\ rows'[e].status = "absent" <=> rows[e].status = "absent"
             /\ rows'[e].published <=> rows[e].published \/ e \in ok
             /\ rows[e].status = "dead_letter" /\ e \notin ok
                   => rows'[e].status = "dead_letter"
  <2>1. /\ rows[e] \in Row /\ batch[d].marks[e] \in Marks
        /\ batch[d].marks[e].kind # "none" => rows[e].status # "absent"
        /\ rows'[e] = Written(rows[e], batch[d].marks[e])
        BY DEF OutboxTypeOK, Earned, BatchAppended, CommitBatch
  <2>2. QED BY <2>1, WrittenStatus
<1>2. Appended' = Appended /\ Published' = Published \cup ok
      BY <1>1 DEF Appended, Published
<1>3. PICK given \in SUBSET Events : given = Dead'
      BY DEF Dead
<1>4. Dead' = (Dead \ ok) \cup given /\ given \subseteq Appended
      BY <1>1, <1>3 DEF Dead, Appended
<1>5. PICK sent \in SUBSET Events : sent = ok
      OBVIOUS
<1>6. sent \subseteq reached
      BY <1>5 DEF Earned, MarkEarned
<1>7. /\ Dead' = (Dead \ sent) \cup given
      /\ Published' = Published \cup sent /\ Appended' = Appended
      BY <1>2, <1>4, <1>5
<1>8. Delivery!Record(sent, given)
      BY <1>4, <1>6, <1>7
         DEF CommitBatch, Delivery!Record, Appended, Published, Dead
<1>9. QED BY <1>8

LEMMA DeliveryStep ==
    ASSUME OutboxTypeOK, Earned, [OutboxNext]_outboxVars
    PROVE  [Delivery!Next]_(Delivery!vars)
<1>1. ASSUME NEW e \in Events, Enqueue(e) PROVE Delivery!Next
      BY <1>1, EnqueueDelivers DEF Delivery!Next
<1>2. ASSUME NEW e \in Events, BackoffEnds(e) PROVE UNCHANGED Delivery!vars
      BY <1>2, BackoffDelivers
<1>3. ASSUME NEW d \in Drainers, Drain(d)
      PROVE  [Delivery!Next]_(Delivery!vars)
  <2>1. CASE ReadBatch(d)
        BY <2>1, StutterDelivers DEF ReadBatch
  <2>2. CASE Post(d)
        BY <2>2, PostDelivers DEF Delivery!Next
  <2>3. CASE CommitBatch(d)
        BY <2>3, CommitDelivers DEF Delivery!Next
  <2>4. QED BY <1>3, <2>1, <2>2, <2>3 DEF Drain
<1>4. ASSUME NEW d \in Drainers, Crash(d) PROVE UNCHANGED Delivery!vars
      BY <1>4, StutterDelivers DEF Crash
<1>5. CASE UNCHANGED outboxVars
      BY <1>5, StutterDelivers DEF outboxVars
<1>6. QED BY <1>1, <1>2, <1>3, <1>4, <1>5 DEF OutboxNext

LEMMA DeliveryInit == OutboxInit => Delivery!Init
BY DEF OutboxInit, NoRow, Delivery!Init

\* The outbox delivers at least once: EventDelivery is implemented under any
\* number of drainers, lost answers and crashes before the commit.
THEOREM OutboxDelivers == OutboxSpec => DeliversAtLeastOnce
<1>1. OutboxTypeOK /\ Earned /\ [OutboxNext]_outboxVars => [Delivery!Next]_(Delivery!vars)
      BY DeliveryStep
<1>2. QED BY <1>1, DeliveryInit, EarnedAlways, PTL DEF OutboxSpec, DeliversAtLeastOnce

-----------------------------------------------------------------------------
(* The configuration of a school: RuntimeConfig.                           *)

USE RuntimeConfigAssumption, NothingAssumption

Steps == [ConfigNext]_configVars

\* The actions of the control plane, and what they leave alone.
ControlStep == CommitChange \/ RollBackChange \/ \E c \in Replicas : BeginChange(c) \/ ServedExpires(c)

\* What a task does that has a version: it was built, or it was answered.
Carries(t) == tasks[t].pc \in {"built", "answered"}

\* The refreshes that have not ended, and those no flush has overtaken.
InFlight(t) == ~Resting(t) /\ Current(t)

NoRedis == ~useRedis => redis = Nothing /\ reads = <<>>

\* A booked refresh is in flight, and one in flight is booked.
Bookings ==
    \A t \in Tasks :
        /\ ~Resting(t) => tasks[t].generation <= generation
        /\ tasks[t].booked <=> InFlight(t)

\* An answer is a version there was, and a replica builds what is built anew.
Answered ==
    \A t \in Tasks : /\ Carries(t) => tasks[t].version \in Versions
                     /\ tasks[t].pc = "asked" => tasks[t].by = Nothing
                     /\ tasks[t].pc = "built" => tasks[t].by \in Replicas

\* A change begins where there is a version left for it.
RoomForChange == changing # Nothing => version < MaxVersion

ConfigInv == ConfigTypeOK /\ RoomForChange /\ Answered /\ NoRedis /\ Bookings /\ RefreshesHold

-----------------------------------------------------------------------------
(* The types.                                                              *)

LEMMA OlderIsEntry ==
    ASSUME NEW e \in Entry
    PROVE  /\ Older(e) \in Entry /\ Older(e) # Nothing
           /\ Older(e).version = e.version /\ Older(e).generation = e.generation
BY DEF Older, Entry

LEMMA AskIsTask ==
    ASSUME ConfigTypeOK, NEW w \in BOOLEAN
    PROVE  /\ Ask(w) \in Task
           /\ Ask(w).pc = "asked" /\ Ask(w).generation = generation /\ Ask(w).booked
           /\ Ask(w).by = Nothing
BY DEF Ask, NoTask, Task, ConfigTypeOK

\* What a refresh does to the tasks: one is booked, or one gets another caller.
LEMMA RefreshTasks ==
    ASSUME ConfigTypeOK, NEW w \in BOOLEAN, Refresh(w)
    PROVE  \E t \in Tasks :
              /\ tasks' \in [Tasks -> Task]
              /\ \A s \in Tasks \ {t} : tasks'[s] = tasks[s]
              /\ \/ /\ tasks'[t].pc = tasks[t].pc /\ tasks'[t].version = tasks[t].version
                    /\ tasks'[t].generation = tasks[t].generation /\ tasks'[t].by = tasks[t].by
                    /\ tasks'[t].booked = tasks[t].booked
                 \/ /\ ~Booked /\ Resting(t)
                    /\ tasks'[t].pc = "asked" /\ tasks'[t].generation = generation
                    /\ tasks'[t].booked /\ tasks'[t].by = Nothing
<1>1. ASSUME NEW t \in Tasks, tasks' = [tasks EXCEPT ![t].waited = @ \/ w]
      PROVE  /\ tasks' \in [Tasks -> Task]
             /\ \A s \in Tasks \ {t} : tasks'[s] = tasks[s]
             /\ tasks'[t].pc = tasks[t].pc /\ tasks'[t].version = tasks[t].version
             /\ tasks'[t].generation = tasks[t].generation /\ tasks'[t].by = tasks[t].by
             /\ tasks'[t].booked = tasks[t].booked
  <2>1. PICK x \in BOOLEAN : tasks' = [tasks EXCEPT ![t] = [tasks[t] EXCEPT !.waited = x]]
        BY <1>1, (tasks[t].waited \/ w) \in BOOLEAN
  <2>2. tasks[t] \in Task
        BY DEF ConfigTypeOK
  <2>3. [tasks[t] EXCEPT !.waited = x] \in Task
        BY <2>2 DEF Task
  <2>4. QED BY <2>1, <2>2, <2>3 DEF ConfigTypeOK, Task
<1>2. ASSUME NEW t \in Tasks, ~Booked, Resting(t), tasks' = [tasks EXCEPT ![t] = Ask(w)]
      PROVE  /\ tasks' \in [Tasks -> Task]
             /\ \A s \in Tasks \ {t} : tasks'[s] = tasks[s]
             /\ tasks'[t].pc = "asked" /\ tasks'[t].generation = generation
             /\ tasks'[t].booked /\ tasks'[t].by = Nothing
      BY <1>2, AskIsTask DEF ConfigTypeOK
<1>3. QED BY <1>1, <1>2 DEF Refresh

LEMMA ResolveMoves ==
    ASSUME NEW e, Resolve(e)
    PROVE  UNCHANGED tasks \/ \E w \in BOOLEAN : Refresh(w)
BY DEF Resolve

LEMMA ResolveType ==
    ASSUME ConfigTypeOK, NEW e \in Entry \cup {Nothing}, Resolve(e)
    PROVE  tasks' \in [Tasks -> Task] /\ answer' \in 0 .. MaxVersion
<1>1. tasks' \in [Tasks -> Task]
      BY ResolveMoves, RefreshTasks DEF ConfigTypeOK
<1>2. e # Nothing => e.version \in 0 .. MaxVersion
      BY DEF Entry, Versions
<1>3. answer' \in 0 .. MaxVersion
      BY <1>2 DEF Resolve, ConfigTypeOK
<1>4. QED BY <1>1, <1>3

\* What the control plane does to a task, by what it has afterwards.
Moved(t, pc, v, c) ==
    /\ tasks' = [tasks EXCEPT ![t] = [tasks[t] EXCEPT !.pc = pc, !.version = v, !.by = c]]
    /\ UNCHANGED <<useRedis, version, changing, generation, cache, redis, reads, answer>>

LEMMA MovedTasks ==
    ASSUME ConfigTypeOK, NEW t \in Tasks, NEW pc \in {"built", "answered"}, NEW v \in Versions,
           NEW c \in Replicas \cup {Nothing}, Moved(t, pc, v, c)
    PROVE  /\ tasks' \in [Tasks -> Task]
           /\ \A s \in Tasks \ {t} : tasks'[s] = tasks[s]
           /\ tasks'[t].pc = pc /\ tasks'[t].version = v /\ tasks'[t].by = c
           /\ tasks'[t].generation = tasks[t].generation /\ tasks'[t].booked = tasks[t].booked
<1>1. tasks[t] \in Task /\ v \in 0 .. MaxVersion
      BY DEF ConfigTypeOK, Versions
<1>2. [tasks[t] EXCEPT !.pc = pc, !.version = v, !.by = c] \in Task
      BY <1>1 DEF Task
<1>3. QED BY <1>1, <1>2 DEF Moved, ConfigTypeOK, Task

LEMMA ControlMoves ==
    ASSUME ConfigTypeOK, Answered, NEW t \in Tasks, AnswerKept(t) \/ Build(t) \/ Keep(t)
    PROVE  \E pc \in {"built", "answered"}, v \in Versions, c \in Replicas \cup {Nothing} :
              /\ Moved(t, pc, v, c) /\ ~Resting(t)
              /\ \/ /\ tasks[t].pc = "asked" /\ pc = "built" /\ c \in Replicas
                    /\ v = version /\ UNCHANGED served
                 \/ /\ tasks[t].pc = "asked" /\ pc = "answered" /\ c = tasks[t].by
                    /\ \E d \in Replicas : v = served[d]
                    /\ UNCHANGED served
                 \/ /\ tasks[t].pc = "built" /\ pc = "answered" /\ v = tasks[t].version
                    /\ c = tasks[t].by /\ c \in Replicas
                    /\ served' = [served EXCEPT ![c] = v]
<1> USE DEF control
<1>0. tasks[t] \in Task /\ tasks[t].by \in Replicas \cup {Nothing}
      BY DEF ConfigTypeOK, Task
<1>1. CASE Build(t)
  <2>1. PICK c \in Replicas :
           tasks' = [tasks EXCEPT ![t].pc = "built", ![t].version = version, ![t].by = c]
        BY <1>1 DEF Build
  <2>2. Moved(t, "built", version, c)
        BY <1>0, <1>1, <2>1 DEF Moved, Build, ConfigTypeOK, Task
  <2>3. version \in Versions /\ tasks[t].pc = "asked" /\ UNCHANGED served /\ ~Resting(t)
        BY <1>1 DEF Build, ConfigTypeOK, Resting
  <2>4. QED BY <2>2, <2>3
<1>2. CASE AnswerKept(t)
  <2>1. PICK d \in Replicas :
           /\ served[d] # 0
           /\ tasks' = [tasks EXCEPT ![t].pc = "answered", ![t].version = served[d]]
        BY <1>2 DEF AnswerKept
  <2> DEFINE v == served[d]
             new == [tasks[t] EXCEPT !.pc = "answered", !.version = v, !.by = tasks[t].by]
  <2>a. [tasks[t] EXCEPT !.pc = "answered", !.version = v] = new
        BY <1>0 DEF Task
  <2>b. tasks' = [tasks EXCEPT ![t] = [tasks[t] EXCEPT !.pc = "answered", !.version = v]]
        BY <2>1 DEF ConfigTypeOK
  <2>c. UNCHANGED <<useRedis, version, changing, generation, cache, redis, reads, answer>>
        BY <1>2 DEF AnswerKept
  <2>2. Moved(t, "answered", served[d], tasks[t].by)
        BY <2>a, <2>b, <2>c DEF Moved
  <2>3. served[d] \in Versions
        BY <2>1 DEF ConfigTypeOK, Versions
  <2>4. tasks[t].pc = "asked" /\ UNCHANGED served /\ ~Resting(t)
        BY <1>2 DEF AnswerKept, Resting
  <2>5. QED BY <1>0, <2>2, <2>3, <2>4
<1>3. CASE Keep(t)
  <2>1. Moved(t, "answered", tasks[t].version, tasks[t].by)
        BY <1>0, <1>3 DEF Moved, Keep, ConfigTypeOK, Task
  <2>2. /\ tasks[t].version \in Versions /\ tasks[t].by \in Replicas /\ ~Resting(t)
        /\ tasks[t].pc = "built" /\ served' = [served EXCEPT ![tasks[t].by] = tasks[t].version]
        BY <1>3 DEF Keep, Answered, Carries, Resting
  <2>3. QED BY <2>1, <2>2
<1>4. QED BY <1>1, <1>2, <1>3

\* A refresh that ends: its task rests.
Ends(t) == Complete(t) \/ RefreshFails(t)

LEMMA EndedTasks ==
    ASSUME ConfigTypeOK, NEW t \in Tasks, Ends(t)
    PROVE  /\ tasks' \in [Tasks -> Task]
           /\ \A s \in Tasks \ {t} : tasks'[s] = tasks[s]
           /\ tasks'[t].pc = "idle" /\ ~tasks'[t].booked
           /\ UNCHANGED <<control, generation, reads>>
           /\ answer' \in 0 .. MaxVersion
<1>1. NoTask \in Task /\ tasks[t].version \in 0 .. MaxVersion
      BY DEF NoTask, Task, Generations, ConfigTypeOK
<1>2. tasks' = [tasks EXCEPT ![t] = NoTask] /\ UNCHANGED <<control, generation, reads>>
      BY DEF Ends, Complete, RefreshFails
<1>3. answer' \in 0 .. MaxVersion
      BY <1>1 DEF Ends, Complete, RefreshFails, ConfigTypeOK
<1>4. QED BY <1>1, <1>2, <1>3 DEF ConfigTypeOK, NoTask

LEMMA FlushedTasks ==
    ASSUME ConfigTypeOK, Flush
    PROVE  /\ tasks' \in [Tasks -> Task]
           /\ \A t \in Tasks : /\ tasks'[t].pc = tasks[t].pc /\ ~tasks'[t].booked
                               /\ tasks'[t].generation = tasks[t].generation
                               /\ tasks'[t].version = tasks[t].version /\ tasks'[t].by = tasks[t].by
<1>1. \A t \in Tasks : [tasks[t] EXCEPT !.booked = FALSE] \in Task
      BY DEF ConfigTypeOK, Task
<1>2. QED BY <1>1 DEF Flush, ConfigTypeOK, Task

LEMMA CopiesTyped ==
    ASSUME ConfigTypeOK
    PROVE  \A e \in Copies : e \in Entry /\ e.version \in Versions
<1>1. \A i \in DOMAIN reads : reads[i] \in Entry \cup {Nothing}
      BY ElementOfSeq DEF ConfigTypeOK
<1>2. QED BY <1>1 DEF Copies, ConfigTypeOK, Entry

LEMMA AgesType ==
    ASSUME ConfigTypeOK, NEW e \in Copies, Ages(e)
    PROVE  /\ cache' \in Entry \cup {Nothing} /\ redis' \in Entry \cup {Nothing}
           /\ reads' \in Seq(Entry \cup {Nothing})
           /\ UNCHANGED <<control, generation, tasks, answer>>
<1>1. DOMAIN reads = 1 .. Len(reads) /\ Len(reads) \in Nat
      BY DEF ConfigTypeOK
<1>2. \A i \in DOMAIN reads : reads[i] \in Entry \cup {Nothing}
      BY <1>1, ElementOfSeq DEF ConfigTypeOK
<1>3. e \in Entry
      BY CopiesTyped
<1>4. reads' \in [1 .. Len(reads) -> Entry \cup {Nothing}]
      BY <1>1, <1>2, <1>3, OlderIsEntry DEF Ages
<1>5. reads' \in Seq(Entry \cup {Nothing})
      BY <1>1, <1>4, SeqDef
<1>6. QED BY <1>3, <1>5, OlderIsEntry DEF Ages, ConfigTypeOK

LEMMA HeadType ==
    ASSUME ConfigTypeOK, reads # <<>>
    PROVE  /\ Head(reads) \in Entry \cup {Nothing} /\ Tail(reads) \in Seq(Entry \cup {Nothing})
           /\ Len(Tail(reads)) = Len(reads) - 1 /\ Len(reads) \in Nat
           /\ \A i \in 1 .. Len(Tail(reads)) : Tail(reads)[i] = reads[i + 1]
           /\ Head(reads) = reads[1]
BY HeadTailProperties DEF ConfigTypeOK

LEMMA InitType == ConfigInit => ConfigTypeOK
<1>1. NoTask \in Task
      BY DEF NoTask, Task, Generations
<1>2. <<>> \in Seq(Entry \cup {Nothing})
      OBVIOUS
<1>3. QED BY <1>1, <1>2 DEF ConfigInit, ConfigTypeOK, Versions, Generations

LEMMA StepType ==
    ASSUME ConfigTypeOK, RoomForChange, Answered, Steps
    PROVE  ConfigTypeOK'
<1>1. CASE ControlStep
  <2>1. CASE CommitChange \/ RollBackChange
        BY <2>1 DEF CommitChange, RollBackChange, RoomForChange, ConfigTypeOK, schoolVars, Versions
  <2>2. ASSUME NEW c \in Replicas, BeginChange(c) \/ ServedExpires(c) PROVE ConfigTypeOK'
        BY <2>2 DEF BeginChange, ServedExpires, ConfigTypeOK, schoolVars, Versions
  <2>3. QED BY <1>1, <2>1, <2>2 DEF ControlStep
<1>2. CASE FromMemory
      BY <1>2, ResolveType DEF FromMemory, ConfigTypeOK, control
<1>3. CASE AskRedis
  <2>1. PICK e \in Entry \cup {Nothing} : reads' = Append(reads, e)
        BY <1>3 DEF AskRedis, ConfigTypeOK
  <2>2. reads' \in Seq(Entry \cup {Nothing})
        BY <2>1, AppendProperties DEF ConfigTypeOK
  <2>3. QED BY <1>3, <2>2 DEF AskRedis, ConfigTypeOK, control
<1>4. CASE RedisAnswers
      BY <1>4, HeadType, ResolveType DEF RedisAnswers, ConfigTypeOK, control
<1>5. ASSUME NEW t \in Tasks, AnswerKept(t) \/ Build(t) \/ Keep(t) PROVE ConfigTypeOK'
  <2>1. PICK pc \in {"built", "answered"}, v \in Versions, c \in Replicas \cup {Nothing} :
           /\ Moved(t, pc, v, c)
           /\ UNCHANGED served \/ (c \in Replicas /\ served' = [served EXCEPT ![c] = v])
        BY <1>5, ControlMoves
  <2>2. tasks' \in [Tasks -> Task]
        BY <2>1, MovedTasks
  <2>3. served' \in [Replicas -> 0 .. MaxVersion]
        BY <2>1 DEF ConfigTypeOK, Versions
  <2>4. UNCHANGED <<useRedis, version, changing, generation, cache, redis, reads, answer>>
        BY <2>1 DEF Moved
  <2>5. QED BY <2>2, <2>3, <2>4 DEF ConfigTypeOK
<1>6. ASSUME NEW t \in Tasks, Complete(t) PROVE ConfigTypeOK'
  <2>1. tasks[t].version \in Versions /\ tasks[t].generation \in Generations
        BY <1>6 DEF Complete, Answered, Carries, ConfigTypeOK, Task
  <2>2. Fetched(t) \in Entry
        BY <2>1 DEF Fetched, Entry
  <2>3. cache' \in Entry \cup {Nothing} /\ redis' \in Entry \cup {Nothing}
        BY <1>6, <2>2 DEF Complete, ConfigTypeOK
  <2>4. QED BY <1>6, <2>3, EndedTasks DEF Ends, ConfigTypeOK, control
<1>7. ASSUME NEW t \in Tasks, RefreshFails(t) PROVE ConfigTypeOK'
  <2>1. UNCHANGED <<cache, redis>>
        BY <1>7 DEF RefreshFails
  <2>2. QED BY <1>7, <2>1, EndedTasks DEF Ends, ConfigTypeOK, control
<1>8. CASE Flush
      BY <1>8, FlushedTasks DEF Flush, ConfigTypeOK, control, Generations
<1>9. ASSUME NEW e \in Copies, Ages(e) PROVE ConfigTypeOK'
      BY <1>9, AgesType DEF ConfigTypeOK, control
<1>10. CASE UNCHANGED configVars
      BY <1>10 DEF configVars, ConfigTypeOK
<1>11. QED BY <1>1, <1>2, <1>3, <1>4, <1>5, <1>6, <1>7, <1>8, <1>9, <1>10
           DEF Steps, ConfigNext, GetConfig, ControlStep

\* What a step may do to the refreshes.
LEMMA TasksMove ==
    ASSUME Steps
    PROVE  \/ UNCHANGED tasks /\ (UNCHANGED generation)
           \/ (\E w \in BOOLEAN : Refresh(w)) /\ UNCHANGED generation
           \/ Flush
           \/ \E t \in Tasks : AnswerKept(t) \/ Build(t) \/ Keep(t) \/ Ends(t)
BY ResolveMoves
   DEF Steps, ConfigNext, BeginChange, CommitChange, RollBackChange, ServedExpires, GetConfig, FromMemory,
       AskRedis, RedisAnswers, Ages, Ends, configVars, schoolVars

LEMMA StepAnswered ==
    ASSUME ConfigTypeOK, Answered, Steps
    PROVE  Answered'
<1>1. CASE UNCHANGED tasks
      BY <1>1 DEF Answered, Carries
<1>2. ASSUME NEW w \in BOOLEAN, Refresh(w) PROVE Answered'
  <2>1. PICK t \in Tasks :
           /\ \A s \in Tasks \ {t} : tasks'[s] = tasks[s]
           /\ \/ tasks'[t].pc = tasks[t].pc /\ tasks'[t].version = tasks[t].version
                 /\ tasks'[t].by = tasks[t].by
              \/ tasks'[t].pc = "asked" /\ tasks'[t].by = Nothing
        BY <1>2, RefreshTasks
  <2>2. QED BY <2>1 DEF Answered, Carries
<1>3. ASSUME NEW t \in Tasks, AnswerKept(t) \/ Build(t) \/ Keep(t) PROVE Answered'
  <2>1. PICK pc \in {"built", "answered"}, v \in Versions, c \in Replicas \cup {Nothing} :
           Moved(t, pc, v, c) /\ (pc = "answered" \/ c \in Replicas)
        BY <1>3, ControlMoves
  <2>2. QED BY <2>1, MovedTasks DEF Answered, Carries
<1>4. ASSUME NEW t \in Tasks, Ends(t) PROVE Answered'
  <2>1. tasks'[t].pc = "idle" /\ \A s \in Tasks \ {t} : tasks'[s] = tasks[s]
        BY <1>4, EndedTasks
  <2>2. QED BY <2>1 DEF Answered, Carries
<1>5. CASE Flush
      BY <1>5, FlushedTasks DEF Answered, Carries
<1>6. QED BY <1>1, <1>2, <1>3, <1>4, <1>5, TasksMove

LEMMA StepRoom ==
    ASSUME ConfigTypeOK, RoomForChange, Steps
    PROVE  RoomForChange'
BY DEF RoomForChange, Steps, ConfigNext, BeginChange, CommitChange, RollBackChange, ServedExpires, GetConfig,
   FromMemory, AskRedis, RedisAnswers, AnswerKept, Build, Keep, Complete, RefreshFails, Flush, Ages,
   configVars, control, ConfigTypeOK

-----------------------------------------------------------------------------
(* Flushes and refreshes.                                                  *)

LEMMA StepNoRedis ==
    ASSUME NoRedis, Steps
    PROVE  NoRedis'
<1>1. CASE UNCHANGED <<useRedis, redis, reads>>
      BY <1>1 DEF NoRedis
<1>2. CASE AskRedis \/ RedisAnswers
      BY <1>2 DEF NoRedis, AskRedis, RedisAnswers, control
<1>3. ASSUME NEW t \in Tasks, Complete(t) PROVE NoRedis'
      BY <1>3 DEF NoRedis, Complete, control
<1>4. CASE Flush
      BY <1>4 DEF NoRedis, Flush, control
<1>5. ASSUME NEW e \in Copies, Ages(e) PROVE NoRedis'
  <2>1. e # Nothing /\ UNCHANGED useRedis
        BY <1>5 DEF Copies, Ages, control
  <2>2. ASSUME ~useRedis PROVE redis' = Nothing /\ reads' = <<>>
    <3>1. redis = Nothing /\ reads = <<>>
          BY <2>2 DEF NoRedis
    <3>2. redis' = Nothing
          BY <1>5, <2>1, <3>1 DEF Ages
    <3>3. reads' = [i \in DOMAIN reads |-> IF reads[i] = e THEN Older(e) ELSE reads[i]] /\ DOMAIN reads = {}
          BY <1>5, <3>1 DEF Ages
    <3>4. reads' = [i \in {} |-> IF reads[i] = e THEN Older(e) ELSE reads[i]]
          BY <3>3
    <3>5. QED BY <3>2, <3>4
  <2>3. QED BY <2>1, <2>2 DEF NoRedis
<1>6. QED BY <1>1, <1>2, <1>3, <1>4, <1>5 DEF Steps, ConfigNext, BeginChange, CommitChange, RollBackChange,
          ServedExpires, GetConfig, FromMemory, AnswerKept, Build, Keep, RefreshFails,
          configVars, schoolVars, control

LEMMA StepBooks ==
    ASSUME ConfigTypeOK, Answered, Bookings, OneRefreshPerGeneration, Steps
    PROVE  Bookings' /\ OneRefreshPerGeneration'
<1>1. CASE UNCHANGED <<tasks, generation>>
      BY <1>1 DEF Bookings, OneRefreshPerGeneration, InFlight, Resting, Current
<1>2. ASSUME NEW w \in BOOLEAN, Refresh(w), UNCHANGED generation
      PROVE  Bookings' /\ OneRefreshPerGeneration'
  <2>1. PICK t \in Tasks :
           /\ \A s \in Tasks \ {t} : tasks'[s] = tasks[s]
           /\ \/ /\ tasks'[t].pc = tasks[t].pc /\ tasks'[t].generation = tasks[t].generation
                 /\ tasks'[t].booked = tasks[t].booked
              \/ /\ ~Booked /\ Resting(t)
                 /\ tasks'[t].pc = "asked" /\ tasks'[t].generation = generation
                 /\ tasks'[t].booked
        BY <1>2, RefreshTasks
  <2>2. CASE tasks'[t].pc = tasks[t].pc /\ tasks'[t].generation = tasks[t].generation
             /\ tasks'[t].booked = tasks[t].booked
        BY <1>2, <2>1, <2>2 DEF Bookings, OneRefreshPerGeneration, InFlight, Resting, Current
  <2>3. CASE ~Booked /\ Resting(t) /\ tasks'[t].pc = "asked" /\ tasks'[t].generation = generation
             /\ tasks'[t].booked
    <3>1. \A s \in Tasks : ~tasks[s].booked
          BY <2>3 DEF Booked
    <3>2. Bookings'
          BY <1>2, <2>1, <2>3, <3>1 DEF Bookings, InFlight, Resting, Current, ConfigTypeOK, Generations
    <3>3. OneRefreshPerGeneration'
          BY <2>1, <2>3, <3>1 DEF OneRefreshPerGeneration, Bookings, InFlight, Resting, Current
    <3>4. QED BY <3>2, <3>3
  <2>4. QED BY <2>1, <2>2, <2>3
<1>3. ASSUME NEW t \in Tasks, AnswerKept(t) \/ Build(t) \/ Keep(t)
      PROVE  Bookings' /\ OneRefreshPerGeneration'
  <2>1. PICK pc \in {"built", "answered"}, v \in Versions, c \in Replicas \cup {Nothing} :
           Moved(t, pc, v, c) /\ ~Resting(t)
        BY <1>3, ControlMoves
  <2>2. /\ tasks[t].pc # "idle" /\ tasks'[t].pc # "idle"
        /\ tasks'[t].generation = tasks[t].generation /\ tasks'[t].booked = tasks[t].booked
        /\ \A s \in Tasks \ {t} : tasks'[s] = tasks[s]
        BY <2>1, MovedTasks DEF Resting
  <2>3. generation' = generation
        BY <2>1 DEF Moved
  <2>4. QED BY <2>2, <2>3 DEF Bookings, OneRefreshPerGeneration, InFlight, Resting, Current
<1>4. ASSUME NEW t \in Tasks, Ends(t)
      PROVE  Bookings' /\ OneRefreshPerGeneration'
  <2>1. /\ tasks'[t].pc = "idle" /\ ~tasks'[t].booked
        /\ \A s \in Tasks \ {t} : tasks'[s] = tasks[s]
        /\ generation' = generation
        BY <1>4, EndedTasks
  <2>2. QED BY <2>1 DEF Bookings, OneRefreshPerGeneration, InFlight, Resting, Current
<1>5. CASE Flush
  <2>1. generation' = generation + 1
        BY <1>5 DEF Flush
  <2>2. \A t \in Tasks : /\ tasks'[t].pc = tasks[t].pc /\ ~tasks'[t].booked
                         /\ tasks'[t].generation = tasks[t].generation
        BY <1>5, FlushedTasks
  <2>3. \A t \in Tasks : tasks[t].generation \in Generations
        BY DEF ConfigTypeOK, Task
  <2>4. Bookings'
        BY <2>1, <2>2, <2>3 DEF Bookings, InFlight, Resting, Current, ConfigTypeOK, Generations
  <2>5. OneRefreshPerGeneration'
        BY <2>2 DEF OneRefreshPerGeneration, Resting
  <2>6. QED BY <2>4, <2>5
<1>6. QED BY <1>1, <1>2, <1>3, <1>4, <1>5, TasksMove

LEMMA StepFlushHolds ==
    ASSUME ConfigTypeOK, NoRedis, FlushHolds, Steps
    PROVE  FlushHolds'
<1>1. CASE UNCHANGED <<useRedis, cache, generation>>
      BY <1>1 DEF FlushHolds
<1>2. CASE RedisAnswers
      BY <1>2 DEF RedisAnswers, NoRedis, FlushHolds, control
<1>3. ASSUME NEW t \in Tasks, Complete(t) PROVE FlushHolds'
      BY <1>3 DEF Complete, Current, Fetched, FlushHolds, control
<1>4. CASE Flush
      BY <1>4 DEF Flush, FlushHolds
<1>5. ASSUME NEW e \in Copies, Ages(e) PROVE FlushHolds'
  <2>1. Older(e).generation = e.generation /\ e # Nothing
        BY CopiesTyped, OlderIsEntry
  <2>2. cache = e \/ cache' = cache
        BY <1>5 DEF Ages
  <2>3. UNCHANGED <<useRedis, generation>> /\ (cache = e => cache' = Older(e))
        BY <1>5 DEF Ages, control
  <2>4. QED BY <2>1, <2>2, <2>3 DEF FlushHolds
<1>6. QED BY <1>1, <1>2, <1>3, <1>4, <1>5 DEF Steps, ConfigNext, BeginChange, CommitChange, RollBackChange,
          ServedExpires, GetConfig, FromMemory, AskRedis, AnswerKept, Build, Keep, RefreshFails,
          configVars, schoolVars, control

LEMMA InitConfig == ConfigInit => ConfigInv
BY InitType DEF ConfigInit, ConfigInv, RoomForChange, Answered, Carries, NoRedis, Bookings, InFlight, Resting,
   RefreshesHold, FlushHolds, OneRefreshPerGeneration, NoTask

LEMMA StepConfig == ConfigInv /\ Steps => ConfigInv'
BY StepType, StepAnswered, StepRoom, StepNoRedis, StepBooks, StepFlushHolds
   DEF ConfigInv, RefreshesHold

-----------------------------------------------------------------------------
(* Versions, whatever number of control processes answers the school.      *)

NoNewer(v) == \A e \in Copies : e.version <= v

\* Nothing that is kept is newer than the committed version; and what a refresh
\* that will enter memory has had built anew is no older than any copy.
VersionsInv ==
    /\ \A c \in Replicas : served[c] <= version
    /\ NoNewer(version)
    /\ \A t \in Tasks : Carries(t) => tasks[t].version <= version
    /\ \A t \in Tasks : InFlight(t) /\ Carries(t) /\ tasks[t].by # Nothing
                           => NoNewer(tasks[t].version)

\* A step copies copies, except where a refresh enters memory.
LEMMA CopiesMove ==
    ASSUME ConfigTypeOK, Steps, NEW e \in Copies'
    PROVE  \/ \E f \in Copies : e.version = f.version
           \/ \E t \in Tasks : Complete(t) /\ Current(t) /\ e.version = tasks[t].version
<1>0. /\ e # Nothing
      /\ e = cache' \/ e = redis' \/ \E i \in DOMAIN reads' : e = reads'[i]
      BY DEF Copies
<1>c. /\ cache # Nothing => cache \in Copies
      /\ redis # Nothing => redis \in Copies
      /\ \A i \in DOMAIN reads : reads[i] # Nothing => reads[i] \in Copies
      BY DEF Copies
<1>d. DOMAIN reads = 1 .. Len(reads) /\ Len(reads) \in Nat
      BY DEF ConfigTypeOK
<1>1. CASE UNCHANGED <<cache, redis, reads>>
      BY <1>1, <1>0, <1>c
<1>2. CASE AskRedis
  <2>1. PICK f \in {redis, Nothing} : reads' = Append(reads, f)
        BY <1>2 DEF AskRedis
  <2>2. f \in Entry \cup {Nothing}
        BY DEF ConfigTypeOK
  <2>3. \A i \in DOMAIN reads' : reads'[i] = f \/ (i \in DOMAIN reads /\ reads'[i] = reads[i])
        BY <1>d, <2>1, <2>2, AppendProperties DEF ConfigTypeOK
  <2>4. UNCHANGED <<cache, redis>>
        BY <1>2 DEF AskRedis
  <2>5. QED BY <1>0, <1>c, <2>1, <2>3, <2>4
<1>3. CASE RedisAnswers
  <2>1. reads # <<>> /\ reads' = Tail(reads) /\ redis' = redis
        BY <1>3 DEF RedisAnswers
  <2>2. cache' \in {cache, Head(reads)}
        BY <1>3 DEF RedisAnswers
  <2>3. Head(reads) = reads[1] /\ 1 \in DOMAIN reads
        BY <1>d, <2>1, HeadType
  <2>4. \A i \in DOMAIN reads' : i + 1 \in DOMAIN reads /\ reads'[i] = reads[i + 1]
        BY <1>d, <2>1, HeadType
  <2>5. QED BY <1>0, <1>c, <2>1, <2>2, <2>3, <2>4
<1>4. ASSUME NEW t \in Tasks, Complete(t)
      PROVE  \/ \E f \in Copies : e.version = f.version
             \/ Complete(t) /\ Current(t) /\ e.version = tasks[t].version
  <2>1. reads' = reads
        BY <1>4 DEF Complete
  <2>2. \/ UNCHANGED <<cache, redis>>
        \/ Current(t) /\ cache' = Fetched(t) /\ redis' \in {redis, Fetched(t)}
        BY <1>4 DEF Complete
  <2>3. Fetched(t).version = tasks[t].version
        BY DEF Fetched
  <2>4. QED BY <1>0, <1>4, <1>c, <2>1, <2>2, <2>3
<1>5. CASE Flush
      BY <1>5, <1>0, <1>c DEF Flush
<1>6. ASSUME NEW g \in Copies, Ages(g)
      PROVE  \E f \in Copies : e.version = f.version
  <2>1. g \in Entry /\ Older(g).version = g.version
        BY CopiesTyped, OlderIsEntry
  <2>2. /\ cache' \in {cache, Older(g)} /\ redis' \in {redis, Older(g), Nothing}
        /\ \A i \in DOMAIN reads' : i \in DOMAIN reads /\ reads'[i] \in {reads[i], Older(g)}
        BY <1>6 DEF Ages
  <2>3. QED BY <1>0, <1>c, <2>1, <2>2
<1>7. QED BY <1>1, <1>2, <1>3, <1>4, <1>5, <1>6
      DEF Steps, ConfigNext, BeginChange, CommitChange, RollBackChange, ServedExpires, GetConfig,
          FromMemory, AnswerKept, Build, Keep, RefreshFails, configVars, schoolVars

\* The versions of the copies stay, but for what Complete brings in.
LEMMA KeepsNoNewer ==
    ASSUME ConfigTypeOK, Steps, NEW v, NoNewer(v),
           \A t \in Tasks : Complete(t) /\ Current(t) => tasks[t].version <= v
    PROVE  \A e \in Copies' : e.version <= v
BY CopiesMove DEF NoNewer

\* A step of the school server that ends no refresh.
Quiet ==
    /\ UNCHANGED <<version, served>>
    /\ \/ UNCHANGED tasks /\ UNCHANGED generation
       \/ (\E w \in BOOLEAN : Refresh(w)) /\ UNCHANGED generation
       \/ Flush

LEMMA VersionMoves ==
    ASSUME Steps
    PROVE  \/ Quiet \/ CommitChange \/ \E c \in Replicas : BeginChange(c) \/ ServedExpires(c)
           \/ \E t \in Tasks : AnswerKept(t) \/ Build(t) \/ Keep(t) \/ Ends(t)
BY ResolveMoves
   DEF Quiet, Steps, ConfigNext, RollBackChange, GetConfig, FromMemory, AskRedis, RedisAnswers,
       Flush, Ages, Ends, configVars, schoolVars, control

LEMMA StepVersions ==
    ASSUME ConfigInv, VersionsInv, Steps
    PROVE  VersionsInv'
<1> USE DEF ConfigInv
<1>a. /\ version \in Nat /\ served \in [Replicas -> Nat]
      /\ \A t \in Tasks : tasks[t].version \in Nat /\ tasks[t].generation \in Generations
      /\ Generations \subseteq Nat /\ generation \in Nat
      BY DEF ConfigTypeOK, Versions, Generations, Task
<1>b. \A e \in Copies : e.version \in Nat
      BY CopiesTyped DEF Versions
<1>1. CASE Quiet
  <2>1. \A e \in Copies' : \E f \in Copies : e.version = f.version
    <3>1. \A t \in Tasks : ~Complete(t) \/ ~Current(t)
      <4>1. ASSUME NEW t \in Tasks, Complete(t), Current(t) PROVE FALSE
        <5>1. tasks'[t].pc = "idle" /\ tasks[t].pc = "answered" /\ generation' = generation
              BY <4>1, EndedTasks DEF Ends, Complete
        <5>2. ~Flush
              BY <5>1, <1>a DEF Flush
        <5>3. \A w \in BOOLEAN : Refresh(w) => tasks'[t].pc # "idle"
              BY <5>1, RefreshTasks
        <5>4. QED BY <1>1, <5>1, <5>2, <5>3 DEF Quiet
      <4>2. QED BY <4>1
    <3>2. QED BY <3>1, CopiesMove
  <2>2. ASSUME NEW v, NoNewer(v) PROVE \A e \in Copies' : e.version <= v
        BY <2>1, <2>2 DEF NoNewer
  <2>3. \A t \in Tasks : \/ tasks'[t].pc \notin {"built", "answered"}
                         \/ /\ tasks'[t].pc = tasks[t].pc /\ tasks'[t].version = tasks[t].version
                            /\ tasks'[t].generation = tasks[t].generation /\ tasks'[t].by = tasks[t].by
    <3>1. CASE UNCHANGED tasks
          BY <3>1
    <3>2. ASSUME NEW w \in BOOLEAN, Refresh(w)
          PROVE  \A t \in Tasks : \/ tasks'[t].pc \notin {"built", "answered"}
                         \/ /\ tasks'[t].pc = tasks[t].pc /\ tasks'[t].version = tasks[t].version
                            /\ tasks'[t].generation = tasks[t].generation /\ tasks'[t].by = tasks[t].by
      <4>1. PICK u \in Tasks :
               /\ \A s \in Tasks \ {u} : tasks'[s] = tasks[s]
               /\ \/ /\ tasks'[u].pc = tasks[u].pc /\ tasks'[u].version = tasks[u].version
                     /\ tasks'[u].generation = tasks[u].generation /\ tasks'[u].by = tasks[u].by
                  \/ tasks'[u].pc = "asked"
            BY <3>2, RefreshTasks
      <4>2. QED BY <4>1
    <3>3. CASE Flush
          BY <3>3, FlushedTasks
    <3>4. QED BY <1>1, <3>1, <3>2, <3>3 DEF Quiet
  <2>4. generation' = generation \/ (generation' = generation + 1 /\ Flush)
        BY <1>1 DEF Quiet, Flush
  <2>5. \A t \in Tasks : ~Resting(t) => tasks[t].generation <= generation
        BY DEF Bookings
  <2>6. ASSUME NEW t \in Tasks, (InFlight(t) /\ Carries(t))'
        PROVE  InFlight(t) /\ Carries(t) /\ tasks'[t].version = tasks[t].version /\ tasks'[t].by = tasks[t].by
        BY <1>a, <2>3, <2>4, <2>5, <2>6 DEF InFlight, Carries, Resting, Current
  <2>7. version' = version /\ served' = served
        BY <1>1 DEF Quiet
  <2>8. NoNewer(version)'
        BY <2>2, <2>7 DEF VersionsInv, NoNewer
  <2>9. \A t \in Tasks : (InFlight(t) /\ Carries(t) /\ tasks[t].by # Nothing => NoNewer(tasks[t].version))'
        BY <2>2, <2>6 DEF VersionsInv, NoNewer
  <2>10. \A t \in Tasks : (Carries(t) => tasks[t].version <= version)'
        BY <2>3, <2>7 DEF VersionsInv, Carries
  <2>11. QED BY <2>7, <2>8, <2>9, <2>10 DEF VersionsInv
<1>2. CASE CommitChange
  <2>1. version' = version + 1 /\ UNCHANGED <<served, tasks, generation, cache, redis, reads>>
        BY <1>2 DEF CommitChange, schoolVars
  <2>2. Copies' = Copies
        BY <2>1 DEF Copies
  <2>3. QED BY <1>a, <1>b, <2>1, <2>2 DEF VersionsInv, NoNewer, Carries, InFlight, Resting, Current
<1>3. ASSUME NEW c \in Replicas, BeginChange(c) \/ ServedExpires(c) PROVE VersionsInv'
  <2>1. served' = [served EXCEPT ![c] = 0] /\ UNCHANGED <<version, tasks, generation, cache, redis, reads>>
        BY <1>3 DEF BeginChange, ServedExpires, schoolVars
  <2>2. Copies' = Copies
        BY <2>1 DEF Copies
  <2>3. QED BY <1>a, <2>1, <2>2 DEF VersionsInv, NoNewer, Carries, InFlight, Resting, Current
<1>4. ASSUME NEW t \in Tasks, AnswerKept(t) \/ Build(t) \/ Keep(t) PROVE VersionsInv'
  <2>1. PICK pc \in {"built", "answered"}, v \in Versions, c \in Replicas \cup {Nothing} :
              /\ Moved(t, pc, v, c) /\ ~Resting(t)
              /\ \/ /\ tasks[t].pc = "asked" /\ pc = "built" /\ c \in Replicas
                    /\ v = version /\ UNCHANGED served
                 \/ /\ tasks[t].pc = "asked" /\ pc = "answered" /\ c = tasks[t].by
                    /\ \E d \in Replicas : v = served[d]
                    /\ UNCHANGED served
                 \/ /\ tasks[t].pc = "built" /\ pc = "answered" /\ v = tasks[t].version
                    /\ c = tasks[t].by /\ c \in Replicas
                    /\ served' = [served EXCEPT ![c] = v]
        BY <1>4, ControlMoves
  <2>2. UNCHANGED <<version, generation, cache, redis, reads>>
        BY <2>1 DEF Moved
  <2>3. Copies' = Copies
        BY <2>2 DEF Copies
  <2>4. /\ \A s \in Tasks \ {t} : tasks'[s] = tasks[s]
        /\ tasks'[t].pc = pc /\ tasks'[t].version = v /\ tasks'[t].by = c
        /\ tasks'[t].generation = tasks[t].generation
        BY <2>1, MovedTasks
  <2>5. v <= version
        BY <1>a, <2>1 DEF VersionsInv, Carries
  <2>6. \A d \in Replicas : served'[d] <= version
        BY <1>a, <2>1, <2>5 DEF VersionsInv
  <2>7. InFlight(t) /\ c # Nothing => NoNewer(v)
    <3>1. CASE pc = "built" /\ v = version
          BY <3>1 DEF VersionsInv
    <3>2. CASE tasks[t].pc = "built" /\ v = tasks[t].version /\ c = tasks[t].by
          BY <3>2 DEF VersionsInv, Carries
    <3>3. CASE tasks[t].pc = "asked" /\ c = tasks[t].by
          BY <3>3 DEF Answered
    <3>4. QED BY <2>1, <3>1, <3>2, <3>3
  <2>8. \A s \in Tasks : InFlight(s)' <=> InFlight(s)
        BY <2>1, <2>2, <2>4 DEF InFlight, Resting, Current
  <2>9. \A s \in Tasks : (Carries(s) => tasks[s].version <= version)'
        BY <2>2, <2>4, <2>5 DEF VersionsInv, Carries
  <2>10. \A s \in Tasks : (InFlight(s) /\ Carries(s) /\ tasks[s].by # Nothing => NoNewer(tasks[s].version))'
        BY <2>3, <2>4, <2>7, <2>8 DEF VersionsInv, Carries, NoNewer
  <2>11. QED BY <2>2, <2>3, <2>6, <2>9, <2>10 DEF VersionsInv, NoNewer
<1>5. ASSUME NEW t \in Tasks, Ends(t) PROVE VersionsInv'
  <2>1. /\ tasks'[t].pc = "idle" /\ \A s \in Tasks \ {t} : tasks'[s] = tasks[s]
        /\ UNCHANGED <<version, served, generation, reads>>
        BY <1>5, EndedTasks DEF control
  <2>2. ASSUME NEW s \in Tasks, Complete(s), Current(s) PROVE s = t
    <3>1. tasks'[s].pc = "idle" /\ tasks[s].pc = "answered"
          BY <2>2, EndedTasks DEF Ends, Complete
    <3>2. QED BY <2>1, <3>1
  <2>3. ASSUME NEW s \in Tasks \ {t}, InFlight(s) PROVE ~(Complete(t) /\ Current(t))
        BY <2>3 DEF RefreshesHold, OneRefreshPerGeneration, InFlight, Resting, Current, Complete
  <2>4. Complete(t) => tasks[t].version <= version
        BY DEF Complete, VersionsInv, Carries
  <2>5. NoNewer(version)'
        BY <2>1, <2>2, <2>4, KeepsNoNewer DEF VersionsInv, NoNewer
  <2>6. ASSUME NEW s \in Tasks, (InFlight(s) /\ Carries(s) /\ tasks[s].by # Nothing)'
        PROVE  NoNewer(tasks[s].version)'
    <3>1. s # t /\ tasks'[s] = tasks[s]
          BY <2>1, <2>6 DEF Carries
    <3>2. InFlight(s) /\ Carries(s) /\ tasks[s].by # Nothing
          BY <2>1, <2>6, <3>1 DEF InFlight, Carries, Resting, Current
    <3>3. NoNewer(tasks[s].version)
          BY <3>2 DEF VersionsInv
    <3>4. \A u \in Tasks : ~(Complete(u) /\ Current(u))
          BY <2>2, <2>3, <3>1, <3>2
    <3>5. \A e \in Copies' : e.version <= tasks[s].version
          BY <3>3, <3>4, KeepsNoNewer
    <3>6. QED BY <3>1, <3>5 DEF NoNewer
  <2>7. \A s \in Tasks : (Carries(s) => tasks[s].version <= version)'
        BY <2>1 DEF VersionsInv, Carries
  <2>8. QED BY <2>1, <2>5, <2>6, <2>7 DEF VersionsInv
<1>6. QED BY <1>1, <1>2, <1>3, <1>4, <1>5, VersionMoves

LEMMA InitVersions == ConfigInit => VersionsInv
BY DEF ConfigInit, VersionsInv, NoNewer, Copies, Carries, InFlight, Resting, NoTask

\* What a step leaves in memory is older than what it found there only where a copy
\* arrives.
LEMMA NoRegress ==
    ASSUME ConfigInv, VersionsInv, Steps, cache # Nothing, cache' # Nothing,
           cache'.version < cache.version
    PROVE  CopyArrives
<1> USE DEF ConfigInv
<1>a. cache \in Copies /\ cache.version \in Nat
      BY CopiesTyped DEF Copies, Versions
<1>1. CASE UNCHANGED cache
      BY <1>1, <1>a
<1>2. CASE RedisAnswers
  <2>1. Len(reads') < Len(reads)
        BY <1>2, HeadType DEF RedisAnswers
  <2>2. QED BY <2>1 DEF CopyArrives
<1>3. ASSUME NEW t \in Tasks, Complete(t) PROVE CopyArrives
  <2>1. CASE tasks[t].by = Nothing
    <3>1. tasks[t].pc = "answered" /\ tasks'[t].pc = "idle"
          BY <1>3, EndedTasks DEF Ends, Complete
    <3>2. QED BY <2>1, <3>1 DEF CopyArrives
  <2>2. CASE tasks[t].by # Nothing /\ Current(t)
    <3>1. cache' = Fetched(t) /\ Fetched(t).version = tasks[t].version
          BY <1>3, <2>2 DEF Complete, Fetched
    <3>2. NoNewer(tasks[t].version)
          BY <1>3, <2>2 DEF VersionsInv, InFlight, Carries, Resting, Complete
    <3>3. tasks[t].version \in Nat
          BY DEF ConfigTypeOK, Task
    <3>4. cache.version <= tasks[t].version
          BY <1>a, <3>2 DEF NoNewer
    <3>5. QED BY <1>a, <3>1, <3>3, <3>4
  <2>3. CASE ~Current(t)
        BY <1>1, <1>3, <2>3 DEF Complete
  <2>4. QED BY <2>1, <2>2, <2>3
<1>4. CASE Flush
      BY <1>4 DEF Flush
<1>5. ASSUME NEW e \in Copies, Ages(e) PROVE CopyArrives
  <2>1. cache'.version = cache.version
        BY <1>5, CopiesTyped, OlderIsEntry DEF Ages
  <2>2. QED BY <1>a, <2>1
<1>6. QED BY <1>1, <1>2, <1>3, <1>4, <1>5 DEF Steps, ConfigNext, BeginChange, CommitChange, RollBackChange,
          ServedExpires, GetConfig, FromMemory, AskRedis, AnswerKept, Build, Keep, RefreshFails,
          configVars, schoolVars

-----------------------------------------------------------------------------
(* The results.                                                            *)

LEMMA ConfigInductive == ConfigSpec => []ConfigInv
BY InitConfig, StepConfig, PTL DEF ConfigSpec, Steps

\* Every value that the control plane's caches, the school server's memory, its
\* Redis key, its Redis reads and its refreshes hold is one there was
\* (runtime-config.service.ts).
THEOREM TypeCorrect == ConfigSpec => []ConfigTypeOK
<1>1. ConfigInv => ConfigTypeOK
      BY DEF ConfigInv
<1>2. QED BY ConfigInductive, <1>1, PTL

\* Without Redis a refresh that a webhook overtook never puts what it got back
\* into memory, and concurrent callers share one refresh per generation
\* (RuntimeConfigService refresh, writeCache, invalidate).
THEOREM RefreshesAlwaysHold == ConfigSpec => []RefreshesHold
<1>1. ConfigInv => RefreshesHold
      BY DEF ConfigInv
<1>2. QED BY ConfigInductive, <1>1, PTL

\* What the school holds in memory is replaced by something older only where the
\* code takes a copy for good, an answer of Redis or one a control process had
\* kept: what was built from the committed state never takes it back, for any
\* number of control processes, Redis reads, flushes and refreshes (getConfig,
\* refresh, build_runtime_config).
THEOREM BuiltNeverRegresses == ConfigSpec => OnlyCopiesRegress
<1> DEFINE Inv == ConfigInv /\ VersionsInv
<1>1. ConfigInit => Inv
      BY InitConfig, InitVersions
<1>2. Inv /\ Steps => Inv'
      BY StepConfig, StepVersions
<1>3. Inv /\ Steps => [cache # Nothing /\ cache' # Nothing /\ cache'.version < cache.version
                          => CopyArrives]_configVars
      BY NoRegress
<1>4. QED BY <1>1, <1>2, <1>3, PTL DEF ConfigSpec, Steps, OnlyCopiesRegress
=============================================================================
