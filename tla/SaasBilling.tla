----------------------------- MODULE SaasBilling -----------------------------
(***************************************************************************)
(* The SaaS billing engine of the control plane, for one tenant (school):  *)
(* subscriptions, period invoices, payments, the trial, dunning and the    *)
(* courtesy unlock, and what each of them does to the tenant's status.     *)
(*                                                                         *)
(* Two kinds of steps interleave on the same rows:                         *)
(*   - the billing worker, which runs its passes in a fixed order          *)
(*     (services/billing_worker.py), each pass one transaction;            *)
(*   - HTTP handlers of the console and of the school server, each one     *)
(*     transaction.                                                        *)
(* Time is counted in days.  Races INSIDE a payment transaction are the    *)
(* subject of InvoicePayments.                                             *)
(***************************************************************************)
EXTENDS Integers, FiniteSets

CONSTANTS
    MaxSubs,     \* subscription rows the tenant may ever get
    Price,       \* amount_minor of an invoice
    PeriodLen,   \* days of a billing cycle
    DueDays,     \* due_at - created_at of an invoice
    GraceDays,   \* settings.dunning_grace_days
    UnlockDays,  \* duration of a courtesy unlock
    TrialDays,   \* DEFAULT_TRIAL_DAYS
    MaxCatchup,  \* MAX_CATCHUP_PERIODS
    MaxNow,      \* bound on the clock
    MaxInvoices, \* bound on the rows the console's create_invoice may add to
    Scenarios    \* sets of handlers; a behaviour calls those of one of them

OpNames == {"pay", "invoice", "plan", "subscription", "substatus", "status",
            "dunning", "courtesy", "trial", "blacklist", "provision"}

ASSUME ConstantsAssumption ==
    /\ MaxSubs \in Nat \ {0} /\ Price \in Nat \ {0} /\ PeriodLen \in Nat \ {0}
    /\ DueDays \in Nat /\ GraceDays \in Nat /\ UnlockDays \in Nat
    /\ TrialDays \in Nat /\ MaxCatchup \in Nat \ {0}
    /\ MaxNow \in Nat /\ MaxInvoices \in Nat
    /\ Scenarios \subseteq SUBSET OpNames

NoTime == -1                        \* a NULL timestamp
OptTime == Nat \cup {NoTime}
SubId  == 1 .. MaxSubs

TenantStatus == {"pending_verification", "active", "suspended", "restricted",
                 "blacklisted", "provisioning", "archived"}
Reason == {"", "billing_dunning", "billing_grace_expired",
           "courtesy_unlock_expired", "trial_expired", "trial_manual",
           "abuse", "manual", "provisioning"}
SubStatus == {"active", "trialing", "past_due", "cancelled",
              "cancelled_blacklisted"}
DunningStep == {"none", "past_due", "grace", "suspended"}
InvoiceStatus == {"open", "past_due", "partially_paid", "paid"}
UnpaidStatus  == {"open", "past_due", "partially_paid"}
Stages == {"trials", "generate", "unsubscribed", "courtesy", "dunning"}

VARIABLES
    now,             \* the clock
    stage,           \* the pass the billing worker runs next
    tenant,          \* tenants row: status, status_reason, courtesy_unlock_until
    trial,           \* tenant_trials row
    provision,       \* whether the tenant has a tenant_provisioning_jobs row
    subs,            \* subscriptions rows
    current,         \* the row with is_current
    invoices,        \* saas_invoices rows
    config_version,  \* the platform config version, modulo 2
    ops              \* the handlers this behaviour calls, one of Scenarios

vars == <<now, stage, tenant, trial, provision, subs, current, invoices,
          config_version, ops>>

Absent == [status |-> "absent", dunning |-> "none", grace |-> NoTime,
           nia |-> NoTime, auto |-> FALSE]
Subscription == [status : SubStatus, dunning : DunningStep, grace : OptTime,
                 nia : OptTime, auto : BOOLEAN]
Invoice == [sub : SubId, start : Nat, status : InvoiceStatus,
            paid : 0 .. Price, due : Nat]
Tenant  == [status : TenantStatus, reason : Reason, courtesy : OptTime]
Trial   == [status : {"none", "active", "expired", "disabled"},
            enabled : BOOLEAN, ends : OptTime]

-----------------------------------------------------------------------------
(* Rows and queries.                                                       *)

Exists(s) == subs[s].status # "absent"
Fresh(s)  == ~Exists(s) /\ \A r \in SubId : r < s => Exists(r)

Unpaid    == {i \in invoices : i.status \in UnpaidStatus}
UnpaidOf(s) == {i \in Unpaid : i.sub = s}
Invoiced(s, start) == \E i \in invoices : i.sub = s /\ i.start = start

NewInvoice(s, start) ==
    [sub |-> s, start |-> start, status |-> "open", paid |-> 0,
     due |-> now + DueDays]

NewSub(status, nia, auto) ==
    [status |-> status, dunning |-> "none", grace |-> NoTime, nia |-> nia,
     auto |-> auto]

BumpConfig    == config_version' = 1 - config_version
BumpConfigIf(b) == config_version' = IF b THEN 1 - config_version
                                          ELSE config_version

\* bump_config_version also enqueues the config.invalidate event; the outbox
\* and its delivery are modelled in module Outbox.

CurrentIn(statuses) == subs[current].status \in statuses

\* _tenant_billing_resolved
BillingResolved ==
    /\ CurrentIn({"active", "trialing"})
    /\ subs[current].dunning = "none"
    /\ Unpaid = {}

-----------------------------------------------------------------------------
(* Mutations: what a plausible slip in the code would make of a definition *)
(* below.  They are not part of the specification.                         *)

\* settle_invoice forgets "SaasInvoice.id != invoice.id" in still_owing.
MutLastOfTenantKeepsSelf(i) == Unpaid = {}
\* The handler compares the amount with the total instead of the balance.
MutPayableTotal(i, amount) == amount <= Price
\* next_invoice_at jumps past now and forgives the periods in between.
MutNextPeriodFromNow(s) == now + PeriodLen
\* run_trial_pass restricts the tenant without bumping the config version.
MutRestrictUnpublished ==
    /\ tenant' = IF tenant.status = "active"
                   THEN [tenant EXCEPT !.status = "restricted",
                                       !.reason = "trial_expired"]
                   ELSE tenant
    /\ UNCHANGED config_version

-----------------------------------------------------------------------------
(* The clock and the worker's passes.                                      *)

Tick ==
    /\ now < MaxNow
    /\ now' = now + 1
    /\ UNCHANGED <<stage, tenant, trial, provision, subs, current, invoices,
                   config_version, ops>>

Goto(from, to) ==
    stage = from /\ stage' = to /\ UNCHANGED <<now, provision, current, ops>>

CancelTrialingSub ==
    subs' = IF CurrentIn({"trialing"})
              THEN [subs EXCEPT ![current].status = "cancelled"] ELSE subs

RestrictAfterTrial ==
    /\ tenant' = IF tenant.status = "active"
                   THEN [tenant EXCEPT !.status = "restricted",
                                       !.reason = "trial_expired"]
                   ELSE tenant
    /\ BumpConfigIf(tenant.status = "active")

\* run_trial_pass: the grant is over.  Reminders are notifications only.
ExpireTrial ==
    /\ trial' = [trial EXCEPT !.status = "expired"]
    /\ CancelTrialingSub
    /\ RestrictAfterTrial

TrialDue == trial.enabled /\ trial.status = "active" /\ trial.ends <= now

TrialPass ==
    /\ Goto("trials", "generate")
    /\ \/ TrialDue /\ ExpireTrial
       \/ ~TrialDue /\ UNCHANGED <<tenant, trial, subs, config_version>>
    /\ UNCHANGED invoices

\* The period starts generate_due_invoices walks for one locked subscription.
DuePeriods(s) ==
    {p \in subs[s].nia .. now :
        /\ (p - subs[s].nia) % PeriodLen = 0
        /\ p < subs[s].nia + MaxCatchup * PeriodLen}

InvoiceDue ==
    /\ CurrentIn({"active", "past_due"})
    /\ subs[current].nia # NoTime /\ subs[current].nia <= now

\* The first period start the walk leaves for later.
NextPeriodAfter(s) == subs[s].nia + PeriodLen * Cardinality(DuePeriods(s))

GenerateDueInvoices ==
    /\ invoices' = invoices \cup {NewInvoice(current, p) :
                     p \in {q \in DuePeriods(current) : ~Invoiced(current, q)}}
    /\ subs' = [subs EXCEPT ![current].nia = NextPeriodAfter(current)]

GeneratePass ==
    /\ Goto("generate", "unsubscribed")
    /\ \/ InvoiceDue /\ GenerateDueInvoices
       \/ ~InvoiceDue /\ UNCHANGED <<invoices, subs>>
    /\ UNCHANGED <<tenant, trial, config_version>>

\* run_unsubscribed_pass; the tenant was created on day 0.
Unsubscribed ==
    /\ tenant.status = "active"
    /\ GraceDays <= now
    /\ ~(trial.enabled /\ trial.status = "active")
    /\ ~CurrentIn({"active", "trialing"})

UnsubscribedPass ==
    /\ Goto("unsubscribed", "courtesy")
    /\ tenant' = IF Unsubscribed
                   THEN [tenant EXCEPT !.status = "suspended",
                                       !.reason = "billing_grace_expired"]
                   ELSE tenant
    /\ BumpConfigIf(Unsubscribed)
    /\ UNCHANGED <<trial, subs, invoices>>

CourtesyOver == tenant.courtesy # NoTime /\ tenant.courtesy <= now

\* The reason the re-suspended tenant ends up with.
ReasonAfterCourtesy ==
    IF tenant.reason \in {"billing_dunning", "billing_grace_expired"}
      THEN tenant.reason ELSE "courtesy_unlock_expired"

\* run_courtesy_unlock_expiry_pass.  A resolved tenant is cleared in the
\* session, but the worker commits only when some tenant was re-suspended:
\* others says whether another tenant was.
CourtesyPass(others) ==
    /\ Goto("courtesy", "dunning")
    /\ \/ /\ CourtesyOver /\ ~BillingResolved
          /\ tenant' = [status |-> "suspended", courtesy |-> NoTime,
                        reason |-> ReasonAfterCourtesy]
          /\ BumpConfig
       \/ /\ CourtesyOver /\ BillingResolved /\ others
          /\ tenant' = [tenant EXCEPT !.courtesy = NoTime,
                         !.reason = IF @ \in {"billing_dunning",
                                              "billing_grace_expired",
                                              "courtesy_unlock_expired"}
                                      THEN "" ELSE @]
          /\ BumpConfig
       \/ /\ ~CourtesyOver \/ (BillingResolved /\ ~others)
          /\ UNCHANGED <<tenant, config_version>>
    /\ UNCHANGED <<trial, subs, invoices>>

\* advance_dunning, one step for subscription s.
EnterPastDue(s) ==
    /\ subs[s].dunning = "none" \/ subs[s].status = "active"
    /\ subs' = [subs EXCEPT ![s].status = "past_due", ![s].dunning = "past_due",
                            ![s].grace = now + GraceDays]
    /\ invoices' = {IF i.sub = s /\ i.status = "open"
                      THEN [i EXCEPT !.status = "past_due"] ELSE i :
                    i \in invoices}
    /\ UNCHANGED <<tenant, config_version>>

EnterGrace(s) ==
    /\ subs[s].dunning = "past_due" /\ subs[s].status # "active"
    /\ subs' = [subs EXCEPT ![s].dunning = "grace",
                            ![s].grace = IF @ = NoTime THEN now + GraceDays
                                                       ELSE @]
    /\ UNCHANGED <<invoices, tenant, config_version>>

SuspendForDunning(s) ==
    /\ subs[s].dunning \in {"grace", "suspended"} /\ subs[s].status # "active"
    /\ subs' = [subs EXCEPT ![s].dunning = "suspended", ![s].status = "past_due"]
    /\ tenant' = [tenant EXCEPT !.status = "suspended",
                                !.reason = "billing_dunning"]
    /\ BumpConfig
    /\ UNCHANGED invoices

AdvanceDunning(s) == EnterPastDue(s) \/ EnterGrace(s) \/ SuspendForDunning(s)

\* The invoices run_dunning_pass scans: partially paid ones are not among them.
Overdue(s) == {i \in invoices : i.sub = s /\ i.status \in {"open", "past_due"}
                                /\ i.due < now}

\* Mutation of the next definition: the ladder stops at grace.
MutDunningStopsAtGrace ==
    /\ Overdue(current) # {}
    /\ subs[current].dunning \in {"none", "past_due"}

DunningEligible ==
    /\ Overdue(current) # {}
    /\ \/ subs[current].dunning \in {"none", "past_due", "grace"}
       \/ subs[current].status = "active"
    /\ ~(/\ subs[current].dunning = "grace"
         /\ subs[current].grace # NoTime
         /\ subs[current].grace > now)

DunningPass ==
    /\ Goto("dunning", "trials")
    /\ \/ DunningEligible /\ AdvanceDunning(current)
       \/ /\ ~DunningEligible
          /\ UNCHANGED <<subs, invoices, tenant, config_version>>
    /\ UNCHANGED trial

Worker == TrialPass \/ GeneratePass \/ UnsubscribedPass
          \/ (\E others \in BOOLEAN : CourtesyPass(others)) \/ DunningPass

-----------------------------------------------------------------------------
(* Handlers.                                                               *)

Called(op) == op \in ops /\ UNCHANGED <<now, stage, ops>>

Handler(op) == Called(op) /\ UNCHANGED provision

\* pay_invoice / settle_tenant_invoice -> apply_payment_to_invoice ->
\* settle_invoice, run as one transaction.
Credited(i, amount) ==
    [i EXCEPT !.paid = @ + amount,
              !.status = IF i.paid + amount >= Price THEN "paid"
                                                     ELSE "partially_paid"]

\* The balance check of both handlers.
Payable(i, amount) == amount <= Price - i.paid

LastOfSub(i)    == UnpaidOf(i.sub) \ {i} = {}
LastOfTenant(i) == Unpaid \ {i} = {}
DunningSuspended == tenant.status = "suspended" /\ tenant.reason = "billing_dunning"

PayInvoice(i, amount) ==
    LET settled == Credited(i, amount).status = "paid"
        clears  == settled /\ LastOfSub(i)
        lifts   == settled /\ DunningSuspended /\ LastOfTenant(i)
    IN  /\ Handler("pay")
        /\ Payable(i, amount)
        /\ invoices' = (invoices \ {i}) \cup {Credited(i, amount)}
        /\ subs' = IF clears
                     THEN [subs EXCEPT ![i.sub].status = "active",
                             ![i.sub].dunning = "none", ![i.sub].grace = NoTime]
                     ELSE subs
        /\ tenant' = IF lifts THEN [tenant EXCEPT !.status = "active",
                                                  !.reason = ""]
                              ELSE tenant
        /\ BumpConfigIf(clears \/ lifts)
        /\ UNCHANGED <<trial, current>>

\* create_invoice of the console: any subscription, its next period.
CreateInvoice(s) ==
    LET start == IF subs[s].nia = NoTime THEN now ELSE subs[s].nia
    IN  /\ Handler("invoice")
        /\ Exists(s) /\ ~Invoiced(s, start)
        /\ Cardinality(invoices) < MaxInvoices
        /\ invoices' = invoices \cup {NewInvoice(s, start)}
        /\ subs' = [subs EXCEPT ![s].nia = start + PeriodLen]
        /\ UNCHANGED <<tenant, trial, current, config_version>>

\* change_tenant_subscription: payment-gated, invoiced at once.
ChangeSubscription(s) ==
    /\ Handler("plan")
    /\ Fresh(s)
    /\ subs' = [subs EXCEPT ![s] = NewSub("past_due", now + PeriodLen, FALSE)]
    /\ current' = s
    /\ invoices' = invoices \cup {NewInvoice(s, now)}
    /\ UNCHANGED <<tenant, trial, config_version>>

\* create_subscription of the console: active, with no next invoice date.
CreateSubscription(s) ==
    /\ Handler("subscription")
    /\ Fresh(s)
    /\ subs' = [subs EXCEPT ![s] = NewSub("active", NoTime, FALSE)]
    /\ current' = s
    /\ BumpConfig
    /\ UNCHANGED <<tenant, trial, invoices>>

\* update_subscription_status of the console: a status, a dunning step, or both;
\* nothing is checked against the invoices.
Unchanged == "unchanged"
Given(old, new) == IF new = Unchanged THEN old ELSE new

UpdateSubscriptionStatus(s, status, step) ==
    /\ Handler("substatus")
    /\ Exists(s)
    /\ subs' = IF status = "active"
                 THEN [subs EXCEPT ![s].status = status, ![s].dunning = "none",
                                   ![s].grace = NoTime]
                 ELSE [subs EXCEPT ![s].status = Given(@, status),
                                   ![s].dunning = Given(@, step)]
    /\ UNCHANGED <<tenant, trial, current, invoices, config_version>>

\* dunning_advance of the console: no look at the invoices.
DunningAdvance(s) ==
    /\ Handler("dunning")
    /\ Exists(s)
    /\ AdvanceDunning(s)
    /\ UNCHANGED <<trial, current>>

CourtesyUnlock ==
    /\ Handler("courtesy")
    /\ tenant' = [tenant EXCEPT !.status = "active",
                                !.courtesy = now + UnlockDays]
    /\ subs' = [subs EXCEPT ![current].dunning = "none",
                            ![current].grace = NoTime]
    /\ BumpConfig
    /\ UNCHANGED <<trial, current, invoices>>

\* change_status of the console: any status but blacklisted.
ChangeStatus(status) ==
    /\ Handler("status")
    /\ status \in TenantStatus \ {"blacklisted"}
    /\ tenant' = [tenant EXCEPT !.status = status, !.reason = "manual"]
    /\ BumpConfig
    /\ UNCHANGED <<trial, subs, current, invoices>>

\* The approved tenant.blacklist request (see DualControl).
Blacklist ==
    /\ Handler("blacklist")
    /\ tenant' = [tenant EXCEPT !.status = "blacklisted", !.reason = "abuse"]
    /\ subs' = [subs EXCEPT ![current].status = "cancelled_blacklisted"]
    /\ BumpConfig
    /\ UNCHANGED <<trial, current, invoices>>

\* initialize_trial_once keeps an existing grant.
Granted == IF trial.status # "none" THEN trial
           ELSE [status |-> "active", enabled |-> TRUE, ends |-> now + TrialDays]

ActivateTenant ==
    /\ UNCHANGED <<now, stage, provision, ops>>
    /\ tenant.status \in {"pending_verification", "provisioning", "active"}
    /\ tenant' = IF tenant.status = "active" THEN tenant
                 ELSE [tenant EXCEPT !.status = "active", !.reason = ""]
    /\ trial' = Granted
    /\ UNCHANGED <<subs, current, invoices, config_version>>

AwaitInitialization ==
    tenant' = [tenant EXCEPT !.status = "provisioning", !.reason = "provisioning"]

\* provision_tenant of the console: a new initialization job, or the one the
\* idempotency key names, which is only answered again.
ProvisionTenant ==
    /\ Called("provision")
    /\ tenant.status \in {"provisioning", "active", "archived"}
    /\ \/ AwaitInitialization /\ provision' = TRUE
       \/ provision /\ UNCHANGED <<tenant, provision>>
    /\ BumpConfig
    /\ UNCHANGED <<trial, subs, current, invoices>>

\* provisioning_result of the school server: reported for a job at any time and
\* as often as the school server likes, whatever the status of the tenant.
ProvisioningResult ==
    /\ Handler("provision")
    /\ provision
    /\ \/ /\ tenant' = [tenant EXCEPT !.status = "active", !.reason = ""]
          /\ trial' = Granted
       \/ AwaitInitialization /\ UNCHANGED trial
    /\ UNCHANGED <<subs, current, invoices, config_version>>

\* update_trial of the console: a new end, and the grant enabled or disabled.
MoveTrialEnd(ends) ==
    /\ trial' = [Granted EXCEPT !.ends = ends]
    /\ UNCHANGED <<subs, tenant>>

EnableTrial(ends) ==
    /\ trial' = [status |-> IF ends > now THEN "active" ELSE Granted.status,
                 enabled |-> TRUE, ends |-> ends]
    /\ subs' = IF ends > now /\ CurrentIn({"cancelled"}) /\ subs[current].auto
                 THEN [subs EXCEPT ![current].status = "trialing"] ELSE subs
    /\ tenant' = IF /\ ends > now
                    /\ tenant.status \in {"restricted", "suspended"}
                    /\ tenant.reason \in {"trial_expired", "trial_manual"}
                   THEN [tenant EXCEPT !.status = "active", !.reason = ""]
                   ELSE tenant

DisableTrial(ends) ==
    /\ trial' = [status |-> "disabled", enabled |-> FALSE, ends |-> ends]
    /\ subs' = IF CurrentIn({"trialing"}) /\ subs[current].auto
                 THEN [subs EXCEPT ![current].status = "cancelled"] ELSE subs
    /\ tenant' = IF CurrentIn({"active"}) THEN tenant
                 ELSE [tenant EXCEPT !.status = "restricted",
                                     !.reason = "trial_manual"]

UpdateTrial(ends) ==
    /\ Handler("trial")
    /\ MoveTrialEnd(ends) \/ EnableTrial(ends) \/ DisableTrial(ends)
    /\ BumpConfig
    /\ UNCHANGED <<current, invoices>>

Payments == \E i \in invoices, amount \in 1 .. Price : PayInvoice(i, amount)

GivenStatus == {Unchanged, "active", "trialing", "past_due", "cancelled"}
GivenStep   == {Unchanged} \cup DunningStep

SubscriptionHandlers ==
    \E s \in SubId :
        \/ CreateInvoice(s)
        \/ ChangeSubscription(s)
        \/ CreateSubscription(s)
        \/ \E st \in GivenStatus, step \in GivenStep :
              UpdateSubscriptionStatus(s, st, step)
        \/ DunningAdvance(s)

TenantHandlers ==
    \/ CourtesyUnlock
    \/ \E st \in TenantStatus : ChangeStatus(st)
    \/ Blacklist
    \/ ActivateTenant
    \/ ProvisionTenant
    \/ ProvisioningResult
    \/ \E ends \in {now, now + TrialDays} : UpdateTrial(ends)

-----------------------------------------------------------------------------

\* register_tenant: pending verification, with the automatic trial subscription.
Registered ==
    /\ tenant = [status |-> "pending_verification", reason |-> "",
                 courtesy |-> NoTime]
    /\ subs = [s \in SubId |-> IF s = 1 THEN NewSub("trialing", NoTime, TRUE)
                                        ELSE Absent]

\* create_tenant of the console: active on a plan, no trial.
CreatedByStaff ==
    /\ tenant = [status |-> "active", reason |-> "", courtesy |-> NoTime]
    /\ subs = [s \in SubId |-> IF s = 1 THEN NewSub("active", NoTime, FALSE)
                                        ELSE Absent]

Init ==
    /\ Registered \/ CreatedByStaff
    /\ now = 0
    /\ stage = "trials"
    /\ trial = [status |-> "none", enabled |-> FALSE, ends |-> NoTime]
    /\ provision = FALSE
    /\ current = 1
    /\ invoices = {}
    /\ config_version = 0
    /\ ops \in Scenarios

Next == Tick \/ Worker \/ Payments \/ SubscriptionHandlers \/ TenantHandlers

Spec == Init /\ [][Next]_vars

Fairness == WF_vars(Tick) /\ WF_vars(Worker)
FairSpec == Spec /\ Fairness

-----------------------------------------------------------------------------

TypeOK ==
    /\ now \in 0 .. MaxNow
    /\ stage \in Stages
    /\ tenant \in Tenant
    /\ trial \in Trial
    /\ provision \in BOOLEAN
    /\ subs \in [SubId -> Subscription \cup {Absent}]
    /\ current \in SubId /\ Exists(current)
    /\ invoices \subseteq Invoice
    /\ config_version \in {0, 1}
    /\ ops \in Scenarios

\* Catch-up bills every missed period (generate_due_invoices): whatever the
\* interleaving of the worker's walk, manual invoices and plan changes, the
\* periods between a subscription's first invoice and its next_invoice_at are
\* all invoiced, each exactly once.
NoPeriodForgiven ==
    \A i \in invoices :
        /\ \A p \in i.start .. subs[i.sub].nia - 1 :
              (p - i.start) % PeriodLen = 0 => Invoiced(i.sub, p)
        /\ \A j \in invoices : j.sub = i.sub /\ j.start = i.start => j = i

\* Staff can suspend a school without a debt: they move the ladder by hand
\* (dunning_advance), or they give a status by hand to the subscription of a
\* school that a courtesy unlock let in and that has paid since:
\* run_courtesy_unlock_expiry_pass then suspends it for its old reason.
ByHand == "dunning" \in ops \/ {"courtesy", "substatus"} \subseteq ops

\* A school suspended by dunning still owes something: the payment of its last
\* unpaid invoice lifts the suspension (settle_invoice), and no pass of the
\* worker brings it back to a school that owes nothing.
DunningSuspensionOwes == DunningSuspended /\ ~ByHand => Unpaid # {}

\* What a school is asked for, and suspended for, is what it owes
\* (generate_due_invoices, run_dunning_pass, settle_invoice).
DebtsAreSound == NoPeriodForgiven /\ DunningSuspensionOwes

\* What the school server itself reports - the e-mail was verified
\* (activate_tenant), its initialization ended (provisioning_result) - is the
\* only change of access in this module that bumps no config version.  Every other
\* change, by a pass of the worker, a payment or the console, is published: the
\* same transaction bumps the version the school servers compare with.  So no
\* school is suspended, restricted or blacklisted unpublished.
ReportedBySchool == ActivateTenant \/ ProvisioningResult
AccessChangesArePublished ==
    [][tenant'.status # tenant.status
         => config_version' # config_version \/ ReportedBySchool]_vars

\* Dunning makes progress: a subscription in the dunning ladder with an overdue
\* invoice costs the tenant its access once grace_until, a day the modelled clock
\* reaches, is over, unless somebody pays, staff grants a courtesy unlock or
\* takes the subscription out of the ladder - or staff rewrites the subscription
\* again and again (update_subscription_status), which holds the ladder back
\* for ever.
Laddered == /\ subs[current].dunning \in {"past_due", "grace"}
            /\ subs[current].grace <= MaxNow
Rewrites ==
    \E s \in SubId, st \in GivenStatus, step \in GivenStep :
        UpdateSubscriptionStatus(s, st, step)
DebtCostsAccess ==
    \/ []<><<Rewrites>>_vars
    \/ Overdue(current) # {} /\ Laddered
         ~> (\/ tenant.status # "active"
             \/ Overdue(current) = {}
             \/ tenant.courtesy # NoTime
             \/ ~Laddered)

-----------------------------------------------------------------------------
(* What the source says and the code does not do.                          *)

\* models/tenant.py: "Temporary billing unlock (courtesy) - tenant stays
\* active until this time."  No pass of the worker may suspend the tenant
\* before courtesy_unlock_until.
CourtesyKeepsAccess ==
    [][Worker /\ tenant.status = "active" /\ tenant.courtesy > now
         => tenant'.status # "suspended"]_vars
=============================================================================
