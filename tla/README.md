# TLA+ verification of the multi-academy backend

This directory models the parts of the backend in which money, access, records
and data loss depend on the order of concurrent steps, checks the models with TLC
and proves the most important invariants with TLAPS. Source paths are relative to
`src/`; `PROJECT.json` maps every definition that models code to its lines.

## 1. The system

| part | state | operations | hard behaviour |
|---|---|---|---|
| **control-system-server** (FastAPI, PostgreSQL), billing | `tenants`, `subscriptions`, `saas_invoices`, `saas_payments`, `tenant_trials` | console and machine-to-machine routes, each one transaction; the billing worker's passes, in a fixed order | passes and routes interleave; READ COMMITTED and hardly a row lock; periods caught up; a dunning ladder |
| —, deals | `subscriptions` of kind custom, with an approval | create, approve, edit, change plan; the billing pass over them | two current subscriptions, edited or retired while approved or billed |
| —, dual control | `dual_control_requests` | create, decide (locks the row), list (expires rows, locks nothing) | two approvers at once, stale expiries |
| —, offboarding | `tenant_offboard_jobs`, `tenants.legal_hold` | schedule, cancel, the due-wipe pass, reports of the school server | late and repeated reports, holds during the window, several jobs |
| —, intake | `tenants.status`, `tenant_provisioning_jobs`, `tenant_trials` | register, verify, queue, report, activate | late results, one trial, statuses set by hand |
| —, providers | `provider_configs`, `provider_secrets`, `provider_failover_policies` | switch (with dual control), test, rotate, trip, reset | a live provider changed without approval, lost counts, no active secret |
| —, usage | `usage_events`, `usage_rollups`, `abuse_signals` | ingest | lost additions, repeated events, caps |
| —, outbox | `outbox_events` | append with the change; a worker loop and a console job deliver by POST | crash between POST and commit, lost answers, two drainers, poison events |
| —, runtime configuration | `system_state.config_version`, a cache per process | `build_runtime_config`, `bump_config_version` | the cache is emptied before the commit |
| **web-server** (NestJS), platform configuration | cache per tenant, generations, refreshes in flight, a Redis copy | `getConfig`, `refresh`, `invalidate` (webhook) | flush against a refresh in flight, stale Redis, lost webhooks |
| —, list cache | entries, loads in flight, generations per key | `getOrLoad`, `invalidate` | a load that began before a write and ends after it |
| —, onboarding | `registration_staging`, `tenants_configs`, `user_tenant_mappings` | register, refresh the code, verify, provision in the background | whole-row saves, repeated verification, cuts between databases |
| —, school fees | a database per tenant: `financial_invoices`, `financial_checkout_sessions`, `financial_payments`, installments, reminders, advance credits | checkout, settlement by webhook and by verify, cash payments, deletion | every statement commits by itself |
| —, academic records | score sheets, generated and legacy results, sessions and terms, links, enrolments | save, publish, generate, release; select and delete; replace lists; promote | a guard read in one statement, its write in another |
| —, tests, library, timetable | `cbt_*`, `library_*`, `timetable_slots` | author, attempt, submit; loan, return; plan, move | double submission, counts beside rows, unseen clashes |
| —, attendance | `attendance_staff`, the code in `attendance_config` | sign in by finger or code, save settings | one JSON value written whole by two writers |
| —, safeguarding | `safeguarding_exeats` | review, decide, confirm by the parent's code, redeem at the gate | overlapping decisions and gates |
| —, accounts | `users`, mappings, `parent_activation_codes` | archive, reactivate, issue and use a code | the parent archived with the last child |
| —, synchronization | `sync_operations` | apply an operation, again and again | cut between effect and record |
| **tutoring-service**, **payment-service** | bookings, payment intents; checkout sessions, webhook events | book, confirm, pay, settle; checkout, verify, webhooks | three databases, a confirm that takes a paid booking back |
| **ai-, portal-read-, worker-service** | retrieval stores, read caches, job queues | model calls, reads, jobs | no protocol of their own that another part relies on |

Interactions: a console route changes rows, bumps `config_version` and appends
outbox events in one transaction. The outbox worker POSTs the events to the
web-server's `config-changed` webhook, which flushes caches. The web-server pulls
the runtime configuration with a service token, settles SaaS invoices through
`/internal/...`, activates tenants and reports exports and wipes. A wipe, a
blacklisting or a change of a live provider first needs an approved dual-control
request. Payment providers call the web-server's webhooks; payers come back
through verify. A tutoring payment goes through three services, each with a
database of its own.

### What makes each part correct

- **Billing**: each period is invoiced once; a dunning suspension is for a debt, is
  lifted by the payment that clears it and by no other; a debt costs access in the
  end; every change of access that the control plane makes is published; a deal is
  billed on the terms that were approved, or that staff put in force.
- **Payments**: credited once per reference, never beyond the amount, never with
  money nobody paid.
- **Dual control and offboarding**: an action runs once and has two people behind
  it; nothing is wiped before its export or under a hold; a tenant is archived
  only for a job, and each job was approved.
- **Intake and onboarding**: a trial is for a school that was verified, and an
  active one has it; a school that is ready has its database and its owner.
- **Providers**: what is live was approved; a key always has an active secret.
- **Outbox**: at-least-once delivery before an event counts as published; dead
  letters are earned; no starvation.
- **Configuration and list caches**: a flush holds; only a kept copy goes back in time, and not
  for good; a change arrives without its webhook, too.
- **School fees and tutoring**: one payment per checkout; what is marked paid was
  paid for; settlements have all their effects; what the payer paid settles at last.
- **School records**: published marks and released results stand; report cards
  agree; a student is enrolled somewhere; a link all requests agree on is never in doubt;
  a submitted attempt is not changed; copies on the shelf are counted; nobody
  leaves without the permission the exeat's kind asks for.

## 2. Modules

| module | models | state ↔ code |
|---|---|---|
| `SaasBilling` | `services/billing.py`, `trials.py`, `billing_worker.py`, and the routes that write the same rows, for one tenant | `tenant`, `trial`, `subs`, `invoices` are the rows, `current` the subscription with `is_current`, `stage` the pass the worker runs next, `config_version` modulo 2; `UpdateSubscriptionStatus` writes status and dunning step by hand, `ActivateTenant` and `ProvisioningResult` are reports of the school server. A pass or a route is one transaction and one action. |
| `PaymentLedger` | the abstract specification of payments | what is credited, the references, the suspension |
| `InvoicePayments` | `pay_invoice`, `settle_tenant_invoice` and the dunning pass, statement by statement | `session[r]` is what a request's session has read; `Commit` writes the columns that differ from it; `raced` remembers that two sessions were once open together |
| `DualControl` | `routers/dual_control.py` | `requests` the rows, `deciding` the holders of the row lock, `listed` what an open `list_requests` has read |
| `Offboarding` | `services/offboarding.py`, `offboard_result`, holds | `jobs` the rows; `pass` what the open due-wipe pass has read; `wipes`, `exported` what the school server was asked and has reported |
| `TenantOperations` | the two composed: an approval executes its action on the tenant in one transaction | `EXTENDS DualControl, Offboarding` |
| `EventDelivery` | the abstract specification of the outbox | appended, reached, published, dead |
| `Outbox` | `services/outbox.py`, `outbox_worker.py`, the console's `run_outbox_job` | `rows`; `batch[d]` the session of a drainer with its unwritten marks; `refused` counts failed posts |
| `RuntimeConfig` | `runtime_config.py`, `audit.py`, `runtime-config.service.ts`, its Redis store, the webhook | `version` and `served` in the control plane; `cache`, `redis`, `reads` (the answers of Redis on their way), `tasks`, `generation` in the school server |
| `SchoolFees` | `gateway-payments.service.ts`, `financial.service.ts` for one student's invoices | one action per statement; `settling`, `clerk`, `cancel` are the program counters of the handlers, `ignored` the checkouts whose webhook was answered without settling |
| `ListCache` | `list-cache.service.ts`, for one key | `entry`, `inFlight`, `generation` are the maps; `load` and `reader` the calls under way |
| `ReportCards` | score sheets, generated results and the legacy `academic_results` in `academic.service.ts`, for one student | `editing`, `generating`, `releasing`, `hand`: what each request has read or decided |
| `AcademicCalendar` | sessions and terms in `academic.service.ts` | `todo[r]`: the statements a request has yet to run |
| `SchoolRecords` | composes the two | |
| `Links`, `Promotions`, composed in `Rosters` | the link tables and the enrolments of `academic.service.ts` and `organizations.service.ts` | `linked`, `enrolled` the rows; `linker`, `enrolling` where each request is |
| `Cbt` | `cbt.service.ts` | rows, and `starting`, `submitting`, `authoring` for the requests |
| `Library` | `library.service.ts`, one title | `available`, `row`; `borrowing`, `returning` |
| `Timetable` | `timetable.service.ts` and the slots `sync.service.ts` adds | `slots`, `planner` |
| `StaffAttendance` | sign-in by finger and by code in `attendance.service.ts`, the settings in `organizations.service.ts` | `config` is the JSON value, `signer` and `saver` hold what each request has read of it |
| `OfflineSync`, composed with `Timetable` in `TimetableSync` | `sync.service.ts`, the removal of rows | `recorded` and `present` the rows; `delivery` where each request is; `applications` counts effects |
| `Exeats` | exeats in `safeguarding.service.ts` | `exeat` the row, `desk` what each call has judged and will write |
| `FamilyAccounts` | `users.service.ts` (archive, reactivate), `parent-activation.service.ts` | `active`, `login`, `activations`; `archiver`, `clerk` |
| `Onboarding`, composed with `FamilyAccounts` in `Accounts` | `control-plane.service.ts`, `tenant-provisioning.service.ts`, `auth.service.ts` of the web-server | `staged`, `schoolRow`, `owner`, `mapping`; `onboarding` where each call is |
| `TenantIntake` | `registration.py`, `provisioning.py`, the results and the status routes of the control plane | `school`, `grant`, `job`; `handler` what a transaction has read |
| `Tutoring` | `tutoring.controller.ts`, the tutoring service's bookings and payments, the payment service's checkouts and webhook | one action per call between the services |
| `UsageMetering` | `usage_metering.py` | `stored`, `rollup`, `raised`; `ingest` |
| `ProviderSwitch`, `ProviderUpkeep`, composed in `Providers` | `routers/providers.py`, the execution of `dual_control.py`, `provider_health.py` | `configs`, `awaiting`; `secrets`, `policy`; what each transaction has read |
| `Deals`, composed with `UsageMetering` in `Charges` | `routers/deals.py`, the plan change of `internal.py`, `create_subscription` of `tenants.py`, the pass of `billing.py` | `subscriptions`, and `office` for what each call has read and wants |
| `MCComponents` | nothing new: one instance of each of the nineteen components that share no state | `part` names the one a behaviour explores |
| `SumTheorems` | nothing of the system: lemmas about sums over finite sets | |
| `SaasBillingProofs`, `InvoicePaymentsProofs`, `SchoolFeesProofs`, `ControlPlaneProofs` (`TenantOperations`, `Outbox`, `RuntimeConfig`), `ServicesProofs` (`TenantIntake`, `Tutoring`, `Providers`, `SchoolRecords`, `Charges`), `SchoolProofs` (`ListCache`, `Rosters`, `Cbt`, `Exeats`, `TimetableSync`, `Library`, `StaffAttendance`, `Accounts`), `ComponentProofs` (`MCComponents`) | theorems | |

Definitions whose names begin with `Mut` are slips a change of the code could
make. They are not part of a specification; each is substituted for the
definition it mutates to see that the property it is paired with in
`PROJECT.json` notices.

Variables whose comment says *ghost* record what the code does not: that two
requests were once at work together, or that one was cut short. The code locks
hardly anything, so most of what it promises holds only while requests on the
same rows do not overlap; a property says exactly which overlap it excuses, and
holds through all the others.

### Abstractions

- **Money** is a small natural number, time is days (`SaasBilling`), "has
  passed" flags (`DualControl`, `Offboarding`, `Outbox`) or the age of a cache
  entry (`RuntimeConfig`). Calendar periods have a constant length: that billing
  anchors drift at the end of a month (`billing.py:130-141`) is not seen.
- **Transactions.** `SessionLocal` runs with `autoflush=False` at READ COMMITTED.
  Where a read and a commit of the same transaction can be separated with an
  effect, they are separate actions: payments, the dunning pass
  (`InvoicePayments`), decide and list (`DualControl`), the due-wipe pass
  (`Offboarding`), drainers (`Outbox`), bumps (`RuntimeConfig`), the routes of
  `TenantIntake`, `UsageMetering`, `ProviderSwitch`, `ProviderUpkeep` and `Deals`.
  A commit writes the columns that differ from what the transaction has read: an
  unchanged attribute is not part of SQLAlchemy's UPDATE. The routes of
  `SaasBilling` and the short routes of `Offboarding` are one step each.
- **The web-server** opens no transaction in most handlers: every statement is an
  action of its own there, and a request may be cut between any two of them where
  a statement can fail or the process stop. `Links` has the one list that is
  replaced in a transaction as one step. TypeORM's `save` of a staging row puts
  all its columns back to what was read (`Onboarding`).
- **`Outbox`**: a batch posts its events in id order; one refusal by the school
  server (400, 401, 403, 422) counts for all attempts. The development stub that
  publishes without delivering is left out.
- **`RuntimeConfig`**: one tenant, one open change at a time. Any number of requests
  (`MaxReads`) read Redis at once; the connection takes commands in the order in
  which they are sent, so an answer is decided when the read is sent and answers
  come in order, and the write that follows a refresh, which nobody waits for and
  which may fail, is one step with it. `served` stands for both `_version_cache` and
  `_runtime_cache` of a control process, which builds an answer in one step and
  keeps it in a later one. The eviction at 500 tenants and the registration of
  unknown tenants are left out.
- **`SchoolFees`**: `createCheckout` is one step, since no other handler reads a
  pending session before it is charged. Installments have amount 1. The unique
  index on `financial_payments.provider_reference` comes from a migration and is
  taken to be there. A payment of another amount or currency than the session's,
  whose webhook and verify throw every time, is a checkout that is never charged; a
  provider that gives up redelivering is not modelled. Payment proofs, discounts,
  edits, refunds and SaaS invoices paid through the school's gateway are left out.
- **Handlers that take turns.** Each request is a model value that is made once; a
  repeated or retried request is a second one. What it wants is chosen when it
  begins. A repeat that only reads is left out.
- **Data.** Marks, deals' terms, timetable hours, configuration versions and secrets
  are members of small sets; grades, ranks, amounts by meter and message texts are
  left out. A unique constraint of the database is a guard (`SlugTaken` of
  `Onboarding`).
- **`TenantOperations`**: `_execute` has a branch for `tenant.destroy`
  (`dual_control.py:107-129`), an action no route makes a request for; it is left out.
- **`ProviderSwitch`**: an approval that finds no row fails (section 5), and is not a
  step.
- **External**: payers, providers, gateways, devices, staff decisions, the school
  server's export and wipe jobs. They answer only what they were asked, at any time
  and any number of times.

## 3. Runs

| run | question | bounds |
|---|---|---|
| `saas_lifecycle` | Do invoices, payments, dunning and suspensions stay consistent while payments, plan changes, unlocks, manual invoices, console overrides and the worker interleave? Does a debt cost access (under fairness)? | 2 subscriptions, price 2, periods of 2 days, 3 days, 2 invoices before the console stops adding, 6 scenarios |
| `saas_courtesy_bug` | Does the worker respect a courtesy unlock? **No**. | 4 days |
| `payments` | Are overlapping payments safe, and is a lone one an atomic credit? | 3 requests, the dunning pass, 2 invoices of amount 2, one reference |
| `payments_reference_bug` | Is a reference recorded once? **No**. | 2 requests, 2 references |
| `tenant_operations` | Approvals, holds, exports and wipes in any order | 2 requests, 3 members of staff, 2 jobs |
| `offboard_cancel_bug` | Does a cancelled job stay cancelled? **No**. | as above |
| `outbox` | Delivery, dead letters, starvation | 2 events, 2 drainers, 2 attempts, windows of 1 and 2, 1 crash |
| `runtime_config` | Flushes, regress, arrival | 2 versions, 1 webhook, 2 refreshes, 2 Redis reads, one control process, with and without Redis |
| `runtime_config_redis_bug` | Does a flush hold with Redis? **No**. | Redis on |
| `school_fees` | Settlements by two callers, cash and deletion, crashes, ignored webhooks | 1 invoice of 2, an installment; 2 checkouts of the invoice, or 1 of the installment or an advance, or 1 of the installment, a clerk and a deletion; 1 crash |
| `school_fees_key_bug` | Is a checkout one payment with Paystack's two references? **No**. | as above |
| `components` | What may overlapping, repeated and interrupted requests leave in the rows of the nineteen other components? | below |

`components` explores one component per behaviour, so its states are the sum of
theirs, and a component that is not explored has one initial state. What it asks:

| property | of | says |
|---|---|---|
| `ReadsAreCurrent` | `ListCache` | no caller gets a list older than the last invalidation before its call |
| `RecordsSound` | `ReportCards` (`LegacyInSync`), `AcademicCalendar` (`CalendarSound`) | the two report cards agree; at most one session and one term are current, and they go together |
| `MarksStand` | `ReportCards` | published marks and released results do not change |
| `AttemptsSound` | `Cbt` | a submitted attempt stands, and its score counts its right answers |
| `RostersAgree` | `Links`, `Promotions` | a link that all requests list, or none does, is never in doubt; a student stays enrolled unless staff take the student off a list |
| `ShelfCount` | `Library` | the copies available are those not on loan |
| `BookingsPaidFor` | `Tutoring` | a paid payment was charged and its checkout settled, and the booking is paid when one of its payments is |
| `ChargesSound` | `UsageMetering` (`UsageCounted`), `Deals` (`DealsStand`) | each event that has an id is counted once and caps are reported; a deal that is in force was approved or created so by staff, and bills follow the terms of that |
| `IntakeSound` | `TenantIntake` | a trial is for a verified school, and a school that became active, or whose database is ready, has it |
| `SignInsCounted` | `StaffAttendance` | a code lets one sign-in in, saved settings stay, a sign-in leaves one row |
| `AccountsAgree` | `Onboarding`, `FamilyAccounts` | a school has the owner and the database it is said to have; parents follow their children |
| `SlotsSound` | `Timetable`, `OfflineSync` | a clash is one that no request could see; a resent operation is done again only for each request torn between its effect and its record, and who is told of success can forget it |
| `ExitsAllowed` | `Exeats` | the gate opens once and with the permission the kind asks for |
| `ProvidersSound` | `ProviderSwitch`, `ProviderUpkeep` | what is live was approved; a secret is active; reports are counted |

Its bounds (`MCComponents.cfg`): two or three requests of each kind, which is what
a lost update, a double effect and a read between two writes take, and a third
where one has to meet what two others left: three requests for one student's enrolments
(two promotions and a result or a class list), three sign-ins and three codes, three usage events, one without an id, with a quota
that two reach, three loans of two copies, four deliveries of two operations, four
rotations (two that overlap, one that is alone, one more). Components with many
kinds of requests name *casts*, the sets of requests a behaviour may have
(`MarkCasts`, `FamilyCasts`, `SwitchCasts`, `UpkeepCasts`, `DealCasts`): each
hazard is in one of them with all the requests it takes.

**Why the bounds of the other runs are enough.** The interesting cases need two of
something: two invoices (is this the last one?), two payments (the second
overwrites the first and a third meets the result), two drainers, two jobs (one
cancelled while another lives), two versions and two reads of Redis (a regress needs
an older answer that lands behind a newer one), two subscriptions (the retired one's invoices stay). Price 2 has
a part payment and an exact remainder. Three days let a trial, a due date, a grace
period and a courtesy unlock follow each other. The bounds in guards are `MaxNow`,
`MaxInvoices`, `MaxSubs`, `MaxRequests`, `MaxJobs`, `MaxEvents`, `MaxCrashes`,
`MaxVersion`, `MaxFlushes`, `MaxReads`, `MaxEdits`, `MaxInvalidations`, `MaxPlans` and
`MaxCodes`; `MaxCatchup` and `MaxAttempts` are constants of the code, made small.
`SaasBilling`'s `Scenarios` and `SchoolFees`' `Casts` say which handlers a behaviour
may call, so that a run covers several small families instead of one that is too
large. Rows of a subscription rewritten by hand meet manual invoices and the whole
ladder in one scenario (`substatus`, `invoice`) and the other status routes in
another; that such rewrites meet payments and plan changes is covered by the proofs,
which have no scenarios.

**Deadlock.** The configurations with `CHECK_DEADLOCK FALSE` are of bounded systems
that stop: all requests made, all events settled, all flushes used. The billing
worker never stops, so the `SaasBilling` runs check deadlock.

### Fairness

- `SaasBilling`: the clock and the worker. The worker is an `asyncio` loop that
  catches every exception of a pass (`billing_worker.py`). Nothing makes anybody
  pay. `DebtCostsAccess` is about a debt whose subscription staff do not rewrite again
  and again: a status or a dunning step set by hand takes the ladder back.
- `TenantOperations`: the same loop runs the due-wipe pass, and time passes.
- `Outbox`: backoffs end, each drainer goes on; a crash is bounded. Nothing makes a
  post succeed.
- `RuntimeConfig`: requests keep coming, a read of Redis and a build end, entries
  age, an open change ends, and a control plane that keeps being asked answers in the
  end (strong fairness). Nothing makes the webhook arrive. `ChangeReachesSchool` asks
  for more than one right answer: once changes stop, the answer is the last version
  for good, or the fail-closed configuration.
- `SchoolFees`: handlers go on until they are cut short, and a webhook that is not
  answered with success is delivered again: the providers' promise, external
  to the code. A webhook that is answered with "ignored" is not: `PaidSettles` says
  that what the payer paid settles or was ignored. Nothing makes the payer come back
  through verify.
- The nineteen components of `components` state no fairness: nothing in the code
  makes a request come again, and a request that was cut never goes on. What they
  must do eventually is said as a safety property of the moment when every request
  is through.

## 4. Proofs

All theorems hold for every value of the constants that the named assumptions
allow (positive amounts and attempts; calls of one trade each; finitely many events and
calls to meter, rotations of a secret, sign-ins, deliveries of a device and
activations, of which the types count those that are through; at least one subject
and one issuer of codes; `Nobody`, `NoReference`, `NoPayment`, `NoKey`, `NoLoad`,
`NoEvent`, `NoSwitch`, `NoGenerator`, `NoSession`, `NoTerm`, `Nothing` and the "none" of a deal outside the sets they are told
apart from).

- **`ControlPlaneProofs`**, approvals and offboarding. `DualInv` strengthens *executed once* and *two
  people*: a row has at most one open decision, it is of a pending request and by
  somebody other than its requester, and an absent or pending request has had no
  effect. The last conjunct is what survives `list_requests`, which may write
  "expired" over an executed request: the row is then wrong about what happened,
  but it never comes back to pending, so its action cannot run again.
  `WipeInv` says that a `wipe_scheduled` job,
  in the table or in the open pass, has had its export reported.
  `ArchivedHasJob` is inductive with the type invariant. `JobsAreApproved` compares
  two cardinalities: a new dated job comes with a newly executed request, and
  everything else leaves both sets or shrinks the first.
- **`ControlPlaneProofs`**, outbox. `Earned` ties every row and every unwritten mark to what has
  happened: attempts counted never exceed failed posts, "delivered" marks are of
  events that reached the school, marks are of appended events. It is needed
  because a commit writes what was counted from a stale row. From it follow
  that dead letters are earned and that each step of `Outbox` is a step or a
  stutter of `EventDelivery`.
- **`InvoicePaymentsProofs`**. The type invariant, which bounds every credit by the
  amount, holds for all interleavings: a session writes the balance it checked.
  The rest holds until sessions have raced: `SerialInv` says that at most one
  session is open, that what it has read is what is there, that its decisions
  (clears, lifts) are right at the commit, that paid means covered, and that a
  suspended school owes. Each step under `~raced` is then a step or a stutter of
  `PaymentLedger`. `CreditIsBacked`, that an invoice is credited with no more than
  was paid under its references, holds for all interleavings, races included: a
  reference is added with its whole amount in the commit that writes the balance.
- **`SaasBillingProofs`**. Three theorems about the billing engine.
  `NoPeriodForgiven` is about arithmetic progressions: `WalkIsContiguous` shows,
  by the least period that would be missing, that the periods `generate_due_invoices`
  collects are an unbroken run as long as its cardinality, so that `MaxCatchup`
  cuts it without a gap; `BillingInv` (`Contiguous`, `OncePerPeriod`, `HaveSubs`) carries
  it through plan changes and manual invoices. `Owing` follows a dunning suspension
  through the ladder, the unlocks, the payments and the rows staff rewrite
  (`NewestIsCurrent`: the current subscription is the newest, and only the first is on
  trial unless staff wrote a status by hand). `AccessChangesArePublished` needs no invariant but the types: each action that
  changes access bumps the version, but for the two reports of the school server that
  `ReportedBySchool` names (section 5).
- **`ServicesProofs`**, usage and deals. `MeterInv` says that what is in the roll-up,
  or was there when a request read it, is no more than the stored events add up to, and
  that an alert a request relies on is there; `AloneMeterInv` that, until two overlap,
  the one at work has read the roll-up and the alert that are there, of an event that is
  not. For deals, `SoleInv` says that a deal
  that is not mixed has one call at work, which read what is there; `AgreedInv` what a
  current and a billable deal have behind them: an approval, or a member of staff who
  created it in force, and then only it is marked "active"; `RetireInv` that, until two calls that
  retire others overlap, the one at work retires every current subscription but its own.
- **`SchoolFeesProofs`**. `Founded` says what a statement in the middle of a
  settlement can rely on: a charge, its own payment row, an invoice. On it rest
  `OnePaymentWithOneKey`, which needs the unique reference and the look-up by one key;
  `ClaimsAreEarned`, that an invoice is paid, *or about to be marked as paid*, only
  for money that is there (`RecordedIsPaid` renames payments to payers, which is one
  to one only when each is recorded once; `MoneyGrows` says that the money stays);
  `PaymentsArePursued`, that what a recorded payment has not done yet its own call is
  about to do, unless a call was cut short; and `CoverIsPursued`, that of an invoice
  whose sessions cover it a call is about to read the balance.
- **`SumTheorems`**. `SumFunctionOnSet` of the community modules is a fold. By
  induction over the subsets of a finite set (`SubsetInduction`, from the
  well-foundedness of strict inclusion) a sum can be taken apart at any element, is
  a natural number, grows with its set, is added up over disjoint sets, and is kept
  by a one-to-one renaming. `CreditIsBacked` and the theorems about school fees use them.

- **`ControlPlaneProofs`**, configuration. `ConfigInv` says that a refresh is booked exactly while
  it runs and no flush has overtaken it, from which one refresh per generation and
  `FlushHolds` follow. The configuration does go back in time, where a read of Redis lands
  behind a refresh, or a control process answers with what it had kept;
  `OnlyCopiesRegress` says that nothing else takes it back, for any number of control
  processes. `VersionsInv`: what a refresh that will enter memory has had built is no
  older than any copy there is, in memory, in Redis or on its way back from Redis.
- **`SchoolProofs`**, list cache. `InFlightInv`: the load in flight is the one load of the
  current generation. `EntryInv` and `WaitingInv` say how young the list that each
  of them holds, or that a caller waits for, has to be.
- **`ServicesProofs`**, tutoring and registration. `VerifierInv` ties each step of a verification to what the
  services before it have committed; a webhook has seen a charge
  (`HookInv`). `HandlersInv` says what a handler may be about to write;
  `SerialInv` that, until two requests overlap, what it has read is still so.
- **`ServicesProofs`**, providers. `Wants` says what a switch at work is going to write:
  without an approval it neither reads nor wants a live row. `SwitchAloneInv` and
  `TestAloneInv` say that until two calls of a kind overlap what they have read is
  there. `SecretsInv`, for secrets, holds through all overlaps: a version is above
  those that its rotation retires, and no secret is above all active ones, so that
  one rotation that misses nothing (`FreshSecretsInv`) puts things right.
- **`ServicesProofs`**, marks and terms. `MarksStand`: no statement of an edit is about a
  frozen sheet, and a generation that checks after the release does not write, from the
  shapes of the tables alone. `LegacyInSync`: `GenerationInv` says of the generation that
  has the older card to itself that each subject is either still on its list or put
  right, and that the row it has found is there; an edit by hand takes the card from it.
  `CalendarSound`: as long as requests do not overlap one at most has statements left,
  and `Plan` lists, for each kind of request, what they can be on tables like these:
  only a statement that clears the others comes before one that marks a row current,
  and a session is dropped when its terms are gone. The tables are then sound after
  every prefix of a plan, so also where a request is cut short.
- **`SchoolProofs`**, rosters, tests and exeats. Links and promotions: for a link that all requests list,
  `KeepsInv` says that no request that has read it will delete it; for one that none
  lists, `DropsInv`; a student's enrolment is followed through the promotion that is
  alone, and through the class lists that take it.
  Tests: `SoloInv` says that one submit works on an attempt that is not contested, and
  that the attempt is open; `ScoreInv` that what it has read is what is stored. Exeats:
  `KindInv` separates the calls of the two kinds of request, `PassInv` ties every exit to
  a pass that somebody issued, `GatesInv` and `RulersInv` hold until two calls of a trade
  overlap. `ExeatAssumption` says that each call is of one trade.
- **`SchoolProofs`**, timetable and devices. `RoomInv`: what a request has looked at
  leaves room for its slot, but for the slots that were written since, which are the
  ones the ghost names when it writes. `OnceInv`: an operation that is not sent again
  too early has one unfinished request, it is not recorded yet, and what it has done
  besides the torn requests is what that request is about to record; `PresenceInv`: a
  named create has been inserted as often as it was deleted, and once more while its
  row is there; `EffectsInv`: who was told of success can rely on it.
- **`SchoolProofs`**, library and sign-in. `CountInv`: a loan is out until its one return
  marks it, which makes the cardinalities of loans, takings and returns move together
  with the copies; `AloneInv`: a loan that is let in alone has its copy on the shelf.
  `ConfigInv` of the sign-in: the one writer of the config has read what is there, a
  sign-in the code that it will replace, and a code that has let one in is older than
  the one in place. `RowsInv`: one sign-in of a person deletes before it inserts.
- **`SchoolProofs`**, accounts. `AccountInv` says of each archive under way which
  logins it is still going to close, and `CodeOf` that an open activation code which
  no requests fight over has one request at work with it. For the schools, `OpenedBy`
  lists what each step of the opening has left behind; `NamesInv` is why a code makes
  one school: a code is made with one name, a saved row can bring back an old code but
  not with another name, and a name has one school. `StagedInv` and `MappedInv` hold
  until calls cross: no call has the staging row in hand once it is consumed, and who
  maps an owner deactivates all that is mapped.

- **`ComponentProofs`**. `EachRuns`: whichever component a behaviour of `MCComponents`
  explores, it implies the specification of each of the nineteen (`OneMoves`: the one
  that is named steps, the others stay), so what `SchoolProofs` and `ServicesProofs`
  prove holds there (`ComponentsAreSound`). `ComponentTypes` is the type invariant of
  all of them. Most of their types are more than the shape of a record, and have an
  invariant of their own (the lemmas named `...TypesHold`): a counter of effects is
  bounded by the requests that are through it (`UsageCounts`, `FamilyCounts`,
  `AppliedInv`); the sheets that exist are finitely many however many ids there are, so
  that a preview is a sum (`MarksInv`); the tables of sessions and terms stay tidy
  although requests overlap and are cut anywhere, since every statement somebody has
  yet to run is one of `Statements(used)` (`CalendarRows`, which holds where `CalendarInv`
  says nothing).

Only model-checked: liveness (`DebtCostsAccess`, `DueWipesAreHandled`, `EventsSettle`,
`ChangeReachesSchool`, `PaidSettles`), which is beyond the prover, as are `ENABLED` and
`RECURSIVE` operators (no module has one). Every invariant and every action property
that a passing run checks is proved.

The proof of `DebtsAreSound` found an exception that the run had not shown: its
invariant was not inductive for a school that a courtesy unlock let in. `ByHand` names
it, and section 5 tells the story.

## 5. Where code and text disagree

Five disagreements have a run that shows them (`findings` in `PROJECT.json`): the
unsubscribed pass suspends schools inside a courtesy unlock; two overlapping
retries record one reference twice; a late export report revives a cancelled
job; a global flush leaves Redis alone; verify and webhook settle under two
references.

Others were met while modelling. The models behave as the code does; no run is
kept for them.

- `trials.py:205`: the unsubscribed pass suspends in the middle of a dunning
  grace period, and such a suspension (`billing_grace_expired`) is not lifted by
  paying (`billing.py:581` asks for `billing_dunning`).
- `dual_control.py:242`: a decision that began before the expiry and committed
  after `list_requests` has read the row is shown as "expired" although it ran.
- `billing_worker.py:77`: a courtesy pass that clears unlocks without suspending
  anybody is rolled back.
- `billing.py:728`: `run_courtesy_unlock_expiry_pass` ("Re-suspend tenants whose
  courtesy unlock window has ended without payment") asks for the subscription's
  status and not for a debt. A suspended school is let in by a courtesy unlock, which
  keeps the reason `billing_dunning`, pays everything, and staff set its
  subscription to past due by hand: the end of the window suspends it for dunning,
  and there is no invoice left whose payment would lift that.
- `trials.py:139`: an expiring trial restricts a school that has subscribed.
- `audit.py:43`: "Nest polls by configVersion / TTL"; two routes the school server calls
  change a school's access and leave the version as it is (`provisioning.py:102-110`,
  called from `internal.py:403-457`, and `activate_tenant`, `internal.py:756-785`), and
  a late or repeated result of a provisioning job makes a suspended or blacklisted
  school active.
- `routers/billing.py:62`: staff write a dunning step by hand. "suspended" takes the
  subscription out of the ladder while the school stays active; rewriting the row again
  and again holds the ladder back for ever.
- `gateway-payments.service.ts:391`, `437`: a webhook without a tenant, or of a provider
  that the school has since replaced, is answered with success, so the provider does
  not deliver it again; the payment is settled only if the payer comes back.
- `runtime-config.service.ts:157`: an answer of Redis enters memory without a look at
  what has been put there since it was asked for.
- `billing.py:673`: dunning writes "suspended" over any status, blacklisted
  included; `billing.py:805` leaves partially paid invoices out of dunning.
- `billing.py:498`, `583`: overlapping payments can lose a credit, leave an
  invoice paid that is not covered, or a paid-up school suspended.
- `offboarding.py:94`: cancelling any job of a tenant, a blocked one too,
  reactivates the tenant while another job is live; a blacklisted tenant that is
  offboarded and restored comes back active.
- `audit.py:51`: caches are emptied before the commit and only in the process
  that makes the change; a request in between caches the old answer for a TTL.
- `outbox_worker.py:70`: two drainers can undo each other's attempt counts; a
  crash between POST and commit repeats notifications, which the school server
  does not tell apart by event id.
- `gateway-payments.service.ts:545`: after a crash behind the insert of the
  payment, the retry finds the payment and skips the invoice, the installment and
  the advance credit. Lines 145 and 571: two pending checkouts can overpay an
  invoice, and cash is not in the balance. Line 593: reminders stop after a part
  payment.
- `financial.service.ts:387`: a stale sum can write "partial" over "paid";
  line 580: an invoice paid between the read and the write is cancelled.
- `academic.service.ts`: two teachers' generations of one student's result replace
  each other's subjects (2106, 2296); overlapping generations mix the marks of the
  legacy report card; a seeding that fails leaves an empty list cached, and the next
  reader seeds a second calendar; a promotion cut between its DELETE and its INSERT
  leaves the student enrolled nowhere, and so does a class list that was read before
  another request enrolled the student.
- `booking_service.py:173`: a confirmation takes a paid booking back to confirmed.
- `organizations.service.ts`, `attendance.service.ts`: a save of the settings revives
  a code that was used meanwhile.
- `usage_metering.py:96`: two copies of one event id make every later look-up of it
  fail; overlapping events lose additions. Line 60: an event without an id, which is
  the default, is counted with every retry.
- `control-plane.service.ts` of the web-server: a saved staging row un-consumes a
  registration; owners of one school name collide on the slug; a failed
  announcement, or a cut, strands a registration that is consumed.
- `safeguarding.service.ts`: overlapping decisions reopen exeats that were used or
  declined.
- `timetable.service.ts`: slots from devices, and slots written meanwhile, clash, and
  rooms are not looked at. `sync.service.ts:60-66`: a request that ends between the effect and
  its record answers with an error, and its plain resend applies the operation again;
  a create that names its row fails at every retry instead, or is inserted again once
  somebody has deleted the row.
- `users.service.ts`: an account made active again stays locked out, and parents who
  are teachers are archived with their last child; `parent-activation.service.ts`
  looks at the newest hundred codes only.
- `dual_control.py:198`: "create it now that a second operator has approved" inserts a
  row without its `provider_id`, which `models/providers.py:40` does not allow: the
  approval fails, and a capability without a row cannot be switched live.
- `providers.py`: a live provider can be repointed by an unapproved switch that
  overlapped the approval; two rows of one capability break every later switch;
  health outlives a switch.
- `tenants.py:805`: a custom subscription that staff create is current, active and
  billed at once; `deals.py` asks for an approval of the same row.
- `deals.py`: overlapping approvals and plan changes leave two current
  subscriptions; an edit that names the approval itself keeps a deal current on
  terms nobody approved; an edit that overlaps the approval gets unapproved terms
  billed; a commercial edit leaves the school without a current subscription;
  `create_invoice` bills a deal before its approval; the billing pass bills a
  subscription that was retired after it was selected.
- `compliance.py:119`: `fulfill_dsr` does not look at the legal hold that `update_dsr`
  looks at.

## 6. Plan

The order of the modules was by what a mistake costs: money and access
(`SaasBilling`, `InvoicePayments`, `SchoolFees`), data loss (`TenantOperations`),
delivery (`Outbox`, `RuntimeConfig`), then the school server's records and the rest
of the control plane (`components`). What is left, in order:

1. `SchoolFees` with payment proofs and the SaaS invoices that are settled through the
   school's gateway, which composes it with `InvoicePayments`.
2. `RuntimeConfig` with overlapping bumps of one `config_version`.
3. DSR requests under a hold (`compliance.py:149-203`), next to `Offboarding`.

## 7. Not modelled

The components with status `not_modelled` in `PROJECT.json`, each with its reason:

- **Storage behind a permission check**: incidents, abuse, support, tickets; clinic,
  gate, hostel and transport; fees operations, budgets, payroll; meetings, PTA,
  consent slips; DSR requests. A request reads and writes one row by one statement,
  and no step of one actor depends on another's.
- **Calls to third parties**: e-mail, SMS, push, sockets, language models, provider
  probes, DNS checks. Nothing waits for them or relies on an answer.
- **Queries**: portals, reports, statistics, exports, `portal-read-service`.
- **Configuration and identity**: roles, tokens, passwords, plans and catalogs, flags,
  seeds, migrations, connection pools. An action of a model is a request that has
  passed authentication, signatures and rate limits.
- **Code nothing calls**: `maybeFinalizeStaffDay` and `processEndOfDayAbsent` of
  attendance, `clear` of the list cache.
- **Pure functions**: grades, ranks, fees and prices are sums and look-ups in tables,
  which tests reach.

The models therefore cover the handlers with state that several actors share, and
only a part of the lines: controllers, DTOs, entities, migrations, seeds, templates and
queries, most of the repository, have no state to follow.
