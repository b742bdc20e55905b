-------------------------- MODULE InvoicePayments --------------------------
(***************************************************************************)
(* The transactions behind a payment of a SaaS invoice: pay_invoice of the *)
(* console and settle_tenant_invoice of the school server, next to the     *)
(* billing worker's dunning pass.                                          *)
(*                                                                         *)
(* A session reads rows at different moments and writes when it commits    *)
(* (SessionLocal has autoflush=False, the database is at READ COMMITTED):  *)
(* a write is the value computed from what was read, for the columns that  *)
(* differ from what was read.  No handler here locks a row.  The variable  *)
(* raced remembers whether two sessions have ever been open together: as   *)
(* long as none were, a session is what a row lock would make of it.       *)
(***************************************************************************)
EXTENDS Integers, Functions

CONSTANTS Invoices,    \* invoices of one subscription
          Requests,    \* payment requests, each a session of its own
          Total,       \* amount_minor of an invoice
          References,  \* provider references
          NoReference  \* the console may record a payment without one

ASSUME PaymentAssumption ==
    /\ Total \in Nat \ {0}
    /\ NoReference \notin References

VARIABLES invoice,      \* saas_invoices: status, amount_paid_minor
          payments,     \* saas_payments
          subscription, \* subscriptions: status, dunning_step
          suspended,    \* tenants: suspended with reason billing_dunning
          session,      \* what each payment request has read
          worker,       \* what the dunning pass has read
          raced         \* have two sessions ever overlapped?

vars == <<invoice, payments, subscription, suspended, session, worker, raced>>

Amount == 1 .. Total
InvoiceStatus == {"open", "past_due", "partially_paid", "paid"}
Row  == [status : InvoiceStatus, paid : 0 .. Total]
Subscription == [status : {"active", "past_due"},
                 dunning : {"none", "past_due", "grace", "suspended"}]
Payment == [by : Requests, invoice : Invoices, amount : Amount,
            ref : References \cup {NoReference}]

Unpaid == {i \in Invoices : invoice[i].status # "paid"}

Idle == [pc |-> "idle"]
Done == [pc |-> "done"]
\* The row a request has read, and what it is to pay.
Loaded(pc) == [pc : {pc}, invoice : Invoices, amount : Amount,
               ref : References \cup {NoReference}, seen : Row]
\* Whether settle_invoice found nothing else unpaid, and the tenant suspended.
Reviewed == [pc : {"reviewed"}, invoice : Invoices, amount : Amount,
             ref : References \cup {NoReference}, seen : Row,
             sub : Subscription, clears : BOOLEAN, lifts : BOOLEAN]
Session == {Idle, Done} \cup Loaded("loaded") \cup Loaded("checked")
                        \cup Reviewed
Scan == [pc : {"read"}, seen : [Invoices -> Row], sub : Subscription,
         suspended : BOOLEAN]

Open == {r \in Requests : session[r] \notin {Idle, Done}}
Alone == Open = {} /\ worker = Idle
Starts == raced' = (raced \/ ~Alone)

Balance(row) == Total - row.paid

-----------------------------------------------------------------------------
(* Mutations of definitions below; not part of the specification.          *)

\* pay_invoice does not look at the balance.
MutPayableAnyAmount(row, amount) == amount <= Total
\* settle_tenant_invoice does not look for the reference.
MutReferenceNotLookedUp(ref) == TRUE
\* The payment is credited to the invoice, but its row is not added.
MutPaymentNotRecorded(r) == UNCHANGED payments
\* settle_invoice does not leave the invoice itself out of still_owing.
MutOthersPaidKeepsSelf(i) == Unpaid = {}
\* settle_invoice lifts the suspension without looking for other invoices.
MutOthersPaidIgnored(i) == TRUE
\* Any payment settles the invoice (the defect apply_payment_to_invoice
\* describes).
MutCoversAlways(s) == TRUE

-----------------------------------------------------------------------------
(* A payment request.                                                      *)

Init ==
    /\ invoice = [i \in Invoices |-> [status |-> "open", paid |-> 0]]
    /\ payments = {}
    /\ subscription = [status |-> "active", dunning |-> "none"]
    /\ suspended = FALSE
    /\ session = [r \in Requests |-> Idle]
    /\ worker = Idle
    /\ raced = FALSE

Goto(r, s) == session' = [session EXCEPT ![r] = s]

\* db.get(SaasInvoice): every later decision uses this snapshot.
Load(r, i, amount, ref) ==
    /\ session[r] = Idle
    /\ Starts
    /\ Goto(r, [pc |-> "loaded", invoice |-> i, amount |-> amount, ref |-> ref,
                seen |-> invoice[i]])
    /\ UNCHANGED <<invoice, payments, subscription, suspended, worker>>

Payable(row, amount) == amount <= Balance(row)

\* The committed payments are searched for the reference.
NotDuplicate(ref) == ref = NoReference \/ \A p \in payments : p.ref # ref

\* Duplicate references and excess amounts end the request without a write.
Check(r) ==
    /\ session[r].pc = "loaded"
    /\ Goto(r, IF NotDuplicate(session[r].ref)
                  /\ Payable(session[r].seen, session[r].amount)
                 THEN [session[r] EXCEPT !.pc = "checked"] ELSE Done)
    /\ UNCHANGED <<invoice, payments, subscription, suspended, worker, raced>>

Covers(s) == s.seen.paid + s.amount >= Total

\* Nothing else of the subscription is unpaid.
OthersPaid(i) == Unpaid \ {i} = {}

\* settle_invoice reads the subscription, its other invoices and the tenant.
Review(r) ==
    LET s == session[r]
        last == Covers(s) /\ OthersPaid(s.invoice)
    IN  /\ s.pc = "checked"
        /\ Goto(r, [pc |-> "reviewed", invoice |-> s.invoice,
                    amount |-> s.amount, ref |-> s.ref, seen |-> s.seen,
                    sub |-> subscription, clears |-> last,
                    lifts |-> last /\ suspended])
        /\ UNCHANGED <<invoice, payments, subscription, suspended, worker, raced>>

NewStatus(s) == IF Covers(s) THEN "paid" ELSE "partially_paid"

\* An UPDATE names only the columns the session changed from what it read.
Written(column, read, new) == IF new # read THEN new ELSE column

WrittenSub(read, new) ==
    [status  |-> Written(subscription.status, read.status, new.status),
     dunning |-> Written(subscription.dunning, read.dunning, new.dunning)]

Credited(s) ==
    [invoice EXCEPT ![s.invoice] =
        [status |-> Written(@.status, s.seen.status, NewStatus(s)),
         paid   |-> s.seen.paid + s.amount]]

RecordPayment(r) ==
    payments' = payments \cup
        {[by |-> r, invoice |-> session[r].invoice,
          amount |-> session[r].amount, ref |-> session[r].ref]}

Commit(r) ==
    LET s == session[r]
    IN  /\ s.pc = "reviewed"
        /\ invoice' = Credited(s)
        /\ RecordPayment(r)
        /\ subscription' =
              IF s.clears
                THEN WrittenSub(s.sub, [status |-> "active", dunning |-> "none"])
                ELSE subscription
        /\ suspended' = (suspended /\ ~s.lifts)
        /\ Goto(r, Done)
        /\ UNCHANGED <<worker, raced>>

-----------------------------------------------------------------------------
(* run_dunning_pass.  All invoices are overdue; when the grace period ends *)
(* is left open.                                                           *)

ScanDue == \E i \in Invoices : invoice[i].status \in {"open", "past_due"}

DunningScan ==
    /\ worker = Idle
    /\ Starts
    /\ ScanDue
    /\ subscription.dunning # "suspended" \/ subscription.status = "active"
    /\ worker' = [pc |-> "read", seen |-> invoice, sub |-> subscription,
                   suspended |-> suspended]
    /\ UNCHANGED <<invoice, payments, subscription, suspended, session>>

DunningStepOf(sub) ==
    IF sub.dunning = "none" \/ sub.status = "active" THEN "past_due"
    ELSE IF sub.dunning = "past_due" THEN "grace" ELSE "suspended"

DunningCommit ==
    LET step == DunningStepOf(worker.sub)
    IN  /\ worker # Idle
        /\ subscription' = WrittenSub(worker.sub,
                              [status |-> "past_due", dunning |-> step])
        /\ invoice' = [i \in Invoices |->
              IF step = "past_due" /\ worker.seen[i].status = "open"
                THEN [invoice[i] EXCEPT !.status = "past_due"]
                ELSE invoice[i]]
        /\ suspended' = IF step = "suspended"
                          THEN Written(suspended, worker.suspended, TRUE)
                          ELSE suspended
        /\ worker' = Idle
        /\ UNCHANGED <<payments, session, raced>>

-----------------------------------------------------------------------------
LoadAny(r) == \E i \in Invoices, amount \in Amount,
                 ref \in References \cup {NoReference} : Load(r, i, amount, ref)

Next ==
    \/ \E r \in Requests : LoadAny(r) \/ Check(r) \/ Review(r) \/ Commit(r)
    \/ DunningScan
    \/ DunningCommit

Spec == Init /\ [][Next]_vars

-----------------------------------------------------------------------------
(* Properties.                                                             *)

TypeOK ==
    /\ invoice \in [Invoices -> Row]
    /\ payments \subseteq Payment
    /\ subscription \in Subscription
    /\ suspended \in BOOLEAN
    /\ session \in [Requests -> Session]
    /\ worker \in {Idle} \cup Scan
    /\ raced \in BOOLEAN

PaymentsOf(i) == {p \in payments : p.invoice = i}

\* However payments overlap, what an invoice is credited with is the money of
\* payments recorded against it: some of them, since an overlapping commit can
\* drop another's credit, but never money nobody paid (apply_payment_to_invoice
\* writes amount_paid_minor in the transaction that inserts the SaasPayment).
CreditIsBacked ==
    \A i \in Invoices : \E some \in SUBSET PaymentsOf(i) :
        invoice[i].paid = SumFunctionOnSet([p \in Payment |-> p.amount], some)

\* A payment reference is recorded once ("A retried gateway webhook carrying
\* the same reference must not double-credit", pay_invoice).
ReferenceOnce ==
    \A p, q \in payments : p.ref = q.ref /\ p.ref # NoReference => p = q

\* It takes two overlapping sessions to record a reference twice (pay_invoice
\* and settle_tenant_invoice look it up in the transaction that inserts it).
ReferenceOnceUnraced == ~raced => ReferenceOnce

\* Until sessions race, an invoice is settled only when fully covered
\* (apply_payment_to_invoice).
PaidMeansCovered ==
    ~raced => \A i \in Invoices : invoice[i].status = "paid"
                                      => invoice[i].paid = Total

\* Settling lifts a billing-caused suspension (settle_invoice): when every
\* invoice is paid and no session is open, a school no race has touched is not
\* suspended.
PaidUpMeansLifted == ~raced /\ Alone /\ Unpaid = {} => ~suspended

\* What overlapping sessions may break, and nothing else does: references are
\* recorded once, settled invoices are covered, and the last one lifts the
\* suspension (pay_invoice, apply_payment_to_invoice, settle_invoice).
SerialPaymentsAreSound ==
    ReferenceOnceUnraced /\ PaidMeansCovered /\ PaidUpMeansLifted

\* Until sessions race, a payment looks like one atomic, idempotent credit.
Ledger == INSTANCE PaymentLedger
             WITH credited <- [i \in Invoices |-> invoice[i].paid],
                  recorded <- {p.ref : p \in payments} \ {NoReference}

CreditsAreAtomic ==
    Ledger!Init /\ [][raced' \/ Ledger!Next]_(Ledger!ledgerVars)
=============================================================================
