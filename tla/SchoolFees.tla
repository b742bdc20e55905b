----------------------------- MODULE SchoolFees -----------------------------
(***************************************************************************)
(* School fees in a tenant's database: online payments, which the          *)
(* provider's webhook and the payer's verify request settle independently, *)
(* payments the bursar records, and the cancelling of invoices.  Every     *)
(* runDbQuery commits by itself, so each handler is a sequence of          *)
(* statements that anything may come between, and that a crash or a        *)
(* database error may cut short.  Payers, payment provider and its         *)
(* redeliveries are external.                                              *)
(***************************************************************************)
EXTENDS Integers, FiniteSets, Functions

CONSTANTS Invoices,   \* financial_invoices of one student
          NoInvoice,
          Total,      \* the amount of an invoice
          Parts,      \* installments of its plan
          Checkouts,  \* financial_checkout_sessions
          Clerks,     \* createPayment requests of the bursar
          KeyModes,   \* see sameKey
          Casts,      \* sets of checkouts and their kinds, clerks and invoices:
                      \* what is asked for
          MaxCrashes  \* bound: handlers cut short

Kinds == {"invoice", "installment", "advance"}

ASSUME FeesAssumption ==
    /\ Total \in Nat \ {0} /\ Parts \in Nat /\ MaxCrashes \in Nat
    /\ KeyModes \subseteq BOOLEAN /\ NoInvoice \notin Invoices
    /\ Checkouts \cap Clerks = {} /\ IsFiniteSet(Checkouts \cup Clerks)
    /\ Casts \subseteq SUBSET (Checkouts \cup Kinds \cup Clerks \cup Invoices)

Vias == {"webhook", "verify"}
\* Each invoice has a plan, of installments of 1.
Installments == Invoices \X (1 .. Parts)
NoInstallment == <<NoInvoice, 0>>

VARIABLES
    checkout,  \* financial_checkout_sessions
    charged,   \* checkouts the payer has paid at the provider: the amount and
               \* the currency of the session
    ignored,   \* checkouts whose webhook was answered without settling them
    payments,  \* financial_payments
    invoice,   \* financial_invoices.status
    reminded,  \* invoices whose fee reminder is pending
    due,       \* pending installments
    credits,   \* payments with a financial_advance_credits row
    settling,  \* where settleSuccess is, for each checkout and caller
    clerk,     \* where createPayment is, for each request
    cancel,    \* what deleteInvoice has read, for each invoice
    sameKey,   \* do verify and webhook name one provider reference?  (Paystack
               \* and Flutterwave: the transaction's id and the merchant's
               \* reference; mobile money: the reference in both.)
    cast,      \* the checkouts, kinds, payments and deletions that are asked for
    crashes

vars == <<checkout, charged, ignored, payments, invoice, reminded, due, credits,
          settling, clerk, cancel, sameKey, cast, crashes>>

\* What is paid for.  The kind is what the caller says: it need not go with the
\* invoice and the installment that are named.
Purpose == [kind : Kinds, amount : 1 .. Total,
            invoice : Invoices \cup {NoInvoice},
            installment : Installments \cup {NoInstallment}]
Advance == [kind |-> "advance", amount |-> 1, invoice |-> NoInvoice,
            installment |-> NoInstallment]
Payment == [of : Checkouts \cup Clerks, via : Vias \cup {"cash"}]

AmountOf == [c \in Checkouts |-> checkout[c].purpose.amount]
Amounts(S) == SumFunctionOnSet(AmountOf, S)
\* Mutation of Settled, not part of the specification: pending checkouts count.
MutSettled == {c \in Checkouts : checkout[c].status # "none"}
Settled == {c \in Checkouts : checkout[c].status = "settled"}
SettledOf(i) == {c \in Settled : checkout[c].purpose.invoice = i}

-----------------------------------------------------------------------------
(* Mutations of definitions below; not part of the specification.          *)

\* Every settlement pays an installment.
MutTail(c) == "installment"
\* The payment is not recorded.
MutInsertPayment(c, via) ==
    /\ settling[<<c, via>>] = "insert"
    /\ settling' = [settling EXCEPT ![<<c, via>>] = "settle"]
    /\ UNCHANGED <<payments, checkout, charged, ignored, invoice, reminded,
                   due, credits, clerk, cancel, sameKey, cast, crashes>>
\* The look-up is for the caller's own payments.
MutWithKey(c, via) == {p \in payments : p.of = c /\ p.via = via}
\* Reminders stop, and the settlement with them.
MutStopReminders(c, via) ==
    /\ settling[<<c, via>>] = "remind"
    /\ reminded' = reminded \ {checkout[c].purpose.invoice}
    /\ settling' = [settling EXCEPT ![<<c, via>>] = "idle"]
    /\ UNCHANGED <<checkout, charged, ignored, payments, invoice, due,
                   credits, clerk, cancel, sameKey, cast, crashes>>
\* The invoice counts as paid only when overpaid.
MutReadBalance(c, via) ==
    /\ settling[<<c, via>>] = "balance"
    /\ settling' = [settling EXCEPT ![<<c, via>>] =
          IF Amounts(SettledOf(checkout[c].purpose.invoice)) > Total
            THEN "paid" ELSE "remind"]
    /\ UNCHANGED <<checkout, charged, ignored, payments, invoice, reminded,
                   due, credits, clerk, cancel, sameKey, cast, crashes>>
\* A payment that is there already leaves its session pending.
MutSettleFound(c, via) ==
    /\ settling[<<c, via>>] = "found"
    /\ settling' = [settling EXCEPT ![<<c, via>>] = "idle"]
    /\ UNCHANGED <<checkout, charged, ignored, payments, invoice, reminded,
                   due, credits, clerk, cancel, sameKey, cast, crashes>>

-----------------------------------------------------------------------------
Init ==
    /\ checkout = [c \in Checkouts |-> [status |-> "none", purpose |-> Advance]]
    /\ charged = {} /\ ignored = {} /\ payments = {} /\ credits = {}
    /\ invoice = [i \in Invoices |-> "unpaid"]
    /\ reminded = Invoices
    /\ due = Installments
    /\ settling = [h \in Checkouts \X Vias |-> "idle"]
    /\ clerk = [k \in Clerks |-> [pc |-> "new", purpose |-> Advance]]
    /\ cancel = [i \in Invoices |-> "idle"]
    /\ sameKey \in KeyModes /\ cast \in Casts
    /\ crashes = 0

-----------------------------------------------------------------------------
(* createCheckout.                                                         *)

\* The checks of an invoice payment: only settled checkouts count.
Payable(p) ==
    /\ p.invoice # NoInvoice
    /\ invoice[p.invoice] # "paid"
    /\ p.amount <= Total - Amounts(SettledOf(p.invoice))

\* An installment is paid in one piece, on its own invoice.
InstallmentPayable(p) ==
    /\ p.installment \in due /\ p.amount = 1
    /\ p.invoice \in {p.installment[1], NoInvoice}

CreateCheckout(c, p) ==
    /\ checkout[c].status = "none" /\ {c, p.kind} \subseteq cast
    /\ p.kind = "invoice" => Payable(p)
    /\ p.installment # NoInstallment => InstallmentPayable(p)
    /\ checkout' = [checkout EXCEPT ![c] = [status |-> "pending", purpose |-> p]]
    /\ UNCHANGED <<charged, ignored, payments, invoice, reminded, due,
                   credits, settling, clerk, cancel, sameKey, cast, crashes>>

\* The payer pays at the provider.  A payment of another amount or currency than
\* the session's is refused by every call of settleSuccess before it writes
\* anything: its checkout stays as one that is never charged.
Charge(c) ==
    /\ checkout[c].status = "pending" /\ c \notin charged
    /\ charged' = charged \cup {c}
    /\ UNCHANGED <<checkout, ignored, payments, invoice, reminded, due,
                   credits, settling, clerk, cancel, sameKey, cast, crashes>>

-----------------------------------------------------------------------------
(* settleSuccess, called by settleFromWebhook and by verify.               *)

At(c, via, pc) == settling[<<c, via>>] = pc
Goto(c, via, pc) == settling' = [settling EXCEPT ![<<c, via>>] = pc]

\* settleFromWebhook answers "ignored", or the provider's own status, and settles
\* nothing: the school has another payment provider by now, the metadata names no
\* tenant, the gateway reports no success.  The provider, answered with success,
\* does not deliver again.
Ignore(c) ==
    /\ At(c, "webhook", "idle") /\ c \in charged /\ checkout[c].status = "pending"
    /\ ignored' = ignored \cup {c}
    /\ UNCHANGED <<checkout, charged, payments, invoice, reminded, due,
                   credits, settling, clerk, cancel, sameKey, cast, crashes>>

\* The session is read: a settled one ends the call.
Begin(c, via) ==
    /\ At(c, via, "idle") /\ c \in charged /\ checkout[c].status = "pending"
    /\ via = "webhook" => c \notin ignored
    /\ Goto(c, via, "read")
    /\ UNCHANGED <<checkout, charged, ignored, payments, invoice, reminded,
                   due, credits, clerk, cancel, sameKey, cast, crashes>>

\* The payments that bear this call's provider_reference.
WithKey(c, via) == {p \in payments : p.of = c /\ (sameKey \/ p.via = via)}

LookUp(c, via) ==
    /\ At(c, via, "read")
    /\ Goto(c, via, IF WithKey(c, via) = {} THEN "insert" ELSE "found")
    /\ UNCHANGED <<checkout, charged, ignored, payments, invoice, reminded,
                   due, credits, clerk, cancel, sameKey, cast, crashes>>

MarkSettled(c) == checkout' = [checkout EXCEPT ![c].status = "settled"]

\* A payment with the reference exists: the session is settled, nothing else.
SettleFound(c, via) ==
    /\ At(c, via, "found")
    /\ MarkSettled(c)
    /\ Goto(c, via, "idle")
    /\ UNCHANGED <<charged, ignored, payments, invoice, reminded, due,
                   credits, clerk, cancel, sameKey, cast, crashes>>

\* provider_reference is unique: a second insert fails the call.
InsertPayment(c, via) ==
    /\ At(c, via, "insert")
    /\ IF WithKey(c, via) = {}
         THEN /\ payments' = payments \cup {[of |-> c, via |-> via]}
              /\ Goto(c, via, "settle")
         ELSE /\ Goto(c, via, "idle")
              /\ UNCHANGED payments
    /\ UNCHANGED <<checkout, charged, ignored, invoice, reminded, due,
                   credits, clerk, cancel, sameKey, cast, crashes>>

\* What is left to do after the invoice, if there is one.
Tail(c) == IF checkout[c].purpose.installment # NoInstallment THEN "installment"
           ELSE IF checkout[c].purpose.kind = "advance" THEN "credit" ELSE "idle"

SettleSession(c, via) ==
    /\ At(c, via, "settle")
    /\ MarkSettled(c)
    /\ Goto(c, via, IF checkout[c].purpose.invoice # NoInvoice THEN "balance"
                                                               ELSE Tail(c))
    /\ UNCHANGED <<charged, ignored, payments, invoice, reminded, due,
                   credits, clerk, cancel, sameKey, cast, crashes>>

\* The balance is read again.
ReadBalance(c, via) ==
    /\ At(c, via, "balance")
    /\ Goto(c, via,
            IF Amounts(SettledOf(checkout[c].purpose.invoice)) >= Total
              THEN "paid" ELSE "remind")
    /\ UNCHANGED <<checkout, charged, ignored, payments, invoice, reminded,
                   due, credits, clerk, cancel, sameKey, cast, crashes>>

MarkPaid(c, via) ==
    /\ At(c, via, "paid")
    /\ invoice' = [invoice EXCEPT ![checkout[c].purpose.invoice] = "paid"]
    /\ Goto(c, via, "remind")
    /\ UNCHANGED <<checkout, charged, ignored, payments, reminded, due,
                   credits, clerk, cancel, sameKey, cast, crashes>>

\* Fee reminders stop, the invoice paid in full or not.
StopReminders(c, via) ==
    /\ At(c, via, "remind")
    /\ reminded' = reminded \ {checkout[c].purpose.invoice}
    /\ Goto(c, via, Tail(c))
    /\ UNCHANGED <<checkout, charged, ignored, payments, invoice, due,
                   credits, clerk, cancel, sameKey, cast, crashes>>

PayInstallment(c, via) ==
    /\ At(c, via, "installment")
    /\ due' = due \ {checkout[c].purpose.installment}
    /\ Goto(c, via, IF checkout[c].purpose.kind = "advance" THEN "credit"
                                                            ELSE "idle")
    /\ UNCHANGED <<checkout, charged, ignored, payments, invoice, reminded,
                   credits, clerk, cancel, sameKey, cast, crashes>>

CreditAdvance(c, via) ==
    /\ At(c, via, "credit")
    /\ credits' = credits \cup {[of |-> c, via |-> via]}
    /\ Goto(c, via, "idle")
    /\ UNCHANGED <<checkout, charged, ignored, payments, invoice, reminded,
                   due, clerk, cancel, sameKey, cast, crashes>>

SettleStep(c, via) ==
    \/ LookUp(c, via) \/ SettleFound(c, via) \/ InsertPayment(c, via)
    \/ SettleSession(c, via) \/ ReadBalance(c, via) \/ MarkPaid(c, via)
    \/ StopReminders(c, via) \/ PayInstallment(c, via) \/ CreditAdvance(c, via)

\* A statement fails, or the process dies.
Crash(c, via) ==
    /\ ~At(c, via, "idle") /\ crashes < MaxCrashes
    /\ Goto(c, via, "idle")
    /\ crashes' = crashes + 1
    /\ UNCHANGED <<checkout, charged, ignored, payments, invoice, reminded,
                   due, credits, clerk, cancel, sameKey, cast>>

-----------------------------------------------------------------------------
(* createPayment, for the bursar, and deleteInvoice.                       *)

ClerkGoes(k, pc) == clerk' = [clerk EXCEPT ![k].pc = pc]

\* Invoice and installment are checked, the amount is not.
BeginCash(k, p) ==
    /\ clerk[k].pc = "new" /\ k \in cast /\ p.kind = "invoice"
    /\ p.invoice # NoInvoice /\ invoice[p.invoice] # "cancelled"
    /\ p.installment # NoInstallment =>
          p.installment \in due /\ p.installment[1] = p.invoice
    /\ clerk' = [clerk EXCEPT ![k] = [pc |-> "insert", purpose |-> p]]
    /\ UNCHANGED <<checkout, charged, ignored, payments, invoice, reminded,
                   due, credits, settling, cancel, sameKey, cast, crashes>>

InsertCash(k) ==
    /\ clerk[k].pc = "insert"
    /\ payments' = payments \cup {[of |-> k, via |-> "cash"]}
    /\ ClerkGoes(k, IF clerk[k].purpose.installment # NoInstallment
                      THEN "installment" ELSE "sum")
    /\ UNCHANGED <<checkout, charged, ignored, invoice, reminded, due,
                   credits, settling, cancel, sameKey, cast, crashes>>

CashInstallment(k) ==
    /\ clerk[k].pc = "installment"
    /\ due' = due \ {clerk[k].purpose.installment}
    /\ ClerkGoes(k, "sum")
    /\ UNCHANGED <<checkout, charged, ignored, payments, invoice, reminded,
                   credits, settling, cancel, sameKey, cast, crashes>>

PurposeOf(p) == IF p.via = "cash" THEN clerk[p.of].purpose
                                  ELSE checkout[p.of].purpose
Recorded(i) == SumFunctionOnSet([p \in payments |-> PurposeOf(p).amount],
                                {p \in payments : PurposeOf(p).invoice = i})

\* All payments of the invoice are summed up.
SumPayments(k) ==
    /\ clerk[k].pc = "sum"
    /\ ClerkGoes(k, IF Recorded(clerk[k].purpose.invoice) >= Total
                      THEN "paid" ELSE "partial")
    /\ UNCHANGED <<checkout, charged, ignored, payments, invoice, reminded,
                   due, credits, settling, cancel, sameKey, cast, crashes>>

WriteStatus(k) ==
    /\ clerk[k].pc \in {"paid", "partial"}
    /\ invoice' = [invoice EXCEPT ![clerk[k].purpose.invoice] = clerk[k].pc]
    /\ ClerkGoes(k, IF clerk[k].pc = "paid" THEN "remind" ELSE "done")
    /\ UNCHANGED <<checkout, charged, ignored, payments, reminded, due,
                   credits, settling, cancel, sameKey, cast, crashes>>

CashStopsReminders(k) ==
    /\ clerk[k].pc = "remind"
    /\ reminded' = reminded \ {clerk[k].purpose.invoice}
    /\ ClerkGoes(k, "done")
    /\ UNCHANGED <<checkout, charged, ignored, payments, invoice, due,
                   credits, settling, cancel, sameKey, cast, crashes>>

ClerkStep(k) == \/ InsertCash(k) \/ CashInstallment(k) \/ SumPayments(k)
                \/ WriteStatus(k) \/ CashStopsReminders(k)

\* deleteInvoice reads the status, and cancels what it has read as unpaid.
BeginCancel(i) ==
    /\ cancel[i] = "idle" /\ i \in cast /\ invoice[i] = "unpaid"
    /\ cancel' = [cancel EXCEPT ![i] = "cancelling"]
    /\ UNCHANGED <<checkout, charged, ignored, payments, invoice, reminded,
                   due, credits, settling, clerk, sameKey, cast, crashes>>

Cancel(i) ==
    /\ cancel[i] = "cancelling"
    /\ invoice' = [invoice EXCEPT ![i] = "cancelled"]
    /\ cancel' = [cancel EXCEPT ![i] = "done"]
    /\ UNCHANGED <<checkout, charged, ignored, payments, reminded, due,
                   credits, settling, clerk, sameKey, cast, crashes>>

-----------------------------------------------------------------------------
Next ==
    \/ \E c \in Checkouts, p \in Purpose : CreateCheckout(c, p)
    \/ \E c \in Checkouts : Charge(c) \/ Ignore(c)
    \/ \E c \in Checkouts, via \in Vias :
          Begin(c, via) \/ SettleStep(c, via) \/ Crash(c, via)
    \/ \E k \in Clerks, p \in Purpose : BeginCash(k, p)
    \/ \E k \in Clerks : ClerkStep(k)
    \/ \E i \in Invoices : BeginCancel(i) \/ Cancel(i)

\* Handlers go on, and the provider redelivers what was not answered with
\* success.  Nobody has to verify a payment.
Fairness ==
    \A c \in Checkouts : /\ WF_vars(Begin(c, "webhook"))
                         /\ \A via \in Vias : WF_vars(SettleStep(c, via))

Spec == Init /\ [][Next]_vars /\ Fairness

-----------------------------------------------------------------------------
Steps == {"idle", "read", "found", "insert", "settle", "balance", "paid",
          "remind", "installment", "credit"}
ClerkSteps == {"new", "insert", "installment", "sum", "paid", "partial",
               "remind", "done"}

\* Rows keep their types, and no statement is reached without the row it names.
TypeOK ==
    /\ checkout \in [Checkouts -> [status : {"none", "pending", "settled"},
                                   purpose : Purpose]]
    /\ ignored \subseteq charged /\ charged \subseteq Checkouts
    /\ payments \subseteq Payment /\ credits \subseteq payments
    /\ invoice \in [Invoices -> {"unpaid", "partial", "paid", "cancelled"}]
    /\ reminded \subseteq Invoices /\ due \subseteq Installments
    /\ settling \in [Checkouts \X Vias -> Steps]
    /\ clerk \in [Clerks -> [pc : ClerkSteps, purpose : Purpose]]
    /\ cancel \in [Invoices -> {"idle", "cancelling", "done"}]
    /\ sameKey \in KeyModes /\ cast \in Casts /\ crashes \in 0 .. MaxCrashes
    /\ \A c \in Checkouts, via \in Vias :
          /\ At(c, via, "installment") =>
                checkout[c].purpose.installment \in Installments
          /\ At(c, via, "balance") => checkout[c].purpose.invoice \in Invoices

\* "Provider references are the idempotency key for webhook settlement"
\* (HotPathListIndexes): a checkout is recorded as one payment.
OnePayment == \A p, q \in payments : p.of = q.of => p = q

\* With a provider that names one reference in both calls, it is, whatever
\* webhooks, verify requests and crashes come between (settleSuccess).
OnePaymentWithOneKey == sameKey => OnePayment

\* A session settles only after its payment is recorded: a crash may leave a
\* payment without its session, never a session without its payment.
SettledIsPaidFor == \A c \in Settled : \E p \in payments : p.of = c

CashOf(i) == {k \in Clerks : /\ clerk[k].purpose.invoice = i
                             /\ [of |-> k, via |-> "cash"] \in payments}
Cash(i) == SumFunctionOnSet([k \in Clerks |-> clerk[k].purpose.amount], CashOf(i))
ChargedOf(i) == {c \in charged : checkout[c].purpose.invoice = i}
Money(i) == Cash(i) + Amounts(ChargedOf(i))

\* An invoice is paid only with money: settleSuccess counts settled sessions and
\* createPayment counts payments, at moments of their own, and neither counts
\* more than was paid.
PaidIsEarned ==
    sameKey => \A i \in Invoices : invoice[i] = "paid" => Money(i) >= Total

\* Neither a payment is recorded twice, nor does a session or an invoice claim
\* money that is not there (settleSuccess, createPayment).
NothingUnearned == OnePaymentWithOneKey /\ SettledIsPaidFor /\ PaidIsEarned

Quiet == crashes = 0 /\ \A h \in Checkouts \X Vias : settling[h] = "idle"

\* When no call was cut short, a settled checkout has all its effects,
\* whichever call found the other's payment (settleSuccess returns early).
EffectsComplete ==
    Quiet => \A c \in Settled :
        /\ checkout[c].purpose.installment \notin due
        /\ checkout[c].purpose.kind = "advance" => \E p \in credits : p.of = c

\* The last of several checkouts of an invoice marks it paid, in whichever order
\* their calls interleave: each settles its session before it reads the balance.
CoveredIsPaid ==
    Quiet /\ (\A k \in Clerks : clerk[k].pc = "new")
          /\ (\A i \in Invoices : cancel[i] = "idle")
      => \A i \in Invoices : Amounts(SettledOf(i)) >= Total => invoice[i] = "paid"

\* Calls that are not cut short leave nothing undone, one checkout by itself or
\* several together (settleSuccess).
SettlementsComplete == EffectsComplete /\ CoveredIsPaid

\* What the payer has paid, the amount and the currency the session asks for, is
\* settled at last: the provider delivers again after calls that were cut short
\* or met the other caller's payment.  Only a webhook that settleFromWebhook has
\* answered without settling ends that, and then nobody but the payer, who may
\* verify, settles the checkout.
PaidSettles ==
    \A c \in Checkouts :
        c \in charged ~> checkout[c].status = "settled" \/ c \in ignored
=============================================================================
