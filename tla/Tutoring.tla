------------------------------- MODULE Tutoring -------------------------------
(***************************************************************************)
(* The payment of one tutoring booking.  The web-server has the tutoring   *)
(* service record a payment, the payment service opens a checkout for it   *)
(* at the gateway, the gateway reports by webhook, and the web-server asks *)
(* once more before it has the tutoring service settle.  Each service has  *)
(* a database of its own and nothing spans the calls.                      *)
(***************************************************************************)
EXTENDS FiniteSets

CONSTANTS Payments,     \* tutoring_payments rows, each with one checkout
          NoPayment,
          Confirms,     \* requests to confirm the booking
          Hooks,        \* deliveries of a webhook
          Verifiers     \* requests to verify a checkout

ASSUME TutoringAssumption == NoPayment \notin Payments

VARIABLES
    booking,     \* tutoring_bookings.status
    payment,     \* tutoring_payments.status
    checkout,    \* payment_checkout_sessions.status
    gateway,     \* the gateway's side of the checkout
    confirming,  \* requests to confirm: has the booking been read?
    seen,        \* payment_webhook_events
    hook,        \* webhooks under way, with what they have read
    verifier,    \* where each verification is
    takenBack    \* ghost: a confirmation has overwritten "paid"

tutoringVars == <<booking, payment, checkout, gateway, confirming, seen, hook,
                  verifier, takenBack>>

NewHook == [pc |-> "new", payment |-> NoPayment, found |-> FALSE]
NewVerifier == [pc |-> "new", payment |-> NoPayment]

-----------------------------------------------------------------------------
(* Mutations of definitions below; not part of the specification.          *)

\* verifyPayment does not look at what the gateway answered.
MutReportedPaid(p) == TRUE

-----------------------------------------------------------------------------
TutoringInit ==
    /\ booking = "requested"
    /\ payment = [p \in Payments |-> "none"]
    /\ checkout = [p \in Payments |-> "none"]
    /\ gateway = [p \in Payments |-> "none"]
    /\ confirming = [c \in Confirms |-> "new"]
    /\ seen = {} /\ hook = [h \in Hooks |-> NewHook]
    /\ verifier = [v \in Verifiers |-> NewVerifier]
    /\ takenBack = FALSE

-----------------------------------------------------------------------------
(* The tutoring service: BookingService.                                   *)

\* confirm reads the booking and writes it, whatever its status is.
BeginConfirm(c) ==
    /\ confirming[c] = "new"
    /\ confirming' = [confirming EXCEPT
          ![c] = IF booking = "confirmed" THEN "done" ELSE "read"]
    /\ UNCHANGED <<booking, payment, checkout, gateway, seen, hook, verifier, takenBack>>

Confirm(c) ==
    /\ confirming[c] = "read"
    /\ confirming' = [confirming EXCEPT ![c] = "done"]
    /\ booking' = "confirmed"
    /\ takenBack' = (takenBack \/ booking = "paid")
    /\ UNCHANGED <<payment, checkout, gateway, seen, hook, verifier>>

\* create_payment_intent: each call adds a payment, paid booking or not.
CreatePaymentIntent(p) ==
    /\ payment[p] = "none"
    /\ payment' = [payment EXCEPT ![p] = "pending"]
    /\ UNCHANGED <<booking, checkout, gateway, confirming, seen, hook, verifier, takenBack>>

-----------------------------------------------------------------------------
(* The payment service: CheckoutService and WebhookService.                *)

\* create_checkout: the gateway opens the checkout while the session is
\* flushed and not committed ...
OpenCheckout(p) ==
    /\ payment[p] # "none" /\ gateway[p] = "none"
    /\ gateway' = [gateway EXCEPT ![p] = "open"]
    /\ UNCHANGED <<booking, payment, checkout, confirming, seen, hook, verifier, takenBack>>

\* ... which it may never be: no action has to follow.
CommitCheckout(p) ==
    /\ gateway[p] # "none" /\ checkout[p] = "none"
    /\ checkout' = [checkout EXCEPT ![p] = "pending"]
    /\ UNCHANGED <<booking, payment, gateway, confirming, seen, hook, verifier, takenBack>>

\* The payer pays at the gateway.
Charge(p) ==
    /\ gateway[p] = "open"
    /\ gateway' = [gateway EXCEPT ![p] = "charged"]
    /\ UNCHANGED <<booking, payment, checkout, confirming, seen, hook, verifier, takenBack>>

\* The gateway reports the charge, as often as it likes.  A body that has
\* been seen is a duplicate, whether its session was there or not.
BeginHook(h, p) ==
    /\ hook[h].pc = "new" /\ gateway[p] = "charged" /\ p \notin seen
    /\ hook' = [hook EXCEPT ![h] =
          [pc |-> "read", payment |-> p, found |-> checkout[p] # "none"]]
    /\ UNCHANGED <<booking, payment, checkout, gateway, confirming, seen, verifier, takenBack>>

\* The event's key is unique: of two copies that overlap the second fails.
CommitHook(h) ==
    LET p == hook[h].payment IN
    /\ hook[h].pc = "read"
    /\ hook' = [hook EXCEPT ![h].pc = "done"]
    /\ seen' = seen \cup {p}
    /\ checkout' = IF p \notin seen /\ hook[h].found
                     THEN [checkout EXCEPT ![p] = "settled"] ELSE checkout
    /\ UNCHANGED <<booking, payment, gateway, confirming, verifier, takenBack>>

-----------------------------------------------------------------------------
(* The web-server's verifyPayment, and what the two services do for it.    *)

Goes(v, pc) == verifier' = [verifier EXCEPT ![v].pc = pc]

\* CheckoutService.verify: the session must exist; the gateway is asked.
BeginVerify(v, p) ==
    /\ verifier[v].pc = "new" /\ checkout[p] # "none"
    /\ verifier' = [verifier EXCEPT ![v] = [pc |-> "ask", payment |-> p]]
    /\ UNCHANGED <<booking, payment, checkout, gateway, confirming, seen, hook, takenBack>>

ReportedPaid(p) == gateway[p] = "charged"

AskGateway(v) ==
    /\ verifier[v].pc = "ask"
    /\ Goes(v, IF ReportedPaid(verifier[v].payment) THEN "session" ELSE "done")
    /\ UNCHANGED <<booking, payment, checkout, gateway, confirming, seen, hook, takenBack>>

SettleCheckout(v) ==
    /\ verifier[v].pc = "session"
    /\ checkout' = [checkout EXCEPT ![verifier[v].payment] = "settled"]
    /\ Goes(v, "payment")
    /\ UNCHANGED <<booking, payment, gateway, confirming, seen, hook, takenBack>>

\* settle_payment of the payment the checkout's metadata names: a payment
\* that is paid is left alone, and its booking, too.  A booking that was read
\* as paid is not written.
BeginSettlePayment(v) ==
    /\ verifier[v].pc = "payment"
    /\ Goes(v, IF payment[verifier[v].payment] = "paid" THEN "done"
               ELSE IF booking = "paid" THEN "credit" ELSE "settle")
    /\ UNCHANGED <<booking, payment, checkout, gateway, confirming, seen, hook, takenBack>>

SettlePayment(v) ==
    /\ verifier[v].pc \in {"settle", "credit"}
    /\ payment' = [payment EXCEPT ![verifier[v].payment] = "paid"]
    /\ IF verifier[v].pc = "settle" THEN booking' = "paid" /\ takenBack' = FALSE
       ELSE UNCHANGED <<booking, takenBack>>
    /\ Goes(v, "done")
    /\ UNCHANGED <<checkout, gateway, confirming, seen, hook>>

\* A call between the services fails or is lost.
FailVerify(v) ==
    /\ verifier[v].pc \in {"ask", "session", "payment", "settle", "credit"}
    /\ Goes(v, "done")
    /\ UNCHANGED <<booking, payment, checkout, gateway, confirming, seen, hook, takenBack>>

-----------------------------------------------------------------------------
TutoringNext ==
    \/ \E c \in Confirms : BeginConfirm(c) \/ Confirm(c)
    \/ \E p \in Payments :
          CreatePaymentIntent(p) \/ OpenCheckout(p) \/ CommitCheckout(p) \/ Charge(p)
    \/ \E h \in Hooks : CommitHook(h) \/ \E p \in Payments : BeginHook(h, p)
    \/ \E v \in Verifiers :
          \/ AskGateway(v) \/ SettleCheckout(v) \/ BeginSettlePayment(v)
          \/ SettlePayment(v) \/ FailVerify(v)
          \/ \E p \in Payments : BeginVerify(v, p)

TutoringSpec == TutoringInit /\ [][TutoringNext]_tutoringVars

TutoringTypeOK ==
    /\ booking \in {"requested", "confirmed", "paid"}
    /\ payment \in [Payments -> {"none", "pending", "paid"}]
    /\ checkout \in [Payments -> {"none", "pending", "settled"}]
    /\ gateway \in [Payments -> {"none", "open", "charged"}]
    /\ confirming \in [Confirms -> {"new", "read", "done"}]
    /\ seen \subseteq Payments
    /\ hook \in [Hooks -> [pc : {"new", "read", "done"},
                           payment : Payments \cup {NoPayment}, found : BOOLEAN]]
    /\ verifier \in [Verifiers ->
          [pc : {"new", "ask", "session", "payment", "settle", "credit", "done"},
           payment : Payments \cup {NoPayment}]]
    /\ takenBack \in BOOLEAN

(***************************************************************************)
(* The three services agree on what was paid: a payment is paid, and a     *)
(* checkout settled, only after the payer was charged for it, a paid       *)
(* payment's checkout is settled, and the booking is paid exactly when one *)
(* of its payments is, unless a confirmation took it back.                 *)
(* (tutoring.controller.ts verifyPayment, checkout_service.py verify,      *)
(* webhook_service.py handle, booking_service.py settle_payment: overlapping *)
(* webhooks, verifications and confirmations, with lost calls.)            *)
(***************************************************************************)
BookingsPaidFor ==
    /\ \A p \in Payments :
          /\ payment[p] = "paid" => checkout[p] = "settled"
          /\ checkout[p] = "settled" => gateway[p] = "charged"
    /\ booking = "paid" => \E p \in Payments : payment[p] = "paid"
    /\ (\E p \in Payments : payment[p] = "paid") => booking = "paid" \/ takenBack
=============================================================================
